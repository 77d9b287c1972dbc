---------------------------- MODULE BackupRehearsal ---------------------------
(***************************************************************************)
(* Backup, restore rehearsal and reconciliation: o9_operations.py and the  *)
(* helpers of application/operations.py.                                   *)
(*                                                                         *)
(* A backup exports the snapshot of a read-only transaction, records every *)
(* row of the critical tables in it, copies the catalogued artifacts, and  *)
(* has pg_dump write that same snapshot; the manifest comes last.  The     *)
(* source goes on committing, processes die at any step, files are damaged *)
(* and two processes may work in one directory.  A row is its version, 0   *)
(* when there is none; the row of an artifact is its catalogue entry.      *)
(* Paths, connection settings and tool versions are left out.  Definitions *)
(* marked "Mistake" are as in ArtifactStore.                               *)
(***************************************************************************)
EXTENDS Naturals, Sequences, Functions

CONSTANTS Rows,         \* identities of rows
          Critical,     \* those of the CRITICAL_TABLES
          Blobs,    \* content digests, whose rows are critical too
          Backups, Rehearsals,   \* processes
          Reviews,      \* kinds of reviews, of "against" and "reconcile"
          MaxCommits,   \* bound of the model
          None

VARIABLES history,     \* the source database after each of its commits
          store,       \* the active artifact root
          release,     \* the installed release, with its migrations
          bundle,      \* the backup directory
          backup,      \* each create_backup
          target,      \* the isolated database and artifact root
          rehearsal,   \* each restore_rehearsal, with the same target names
          review       \* a reconcile, or a verify_backup against a database

vars == <<history, store, release, bundle, backup, target, rehearsal, review>>

Files == {"absent", "sound", "damaged"}
Database == [Rows -> 0 .. MaxCommits]
Archive == [by : Backups, content : {"partial", "whole", "damaged"}, rows : Database]
Manifest == [by : Backups, release : 0 .. 1, tables : [Critical -> 0 .. MaxCommits],
             dump : Archive, damaged : BOOLEAN]

TypeOK ==
  /\ history \in Seq(Database)
  /\ store \in [Blobs -> Files]
  /\ bundle.files \in [Blobs -> Files]
  /\ bundle.dump \in Archive \cup {None}
  /\ bundle.manifest \in Manifest \cup {None}
  /\ target.files \in [Blobs -> Files]
  /\ target.rows \in Database \cup {None}

Idle == [pc |-> "idle"]
NoFiles == [x \in Blobs |-> "absent"]

Init ==
  /\ history = <<[r \in Rows |-> 0]>>
  /\ store = NoFiles
  /\ release = 0
  /\ bundle = [dump |-> None, files |-> NoFiles, manifest |-> None]
  /\ backup = [b \in Backups |-> Idle]
  /\ target = [exists |-> FALSE, rows |-> None, files |-> NoFiles]
  /\ rehearsal = [r \in Rehearsals |-> Idle]
  /\ review = Idle

Now == history[Len(history)]
Catalogued(tables) == {x \in Blobs : tables[x] > 0}

-----------------------------------------------------------------------------
\* A transaction of the application: it writes some rows, and the bytes of an
\* artifact before its entry.
Commit ==
  /\ Len(history) <= MaxCommits
  /\ \E rows \in SUBSET Rows \ {{}} :
       /\ \A x \in rows \cap Blobs : Now[x] = 0
       /\ history' = Append(history, [r \in Rows |-> IF r \in rows THEN Now[r] + 1 ELSE Now[r]])
       /\ store' = [x \in Blobs |-> IF x \in rows THEN "sound" ELSE store[x]]
  /\ UNCHANGED <<release, bundle, backup, target, rehearsal, review>>

\* Another release is installed, with other migrations.
Upgrade ==
  /\ release' = 1
  /\ UNCHANGED <<history, store, bundle, backup, target, rehearsal, review>>

\* Bytes of a file go bad; of one file only, which bounds the model.
Damage ==
  /\ \A x \in Blobs : "damaged" \notin {store[x], bundle.files[x]}
  /\ bundle.dump # None => bundle.dump.content # "damaged"
  /\ bundle.manifest # None => ~bundle.manifest.damaged
  /\ \/ \E x \in Blobs : store[x] = "sound" /\ store' = [store EXCEPT ![x] = "damaged"]
                               /\ UNCHANGED bundle
     \/ \E x \in Blobs : bundle.files[x] = "sound" /\ bundle' = [bundle EXCEPT !.files[x] = "damaged"]
                               /\ UNCHANGED store
     \/ /\ bundle.dump # None
        /\ bundle' = [bundle EXCEPT !.dump.content = "damaged"]
        /\ UNCHANGED store
     \/ /\ bundle.manifest # None
        /\ bundle' = [bundle EXCEPT !.manifest.damaged = TRUE]
        /\ UNCHANGED store
  /\ UNCHANGED <<history, release, backup, target, rehearsal, review>>

-----------------------------------------------------------------------------
\* Mistake: what is catalogued is there, and it is what was written.
Exists(files, x) == files[x] # "absent"

\* verify_artifact_inventory: digest and size of the bytes.
Verified(files, x) == files[x] = "sound"

\* _copy_artifacts, which verifies both ends and leaves what is there.
MayCopy(source, files, tables) ==
  \A x \in Catalogued(tables) : Verified(source, x) /\ (Exists(files, x) => Verified(files, x))
Copied(source, files, tables) ==
  [x \in Blobs |-> IF x \in Catalogued(tables) /\ files[x] = "absent" THEN source[x] ELSE files[x]]

\* _table_inventory: identity, version and hash of every critical row.
Inventory(rows) == Restrict(rows, Critical)

Step(b, pc) == backup[b].pc = pc
Fail(b) == backup' = [backup EXCEPT ![b] = [pc |-> "failed"]] /\ UNCHANGED bundle

\* The directory must be new or empty.
Open(b) ==
  /\ Step(b, "idle")
  /\ bundle = [dump |-> None, files |-> NoFiles, manifest |-> None]
  /\ backup' = [backup EXCEPT ![b] = [pc |-> "opened"]]
  /\ UNCHANGED bundle

\* _snapshot_connection: all that is read from here on is of one instant.
Snapshot(b) ==
  /\ Step(b, "opened")
  /\ IF \A x \in Catalogued(Now) : Verified(store, x)
     THEN /\ backup' = [backup EXCEPT ![b] = [pc |-> "read", rows |-> Now, release |-> release]]
          /\ UNCHANGED bundle
     ELSE Fail(b)

Copy(b) ==
  /\ Step(b, "read")
  /\ IF MayCopy(store, bundle.files, backup[b].rows)
     THEN /\ bundle' = [bundle EXCEPT !.files = Copied(store, @, backup[b].rows)]
          /\ backup' = [backup EXCEPT ![b].pc = "copied"]
     ELSE Fail(b)

\* _run_dump: the file is truncated, and then written by pg_dump.  Two of
\* them write over each other.
StartDump(b) ==
  /\ Step(b, "copied")
  /\ bundle' = [bundle EXCEPT !.dump = [by |-> b, content |-> "partial", rows |-> backup[b].rows]]
  /\ backup' = [backup EXCEPT ![b].pc = "dumping"]
EndDump(b) ==
  /\ Step(b, "dumping")
  /\ bundle' = [bundle EXCEPT !.dump.content =
                  IF bundle.dump.by = b /\ @ = "partial" THEN "whole" ELSE "damaged"]
  /\ backup' = [backup EXCEPT ![b].pc = "dumped"]

HashDump(b) ==
  /\ Step(b, "dumped")
  /\ backup' = [backup EXCEPT ![b] = [pc |-> "hashed", rows |-> @.rows, release |-> @.release,
                                      dump |-> bundle.dump]]
  /\ UNCHANGED bundle

\* The manifest is replaced as a whole (_write_json).
WriteManifest(b) ==
  /\ Step(b, "hashed")
  /\ bundle' = [bundle EXCEPT !.manifest =
       [by |-> b, release |-> backup[b].release, tables |-> Inventory(backup[b].rows),
        dump |-> backup[b].dump, damaged |-> FALSE]]
  /\ backup' = [backup EXCEPT ![b] = [pc |-> "done"]]

\* A process dies, or a tool of it fails; what it wrote remains.
CrashBackup(b) == backup[b].pc \notin {"idle", "done", "failed"} /\ Fail(b)

BackupStep ==
  /\ \E b \in Backups : \/ Open(b) \/ Snapshot(b) \/ Copy(b) \/ StartDump(b) \/ EndDump(b)
                     \/ HashDump(b) \/ WriteManifest(b) \/ CrashBackup(b)
  /\ UNCHANGED <<history, store, release, target, rehearsal, review>>

-----------------------------------------------------------------------------
\* Mistake: a bundle is its manifest.
HasManifest == bundle.manifest # None /\ ~bundle.manifest.damaged

\* verify_backup.  The list of an archive is at its head, so that a partial
\* one has it too.
BundleStands ==
  /\ HasManifest
  /\ bundle.dump = bundle.manifest.dump
  /\ \A x \in Catalogued(bundle.manifest.tables) : Verified(bundle.files, x)
  /\ bundle.manifest.release = release

At(r, pc) == rehearsal[r].pc = pc
Becomes(r, pc) == rehearsal' = [rehearsal EXCEPT ![r].pc = pc]
Abort(r) == Becomes(r, "failed") /\ UNCHANGED target

\* restore_rehearsal reads the manifest, which is verified only then.
Begin(r) ==
  /\ At(r, "idle") /\ HasManifest
  /\ rehearsal' = [rehearsal EXCEPT ![r] = [pc |-> "begun", manifest |-> bundle.manifest]]
  /\ UNCHANGED target

\* The artifact target must not exist yet; then it does.
Claim(r) ==
  /\ At(r, "begun")
  /\ IF BundleStands /\ ~target.exists THEN Becomes(r, "claiming") /\ UNCHANGED target ELSE Abort(r)
Create(r) ==
  /\ At(r, "claiming")
  /\ target' = [target EXCEPT !.exists = TRUE,
                              !.rows = IF @ = None THEN [q \in Rows |-> 0] ELSE @]
  /\ Becomes(r, IF target.rows = None THEN "created" ELSE "failed")

\* pg_restore stops at the first error, and an archive that is not whole is one.
Restore(r) ==
  /\ At(r, "created")
  /\ IF bundle.dump.content = "whole"
     THEN Becomes(r, "restored") /\ target' = [target EXCEPT !.rows = bundle.dump.rows]
     ELSE Abort(r)

CopyBack(r) ==
  /\ At(r, "restored")
  /\ IF MayCopy(bundle.files, target.files, rehearsal[r].manifest.tables)
     THEN /\ Becomes(r, "copied")
          /\ target' = [target EXCEPT !.files = Copied(bundle.files, @, rehearsal[r].manifest.tables)]
     ELSE Abort(r)

\* What was restored is compared with what was backed up.
SameTables(rows, tables) == Inventory(rows) = tables

Compare(r) ==
  /\ At(r, "copied")
  /\ LET tables == rehearsal[r].manifest.tables
     IN Becomes(r, IF /\ SameTables(target.rows, tables)
                      /\ \A x \in Catalogued(tables) : Verified(target.files, x)
                   THEN "VERIFIED" ELSE "failed")
  /\ UNCHANGED target

CrashRehearsal(r) == rehearsal[r].pc \notin {"idle", "VERIFIED", "failed"} /\ Abort(r)

RehearsalStep ==
  /\ \E r \in Rehearsals : \/ Begin(r) \/ Claim(r) \/ Create(r) \/ Restore(r) \/ CopyBack(r)
                     \/ Compare(r) \/ CrashRehearsal(r)
  /\ UNCHANGED <<history, store, release, bundle, backup, review>>

-----------------------------------------------------------------------------
\* reconcile and verify_backup with a database: the tables are read one after
\* the other, each as it is then.
BeginReview(kind) ==
  /\ review = Idle
  /\ IF kind = "against" THEN BundleStands ELSE HasManifest /\ bundle.manifest.release = release
  /\ review' = [pc |-> "reading", kind |-> kind, start |-> Len(history),
                tables |-> bundle.manifest.tables, seen |-> << >>]
ReadTable(r) ==
  /\ review.pc = "reading"
  /\ r \in Critical \ DOMAIN review.seen
  /\ review' = [review EXCEPT !.seen = [q \in DOMAIN @ \cup {r} |-> IF q = r THEN Now[r] ELSE @[q]]]

Answered == review.pc = "reading" /\ DOMAIN review.seen = Critical
EndReview == Answered /\ review' = Idle

ReviewStep ==
  /\ \/ \E kind \in Reviews : BeginReview(kind)
     \/ \E r \in Critical : ReadTable(r)
     \/ EndReview
  /\ UNCHANGED <<history, store, release, bundle, backup, target, rehearsal>>

\* Mistake: what is new since the cutoff.
IsNew(before, after) == before = 0 /\ after > 0

\* A row is new, or it has another hash (build_reconciliation_report).
Differs(before, after) == after > 0 /\ before # after
Deltas == {r \in Critical : Differs(review.tables[r], review.seen[r])}

-----------------------------------------------------------------------------
Next == Commit \/ Upgrade \/ Damage \/ BackupStep \/ RehearsalStep \/ ReviewStep

Spec == Init /\ [][Next]_vars

-----------------------------------------------------------------------------
\* What a rehearsal calls VERIFIED is the whole database of one instant, and
\* in its critical rows that of the manifest; all artifacts it has an entry
\* of are there.
RestoredIsCaptured ==
  \A r \in Rehearsals : At(r, "VERIFIED") =>
    /\ \E i \in DOMAIN history : target.rows = history[i]
    /\ \E i \in DOMAIN history : Inventory(history[i]) = rehearsal[r].manifest.tables
    /\ \A q \in Critical : target.rows[q] = rehearsal[r].manifest.tables[q]
    /\ \A x \in Catalogued(target.rows) : target.files[x] = "sound"

\* A reconciliation tells of every critical row that moved between the cutoff
\* and its start, and of no other than those that moved before its end.
DeltasAreComplete ==
  Answered /\ review.kind = "reconcile" =>
    /\ \A r \in Critical : history[review.start][r] # review.tables[r] => r \in Deltas
    /\ \A r \in Deltas : Now[r] # review.tables[r]

\* A database that a bundle was verified against had, at one instant, what the
\* bundle has.
VerifiedIsOneInstant ==
  Answered /\ review.kind = "against" /\ review.seen = review.tables =>
    Inventory(history[review.start]) = review.tables
=============================================================================
