---------------------------- MODULE ArtifactStore ----------------------------
(***************************************************************************)
(* Immutable artifacts: ArtifactService of application/artifacts.py over   *)
(* the content-addressed files of infrastructure/artifacts/filesystem.py   *)
(* and the scoped catalogue of infrastructure/artifacts/catalog.py.        *)
(*                                                                         *)
(* A digest is the name of its file; the file is written under another     *)
(* name, flushed, renamed under a lock, and its directories are synced.    *)
(* The catalogue says what the bytes are in a scope, once.  Processes die, *)
(* and so does the host: it forgets every rename that was not synced.      *)
(* Definitions marked "Mistake" are plausible errors that a property must  *)
(* notice.                                                                 *)
(***************************************************************************)
EXTENDS FiniteSets

CONSTANTS Digests,   \* contents, each by its SHA-256 and size
          Scopes, Metadata,   \* media type, purpose, job and revision
          Clients,   \* processes with their own connection and file handles
          Catalogs,  \* "postgresql", or "sqlite" in offline use
          None

VARIABLES catalog,   \* the one in use
          file,      \* per digest: the directory entry, None if there is none
          lock,      \* holder of .artifact-publish.lock
          row,       \* artifact_catalog
          client,    \* each client's call
          answers    \* history: what calls have returned

vars == <<catalog, file, lock, row, client, answers>>

\* flushed: the bytes are on disk; synced: the entry is.  A file whose bytes
\* were lost is torn: it does not have its digest any more.
File == [flushed : BOOLEAN, synced : BOOLEAN, torn : BOOLEAN]
Call == [digest : Digests, scope : Scopes, metadata : Metadata,
         pc : {"put", "look", "write", "sync", "unlock", "verify", "select", "insert", "taken"},
         reused : BOOLEAN]
Idle == [pc |-> "idle"]

TypeOK ==
  /\ catalog \in Catalogs
  /\ file \in [Digests -> File \cup {None}]
  /\ lock \in Clients \cup {None}
  /\ row \in [Scopes \X Digests -> Metadata \cup {None}]
  /\ \A c \in Clients : client[c] = Idle \/ client[c] \in Call

Init ==
  /\ catalog \in Catalogs
  /\ file = [d \in Digests |-> None]
  /\ lock = None
  /\ row = [k \in Scopes \X Digests |-> None]
  /\ client = [c \in Clients |-> Idle]
  /\ answers = {}

At(c, pc) == client[c] # Idle /\ client[c].pc = pc
Goto(c, pc) == client' = [client EXCEPT ![c].pc = pc]
Key(c) == <<client[c].scope, client[c].digest>>

\* The digest is recomputed from the bytes of every file that is opened.
Verified(d) == file[d] # None /\ ~file[d].torn

-----------------------------------------------------------------------------
\* write_and_register and register_existing, after authorization.

Begin(c) ==
  /\ client[c] = Idle
  /\ \E d \in Digests, s \in Scopes, m \in Metadata, pc \in {"put", "verify"} :
       client' = [client EXCEPT ![c] =
         [digest |-> d, scope |-> s, metadata |-> m, pc |-> pc, reused |-> pc = "verify"]]
  /\ UNCHANGED <<catalog, file, lock, row, answers>>

\* flock(LOCK_EX)
TakeLock(c) ==
  /\ At(c, "put")
  /\ lock = None
  /\ lock' = c
  /\ Goto(c, "look")
  /\ UNCHANGED <<catalog, file, row, answers>>

\* A file that is there is verified and reused; a torn one is an error.
Reuse(c) ==
  /\ client' = IF Verified(client[c].digest)
               THEN [client EXCEPT ![c].pc = "verify", ![c].reused = TRUE]
               ELSE [client EXCEPT ![c] = Idle]
  /\ lock' = None

LookForFile(c) ==
  /\ At(c, "look")
  /\ IF file[client[c].digest] = None THEN Goto(c, "write") /\ UNCHANGED lock ELSE Reuse(c)
  /\ UNCHANGED <<catalog, file, row, answers>>

\* Mistake: the bytes are left to the page cache.
WriteOnly(d) == [flushed |-> FALSE, synced |-> FALSE, torn |-> FALSE]

\* The temporary file is written and flushed before it gets its name.
Written(d) == [flushed |-> TRUE, synced |-> FALSE, torn |-> FALSE]

\* The second look; it finds what the first did, because of the lock.
Rename(c) ==
  /\ At(c, "write")
  /\ LET d == client[c].digest IN
       IF file[d] = None
       THEN file' = [file EXCEPT ![d] = Written(d)] /\ Goto(c, "sync") /\ UNCHANGED lock
       ELSE Reuse(c) /\ UNCHANGED file
  /\ UNCHANGED <<catalog, row, answers>>

\* The prefix directory, then the root: an entry counts once both are synced.
SyncDirectories(c) ==
  /\ At(c, "sync")
  /\ file' = [file EXCEPT ![client[c].digest].synced = TRUE]
  /\ Goto(c, "unlock")
  /\ UNCHANGED <<catalog, lock, row, answers>>

Unlock(c) ==
  /\ At(c, "unlock")
  /\ lock' = None
  /\ Goto(c, "verify")
  /\ UNCHANGED <<catalog, file, row, answers>>

\* _register_verified: readers take no lock.
VerifyFile(c) ==
  /\ At(c, "verify")
  /\ IF Verified(client[c].digest) THEN Goto(c, "select")
     ELSE client' = [client EXCEPT ![c] = Idle]
  /\ UNCHANGED <<catalog, file, lock, row, answers>>

\* _ensure_same_or_conflict of the row and the metadata at hand; the answer is
\* the row.  A conflict is an exception.
Answer(c, m) ==
  answers' = answers \cup {[key |-> Key(c), metadata |-> m, reused |-> client[c].reused]}
Reconcile(c, m) == IF m = client[c].metadata THEN Answer(c, m) ELSE UNCHANGED answers

Finish(c) == client' = [client EXCEPT ![c] = Idle]

\* SELECT ... FOR UPDATE; a row that is not there locks nothing.
SelectRow(c) ==
  /\ At(c, "select") /\ catalog = "postgresql"
  /\ IF row[Key(c)] = None THEN Goto(c, "insert") /\ UNCHANGED answers
     ELSE Reconcile(c, row[Key(c)]) /\ Finish(c)
  /\ UNCHANGED <<catalog, file, lock, row>>

\* INSERT and COMMIT, or 23505.
InsertRow(c) ==
  /\ At(c, "insert")
  /\ IF row[Key(c)] = None
     THEN /\ row' = [row EXCEPT ![Key(c)] = client[c].metadata]
          /\ Answer(c, client[c].metadata)
          /\ Finish(c)
     ELSE Goto(c, "taken") /\ UNCHANGED <<row, answers>>
  /\ UNCHANGED <<catalog, file, lock>>

\* Mistake: two first registrations of the same bytes are the same registration.
AssumesTheSame(c) == client[c].metadata

\* The row of the other client, read outside any transaction.
AfterRace(c) == row[Key(c)]

ReadTakenRow(c) ==
  /\ At(c, "taken")
  /\ Reconcile(c, AfterRace(c))
  /\ Finish(c)
  /\ UNCHANGED <<catalog, file, lock, row>>

\* SQLiteArtifactCatalog: BEGIN IMMEDIATE makes one step of it.
RegisterAtOnce(c) ==
  /\ At(c, "select") /\ catalog = "sqlite"
  /\ LET m == IF row[Key(c)] = None THEN client[c].metadata ELSE row[Key(c)] IN
       row' = [row EXCEPT ![Key(c)] = m] /\ Reconcile(c, m)
  /\ Finish(c)
  /\ UNCHANGED <<catalog, file, lock>>

-----------------------------------------------------------------------------
\* Failures.

Release(c) == lock' = IF lock = c THEN None ELSE lock

\* A call that fails anywhere, or the death of its process: the lock is
\* released, a temporary file that remains is never looked at.
Fail(c) ==
  /\ client[c] # Idle
  /\ Finish(c)
  /\ Release(c)
  /\ UNCHANGED <<catalog, file, row, answers>>

\* Everybody dies.  An entry that was not synced may be gone, and bytes that
\* were not flushed are; committed rows stay.
PowerLoss ==
  /\ \E kept \in SUBSET {d \in Digests : file[d] # None} :
       /\ \A d \in Digests : file[d] # None /\ file[d].synced => d \in kept
       /\ file' = [d \in Digests |->
            IF d \in kept THEN [flushed |-> TRUE, synced |-> TRUE,
                                torn |-> file[d].torn \/ ~file[d].flushed]
            ELSE None]
  /\ lock' = None
  /\ client' = [c \in Clients |-> Idle]
  /\ UNCHANGED <<catalog, row, answers>>

Next ==
  \/ \E c \in Clients :
       \/ Begin(c) \/ TakeLock(c) \/ LookForFile(c) \/ Rename(c) \/ SyncDirectories(c)
       \/ Unlock(c) \/ VerifyFile(c) \/ SelectRow(c) \/ InsertRow(c) \/ ReadTakenRow(c)
       \/ RegisterAtOnce(c) \/ Fail(c)
  \/ PowerLoss

Spec == Init /\ [][Next]_vars

-----------------------------------------------------------------------------
\* inspect_scope: registered references whose bytes are missing or corrupt.
Unreadable == {k \in DOMAIN row : row[k] # None /\ ~Verified(k[2])}

\* A scope has one account of an artifact: everybody who was told that it is
\* registered was told the same, and that is what the catalogue has.
RegistrationsAgree == \A a \in answers : a.metadata = row[a.key]

\* What the writer of an artifact was answered survives the loss of power: its
\* reference reads as its bytes for ever.  No entry is ever torn.
WritesSurvive ==
  /\ \A d \in Digests : file[d] # None => Verified(d)
  /\ \A a \in answers : ~a.reused => a.key \notin Unreadable

\* The same of whoever reused the bytes of another.  It does not hold: a file
\* is reused while, or although, the sync of its directories never came.
RegisteredSurvives == Unreadable = {}
=============================================================================
