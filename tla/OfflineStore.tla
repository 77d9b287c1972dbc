----------------------------- MODULE OfflineStore ---------------------------
(***************************************************************************)
(* The file-backed reference store of infrastructure/sqlite.py under the   *)
(* command executor, and the reads of outcome groups on it.                *)
(*                                                                         *)
(* Each adapter owns one connection, which its threads share, and a lock   *)
(* around its transactions.  Between adapters BEGIN IMMEDIATE admits one   *)
(* writer to the file.  Statements of an open transaction change `staged`  *)
(* and only a commit changes the file.  The aggregates are outcome groups: *)
(* each version of one has one value revision, which an older release of   *)
(* the program kept inside the group's JSON.  Reads outside the lock       *)
(* (get_aggregate, get_command_receipt) are left out: they may see what a  *)
(* thread of the same adapter has not committed, and no command uses them. *)
(***************************************************************************)
EXTENDS Naturals

CONSTANTS Adapters,    \* the open connections to one file
          Threads,
          AdapterOf,   \* AdapterOf[t] is the adapter that thread t uses
          Groups,
          Legacy,      \* groups that the file holds with one embedded revision
          Keys,        \* command keys: (scope, subject, command_id)
          MaxVersion,  \* bound on versions
          None

Requests ==
  {r \in [key: Keys, target: Groups, expected: 0..MaxVersion, create: BOOLEAN] :
     r.create => r.expected = 0}

VARIABLES file,    \* the committed tables
          writer,  \* the adapter whose transaction may write the file, or None
          staged,  \* staged[a]: the tables as a's open transaction sees them, or None
          lock,    \* lock[a]: the thread that holds a's transaction_lock, or None
          open,    \* open[a]: has adapter a a connection?
          thread,  \* the local state of each thread
          told,    \* history: the committed results that callers were told
          read     \* history: the groups that were read

vars == <<file, writer, staged, lock, open, thread, told, read>>

Versions == Nat \cup {None}
Entries == [group: Groups, version: Nat]
Result == [req: Requests, version: Nat]
Tables == [version: [Groups -> Versions],          \* aggregate_state
           embedded: SUBSET Entries,               \* revisions in its JSON
           entries: SUBSET Entries,                \* outcome_value_revision
           events: SUBSET [key: Keys, target: Groups, version: Nat],
           receipt: [Keys -> Result \cup {None}]]  \* command_receipt

Idle == [pc |-> "idle"]

Init ==
  /\ file = [version |-> [g \in Groups |-> IF g \in Legacy THEN 1 ELSE None],
             embedded |-> {[group |-> g, version |-> 1] : g \in Legacy},
             entries |-> {}, events |-> {}, receipt |-> [k \in Keys |-> None]]
  /\ writer = None
  /\ staged = [a \in Adapters |-> None]
  /\ lock = [a \in Adapters |-> None]
  /\ open = [a \in Adapters |-> FALSE]
  /\ thread = [t \in Threads |-> Idle]
  /\ told = {}
  /\ read = {}

-----------------------------------------------------------------------------
At(t, pc) == thread[t].pc = pc
Goto(t, pc) == thread' = [thread EXCEPT ![t].pc = pc]
Finish(t) == thread' = [thread EXCEPT ![t] = Idle]
View(t) == staged[AdapterOf[t]]

\* The revisions of a group up to a version.
Upto(g, v) == {[group |-> g, version |-> n] : n \in 1..v}

\* Mistake: the rows leave the JSON without reaching the table.
DropEmbedded(tables) == [tables EXCEPT !.embedded = {}]

\* Opening the file creates the tables and moves embedded revisions to theirs,
\* in a transaction of its own; a row that is there already is left alone.
MoveEmbedded(tables) ==
  [tables EXCEPT !.entries = @ \cup tables.embedded, !.embedded = {}]

\* Another adapter that writes for longer than the busy timeout makes it fail;
\* then there is no adapter.
Open(a) ==
  /\ ~open[a]
  /\ writer = None
  /\ open' = [open EXCEPT ![a] = TRUE]
  /\ file' = MoveEmbedded(file)
  /\ UNCHANGED <<writer, staged, lock, thread, told, read>>

\* Closing waits for the lock.  A thread that waits for it too has the connection
\* already and will find it closed, which is a storage failure.
Close(a) ==
  /\ open[a]
  /\ lock[a] = None
  /\ open' = [open EXCEPT ![a] = FALSE]
  /\ thread' = [t \in Threads |-> IF AdapterOf[t] = a THEN Idle ELSE thread[t]]
  /\ UNCHANGED <<file, writer, staged, lock, told, read>>

\* The process of an adapter dies; SQLite rolls its transaction back.
Crash(a) ==
  /\ open[a]
  /\ open' = [open EXCEPT ![a] = FALSE]
  /\ writer' = IF writer = a THEN None ELSE writer
  /\ staged' = [staged EXCEPT ![a] = None]
  /\ lock' = [lock EXCEPT ![a] = None]
  /\ thread' = [t \in Threads |-> IF AdapterOf[t] = a THEN Idle ELSE thread[t]]
  /\ UNCHANGED <<file, told, read>>

-----------------------------------------------------------------------------
\* A command, sent to the executor on this store.
Send(t, r) ==
  /\ At(t, "idle")
  /\ open[AdapterOf[t]]
  /\ r.expected < MaxVersion
  /\ thread' = [thread EXCEPT ![t] = [pc |-> "send", req |-> r]]
  /\ UNCHANGED <<file, writer, staged, lock, open, told, read>>

\* The lock of the adapter's transactions.
TakeLock(t, from, to) ==
  /\ At(t, from)
  /\ lock[AdapterOf[t]] = None
  /\ lock' = [lock EXCEPT ![AdapterOf[t]] = t]
  /\ Goto(t, to)
  /\ UNCHANGED <<file, writer, staged, open, told, read>>

Acquire(t) == TakeLock(t, "send", "begin")

\* Mistake: BEGIN without IMMEDIATE lets two transactions start on one file.
AnyWriter(a) == TRUE

MayWrite(a) == writer = None

\* BEGIN IMMEDIATE.
Begin(t) ==
  LET a == AdapterOf[t]
  IN  /\ At(t, "begin")
      /\ MayWrite(a)
      /\ writer' = a
      /\ staged' = [staged EXCEPT ![a] = file]
      /\ Goto(t, "receipt")
      /\ UNCHANGED <<file, lock, open, told, read>>

\* Another adapter writes for longer than the busy timeout: a storage failure.
BeginFails(t) ==
  /\ At(t, "begin")
  /\ ~MayWrite(AdapterOf[t])
  /\ lock' = [lock EXCEPT ![AdapterOf[t]] = None]
  /\ Finish(t)
  /\ UNCHANGED <<file, writer, staged, open, told, read>>

\* The end of a transaction: an exception rolls back, and so does a COMMIT that
\* fails; then the lock is released.
Leave(t) ==
  /\ writer' = None
  /\ staged' = [staged EXCEPT ![AdapterOf[t]] = None]
  /\ lock' = [lock EXCEPT ![AdapterOf[t]] = None]
  /\ Finish(t)

Rollback(t) == Leave(t) /\ UNCHANGED <<file, open, told, read>>

\* The executor's transaction: a stored receipt answers the same command.
ReadReceipt(t) ==
  LET r == thread[t].req
      stored == View(t).receipt[r.key]
  IN  /\ At(t, "receipt")
      /\ IF stored = None
           THEN Goto(t, "aggregate") /\ UNCHANGED <<file, writer, staged, lock, open, told, read>>
           ELSE /\ Leave(t)
                /\ told' = IF stored.req = r THEN told \cup {stored} ELSE told
                /\ UNCHANGED <<file, open, read>>

\* Mistake: any version will do.
AnyVersion(v, r) == v # None \/ r.create

\* The aggregate has the expected version, or is missing and may be created.
Expected(v, r) == v = r.expected \/ (v = None /\ r.create)

\* It is missing, or has another version: the command fails.
Refuse(t) ==
  /\ At(t, "aggregate")
  /\ ~Expected(View(t).version[thread[t].req.target], thread[t].req)
  /\ Rollback(t)

\* The effect appends the revision, then the new version is written.
WriteAggregate(t) ==
  LET r == thread[t].req
      a == AdapterOf[t]
  IN  /\ At(t, "aggregate")
      /\ Expected(View(t).version[r.target], r)
      /\ staged' = [staged EXCEPT
           ![a].entries = @ \cup {[group |-> r.target, version |-> r.expected + 1]},
           ![a].version[r.target] = r.expected + 1]
      /\ Goto(t, "events")
      /\ UNCHANGED <<file, writer, lock, open, told, read>>

\* Audit event, outbox event and receipt.
WriteReceipt(t) ==
  LET r == thread[t].req
      a == AdapterOf[t]
  IN  /\ At(t, "events")
      /\ staged' = [staged EXCEPT
           ![a].events = @ \cup {[key |-> r.key, target |-> r.target, version |-> r.expected + 1]},
           ![a].receipt[r.key] = [req |-> r, version |-> r.expected + 1]]
      /\ Goto(t, "commit")
      /\ UNCHANGED <<file, writer, lock, open, told, read>>

\* A statement, or the effect, fails.
StatementFails(t) ==
  /\ thread[t].pc \in {"receipt", "aggregate", "events", "commit"}
  /\ Rollback(t)

\* Mistake: the transaction ends without its last statements.
PublishEarly(tables) == [tables EXCEPT !.events = file.events]

\* What a commit makes of the file.
Published(tables) == tables

Commit(t) ==
  LET r == thread[t].req
  IN  /\ At(t, "commit")
      /\ file' = Published(View(t))
      /\ Leave(t)
      /\ told' = told \cup {[req |-> r, version |-> r.expected + 1]}
      /\ UNCHANGED <<open, read>>

-----------------------------------------------------------------------------
\* get_outcome_group: under the lock, in a transaction that reads one state of
\* the file, first the group's row and then its revisions.
AskGroup(t, g) ==
  /\ At(t, "idle")
  /\ open[AdapterOf[t]]
  /\ thread' = [thread EXCEPT ![t] = [pc |-> "ask", group |-> g]]
  /\ UNCHANGED <<file, writer, staged, lock, open, told, read>>

AcquireToRead(t) == TakeLock(t, "ask", "row")

ReleaseRead(t) ==
  /\ lock' = [lock EXCEPT ![AdapterOf[t]] = None]
  /\ Finish(t)

NoGroup(t) ==
  /\ At(t, "row")
  /\ file.version[thread[t].group] = None
  /\ ReleaseRead(t)
  /\ UNCHANGED <<file, writer, staged, open, told, read>>

ReadRow(t) ==
  /\ At(t, "row")
  /\ file.version[thread[t].group] # None
  /\ thread' = [thread EXCEPT ![t] =
       [pc |-> "entries", group |-> @.group, version |-> file.version[@.group],
        snapshot |-> file.entries]]
  /\ UNCHANGED <<file, writer, staged, lock, open, told, read>>

\* Mistake: two statements without a transaction around them.
LatestEntries(t) == file.entries

SnapshotEntries(t) == thread[t].snapshot

ReadEntries(t) ==
  LET g == thread[t].group
  IN  /\ At(t, "entries")
      /\ read' = read \cup {[group |-> g, version |-> thread[t].version,
                             entries |-> {e \in SnapshotEntries(t) : e.group = g}]}
      /\ ReleaseRead(t)
      /\ UNCHANGED <<file, writer, staged, open, told>>

-----------------------------------------------------------------------------
InTransaction(t) ==
  \/ ReadReceipt(t) \/ Refuse(t) \/ WriteAggregate(t) \/ WriteReceipt(t)
  \/ StatementFails(t) \/ Commit(t)

Next ==
  \/ \E a \in Adapters : Open(a) \/ Close(a) \/ Crash(a)
  \/ \E t \in Threads :
       \/ \E r \in Requests : Send(t, r)
       \/ Acquire(t) \/ Begin(t) \/ BeginFails(t) \/ InTransaction(t)
       \/ \E g \in Groups : AskGroup(t, g)
       \/ AcquireToRead(t) \/ NoGroup(t) \/ ReadRow(t) \/ ReadEntries(t)

Spec == Init /\ [][Next]_vars

-----------------------------------------------------------------------------
TypeOK ==
  /\ file \in Tables
  /\ writer \in Adapters \cup {None}
  /\ \A a \in Adapters : /\ staged[a] \in Tables \cup {None}
                         /\ (staged[a] # None) <=> (writer = a)
  /\ lock \in [Adapters -> Threads \cup {None}]
  /\ open \in [Adapters -> BOOLEAN]
  /\ told \subseteq Result

\* However threads, adapters, lock timeouts and crashes interleave, the file
\* holds one revision for each version of each group, wherever a release kept
\* it, and one event and one receipt for each accepted command.
FileIsWhole ==
  /\ \A g \in Groups :
       {e \in file.entries \cup file.embedded : e.group = g} =
         IF file.version[g] = None THEN {} ELSE Upto(g, file.version[g])
  /\ \A e, f \in file.events : e.key = f.key => e = f
  /\ \A k \in Keys :
       (file.receipt[k] # None) <=> (\E e \in file.events : e.key = k)

\* "could not be read coherently" is the only other outcome: a group that is read
\* has exactly the revisions of the version it is read at.
GroupsAreWhole == \A r \in read : r.entries = Upto(r.group, r.version)

\* What the offline store promises its callers and its readers.
OfflineIsSound == TypeOK /\ FileIsWhole /\ GroupsAreWhole

\* From the file as an older release left it, the offline store takes the steps
\* of the atomic commands.
Atomic == INSTANCE VersionedCommands WITH
  Aggregates <- Groups, version <- file.version, result <- file.receipt
StepsAreCommands == [][Atomic!Next]_<<file.version, file.receipt, told>>
=============================================================================
