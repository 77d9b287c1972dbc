----------------------------- MODULE CommandCore ----------------------------
(***************************************************************************)
(* The transactional command core: application/transactions.py on the      *)
(* command transaction of infrastructure/postgresql.py, over the tables    *)
(* aggregate_state, command_receipt, audit_event and outbox_event.         *)
(*                                                                         *)
(* A call runs its statements one by one under READ COMMITTED, so each     *)
(* statement whose result the code acts on is a step.  A row that an open  *)
(* transaction locked or inserted blocks the others until it ends: rowLock *)
(* stands for the aggregate's row (FOR UPDATE, or its uncommitted insert)  *)
(* and keyLock for the unique command key of audit, outbox and receipt,    *)
(* which are inserted in this order under the same key.  The subject is    *)
(* one principal whose current authorization comes and goes.               *)
(***************************************************************************)
EXTENDS Integers

CONSTANTS Calls,       \* concurrent execute() calls, one connection each
          Aggregates,  \* (scope_key, aggregate_type, aggregate_id)
          Seeded,      \* those that seed_aggregate inserts
          Keys,        \* (scope_key, subject, command_id)
          Payloads,    \* what else the payload hash tells apart
          MaxVersion,  \* bound on aggregate versions
          None

ASSUME CommandAssumption ==
  MaxVersion \in Nat /\ Seeded \subseteq Aggregates /\ None \notin Nat \cup Calls

\* A request; two requests have the same payload hash exactly if they are equal.
\* A command that may create its aggregate expects version 0; the aggregates
\* that such commands name (family_center.py, value/service.py) are never seeded.
Requests ==
  {r \in [key: Keys, target: Aggregates, expected: 0..MaxVersion,
          create: BOOLEAN, payload: Payloads] :
     r.create => r.expected = 0 /\ r.target \notin Seeded}

VARIABLES version,   \* aggregate_state.version, None for a missing row
          receipt,   \* command_receipt
          events,    \* audit_event, and outbox_event, which has the same keys
          call,      \* the local state of each call
          rowLock,   \* who holds the aggregate's row
          keyLock,   \* who has inserted the command key and not committed
          granted,   \* is the subject currently authorized?
          told       \* history: the committed results that callers were told

vars == <<version, receipt, events, call, rowLock, keyLock, granted, told>>

Receipt == [req: Requests, version: Nat]
Event == [key: Keys, target: Aggregates, version: Nat]
Pcs == {"idle", "authorized", "missed", "mismatch", "insert", "owning", "recorded",
        "keyRace", "createRace", "noReceipt"}
Answers == {"COMMITTED", "VERSION_CONFLICT", "IDEMPOTENCY_CONFLICT", "NOT_FOUND",
            "DENIED", "REJECTED", "STORAGE_FAILURE"}
Call == [pc: Pcs, req: Requests \cup {None}, answer: Answers \cup {None}]

ASSUME NoneIsNoValue == None \notin Requests \cup Receipt \cup Answers

TypeOK ==
  /\ version \in [Aggregates -> Nat \cup {None}]
  /\ receipt \in [Keys -> Receipt \cup {None}]
  /\ events \subseteq Event
  /\ call \in [Calls -> Call]
  /\ \A c \in Calls : call[c].pc # "idle" => call[c].req \in Requests
  /\ rowLock \in [Aggregates -> Calls \cup {None}]
  /\ keyLock \in [Keys -> Calls \cup {None}]
  /\ granted \in BOOLEAN
  /\ told \subseteq Receipt

Init ==
  /\ version = [a \in Aggregates |-> None]
  /\ receipt = [k \in Keys |-> None]
  /\ events = {}
  /\ call = [c \in Calls |-> [pc |-> "idle", req |-> None, answer |-> None]]
  /\ rowLock = [a \in Aggregates |-> None]
  /\ keyLock = [k \in Keys |-> None]
  /\ granted = TRUE
  /\ told = {}

-----------------------------------------------------------------------------
tables == <<version, receipt, events>>
locks == <<rowLock, keyLock>>

At(c, pc) == call[c].pc = pc
Goto(c, pc) == call' = [call EXCEPT ![c].pc = pc]
Finish(c, answer) ==
  call' = [call EXCEPT ![c].pc = "idle", ![c].answer = answer]

\* Mistake: the uncommitted command key outlives its transaction.
FreeRow(c) ==
  /\ rowLock' = [a \in Aggregates |-> IF rowLock[a] = c THEN None ELSE rowLock[a]]
  /\ UNCHANGED keyLock

\* The end of a transaction frees what it held.
FreeLocks(c) ==
  /\ rowLock' = [a \in Aggregates |-> IF rowLock[a] = c THEN None ELSE rowLock[a]]
  /\ keyLock' = [k \in Keys |-> IF keyLock[k] = c THEN None ELSE keyLock[k]]

\* Authorization is the first thing a call does.
Start(c, r) ==
  /\ At(c, "idle")
  /\ r.expected < MaxVersion
  /\ call' = [call EXCEPT ![c] = IF granted
       THEN [pc |-> "authorized", req |-> r, answer |-> None]
       ELSE [pc |-> "idle", req |-> r, answer |-> "DENIED"]]
  /\ UNCHANGED <<tables, locks, granted, told>>

Tell(c, stored) ==
  /\ Finish(c, "COMMITTED")
  /\ told' = told \cup {[req |-> call[c].req, version |-> stored.version]}

\* Mistake: the payload hash is not compared.
ReplayUnchecked(c) ==
  IF granted THEN Tell(c, receipt[call[c].req.key])
  ELSE Finish(c, "DENIED") /\ UNCHANGED told

\* Mistake: the subject is not authorized again.
ReplayUnauthorized(c) ==
  LET stored == receipt[call[c].req.key]
  IN  IF stored.req = call[c].req THEN Tell(c, stored)
      ELSE Finish(c, "IDEMPOTENCY_CONFLICT") /\ UNCHANGED told

\* A stored receipt answers the call: with its result if the payload hash is
\* the same and the subject is still authorized.
Replay(c) ==
  LET stored == receipt[call[c].req.key]
  IN  CASE stored.req # call[c].req ->
             Finish(c, "IDEMPOTENCY_CONFLICT") /\ UNCHANGED told
        [] stored.req = call[c].req /\ ~granted -> Finish(c, "DENIED") /\ UNCHANGED told
        [] OTHER -> Tell(c, stored)

HasReceipt(c) == receipt[call[c].req.key] # None

\* First statement of the transaction.
ReadReceipt(c) ==
  /\ At(c, "authorized")
  /\ IF HasReceipt(c) THEN Replay(c) ELSE Goto(c, "missed") /\ UNCHANGED told
  /\ UNCHANGED <<tables, locks, granted>>

\* Mistake: an older expectation is good enough.
MatchesNewer(v, r) == v >= r.expected

\* SELECT ... FOR UPDATE of an existing row waits for its lock and then sees
\* the newest version; a missing row locks nothing.
Matches(v, r) == v = r.expected

\* Mistake: the row is read without FOR UPDATE.
ReadWithoutLock(c) ==
  /\ At(c, "missed")
  /\ version[call[c].req.target] # None
  /\ Goto(c, IF Matches(version[call[c].req.target], call[c].req) THEN "owning"
             ELSE "mismatch")
  /\ UNCHANGED <<tables, locks, granted, told>>

LockAggregate(c) ==
  LET a == call[c].req.target
  IN  /\ At(c, "missed")
      /\ version[a] # None
      /\ rowLock[a] = None
      /\ rowLock' = [rowLock EXCEPT ![a] = c]
      /\ Goto(c, IF Matches(version[a], call[c].req) THEN "owning" ELSE "mismatch")
      /\ UNCHANGED <<tables, keyLock, granted, told>>

MissAggregate(c) ==
  /\ At(c, "missed")
  /\ version[call[c].req.target] = None
  /\ IF call[c].req.create THEN Goto(c, "insert") ELSE Finish(c, "NOT_FOUND")
  /\ UNCHANGED <<tables, locks, granted, told>>

\* Mistake: a mismatch is reported at once.
ConflictAtOnce(c) ==
  /\ At(c, "mismatch")
  /\ Finish(c, "VERSION_CONFLICT")
  /\ FreeLocks(c)
  /\ UNCHANGED <<tables, granted, told>>

\* A version mismatch reads the receipt again before it is reported: the winner
\* of the row lock may have been the same command.
Reread(c) ==
  /\ At(c, "mismatch")
  /\ IF HasReceipt(c) THEN Replay(c) ELSE Finish(c, "VERSION_CONFLICT") /\ UNCHANGED told
  /\ FreeLocks(c)
  /\ UNCHANGED <<tables, granted>>

\* The insert of a new aggregate waits for an uncommitted one; if that commits,
\* the primary key is taken and the transaction rolls back.
InsertAggregate(c) ==
  LET a == call[c].req.target
  IN  /\ At(c, "insert")
      /\ rowLock[a] = None
      /\ IF version[a] = None
           THEN /\ rowLock' = [rowLock EXCEPT ![a] = c]
                /\ Goto(c, "owning")
           ELSE /\ Goto(c, "createRace")
                /\ UNCHANGED rowLock
      /\ UNCHANGED <<tables, keyLock, granted, told>>

\* The local effect refuses the payload, or its statement fails.
Fail(c) ==
  /\ call[c].pc \in {"insert", "owning"}
  /\ \E answer \in {"REJECTED", "STORAGE_FAILURE"} : Finish(c, answer)
  /\ FreeLocks(c)
  /\ UNCHANGED <<tables, granted, told>>

\* Mistake: no unique command key.
NeverTaken(k) == k = None

\* The audit event is inserted first; its unique command key is where two calls
\* of the same command meet if they did not meet at the row.
KeyTaken(k) == \E e \in events : e.key = k

RecordEvents(c) ==
  LET k == call[c].req.key
  IN  /\ At(c, "owning")
      /\ keyLock[k] = None
      /\ IF KeyTaken(k)
           THEN Goto(c, "keyRace") /\ FreeLocks(c)
           ELSE /\ Goto(c, "recorded")
                /\ keyLock' = [keyLock EXCEPT ![k] = c]
                /\ UNCHANGED rowLock
      /\ UNCHANGED <<tables, granted, told>>

\* Mistake: the version before the expected one.
VersionBefore(r) == r.expected - 1

NextVersion(r) == r.expected + 1

\* Mistake: the receipt is not part of the transaction.
PersistWithoutReceipt(r) ==
  /\ version' = [version EXCEPT ![r.target] = NextVersion(r)]
  /\ events' = events \cup {[key |-> r.key, target |-> r.target, version |-> NextVersion(r)]}
  /\ UNCHANGED receipt

\* COMMIT makes the new version, the events and the receipt visible at once.
Persist(r) ==
  /\ version' = [version EXCEPT ![r.target] = NextVersion(r)]
  /\ receipt' = [receipt EXCEPT ![r.key] = [req |-> r, version |-> NextVersion(r)]]
  /\ events' = events \cup {[key |-> r.key, target |-> r.target, version |-> NextVersion(r)]}

Commit(c) ==
  /\ At(c, "recorded")
  /\ Persist(call[c].req)
  /\ FreeLocks(c)
  /\ Finish(c, "COMMITTED")
  /\ told' = told \cup {[req |-> call[c].req, version |-> NextVersion(call[c].req)]}
  /\ UNCHANGED granted

\* The acknowledgement of COMMIT is lost: the caller sees a storage failure,
\* whether the transaction committed or not.
CommitUnacknowledged(c) ==
  /\ At(c, "recorded")
  /\ Persist(call[c].req) \/ UNCHANGED tables
  /\ FreeLocks(c)
  /\ Finish(c, "STORAGE_FAILURE")
  /\ UNCHANGED <<granted, told>>

\* After a race at the command key: authorize, then replay the winner's receipt.
ReconcileReceipt(c) ==
  /\ At(c, "keyRace")
  /\ IF ~granted THEN Finish(c, "DENIED") /\ UNCHANGED told
     ELSE IF HasReceipt(c) THEN Replay(c)
     ELSE Finish(c, "STORAGE_FAILURE") /\ UNCHANGED told
  /\ UNCHANGED <<tables, locks, granted>>

\* After a race at the aggregate's primary key: authorize, replay, or report
\* the version found by another statement.
ReconcileCreate(c) ==
  /\ At(c, "createRace")
  /\ IF ~granted THEN Finish(c, "DENIED") /\ UNCHANGED told
     ELSE IF HasReceipt(c) THEN Replay(c)
     ELSE Goto(c, "noReceipt") /\ UNCHANGED told
  /\ UNCHANGED <<tables, locks, granted>>

ReportCreate(c) ==
  /\ At(c, "noReceipt")
  /\ Finish(c, IF version[call[c].req.target] = None THEN "STORAGE_FAILURE"
               ELSE "VERSION_CONFLICT")
  /\ UNCHANGED <<tables, locks, granted, told>>

\* The calling process or its connection dies: the transaction rolls back.
Crash(c) ==
  /\ ~At(c, "idle")
  /\ Finish(c, None)
  /\ FreeLocks(c)
  /\ UNCHANGED <<tables, granted, told>>

\* Others write the row: seed_aggregate, and commit_local_effect of the queue.
OtherWrite(a) ==
  /\ a \in Seeded
  /\ rowLock[a] = None
  /\ version[a] # MaxVersion
  /\ version' = [version EXCEPT ![a] = IF @ = None THEN 0 ELSE @ + 1]
  /\ UNCHANGED <<receipt, events, call, locks, granted, told>>

\* The authority grants or revokes the subject's capability (external).
Authority ==
  /\ granted' = ~granted
  /\ UNCHANGED <<tables, call, locks, told>>

-----------------------------------------------------------------------------
Proceed(c) ==
  \/ ReadReceipt(c) \/ LockAggregate(c) \/ MissAggregate(c) \/ Reread(c)
  \/ InsertAggregate(c) \/ Fail(c) \/ RecordEvents(c)
  \/ Commit(c) \/ CommitUnacknowledged(c)
  \/ ReconcileReceipt(c) \/ ReconcileCreate(c) \/ ReportCreate(c)

Next == \/ \E c \in Calls : Proceed(c) \/ Crash(c) \/ \E r \in Requests : Start(c, r)
        \/ \E a \in Aggregates : OtherWrite(a)
        \/ Authority

Spec == Init /\ [][Next]_vars

-----------------------------------------------------------------------------
\* However often and concurrently a command is sent, with lost answers and
\* retries, its key has one event and one receipt, which agree, and the
\* versions that commands gave to one aggregate are all different.
EffectsOnce ==
  /\ \A e, f \in events :
       (e.key = f.key \/ (e.target = f.target /\ e.version = f.version)) => e = f
  /\ \A k \in Keys : (receipt[k] # None) <=> (\E e \in events : e.key = k)
  /\ \A e \in events : /\ receipt[e.key].req.target = e.target
                       /\ receipt[e.key].version = e.version

\* The log of an aggregate never runs ahead of it.
VersionCoversEvents ==
  \A e \in events : version[e.target] # None /\ e.version <= version[e.target]

\* What a caller was told is what was committed, for ever: no two callers of one
\* command are told different results, and none is told another's result.
AnswersAgree == \A t \in told : receipt[t.req.key] = t

\* A call that owns the row still finds the version it compared, until it ends.
OwnersHoldVersion ==
  \A c \in Calls : call[c].pc \in {"owning", "recorded"} =>
    LET r == call[c].req
    IN  /\ rowLock[r.target] = c
        /\ \/ version[r.target] = r.expected
           \/ r.create /\ version[r.target] = None

\* "The competing first attempt is reconciled before VERSION_CONFLICT": a call
\* is not told about a conflict with its own success.
NoConflictWithSelf ==
  [][\A c \in Calls :
       (call[c].pc # "idle" /\ call'[c].answer = "VERSION_CONFLICT") =>
         (receipt[call[c].req.key] = None \/ receipt[call[c].req.key].req # call[c].req)]_vars

\* "A revoked principal cannot learn or disclose a prior command result": losing
\* the capability while the call runs closes every path that reads a receipt.
RevokedLearnsNothing ==
  [][\A c \in Calls :
       (~granted /\ call[c].pc \notin {"idle", "recorded"} /\ call'[c].pc = "idle") =>
         call'[c].answer # "COMMITTED"]_vars

\* The command core implements the atomic commands.
Atomic == INSTANCE VersionedCommands WITH result <- receipt
RefinesCommands == Atomic!Spec

-----------------------------------------------------------------------------
\* Fairness: calls go on, and PostgreSQL grants a lock to its waiters in turn.
\* No call is assumed to fail, least of all one that waits.
TakeLock(c) == LockAggregate(c) \/ InsertAggregate(c) \/ RecordEvents(c)

LiveSpec == Spec /\ \A c \in Calls : /\ WF_vars(Proceed(c) /\ ~Fail(c))
                                     /\ SF_vars(TakeLock(c))

\* Every call ends: no two calls wait for each other's row and command key.
EveryCallEnds == \A c \in Calls : (call[c].pc # "idle") ~> (call[c].pc = "idle")
=============================================================================
