---------------------------- MODULE OperationsHealth --------------------------
(***************************************************************************)
(* What operations is told about the health of the system:                 *)
(* OperationsQueryService.read of application/operations.py and the status *)
(* command of operations_status.py.                                        *)
(*                                                                         *)
(* A cockpit is put together axis by axis, while the queue, the source,    *)
(* the artifacts, the gates, the permissions and the database themselves   *)
(* move; each read is of its own instant.  The status command reads queue  *)
(* and catalogue in one transaction, but asks for the time and the bytes   *)
(* when it comes to them.  How the authorities move is abstracted from     *)
(* WorkerQueue, SourceIngress, ArtifactStore and FamilyCenter; reasons,    *)
(* counts and the redaction of what is shown are left out, and as a read    *)
(* changes nothing there is one, after which nothing more happens.          *)
(* Definitions marked "Mistake" are as in ArtifactStore.                    *)
(***************************************************************************)
EXTENDS Integers, FiniteSets

CONSTANTS Jobs, Blobs, Gates,
          Inspected,    \* the artifacts within MAX_OPERATIONS_ARTIFACTS
          Freshness,    \* of the source, in ticks
          Moving,       \* the authorities that move in this instance
          MaxClock,     \* bound of the model
          None

VARIABLES clock, jobs, source, bytes, gates, promoted, granted,
          cockpit       \* the read, or the status command, with what it has gathered

authorities == <<clock, jobs, source, bytes, gates, promoted, granted>>
vars == <<authorities, cockpit>>

Capabilities == {"operations", "source", "artifacts", "family"}
Job == [status : {"QUEUED", "RUNNING", "FAILED"}, lease : 0 .. MaxClock + 1, effect : BOOLEAN]
Source == [available : 0 .. MaxClock, state : {"READY", "INSUFFICIENT"},
           snapshot : {"PUBLISHED", "PARTIAL"}]

TypeOK ==
  /\ jobs \in [Jobs -> Job]
  /\ source \in Source \cup {None}
  /\ bytes \in [Blobs -> {"sound", "failed"}]
  /\ gates \in [Gates -> {"PASS", "PENDING", "EXPIRED"}]
  /\ granted \subseteq Capabilities

Init ==
  /\ clock = 0
  /\ jobs = [j \in Jobs |-> [status |-> "QUEUED", lease |-> 0, effect |-> FALSE]]
  /\ source = None
  /\ bytes = [x \in Blobs |-> "sound"]
  /\ gates = [g \in Gates |-> "PENDING"]
  /\ promoted = FALSE
  /\ granted = Capabilities
  /\ cockpit = [pc |-> "idle"]

-----------------------------------------------------------------------------
\* The authorities, one move at a time.
JobMoves ==
  \E j \in Jobs : \E new \in Job :
    /\ LET claimed == [jobs[j] EXCEPT !.status = "RUNNING", !.lease = clock + 1]
           lives == jobs[j].status = "RUNNING" /\ clock < jobs[j].lease
       IN  \/ new = claimed /\ jobs[j].status # "FAILED"     \* claimed, extended, or taken again
           \/ new = [jobs[j] EXCEPT !.effect = TRUE] /\ lives
           \/ new = [jobs[j] EXCEPT !.status = "QUEUED"] /\ lives
           \/ new = [jobs[j] EXCEPT !.status = "FAILED"] /\ jobs[j].status = "RUNNING"
    /\ jobs' = [jobs EXCEPT ![j] = new]

\* A revision that is available now is published, and its capability with it.
SourceMoves ==
  \E state \in {"READY", "INSUFFICIENT"}, snapshot \in {"PUBLISHED", "PARTIAL"} :
    /\ state = "READY" => snapshot = "PUBLISHED"
    /\ source' = [available |-> clock, state |-> state, snapshot |-> snapshot]

GateMoves ==
  \/ \E g \in Gates : /\ gates[g] = "PENDING"
                      /\ gates' = [gates EXCEPT ![g] = "PASS"]
                      /\ UNCHANGED promoted
  \/ \E g \in Gates : /\ gates[g] = "PASS"
                      /\ gates' = [gates EXCEPT ![g] = "EXPIRED"]
                      /\ UNCHANGED promoted
  \/ /\ \A g \in Gates : gates[g] = "PASS"
     /\ promoted' = TRUE /\ UNCHANGED gates

\* The authorities move, and what a cockpit may show is what was granted at some
\* instant of it.
Authorities ==
  /\ cockpit.pc # "done"
  /\ \/ /\ "clock" \in Moving /\ clock < MaxClock /\ clock' = clock + 1
        /\ UNCHANGED <<jobs, source, bytes, gates, promoted, granted>>
     \/ /\ "jobs" \in Moving /\ JobMoves
        /\ UNCHANGED <<clock, source, bytes, gates, promoted, granted>>
     \/ /\ "source" \in Moving /\ SourceMoves
        /\ UNCHANGED <<clock, jobs, bytes, gates, promoted, granted>>
     \/ /\ "bytes" \in Moving /\ \E x \in Blobs : bytes' = [bytes EXCEPT ![x] = "failed"]
        /\ UNCHANGED <<clock, jobs, source, gates, promoted, granted>>
     \/ /\ "gates" \in Moving /\ GateMoves
        /\ UNCHANGED <<clock, jobs, source, bytes, granted>>
     \/ /\ "granted" \in Moving
        /\ \E c \in Capabilities : granted' = granted \ {c} \/ granted' = granted \cup {c}
        /\ UNCHANGED <<clock, jobs, source, bytes, gates, promoted>>
  /\ cockpit' = IF "allowed" \notin DOMAIN cockpit THEN cockpit
                ELSE [cockpit EXCEPT !.allowed = @ \cup granted']

-----------------------------------------------------------------------------
\* The database's classification of the queue at an instant (operations_health_facts).
Terminal(rows) == {j \in Jobs : rows[j].status = "FAILED"}
Lapsed(rows, now) == {j \in Jobs : rows[j].status = "RUNNING" /\ rows[j].lease <= now}
QueueState(rows, now) ==
  CASE Terminal(rows) # {} -> "ERROR"
    [] Terminal(rows) = {} /\ Lapsed(rows, now) # {} -> "STALE"
    [] OTHER -> "READY"

\* _worker_job_summary
LeaseState(row, now) ==
  CASE row.status # "RUNNING" -> "NONE"
    [] row.status = "RUNNING" /\ row.lease <= now -> "EXPIRED"
    [] OTHER -> "ACTIVE"

Stands(pc) == cockpit.pc = pc
With(pc, fields) == cockpit' = [f \in DOMAIN cockpit \cup DOMAIN fields |->
  IF f = "pc" THEN pc ELSE IF f \in DOMAIN fields THEN fields[f] ELSE cockpit[f]]

\* Mistake: who may read operations may see what it is put together of.
MaySeeAll(capability) == "operations" \in granted

\* Every axis is authorized when it is read.
MaySee(capability) == capability \in granted

Read ==
  /\ Stands("idle") /\ "operations" \in granted
  /\ cockpit' = [pc |-> "postgres", began |-> clock, jobs |-> jobs, bytes |-> bytes, allowed |-> granted]

\* _postgres_axis: the time of the database is kept for the source.
PostgresAxis(reachable) ==
  /\ Stands("postgres")
  /\ With("worker", [postgres |-> IF reachable THEN "READY" ELSE "UNAVAILABLE",
                     now |-> IF reachable THEN clock ELSE None])

\* _worker_axis: the counts, then the rows, then the receipts.
WorkerFacts(reachable) ==
  /\ Stands("worker")
  /\ IF MaySee("operations") /\ reachable
     THEN With("rows", [worker |-> QueueState(jobs, clock), at |-> clock])
     ELSE With("source", [worker |-> "UNAVAILABLE", rows |-> << >>])
WorkerRows(reachable) ==
  /\ Stands("rows")
  /\ IF reachable
     THEN With("receipts", [rows |-> [j \in Jobs |->
            [status |-> jobs[j].status, lease |-> LeaseState(jobs[j], cockpit.at), was |-> jobs[j].lease]]])
     ELSE With("source", [worker |-> "UNAVAILABLE", rows |-> << >>])
WorkerReceipts(reachable) ==
  /\ Stands("receipts")
  /\ With("source", [receipts |-> IF reachable THEN {j \in Jobs : jobs[j].effect} ELSE {}])

\* Mistake: what was ready when it was published still is.
SourceAsPublished(record, now) ==
  CASE record.snapshot # "PUBLISHED" -> "PARTIAL" [] OTHER -> record.state

\* _source_state, and what overrides it.
SourceState(record, now) ==
  CASE record.available > now -> "ERROR"
    [] record.available <= now /\ (record.snapshot # "PUBLISHED" \/ record.state # "READY") -> "PARTIAL"
    [] OTHER -> IF now - record.available > Freshness THEN "STALE" ELSE "READY"

\* _source_axis: the capability, and then its snapshot, which never changes.
SourceCapability(reachable) ==
  /\ Stands("source")
  /\ IF MaySee("source") /\ reachable /\ source # None
     THEN With("snapshot", [record |-> source])
     ELSE With("artifacts", [source |-> "UNAVAILABLE"])
SourceSnapshot(reachable) ==
  /\ Stands("snapshot")
  /\ IF reachable
     THEN With("artifacts", [source |->
            SourceState(cockpit.record, IF cockpit.now = None THEN clock ELSE cockpit.now)])
     ELSE With("artifacts", [source |-> "UNAVAILABLE"])

\* _artifact_axis: no more than so many are verified.
Failed(files) == {x \in Inspected : bytes[x] = "failed"}
ArtifactAxis(reachable) ==
  /\ Stands("artifacts")
  /\ With("family", [artifacts |->
       IF ~MaySee("artifacts") \/ ~reachable THEN "UNAVAILABLE"
       ELSE IF Failed(bytes) # {} THEN "ERROR" ELSE "READY"])

\* _qualification_axis of the view that Family Center gives at this instant.
QualificationState ==
  LET some(state) == \E g \in Gates : gates[g] = state
      ready == \A g \in Gates : gates[g] = "PASS"
  IN  CASE ready /\ promoted -> "CURRENT"
        [] some("EXPIRED") -> "EXPIRED"
        [] ~some("EXPIRED") /\ some("PENDING") -> "PENDING"
        [] OTHER -> "NOT_QUALIFIED"
QualificationAxis(reachable) ==
  /\ Stands("family")
  /\ With("done", [family |->
       IF MaySee("family") /\ reachable THEN QualificationState ELSE "UNAVAILABLE"])

\* The database may be away whenever it is asked.
Cockpit ==
  /\ \/ Read
     \/ \E reachable \in BOOLEAN :
          \/ PostgresAxis(reachable) \/ WorkerFacts(reachable) \/ WorkerRows(reachable)
          \/ WorkerReceipts(reachable) \/ SourceCapability(reachable) \/ SourceSnapshot(reachable)
          \/ ArtifactAxis(reachable) \/ QualificationAxis(reachable)
  /\ UNCHANGED authorities

-----------------------------------------------------------------------------
\* operations_status: the snapshot of the transaction is that of its first
\* statement; the leases are compared with the clock of the last.
Connect(reachable) ==
  /\ Stands("idle")
  /\ cockpit' = IF reachable THEN [pc |-> "verify", jobs |-> jobs, bytes |-> bytes]
                ELSE [pc |-> "done", artifacts |-> "UNAVAILABLE", worker |-> "UNAVAILABLE"]
StatusArtifacts(reachable) ==
  /\ Stands("verify")
  /\ With("count", [artifacts |-> IF ~reachable THEN "UNAVAILABLE"
                                  ELSE IF \E x \in Blobs : bytes[x] = "failed" THEN "ERROR" ELSE "READY"])
StatusWorker(reachable) ==
  /\ Stands("count")
  /\ With("done", [worker |-> IF reachable THEN QueueState(cockpit.jobs, clock) ELSE "UNAVAILABLE"])

Status ==
  /\ \E reachable \in BOOLEAN :
       Connect(reachable) \/ StatusArtifacts(reachable) \/ StatusWorker(reachable)
  /\ UNCHANGED authorities

Next == Authorities \/ Cockpit \/ Status

Spec == Init /\ [][Next]_vars

-----------------------------------------------------------------------------
Shown(axis) == cockpit[axis] \notin {"UNAVAILABLE", "NOT_QUALIFIED"}

\* Good news is not older than the read: what was terminal, expired, failed or
\* too old when a cockpit was asked for is not READY in it, unless it was mended
\* since; a lease that it shows as EXPIRED has expired, an effect that it shows
\* is committed, and nobody sees an axis that was granted to him at no instant of
\* the read.
CockpitIsEarned ==
  Stands("done") /\ "allowed" \in DOMAIN cockpit =>
    /\ cockpit.worker = "READY" =>
         /\ Terminal(cockpit.jobs) = {}
         /\ \A j \in Lapsed(cockpit.jobs, cockpit.began) : jobs[j] # cockpit.jobs[j]
    /\ \A j \in DOMAIN cockpit.rows : cockpit.rows[j].lease = "EXPIRED" => cockpit.rows[j].was <= clock
    /\ "receipts" \in DOMAIN cockpit => \A j \in cockpit.receipts : jobs[j].effect
    /\ cockpit.source = "READY" =>
         /\ cockpit.record.state = "READY"
         /\ cockpit.began - cockpit.record.available <= Freshness
    /\ cockpit.artifacts = "READY" => \A x \in Inspected : cockpit.bytes[x] = "sound"
    /\ Shown("source") => "source" \in cockpit.allowed
    /\ Shown("artifacts") => "artifacts" \in cockpit.allowed
    /\ Shown("family") => "family" \in cockpit.allowed

\* The same of the status command, which verifies all artifacts.  (Its STALE may
\* be of a lease that was renewed since its snapshot.)
StatusIsEarned ==
  Stands("done") /\ "allowed" \notin DOMAIN cockpit =>
    /\ cockpit.worker = "READY" => Terminal(cockpit.jobs) = {}
    /\ cockpit.artifacts = "READY" => \A x \in Blobs : cockpit.bytes[x] = "sound"
=============================================================================
