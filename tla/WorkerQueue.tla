----------------------------- MODULE WorkerQueue ----------------------------
(***************************************************************************)
(* The durable worker queue of infrastructure/postgresql_worker.py over    *)
(* the tables job and applied_effect: idempotent enqueue, claims under a   *)
(* lease with a fencing epoch, heartbeats, retries, deferral, dead         *)
(* letters, cancellation and local effects with receipts.                  *)
(*                                                                         *)
(* Every operation but enqueue is one transaction that locks the rows it   *)
(* decides on, so each is one action.  Times are kept relative to the      *)
(* database clock: leaseLeft is lease_expires_at - now and delay is        *)
(* available_at - now, both cut off at 0, and Tick lets the clock advance. *)
(* A worker acts on any lease it was ever handed, current or not, so a     *)
(* stalled worker that wakes up after its lease was reassigned is the      *)
(* normal case and a crashed worker is one that takes no more steps.       *)
(*                                                                         *)
(* A definition marked "Mistake" is a plausible error in the code under    *)
(* it.  Nothing uses it: each property is shown to fail when the mistake   *)
(* takes the place of the definition that follows it.                      *)
(***************************************************************************)
EXTENDS Integers, FiniteSets

CONSTANTS Jobs,          \* job rows, one per (scope_key, semantic_key)
          Payloads,      \* (job_type, payload_hash) pairs a caller may ask for
          Owners,        \* worker identities
          EffectKeys,    \* effect keys of commit_local_effect
          Inputs,        \* input hashes of commit_local_effect
          MaxAttempts,   \* max_attempts of every job
          LeaseDuration, \* WorkerLeaseConfig.lease_duration, in ticks
          MaxDelay,      \* bound on how far ahead available_at is set
          MaxVersion,    \* bound on the version of the target aggregate
          None           \* SQL NULL

ASSUME QueueAssumption ==
  /\ MaxAttempts \in Nat \ {0}
  /\ LeaseDuration \in Nat \ {0}
  /\ MaxDelay \in Nat \ {0}
  /\ MaxVersion \in Nat
  /\ None \notin Owners
  /\ None \notin Payloads
  /\ None \notin Inputs

VARIABLES job,        \* the table job; status "ABSENT" is a row not inserted
          leases,     \* every WorkerLease ever returned by claim
          effects,    \* the table applied_effect
          aggregate,  \* the target aggregate: its version and effect_count
          enqueuing,  \* enqueue calls between their SELECT and their INSERT
          told        \* the (job, payload) pairs enqueue returned a job for

vars == <<job, leases, effects, aggregate, enqueuing, told>>

-----------------------------------------------------------------------------
Terminal == {"SUCCEEDED", "FAILED", "DEAD_LETTER", "CANCELED"}
Statuses == {"ABSENT", "QUEUED", "RUNNING", "DEFERRED"} \cup Terminal

JobRow == [status: Statuses, payload: Payloads \cup {None}, attempts: Nat,
           owner: Owners \cup {None}, epoch: Nat, leaseLeft: Nat, delay: Nat]
Lease == [job: Jobs, owner: Owners, epoch: Nat]
Receipt == [input: Inputs, revision: Nat]
NoReceipt == [input |-> None, revision |-> 0]
Requests == Jobs \X Payloads

AbsentRow == [status |-> "ABSENT", payload |-> None, attempts |-> 0,
              owner |-> None, epoch |-> 0, leaseLeft |-> 0, delay |-> 0]

TypeOK ==
  /\ job \in [Jobs -> JobRow]
  /\ leases \subseteq Lease
  /\ effects \in [Jobs -> [EffectKeys -> Receipt \cup {NoReceipt}]]
  /\ aggregate \in [version: Nat, effectCount: Nat]
  /\ enqueuing \subseteq Requests
  /\ told \subseteq Requests

Init ==
  /\ job = [j \in Jobs |-> AbsentRow]
  /\ leases = {}
  /\ effects = [j \in Jobs |-> [k \in EffectKeys |-> NoReceipt]]
  /\ aggregate = [version |-> 0, effectCount |-> 0]
  /\ enqueuing = {}
  /\ told = {}

-----------------------------------------------------------------------------
HasReceipt(j, k) == effects[j][k] # NoReceipt
Committed == {e \in Jobs \X EffectKeys : HasReceipt(e[1], e[2])}

\* Mistake: the epoch is not compared.
IsCurrentByOwner(l) ==
  /\ job[l.job].status = "RUNNING"
  /\ job[l.job].owner = l.owner
  /\ job[l.job].leaseLeft > 0

\* The lease predicate every UPDATE repeats: RUNNING, same owner, same epoch,
\* and lease_expires_at > clock_timestamp().
IsCurrent(l) ==
  /\ job[l.job].status = "RUNNING"
  /\ job[l.job].owner = l.owner
  /\ job[l.job].epoch = l.epoch
  /\ job[l.job].leaseLeft > 0

\* Mistake: lease_owner is not cleared.
UnleasedButOwned(r, status) == [r EXCEPT !.status = status, !.leaseLeft = 0]

\* The row r after it left its owner with the given status.
Unleased(r, status) ==
  [r EXCEPT !.status = status, !.owner = None, !.leaseLeft = 0]

-----------------------------------------------------------------------------
\* Mistake: the stored payload hash is not compared.
ResolveAny(j, p) == told' = told \cup {<<j, p>>}

\* enqueue, an existing row: the same type and payload is answered with the
\* stored job, anything else raises JobSemanticConflictError.
Resolve(j, p) ==
  told' = IF job[j].payload = p THEN told \cup {<<j, p>>} ELSE told

\* enqueue, first statement: SELECT ... FOR UPDATE locks nothing when the row
\* does not exist, so two callers may both go on to their INSERT.
EnqueueSelect(j, p) ==
  /\ IF job[j].status = "ABSENT"
       THEN /\ enqueuing' = enqueuing \cup {<<j, p>>}
            /\ UNCHANGED told
       ELSE /\ Resolve(j, p)
            /\ UNCHANGED enqueuing
  /\ UNCHANGED <<job, leases, effects, aggregate>>

\* enqueue, second statement: the INSERT, or its unique conflict, which rolls
\* back and resolves against the winner's row in a new transaction.
EnqueueInsert(j, p, d) ==
  /\ <<j, p>> \in enqueuing
  /\ enqueuing' = enqueuing \ {<<j, p>>}
  /\ IF job[j].status = "ABSENT"
       THEN /\ job' = [job EXCEPT ![j] =
                         [@ EXCEPT !.status = "QUEUED", !.payload = p, !.delay = d]]
            /\ told' = told \cup {<<j, p>>}
       ELSE /\ Resolve(j, p)
            /\ UNCHANGED job
  /\ UNCHANGED <<leases, effects, aggregate>>

\* Mistakes: an exhausted lease is not collected; every idle row out of attempts
\* is; attempts are compared off by one.
ExhaustedIdle ==
  {j \in Jobs : /\ job[j].attempts >= MaxAttempts
                /\ job[j].status \in {"QUEUED", "DEFERRED"} /\ job[j].delay = 0}

ExhaustedAnyStatus ==
  {j \in Jobs : job[j].attempts >= MaxAttempts /\ job[j].leaseLeft = 0}

ExhaustedEarly ==
  {j \in Jobs : /\ job[j].attempts + 1 >= MaxAttempts
                /\ job[j].status = "RUNNING" /\ job[j].leaseLeft = 0}

\* claim: due rows without attempts left, and due rows with some left.
Exhausted ==
  {j \in Jobs : /\ job[j].attempts >= MaxAttempts
                /\ \/ job[j].status = "RUNNING" /\ job[j].leaseLeft = 0
                   \/ job[j].status \in {"QUEUED", "DEFERRED"} /\ job[j].delay = 0}

\* Mistake: attempts are not compared.
ClaimableForEver ==
  {j \in Jobs : /\ job[j].status \in {"QUEUED", "DEFERRED", "RUNNING"}
                /\ job[j].delay = 0
                /\ job[j].leaseLeft = 0}

Claimable ==
  {j \in Jobs : /\ job[j].status \in {"QUEUED", "DEFERRED", "RUNNING"}
                /\ job[j].attempts < MaxAttempts
                /\ job[j].delay = 0
                /\ job[j].leaseLeft = 0}

\* Mistakes: a takeover keeps the epoch; a takeover costs no attempt.
ClaimedSameEpoch(r, o) ==
  [r EXCEPT !.status = "RUNNING", !.attempts = @ + 1, !.owner = o,
            !.leaseLeft = LeaseDuration]

ClaimedFree(r, o) ==
  [r EXCEPT !.status = "RUNNING", !.owner = o, !.epoch = @ + 1,
            !.leaseLeft = LeaseDuration]

ClaimedRow(r, o) ==
  [r EXCEPT !.status = "RUNNING", !.attempts = @ + 1, !.owner = o,
            !.epoch = @ + 1, !.leaseLeft = LeaseDuration]

\* claim: one statement dead-letters the exhausted rows and leases one
\* claimable row.  FOR UPDATE SKIP LOCKED passes over the rows that other
\* transactions hold, so which rows it sees is not determined.
Claim(o, j, dead) ==
  /\ j \in Claimable
  /\ dead \subseteq Exhausted
  /\ job' = [i \in Jobs |-> IF i \in dead THEN Unleased(job[i], "DEAD_LETTER")
                            ELSE IF i = j THEN ClaimedRow(job[i], o)
                            ELSE job[i]]
  /\ leases' = leases \cup {[job |-> j, owner |-> o, epoch |-> job[j].epoch + 1]}
  /\ UNCHANGED <<effects, aggregate, enqueuing, told>>

\* claim that finds no candidate and is not asked to raise: only the dead
\* letters are committed.
ClaimNothing(dead) ==
  /\ dead # {}
  /\ dead \subseteq Exhausted
  /\ job' = [i \in Jobs |-> IF i \in dead THEN Unleased(job[i], "DEAD_LETTER")
                            ELSE job[i]]
  /\ UNCHANGED <<leases, effects, aggregate, enqueuing, told>>

Heartbeat(l) ==
  /\ IsCurrent(l)
  /\ job' = [job EXCEPT ![l.job].leaseLeft = LeaseDuration]
  /\ UNCHANGED <<leases, effects, aggregate, enqueuing, told>>

Complete(l) ==
  /\ IsCurrent(l)
  /\ job' = [job EXCEPT ![l.job] = Unleased(@, "SUCCEEDED")]
  /\ UNCHANGED <<leases, effects, aggregate, enqueuing, told>>

\* fail: a retryable failure is queued again while attempts remain, after the
\* caller's next_available_at or the capped exponential backoff (any delay d).
FailStatus(r, retryable) ==
  IF ~retryable THEN "FAILED"
  ELSE IF r.attempts < MaxAttempts THEN "QUEUED" ELSE "DEAD_LETTER"

Postponed(r, d) == [r EXCEPT !.delay = d]

Fail(l, retryable, d) ==
  LET status == FailStatus(job[l.job], retryable)
      failed == Unleased(job[l.job], status)
  IN  /\ IsCurrent(l)
      /\ job' = [job EXCEPT ![l.job] =
                   IF status = "QUEUED" THEN Postponed(failed, d) ELSE failed]
      /\ UNCHANGED <<leases, effects, aggregate, enqueuing, told>>

\* defer: available_at must be in the future; the attempt stays spent.
Defer(l, d) ==
  /\ IsCurrent(l)
  /\ d > 0
  /\ job' = [job EXCEPT ![l.job] = Postponed(Unleased(@, "DEFERRED"), d)]
  /\ UNCHANGED <<leases, effects, aggregate, enqueuing, told>>

\* Mistake: applied_effect is not consulted.
NoEffectAssumed(j) == j \in Jobs

\* cancel: refused for a terminal job and for one with a committed effect; a
\* running job needs its current lease, or a lease that has expired.
NoEffect(j) == \A k \in EffectKeys : ~HasReceipt(j, k)

CancelHeld(l) ==
  /\ NoEffect(l.job)
  /\ IsCurrent(l)
  /\ job' = [job EXCEPT ![l.job] = Unleased(@, "CANCELED")]
  /\ UNCHANGED <<leases, effects, aggregate, enqueuing, told>>

CancelUnheld(j) ==
  /\ NoEffect(j)
  /\ \/ job[j].status \in {"QUEUED", "DEFERRED"}
     \/ job[j].status = "RUNNING" /\ job[j].leaseLeft = 0
  /\ job' = [job EXCEPT ![j] = Unleased(@, "CANCELED")]
  /\ UNCHANGED <<leases, effects, aggregate, enqueuing, told>>

\* Mistake: the receipt is not looked up first.
CommitAgain(l, k, i) ==
  /\ IsCurrent(l)
  /\ aggregate.version < MaxVersion
  /\ aggregate' = [version |-> aggregate.version + 1,
                   effectCount |-> aggregate.effectCount + 1]
  /\ effects' = [effects EXCEPT ![l.job][k] =
                   [input |-> i, revision |-> aggregate.version + 1]]
  /\ UNCHANGED <<job, leases, enqueuing, told>>

\* commit_local_effect: the mutation of the aggregate and the receipt commit
\* together.  An existing receipt for the key is returned (same input) or
\* refused (other input), and nothing changes.
CommitLocalEffect(l, k, i) ==
  /\ IsCurrent(l)
  /\ ~HasReceipt(l.job, k)
  /\ aggregate.version < MaxVersion
  /\ aggregate' = [version |-> aggregate.version + 1,
                   effectCount |-> aggregate.effectCount + 1]
  /\ effects' = [effects EXCEPT ![l.job][k] =
                   [input |-> i, revision |-> aggregate.version + 1]]
  /\ UNCHANGED <<job, leases, enqueuing, told>>

\* A command of the transaction core moves the same aggregate forward.
ForeignWrite ==
  /\ aggregate.version < MaxVersion
  /\ aggregate' = [aggregate EXCEPT !.version = @ + 1]
  /\ UNCHANGED <<job, leases, effects, enqueuing, told>>

\* Mistake: the difference to the clock is not cut off.
CutOffNowhere(n) == n

\* The database clock advances by one tick.
CutOff(n) == IF n > 0 THEN n ELSE 0

Ticked(r) == [r EXCEPT !.leaseLeft = CutOff(@ - 1), !.delay = CutOff(@ - 1)]

Tick ==
  /\ job' = [j \in Jobs |-> Ticked(job[j])]
  /\ UNCHANGED <<leases, effects, aggregate, enqueuing, told>>

-----------------------------------------------------------------------------
Enqueue == \E j \in Jobs, p \in Payloads :
             \/ EnqueueSelect(j, p)
             \/ \E d \in 0..MaxDelay : EnqueueInsert(j, p, d)

ClaimPass == \E dead \in SUBSET Jobs :
               \/ \E o \in Owners, j \in Jobs : Claim(o, j, dead)
               \/ ClaimNothing(dead)

UseLease(l) == \/ Heartbeat(l) \/ Complete(l) \/ CancelHeld(l)
               \/ \E d \in 0..MaxDelay :
                    \/ \E retryable \in BOOLEAN : Fail(l, retryable, d)
                    \/ Defer(l, d)
               \/ \E k \in EffectKeys, i \in Inputs : CommitLocalEffect(l, k, i)

Next == \/ Enqueue
        \/ ClaimPass
        \/ \E l \in leases : UseLease(l)
        \/ \E j \in Jobs : CancelUnheld(j)
        \/ ForeignWrite
        \/ Tick

Spec == Init /\ [][Next]_vars

-----------------------------------------------------------------------------
\* Two grants of the same job under the same epoch went to the same owner: the
\* pair (lease_owner, lease_epoch) that every guarded UPDATE compares names one
\* call of claim, even after any number of expiries and re-claims.
OneGrantPerEpoch ==
  \A l1, l2 \in leases :
    l1.job = l2.job /\ l1.epoch = l2.epoch => l1.owner = l2.owner

\* A row is RUNNING exactly while some worker holds the grant it names; the
\* columns of the lease are cleared on every way out of RUNNING.
RowMatchesGrant ==
  \A j \in Jobs :
    /\ job[j].status = "RUNNING" <=> job[j].owner # None
    /\ job[j].status = "RUNNING" =>
         [job |-> j, owner |-> job[j].owner, epoch |-> job[j].epoch] \in leases
    /\ job[j].status # "RUNNING" => job[j].leaseLeft = 0

\* The attempt budget: every grant spends one attempt, no job is granted more
\* often than max_attempts, and only a job that spent its budget is dead.
AttemptBudget ==
  \A j \in Jobs :
    /\ \A l \in leases : l.job = j => l.epoch <= job[j].attempts
    /\ job[j].attempts <= MaxAttempts
    /\ job[j].status = "DEAD_LETTER" => job[j].attempts = MaxAttempts

\* Each committed effect reached the aggregate exactly once: the aggregate
\* counts the receipts, and no two receipts claim the same revision of it.
EffectsExactlyOnce ==
  /\ aggregate.effectCount = Cardinality(Committed)
  /\ \A e \in Committed : effects[e[1]][e[2]].revision \in 1..aggregate.version
  /\ \A e, f \in Committed :
       effects[e[1]][e[2]].revision = effects[f[1]][f[2]].revision => e = f

\* A job with a committed local effect is never canceled, whichever of cancel
\* and commit_local_effect comes first.
NoCanceledEffect ==
  \A e \in Committed : job[e[1]].status # "CANCELED"

\* Two callers that enqueue under one semantic key are never both told that
\* their different requests were accepted, and an answer stays true.
EnqueueAgreement == \A r \in told : job[r[1]].payload = r[2]

\* A lease that lapsed (expired, superseded or ended) never becomes current
\* again, not even for an owner that is granted the same job later.
LapsedStaysLapsed ==
  [][\A l \in leases : ~IsCurrent(l) => ~IsCurrent(l)']_vars

\* A terminal job is final: neither its row nor its receipts ever change.
TerminalIsFinal ==
  [][\A j \in Jobs : job[j].status \in Terminal =>
       /\ job'[j] = [job[j] EXCEPT !.delay = job'[j].delay]
       /\ effects'[j] = effects[j]]_vars

\* The inductive invariant: the properties above, strengthened by what they
\* lean on.  Epochs count attempts, so an epoch granted once is never granted
\* again; a row that was not inserted carries no payload, so no caller can have
\* been told about it.
EpochCountsAttempts == \A j \in Jobs : job[j].epoch = job[j].attempts

AbsentHasNoPayload ==
  \A j \in Jobs : job[j].status = "ABSENT" <=> job[j].payload = None

QueueInv ==
  /\ TypeOK
  /\ EpochCountsAttempts /\ OneGrantPerEpoch /\ RowMatchesGrant /\ AttemptBudget
  /\ AbsentHasNoPayload /\ EnqueueAgreement
  /\ IsFiniteSet(Committed) /\ EffectsExactlyOnce /\ NoCanceledEffect

-----------------------------------------------------------------------------
\* The queue as its users see it: FencedJobs.
PhaseOf(status) == CASE status = "ABSENT" -> "absent"
                     [] status \in {"QUEUED", "DEFERRED"} -> "waiting"
                     [] status = "RUNNING" -> "held"
                     [] status = "CANCELED" -> "withdrawn"
                     [] OTHER -> "settled"

AbsPhase == [j \in Jobs |-> PhaseOf(job[j].status)]
AbsEpoch == [j \in Jobs |-> job[j].epoch]
AbsApplied == [j \in Jobs |-> {k \in EffectKeys : HasReceipt(j, k)}]

Fenced == INSTANCE FencedJobs
            WITH phase <- AbsPhase, epoch <- AbsEpoch, applied <- AbsApplied

\* The queue implements the fenced jobs: rows, leases, clock and retries do
\* nothing that the abstract queue does not allow.
RefinesFencedJobs == Fenced!Spec

=============================================================================
