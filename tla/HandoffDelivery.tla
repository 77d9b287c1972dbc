--------------------------- MODULE HandoffDelivery --------------------------
(***************************************************************************)
(* Durable handoff delivery: application/handoff.py with                   *)
(* infrastructure/handoff.py, on top of the worker queue.                  *)
(*                                                                         *)
(* create_handoff is three transactions (intent, job, binding), dispatch   *)
(* is a chain of transactions around one external call, and reconciliation *)
(* runs beside both.  Every transaction boundary is a step of its own, and *)
(* so is every SELECT without FOR UPDATE whose result a later statement of *)
(* the same transaction relies on.  An intent and its delivery job are in  *)
(* one-to-one correspondence (semantic_key = handoff:<dedup_key>), so the  *)
(* intent also names the job.  Definitions marked "Mistake" are as in      *)
(* WorkerQueue.                                                            *)
(***************************************************************************)
EXTENDS Integers, FiniteSets

CONSTANTS Intents,       \* handoff intents, one per dedup_key
          Owners,        \* worker ids of the dispatchers
          Operators,     \* callers of reconcile_unknown
          MaxAttempts, LeaseDuration,
          MaxCount,      \* bound on attempt_count while reconciliation is fruitless
          None

VARIABLES job, leases, effects, aggregate, enqueuing, told,  \* WorkerQueue
          delivery,    \* handoff_delivery_status: state, attempt_count, job bound
          attempts,    \* handoff_delivery_attempt: <<attempt_no, state>> rows
          dispatcher,  \* local state of each dispatch_once call
          reconciler,  \* local state of each reconcile_unknown call
          reached,     \* external: the recipient has the message
          open         \* history: sends whose outcome nobody has recorded

queueVars == <<job, leases, effects, aggregate, enqueuing, told>>
localVars == <<dispatcher, reconciler, reached, open>>
vars == <<queueVars, delivery, attempts, localVars>>

Payload == "delivery"
Results == {"DELIVERED", "FAILED", "UNKNOWN"}

ASSUME HandoffAssumption ==
  /\ MaxAttempts \in Nat \ {0} /\ LeaseDuration \in Nat \ {0}
  /\ None \notin Owners \cup Results

Queue == INSTANCE WorkerQueue WITH
  Jobs <- Intents, Payloads <- {Payload}, EffectKeys <- 1..MaxAttempts,
  Inputs <- Results, MaxDelay <- 1, MaxVersion <- 0

States == {"ABSENT", "PENDING", "DISPATCHING"} \cup Results
DeliveryRow == [state: States, count: Nat, bound: BOOLEAN]
Outcome == [state: Results, retryable: BOOLEAN]
Calls == [pc: {"idle", "marked", "claimed", "read", "marking", "sending",
               "sent", "writing"},
          lease: Queue!Lease \cup {None}, seen: States \cup {"", "MISSING"},
          result: Outcome \cup {None}]
Idle == [pc |-> "idle", lease |-> None, seen |-> "", result |-> None]
Reconciliations == [pc: {"idle", "answered", "writing"}, count: Nat,
                    intent: Intents \cup {None}, result: Results \cup {None}]
Resting == [pc |-> "idle", count |-> 0, intent |-> None, result |-> None]

TypeOK ==
  /\ Queue!TypeOK
  /\ delivery \in [Intents -> DeliveryRow]
  /\ \A i \in Intents : attempts[i] \subseteq (Nat \ {0}) \X Results
  /\ dispatcher \in [Owners -> Calls]
  /\ reconciler \in [Operators -> Reconciliations]
  /\ reached \in [Intents -> BOOLEAN]
  /\ \A i \in Intents : open[i] \subseteq 1..MaxAttempts

Init ==
  /\ Queue!Init
  /\ delivery = [i \in Intents |-> [state |-> "ABSENT", count |-> 0, bound |-> FALSE]]
  /\ attempts = [i \in Intents |-> {}]
  /\ dispatcher = [w \in Owners |-> Idle]
  /\ reconciler = [r \in Operators |-> Resting]
  /\ reached = [i \in Intents |-> FALSE]
  /\ open = [i \in Intents |-> {}]

-----------------------------------------------------------------------------
\* create_handoff, first transaction.  A repeated call finds the rows and
\* leaves them alone.
InsertIntent(i) ==
  /\ delivery[i].state = "ABSENT"
  /\ delivery' = [delivery EXCEPT ![i].state = "PENDING"]
  /\ UNCHANGED <<queueVars, attempts, localVars>>

\* create_handoff, second transaction: enqueue under the dedup key.
EnqueueJob(i) ==
  /\ delivery[i].state # "ABSENT"
  /\ Queue!EnqueueSelect(i, Payload) \/ Queue!EnqueueInsert(i, Payload, 0)
  /\ UNCHANGED <<delivery, attempts, localVars>>

\* create_handoff, third transaction: the caller that was told its job writes
\* the job id into the intent and the delivery row.
BindJob(i) ==
  /\ <<i, Payload>> \in told
  /\ ~delivery[i].bound
  /\ delivery' = [delivery EXCEPT ![i].bound = TRUE]
  /\ UNCHANGED <<queueVars, attempts, localVars>>

-----------------------------------------------------------------------------
\* dispatch_once, in the order of its transactions.
At(w, pc) == dispatcher[w].pc = pc
LeaseOf(w) == dispatcher[w].lease
Target(w) == LeaseOf(w).job
Goto(w, pc) == dispatcher' = [dispatcher EXCEPT ![w].pc = pc]
Return(w) == dispatcher' = [dispatcher EXCEPT ![w] = Idle]

\* The deliveries whose worker let the lease expire become UNKNOWN.
LeaseExpired(i) == job[i].status = "RUNNING" /\ job[i].leaseLeft = 0

MarkExpired(w) ==
  /\ At(w, "idle")
  /\ delivery' = [i \in Intents |->
       IF /\ delivery[i].bound /\ LeaseExpired(i)
          /\ delivery[i].state \in {"PENDING", "DISPATCHING"}
       THEN [delivery[i] EXCEPT !.state = "UNKNOWN"] ELSE delivery[i]]
  /\ Goto(w, "marked")
  /\ UNCHANGED <<queueVars, attempts, reconciler, reached, open>>

ClaimJob(w) ==
  /\ At(w, "marked")
  /\ \E dead \in SUBSET Queue!Exhausted :
       \/ \E i \in Intents :
            /\ Queue!Claim(w, i, dead)
            /\ dispatcher' = [dispatcher EXCEPT ![w] =
                 [Idle EXCEPT !.pc = "claimed",
                              !.lease = [job |-> i, owner |-> w,
                                         epoch |-> job[i].epoch + 1]]]
       \/ Queue!ClaimNothing(dead) /\ Return(w)
  /\ UNCHANGED <<delivery, attempts, reconciler, reached, open>>

\* There was nothing to claim and nothing to dead-letter.  (A claim that saw
\* nothing but rows locked by others has the effect of Crash.)
ClaimNone(w) ==
  /\ At(w, "marked")
  /\ Queue!Claimable \cup Queue!Exhausted = {}
  /\ Return(w)
  /\ UNCHANGED <<queueVars, delivery, attempts, reconciler, reached, open>>

\* get_intent_for_job joins on the delivery's job id, so an unbound intent is
\* not found.
ReadIntent(w) ==
  /\ At(w, "claimed")
  /\ dispatcher' = [dispatcher EXCEPT ![w].pc = "read", ![w].seen =
       IF delivery[Target(w)].bound THEN delivery[Target(w)].state ELSE "MISSING"]
  /\ UNCHANGED <<queueVars, delivery, attempts, reconciler, reached, open>>

\* The job of a missing intent fails for good; a lost lease raises instead.
FailMissing(w) ==
  /\ At(w, "read")
  /\ dispatcher[w].seen = "MISSING"
  /\ \/ Queue!Fail(LeaseOf(w), FALSE, 0)
     \/ ~Queue!IsCurrent(LeaseOf(w)) /\ UNCHANGED queueVars
  /\ Return(w)
  /\ UNCHANGED <<delivery, attempts, reconciler, reached, open>>

\* The job of an UNKNOWN delivery is canceled, or cancel raises.
CancelUnknown(w) ==
  /\ At(w, "read")
  /\ dispatcher[w].seen = "UNKNOWN"
  /\ \/ Queue!CancelHeld(LeaseOf(w))
     \/ /\ ~(Queue!IsCurrent(LeaseOf(w)) /\ Queue!NoEffect(Target(w)))
        /\ UNCHANGED queueVars
  /\ Return(w)
  /\ UNCHANGED <<delivery, attempts, reconciler, reached, open>>

\* mark_delivery_dispatching: the lease is read without a lock ...
CheckLease(w) ==
  /\ At(w, "read")
  /\ dispatcher[w].seen \notin {"MISSING", "UNKNOWN"}
  /\ IF Queue!IsCurrent(LeaseOf(w)) THEN Goto(w, "marking") ELSE Return(w)
  /\ UNCHANGED <<queueVars, delivery, attempts, reconciler, reached, open>>

\* ... and the delivery is updated only if it is PENDING; a delivery that is
\* DISPATCHING or past it is accepted as it is.
AtLeast(m, n) == IF m < n THEN n ELSE m

MarkDispatching(w) ==
  LET i == Target(w)
  IN  /\ At(w, "marking")
      /\ delivery' = IF delivery[i].state # "PENDING" THEN delivery
           ELSE [delivery EXCEPT ![i].state = "DISPATCHING",
                                 ![i].count = AtLeast(@, job[i].attempts)]
      /\ Goto(w, "sending")
      /\ UNCHANGED <<queueVars, attempts, reconciler, reached, open>>

\* The recipient is resolved again and the channel is asked.  A revoked
\* recipient fails for good without a call; an exception leaves the outcome
\* UNKNOWN.  The channel keeps the idempotency key of what it delivered, so it
\* fails only a message that did not reach the recipient (external).
ChannelAnswers(i) ==
  {[state |-> "DELIVERED", retryable |-> FALSE], [state |-> "UNKNOWN", retryable |-> FALSE]}
    \cup {[state |-> "FAILED", retryable |-> b] : b \in IF reached[i] THEN {} ELSE BOOLEAN}

Send(w) ==
  LET i == Target(w)
      Answer(a) == dispatcher' = [dispatcher EXCEPT ![w].pc = "sent", ![w].result = a]
  IN  /\ At(w, "sending")
      /\ \/ /\ Answer([state |-> "FAILED", retryable |-> FALSE])
            /\ UNCHANGED <<reached, open>>
         \/ \E a \in ChannelAnswers(i) :
              /\ Answer(a)
              /\ reached' \in {[reached EXCEPT ![i] = b] : b \in
                   CASE a.state = "DELIVERED" -> {TRUE}
                     [] a.state = "FAILED" -> {FALSE}
                     [] OTHER -> {TRUE, reached[i]}}
              /\ open' = [open EXCEPT ![i] = @ \cup {LeaseOf(w).epoch}]
      /\ UNCHANGED <<queueVars, delivery, attempts, reconciler>>

\* Mistake: the primary key of the attempts is not enforced.
NumberIgnored(i, n) == n < 1

\* Mistakes: the job's status is written into the delivery; an ambiguous outcome
\* is taken for a delivery.
NextStateOfJob(epoch, result) ==
  IF result.state = "FAILED" /\ result.retryable /\ epoch < MaxAttempts
  THEN "QUEUED" ELSE result.state

NextStateOptimistic(epoch, result) ==
  IF result.state = "UNKNOWN" THEN "DELIVERED" ELSE result.state

\* Mistakes: the job is acknowledged with every recorded outcome; a job queued
\* again keeps its lease columns.
JobAcknowledged(r, state) ==
  IF state = "PENDING" THEN Queue!Postponed(Queue!Unleased(r, "QUEUED"), 1)
  ELSE Queue!Unleased(r, "SUCCEEDED")

JobKeepsLease(r, state) ==
  IF state = "PENDING" THEN [r EXCEPT !.status = "QUEUED", !.delay = 1]
  ELSE Queue!Unleased(r, IF state = "DELIVERED" THEN "SUCCEEDED" ELSE "FAILED")

\* Mistake: the UPDATE of the job does not name the grant.
StillThere(l) == job[l.job].status # "ABSENT"

\* commit_delivery_effect: the lease and the receipt are read without a lock ...
CommitCheck(w) ==
  /\ At(w, "sent")
  /\ IF Queue!IsCurrent(LeaseOf(w)) /\ ~Queue!HasReceipt(Target(w), LeaseOf(w).epoch)
       THEN Goto(w, "writing") ELSE Return(w)
  /\ UNCHANGED <<queueVars, delivery, attempts, reconciler, reached, open>>

\* ... and the rest of the transaction writes the delivery, the attempt, the
\* receipt and, while the job still carries this grant, the job.  The attempt
\* number is a primary key: a number that is taken rolls everything back.
NumberTaken(i, n) == \E a \in attempts[i] : a[1] = n

NextState(epoch, result) ==
  IF result.state = "FAILED" /\ result.retryable /\ epoch < MaxAttempts
  THEN "PENDING" ELSE result.state

JobAfter(r, state) ==
  CASE state = "DELIVERED" -> Queue!Unleased(r, "SUCCEEDED")
    [] state = "PENDING"   -> Queue!Postponed(Queue!Unleased(r, "QUEUED"), 1)
    [] OTHER               -> Queue!Unleased(r, "FAILED")

StillGranted(l) == /\ job[l.job].status = "RUNNING"
                   /\ job[l.job].owner = l.owner
                   /\ job[l.job].epoch = l.epoch

\* A recorded outcome other than UNKNOWN closes the sends it speaks for.
Closed(i, sends, state) ==
  open' = IF state = "UNKNOWN" THEN open ELSE [open EXCEPT ![i] = @ \ sends]

CommitWrite(w) ==
  LET l == LeaseOf(w)
      i == l.job
      result == dispatcher[w].result
      number == AtLeast(delivery[i].count + 1, l.epoch)
      state == NextState(l.epoch, result)
  IN  /\ At(w, "writing")
      /\ Return(w)
      /\ IF NumberTaken(i, number)
           THEN UNCHANGED <<queueVars, delivery, attempts, open>>
           ELSE /\ delivery' = [delivery EXCEPT ![i].state = state, ![i].count = number]
                /\ attempts' = [attempts EXCEPT ![i] = @ \cup {<<number, result.state>>}]
                /\ effects' = [effects EXCEPT ![i][l.epoch] =
                                 [input |-> result.state, revision |-> number]]
                /\ job' = IF StillGranted(l)
                            THEN [job EXCEPT ![i] = JobAfter(@, state)] ELSE job
                /\ Closed(i, {l.epoch}, result.state)
                /\ UNCHANGED <<leases, aggregate, enqueuing, told>>
      /\ UNCHANGED <<reconciler, reached>>

\* The dispatching process dies; its database transaction rolls back.
Crash(w) ==
  /\ ~At(w, "idle")
  /\ Return(w)
  /\ UNCHANGED <<queueVars, delivery, attempts, reconciler, reached, open>>

-----------------------------------------------------------------------------
\* reconcile_unknown: an UNKNOWN delivery is asked about at the channel.  The
\* bound on attempt_count only limits how often the channel has no answer.
AskChannel(r, i) ==
  /\ reconciler[r].pc = "idle"
  /\ delivery[i].state = "UNKNOWN"
  /\ \E s \in IF reached[i] THEN {"DELIVERED"}
              ELSE {"FAILED"} \cup {u \in {"UNKNOWN"} : delivery[i].count < MaxCount} :
       reconciler' = [reconciler EXCEPT ![r] =
         [pc |-> "answered", count |-> 0, intent |-> i, result |-> s]]
  /\ UNCHANGED <<queueVars, delivery, attempts, dispatcher, reached, open>>

\* The row is read without a lock; a delivery no longer UNKNOWN is left alone.
SelectUnknown(r) ==
  LET i == reconciler[r].intent
  IN  /\ reconciler[r].pc = "answered"
      /\ reconciler' = [reconciler EXCEPT ![r] =
           IF delivery[i].state # "UNKNOWN" THEN Resting
           ELSE [@ EXCEPT !.pc = "writing", !.count = delivery[i].count]]
      /\ UNCHANGED <<queueVars, delivery, attempts, dispatcher, reached, open>>

\* The UPDATE is guarded by UNKNOWN, the INSERT of the attempt is not.
WriteOutcome(r) ==
  LET i == reconciler[r].intent
      state == reconciler[r].result
      number == reconciler[r].count + 1
      unknown == delivery[i].state = "UNKNOWN"
  IN  /\ reconciler[r].pc = "writing"
      /\ reconciler' = [reconciler EXCEPT ![r] = Resting]
      /\ IF NumberTaken(i, number)
           THEN UNCHANGED <<delivery, attempts, open>>
           ELSE /\ delivery' = IF ~unknown THEN delivery
                     ELSE [delivery EXCEPT ![i].state = state, ![i].count = number]
                /\ attempts' = [attempts EXCEPT ![i] = @ \cup {<<number, state>>}]
                /\ IF unknown THEN Closed(i, 1..MaxAttempts, state) ELSE UNCHANGED open
      /\ UNCHANGED <<queueVars, dispatcher, reached>>

-----------------------------------------------------------------------------
Tick == Queue!Tick /\ UNCHANGED <<delivery, attempts, localVars>>

Create(i) == InsertIntent(i) \/ EnqueueJob(i) \/ BindJob(i)

Dispatch(w) ==
  \/ MarkExpired(w) \/ ClaimJob(w) \/ ClaimNone(w)
  \/ ReadIntent(w) \/ FailMissing(w) \/ CancelUnknown(w)
  \/ CheckLease(w) \/ MarkDispatching(w) \/ Send(w)
  \/ CommitCheck(w) \/ CommitWrite(w)

ReconcileUnknown(r) ==
  (\E i \in Intents : AskChannel(r, i)) \/ SelectUnknown(r) \/ WriteOutcome(r)

Next == \/ \E i \in Intents : Create(i)
        \/ \E w \in Owners : Dispatch(w) \/ Crash(w)
        \/ \E r \in Operators : ReconcileUnknown(r)
        \/ Tick

Spec == Init /\ [][Next]_vars

\* Fairness: the database clock advances, callers finish create_handoff, the
\* dispatchers keep being called and finish their transactions unless they
\* crash, and operators keep reconciling UNKNOWN deliveries.
LiveSpec ==
  /\ Spec
  /\ WF_vars(Tick)
  /\ \A i \in Intents : WF_vars(Create(i))
  /\ \A w \in Owners : WF_vars(Dispatch(w))
  /\ \A r \in Operators : WF_vars(ReconcileUnknown(r))

-----------------------------------------------------------------------------
\* The recipient has every message that is reported as delivered: by the
\* delivery state, by the attempt ledger, by a receipt or by the job.
DeliveredIsTrue ==
  \A i \in Intents :
    \/ delivery[i].state = "DELIVERED"
    \/ job[i].status = "SUCCEEDED"
    \/ \E a \in attempts[i] : a[2] = "DELIVERED"
    => reached[i]

\* The ledger of attempts and the receipts of the queue agree, although two
\* unlocked transactions write them: each receipt has the attempt it names, no
\* two receipts name the same one, and a job succeeds with a delivered receipt.
\* The queue's own promises hold, although commit_delivery_effect writes the job
\* row without locking it and without looking at the clock.
TablesAgree ==
  /\ Queue!OneGrantPerEpoch /\ Queue!RowMatchesGrant /\ Queue!AttemptBudget
  /\ \A i \in Intents :
       /\ \A k \in 1..MaxAttempts : Queue!HasReceipt(i, k) =>
            <<effects[i][k].revision, effects[i][k].input>> \in attempts[i]
       /\ \A k, n \in 1..MaxAttempts :
            Queue!HasReceipt(i, k) /\ effects[i][k] = effects[i][n] => k = n
       /\ job[i].status = "SUCCEEDED" =>
            \E k \in 1..MaxAttempts : effects[i][k].input = "DELIVERED"

\* The attempt ledger is append-only and one number has one row.
LedgerGrows(i) ==
  /\ attempts[i] \subseteq attempts'[i]
  /\ \A a, b \in attempts'[i] : a[1] = b[1] => a = b

\* The job row of a delivery that ended never changes.
EndedJobStays(i) ==
  job[i].status \in Queue!Terminal =>
    job'[i].status = job[i].status /\ job'[i].attempts = job[i].attempts

\* Nothing that was recorded is taken back, however late the worker is that
\* commits an outcome, and whatever reconciliation it meets.
NothingTakenBack == [][\A i \in Intents : LedgerGrows(i) /\ EndedJobStays(i)]_vars

\* From some time on no dispatcher crashes.  (A call that returns early changes
\* what a crash changes, but it is a step of Dispatch.)
CrashesStop == <>[][\A w \in Owners : Crash(w) => Dispatch(w)]_vars

\* Once the dispatchers stop crashing, every delivery job ends, wherever the
\* crashes left it and although outcomes are committed without the row lock: no
\* write brings back a lease that nobody holds, and no retry goes beyond the
\* attempts.
DeliveryJobsEnd ==
  CrashesStop =>
    \A i \in Intents : job[i].status = "QUEUED" ~> job[i].status \in Queue!Terminal

-----------------------------------------------------------------------------
\* What the documents say and the code does not do.

\* "External delivery is at-least-once": a delivery job is given up as FAILED
\* only after an outcome of an attempt was recorded.
FailedAfterAttempt ==
  \A i \in Intents : job[i].status = "FAILED" => attempts[i] # {}

\* "UNKNOWN is never blindly resent": a message goes out again only after the
\* outcome of the previous call was recorded.
NoBlindResend == \A i \in Intents : Cardinality(open[i]) <= 1

\* "Ambiguous outcomes remain UNKNOWN until explicit reconciliation": no
\* delivery stays DISPATCHING for ever, where nobody can reconcile it.
AmbiguityBecomesUnknown ==
  CrashesStop => \A i \in Intents :
    delivery[i].state = "DISPATCHING" ~> delivery[i].state # "DISPATCHING"

\* "Explicit reconciliation required": an UNKNOWN delivery can be reconciled.
\* The next attempt number must be free, or every reconciliation of it fails on
\* the primary key of the attempts.
Reconcilable ==
  \A i \in Intents :
    delivery[i].state = "UNKNOWN" => ~NumberTaken(i, delivery[i].count + 1)

\* "A job with a committed local effect cannot be silently canceled."
NoCanceledDelivery == Queue!NoCanceledEffect
=============================================================================
