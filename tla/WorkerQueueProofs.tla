-------------------------- MODULE WorkerQueueProofs -------------------------
(***************************************************************************)
(* Proofs about WorkerQueue, for any sets of jobs, owners, payloads, effect *)
(* keys and inputs, and any bounds allowed by QueueAssumption.             *)
(***************************************************************************)
EXTENDS WorkerQueue, FiniteSetTheorems, TLAPS

\* What the row of a job looks like after it left its owner.
LEMMA UnleasedRow ==
  ASSUME NEW r \in JobRow, NEW s \in Statuses
  PROVE  /\ Unleased(r, s) \in JobRow
         /\ Unleased(r, s).status = s
         /\ Unleased(r, s).owner = None
         /\ Unleased(r, s).leaseLeft = 0
         /\ Unleased(r, s).payload = r.payload
         /\ Unleased(r, s).attempts = r.attempts
         /\ Unleased(r, s).epoch = r.epoch
         /\ Unleased(r, s).delay = r.delay
BY DEF Unleased, JobRow

\* A failed lease leaves its job in one of three statuses.
LEMMA FailStatusType ==
  ASSUME NEW r, NEW retryable \in BOOLEAN
  PROVE  FailStatus(r, retryable) \in {"FAILED", "QUEUED", "DEAD_LETTER"}
BY DEF FailStatus

\* What the row of a job looks like after its available_at was moved.
LEMMA PostponedRow ==
  ASSUME NEW r \in JobRow, NEW d \in Nat
  PROVE  /\ Postponed(r, d) \in JobRow
         /\ Postponed(r, d).status = r.status
         /\ Postponed(r, d).owner = r.owner
         /\ Postponed(r, d).leaseLeft = r.leaseLeft
         /\ Postponed(r, d).payload = r.payload
         /\ Postponed(r, d).attempts = r.attempts
         /\ Postponed(r, d).epoch = r.epoch
         /\ Postponed(r, d).delay = d
BY DEF Postponed, JobRow

\* The row of a job a worker just claimed.
LEMMA ClaimedRowFields ==
  ASSUME NEW r \in JobRow, NEW o \in Owners
  PROVE  /\ ClaimedRow(r, o) \in JobRow
         /\ ClaimedRow(r, o).status = "RUNNING"
         /\ ClaimedRow(r, o).owner = o
         /\ ClaimedRow(r, o).payload = r.payload
         /\ ClaimedRow(r, o).attempts = r.attempts + 1
         /\ ClaimedRow(r, o).epoch = r.epoch + 1
         /\ ClaimedRow(r, o).leaseLeft = LeaseDuration
         /\ ClaimedRow(r, o).delay = r.delay
<1> DEFINE u(a, e, n) == [r EXCEPT !.status = "RUNNING", !.attempts = a,
                                   !.owner = o, !.epoch = e, !.leaseLeft = n]
<1>1. ASSUME NEW a \in Nat, NEW e \in Nat, NEW n \in Nat
      PROVE  /\ u(a, e, n) \in JobRow
             /\ u(a, e, n).status = "RUNNING"
             /\ u(a, e, n).owner = o
             /\ u(a, e, n).payload = r.payload
             /\ u(a, e, n).attempts = a
             /\ u(a, e, n).epoch = e
             /\ u(a, e, n).leaseLeft = n
             /\ u(a, e, n).delay = r.delay
  BY DEF JobRow, Statuses
<1>2. LeaseDuration \in Nat /\ r.attempts + 1 \in Nat /\ r.epoch + 1 \in Nat
  BY QueueAssumption DEF JobRow
<1>3. ClaimedRow(r, o) = u(r.attempts + 1, r.epoch + 1, LeaseDuration)
  BY DEF ClaimedRow
<1> HIDE DEF u
<1> QED BY <1>1, <1>2, <1>3

\* What the clock does to the row of a job.
LEMMA TickedRow ==
  ASSUME NEW r \in JobRow
  PROVE  /\ Ticked(r) \in JobRow
         /\ Ticked(r).status = r.status
         /\ Ticked(r).owner = r.owner
         /\ Ticked(r).payload = r.payload
         /\ Ticked(r).attempts = r.attempts
         /\ Ticked(r).epoch = r.epoch
         /\ Ticked(r).leaseLeft <= r.leaseLeft
         /\ Ticked(r).delay <= r.delay
<1> DEFINE u(n, d) == [r EXCEPT !.leaseLeft = n, !.delay = d]
<1>1. ASSUME NEW n \in Nat, NEW d \in Nat
      PROVE  /\ u(n, d) \in JobRow
             /\ u(n, d).status = r.status
             /\ u(n, d).owner = r.owner
             /\ u(n, d).payload = r.payload
             /\ u(n, d).attempts = r.attempts
             /\ u(n, d).epoch = r.epoch
             /\ u(n, d).leaseLeft = n
             /\ u(n, d).delay = d
  BY DEF JobRow
<1>2. \A n \in Nat : CutOff(n - 1) \in Nat /\ CutOff(n - 1) <= n
  BY DEF CutOff
<1>3. r.leaseLeft \in Nat /\ r.delay \in Nat
  BY DEF JobRow
<1>4. Ticked(r) = u(CutOff(r.leaseLeft - 1), CutOff(r.delay - 1))
  BY DEF Ticked
<1> HIDE DEF u
<1> QED BY <1>1, <1>2, <1>3, <1>4

-----------------------------------------------------------------------------
LEMMA TypeInit == Init => TypeOK
BY QueueAssumption DEF Init, TypeOK, JobRow, AbsentRow, Statuses, NoReceipt

LEMMA TypeStep == TypeOK /\ [Next]_vars => TypeOK'
<1> SUFFICES ASSUME TypeOK, [Next]_vars PROVE TypeOK'
  OBVIOUS
<1> USE DEF TypeOK
<1>1. CASE Enqueue
  <2>1. ASSUME NEW j \in Jobs, NEW p \in Payloads, EnqueueSelect(j, p)
        PROVE  TypeOK'
    BY <2>1 DEF EnqueueSelect, Resolve, Requests
  <2>2. ASSUME NEW j \in Jobs, NEW p \in Payloads, NEW d \in 0..MaxDelay,
               EnqueueInsert(j, p, d)
        PROVE  TypeOK'
    <3>1. d \in Nat
      BY QueueAssumption
    <3>2. [job[j] EXCEPT !.status = "QUEUED", !.payload = p, !.delay = d]
            \in JobRow
      BY <3>1 DEF JobRow, Statuses
    <3> QED BY <2>2, <3>2 DEF EnqueueInsert, Resolve, Requests
  <2> QED BY <1>1, <2>1, <2>2 DEF Enqueue
<1>2. CASE ClaimPass
  <2> PICK dead \in SUBSET Jobs :
         \/ \E o \in Owners, j \in Jobs : Claim(o, j, dead)
         \/ ClaimNothing(dead)
    BY <1>2 DEF ClaimPass
  <2>1. \A j \in Jobs : Unleased(job[j], "DEAD_LETTER") \in JobRow
    BY UnleasedRow DEF Statuses, Terminal
  <2>2. ASSUME NEW o \in Owners, NEW j \in Jobs, Claim(o, j, dead)
        PROVE  TypeOK'
    <3>1. ClaimedRow(job[j], o) \in JobRow
      BY ClaimedRowFields
    <3>2. [job |-> j, owner |-> o, epoch |-> job[j].epoch + 1] \in Lease
      BY DEF Lease, JobRow
    <3> QED BY <2>1, <2>2, <3>1, <3>2 DEF Claim
  <2>3. ASSUME ClaimNothing(dead) PROVE TypeOK'
    BY <2>1, <2>3 DEF ClaimNothing
  <2> QED BY <2>2, <2>3
<1>3. ASSUME NEW l \in leases, UseLease(l) PROVE TypeOK'
  <2> l.job \in Jobs
    BY DEF Lease
  <2>1. CASE Heartbeat(l)
    BY <2>1, QueueAssumption DEF Heartbeat, JobRow
  <2>2. CASE Complete(l)
    BY <2>2, UnleasedRow DEF Complete, Statuses, Terminal
  <2>3. CASE CancelHeld(l)
    BY <2>3, UnleasedRow DEF CancelHeld, Statuses, Terminal
  <2>4. ASSUME NEW d \in 0..MaxDelay, NEW retryable \in BOOLEAN,
               Fail(l, retryable, d)
        PROVE  TypeOK'
    <3> DEFINE s == FailStatus(job[l.job], retryable)
    <3>1. d \in Nat
      BY QueueAssumption
    <3>2. s \in Statuses
      BY FailStatusType DEF Statuses, Terminal
    <3>3. Unleased(job[l.job], s) \in JobRow
      BY <3>2, UnleasedRow
    <3>4. Postponed(Unleased(job[l.job], s), d) \in JobRow
      BY <3>1, <3>3, PostponedRow
    <3> QED BY <2>4, <3>3, <3>4 DEF Fail
  <2>5. ASSUME NEW d \in 0..MaxDelay, Defer(l, d) PROVE TypeOK'
    <3>1. d \in Nat
      BY QueueAssumption
    <3>2. Unleased(job[l.job], "DEFERRED") \in JobRow
      BY UnleasedRow DEF Statuses
    <3>3. Postponed(Unleased(job[l.job], "DEFERRED"), d) \in JobRow
      BY <3>1, <3>2, PostponedRow
    <3> QED BY <2>5, <3>3 DEF Defer
  <2>6. ASSUME NEW k \in EffectKeys, NEW i \in Inputs, CommitLocalEffect(l, k, i)
        PROVE  TypeOK'
    <3>1. [input |-> i, revision |-> aggregate.version + 1] \in Receipt
      BY DEF Receipt
    <3> QED BY <2>6, <3>1 DEF CommitLocalEffect
  <2> QED BY <1>3, <2>1, <2>2, <2>3, <2>4, <2>5, <2>6 DEF UseLease
<1>4. ASSUME NEW j \in Jobs, CancelUnheld(j) PROVE TypeOK'
  BY <1>4, UnleasedRow DEF CancelUnheld, Statuses, Terminal
<1>5. CASE ForeignWrite
  BY <1>5 DEF ForeignWrite
<1>6. CASE Tick
  BY <1>6, TickedRow DEF Tick
<1>7. CASE UNCHANGED vars
  BY <1>7 DEF vars
<1> QED BY <1>1, <1>2, <1>3, <1>4, <1>5, <1>6, <1>7 DEF Next

\* Every reachable state of the queue is well typed.
THEOREM TypeCorrect == Spec => []TypeOK
BY TypeInit, TypeStep, PTL DEF Spec

-----------------------------------------------------------------------------
(***************************************************************************)
(* All steps but a claim and an insert keep the grant of every row: they   *)
(* leave payload, attempts and epoch alone and either keep the holder or   *)
(* drop it together with the lease.  That one fact carries most of the     *)
(* inductive step.                                                         *)
(***************************************************************************)
Holds(j) == /\ job'[j].status = job[j].status
            /\ job'[j].owner = job[j].owner
            /\ job[j].leaseLeft = 0 /\ job[j].status # "RUNNING" =>
                 job'[j].leaseLeft = 0

Drops(j) == /\ job[j].status # "ABSENT"
            /\ job'[j].status \notin {"ABSENT", "RUNNING"}
            /\ job'[j].owner = None
            /\ job'[j].leaseLeft = 0
            /\ job'[j].status = "DEAD_LETTER" => job[j].attempts >= MaxAttempts
            /\ job'[j].status = "CANCELED" => NoEffect(j) /\ effects' = effects

Keeps(j) == /\ job'[j].payload = job[j].payload
            /\ job'[j].attempts = job[j].attempts
            /\ job'[j].epoch = job[j].epoch
            /\ Holds(j) \/ Drops(j)

LEMMA SameRowKeeps ==
  ASSUME NEW j \in Jobs, job'[j] = job[j] PROVE Keeps(j)
BY DEF Keeps, Holds

\* An operation on a held lease keeps the grants.
LEMMA UseLeaseKeeps ==
  ASSUME TypeOK, NEW l \in leases, UseLease(l)
  PROVE  leases' = leases /\ told' = told /\ \A j \in Jobs : Keeps(j)
<1> l.job \in Jobs /\ job \in [Jobs -> JobRow]
  BY DEF TypeOK, Lease
<1> USE DEF Keeps, Holds, Drops, IsCurrent
<1>1. CASE Heartbeat(l)
  <2>1. QueueAssumption /\ LeaseDuration \in Nat
    BY QueueAssumption
  <2>2. ASSUME NEW n \in Nat, NEW r \in JobRow
        PROVE  LET u == [r EXCEPT !.leaseLeft = n]
               IN  /\ u.payload = r.payload /\ u.attempts = r.attempts
                   /\ u.epoch = r.epoch /\ u.status = r.status
                   /\ u.owner = r.owner
    BY DEF JobRow
  <2> QED BY <1>1, <2>1, <2>2 DEF Heartbeat
<1>2. CASE Complete(l)
  BY <1>2, UnleasedRow DEF Complete, Statuses, Terminal
<1>3. CASE CancelHeld(l)
  BY <1>3, UnleasedRow DEF CancelHeld, Statuses, Terminal
<1>4. ASSUME NEW d \in 0..MaxDelay, NEW retryable \in BOOLEAN,
             Fail(l, retryable, d)
      PROVE  leases' = leases /\ told' = told /\ \A j \in Jobs : Keeps(j)
  <2> DEFINE s == FailStatus(job[l.job], retryable)
             u == Unleased(job[l.job], s)
             n == IF s = "QUEUED" THEN Postponed(u, d) ELSE u
  <2>1. d \in Nat
    BY QueueAssumption
  <2>2. /\ s \in {"FAILED", "QUEUED", "DEAD_LETTER"}
        /\ s = "DEAD_LETTER" => job[l.job].attempts >= MaxAttempts
    BY QueueAssumption DEF FailStatus, TypeOK, JobRow
  <2>3. /\ u \in JobRow /\ u.status = s /\ u.owner = None /\ u.leaseLeft = 0
        /\ u.payload = job[l.job].payload /\ u.attempts = job[l.job].attempts
        /\ u.epoch = job[l.job].epoch
    BY <2>2, UnleasedRow DEF Statuses, Terminal
  <2>4. job' = [job EXCEPT ![l.job] = n] /\ leases' = leases /\ told' = told
    BY <1>4 DEF Fail
  <2>5. job[l.job].status = "RUNNING"
    BY <1>4 DEF Fail
  <2> HIDE DEF s, u
  <2>6. /\ n.status = s /\ n.owner = None /\ n.leaseLeft = 0
        /\ n.payload = job[l.job].payload /\ n.attempts = job[l.job].attempts
        /\ n.epoch = job[l.job].epoch
    BY <2>1, <2>3, PostponedRow
  <2> HIDE DEF n
  <2>7. Keeps(l.job)
    BY <2>2, <2>4, <2>5, <2>6
  <2> QED BY <2>4, <2>7
<1>5. ASSUME NEW d \in 0..MaxDelay, Defer(l, d)
      PROVE  leases' = leases /\ told' = told /\ \A j \in Jobs : Keeps(j)
  <2>1. d \in Nat /\ Unleased(job[l.job], "DEFERRED") \in JobRow
    BY QueueAssumption, UnleasedRow DEF Statuses
  <2> QED BY <1>5, <2>1, UnleasedRow, PostponedRow DEF Defer, Statuses
<1>6. ASSUME NEW k \in EffectKeys, NEW i \in Inputs, CommitLocalEffect(l, k, i)
      PROVE  leases' = leases /\ told' = told /\ \A j \in Jobs : Keeps(j)
  BY <1>6 DEF CommitLocalEffect
<1> QED BY <1>1, <1>2, <1>3, <1>4, <1>5, <1>6 DEF UseLease

\* Everything else but an insert and a claim keeps the grants too.
QuietStep == \/ \E j \in Jobs, p \in Payloads : EnqueueSelect(j, p)
             \/ \E dead \in SUBSET Jobs : ClaimNothing(dead)
             \/ \E l \in leases : UseLease(l)
             \/ \E j \in Jobs : CancelUnheld(j)
             \/ ForeignWrite
             \/ Tick
             \/ UNCHANGED vars

LEMMA QuietStepKeeps ==
  ASSUME TypeOK, QuietStep
  PROVE  leases' = leases /\ \A j \in Jobs : Keeps(j)
<1> job \in [Jobs -> JobRow]
  BY DEF TypeOK
<1>1. ASSUME NEW j \in Jobs, NEW p \in Payloads, EnqueueSelect(j, p)
      PROVE  leases' = leases /\ \A i \in Jobs : Keeps(i)
  BY <1>1, SameRowKeeps DEF EnqueueSelect
<1>2. ASSUME NEW dead \in SUBSET Jobs, ClaimNothing(dead)
      PROVE  leases' = leases /\ \A j \in Jobs : Keeps(j)
  <2>1. ASSUME NEW j \in dead PROVE Keeps(j)
    <3>1. job'[j] = Unleased(job[j], "DEAD_LETTER") /\ j \in Exhausted
      BY <1>2 DEF ClaimNothing
    <3>2. job[j].attempts >= MaxAttempts /\ job[j].status # "ABSENT"
      BY <3>1 DEF Exhausted
    <3> QED BY <3>1, <3>2, UnleasedRow DEF Keeps, Drops, Statuses, Terminal
  <2>2. ASSUME NEW j \in Jobs \ dead PROVE Keeps(j)
    BY <1>2, SameRowKeeps DEF ClaimNothing
  <2> QED BY <1>2, <2>1, <2>2 DEF ClaimNothing
<1>3. ASSUME NEW j \in Jobs, CancelUnheld(j)
      PROVE  leases' = leases /\ \A i \in Jobs : Keeps(i)
  <2>1. Keeps(j)
    BY <1>3, UnleasedRow DEF CancelUnheld, Keeps, Drops, Statuses, Terminal
  <2> QED BY <1>3, <2>1, SameRowKeeps DEF CancelUnheld
<1>4. CASE Tick
  <2>1. ASSUME NEW j \in Jobs PROVE Keeps(j)
    <3>1. job'[j] = Ticked(job[j]) /\ job[j] \in JobRow
      BY <1>4 DEF Tick
    <3>2. Ticked(job[j]).leaseLeft <= job[j].leaseLeft
          /\ Ticked(job[j]).leaseLeft \in Nat
      BY <3>1, TickedRow DEF JobRow
    <3> QED BY <3>1, <3>2, TickedRow DEF Keeps, Holds
  <2> QED BY <1>4, <2>1 DEF Tick
<1>5. CASE ForeignWrite
  BY <1>5, SameRowKeeps DEF ForeignWrite
<1>6. CASE UNCHANGED vars
  BY <1>6, SameRowKeeps DEF vars
<1> QED BY <1>1, <1>2, <1>3, <1>4, <1>5, <1>6, UseLeaseKeeps DEF QuietStep

LEMMA StepCases ==
  ASSUME [Next]_vars
  PROVE  \/ QuietStep
         \/ \E j \in Jobs, p \in Payloads, d \in 0..MaxDelay :
              EnqueueInsert(j, p, d)
         \/ \E dead \in SUBSET Jobs, o \in Owners, j \in Jobs : Claim(o, j, dead)
BY DEF Next, Enqueue, ClaimPass, QuietStep

-----------------------------------------------------------------------------
\* The claims of one step: what happens to the claimed row, to the rows that
\* are dead-lettered beside it, and to the others.
LEMMA ClaimRows ==
  ASSUME TypeOK, NEW dead \in SUBSET Jobs, NEW o \in Owners, NEW c \in Jobs,
         Claim(o, c, dead)
  PROVE  /\ c \notin dead
         /\ job[c].attempts < MaxAttempts
         /\ job[c].status # "ABSENT" /\ job[c].status \notin Terminal
         /\ job'[c].status = "RUNNING" /\ job'[c].owner = o
         /\ job'[c].attempts = job[c].attempts + 1
         /\ job'[c].epoch = job[c].epoch + 1
         /\ job'[c].payload = job[c].payload
         /\ \A j \in Jobs \ {c} : Keeps(j)
<1> job \in [Jobs -> JobRow] /\ MaxAttempts \in Nat
  BY QueueAssumption DEF TypeOK
<1>1. c \notin dead
  <2>1. job[c].attempts \in Nat
    BY DEF JobRow
  <2> QED BY <2>1 DEF Claim, Claimable, Exhausted
<1>2. job[c].attempts < MaxAttempts /\ job[c].status # "ABSENT"
      /\ job[c].status \notin Terminal
  BY DEF Claim, Claimable, Terminal
<1>3. job'[c] = ClaimedRow(job[c], o)
  BY <1>1 DEF Claim
<1>4. ASSUME NEW j \in Jobs, j # c, j \in dead PROVE Keeps(j)
  <2>1. job'[j] = Unleased(job[j], "DEAD_LETTER") /\ j \in Exhausted
    BY <1>4 DEF Claim
  <2>2. job[j].attempts >= MaxAttempts /\ job[j].status # "ABSENT"
    BY <2>1 DEF Exhausted
  <2> QED BY <2>1, <2>2, UnleasedRow DEF Keeps, Drops, Statuses, Terminal
<1>5. ASSUME NEW j \in Jobs, j # c, j \notin dead PROVE Keeps(j)
  BY <1>5, SameRowKeeps DEF Claim
<1>6. /\ job'[c].status = "RUNNING" /\ job'[c].owner = o
      /\ job'[c].attempts = job[c].attempts + 1
      /\ job'[c].epoch = job[c].epoch + 1
      /\ job'[c].payload = job[c].payload
  BY <1>3, ClaimedRowFields
<1> QED BY <1>1, <1>2, <1>4, <1>5, <1>6

\* The one row an enqueue inserts.
LEMMA InsertRows ==
  ASSUME TypeOK, NEW c \in Jobs, NEW p \in Payloads, NEW d \in 0..MaxDelay,
         EnqueueInsert(c, p, d)
  PROVE  /\ \A j \in Jobs \ {c} : job'[j] = job[j]
         /\ job[c].status # "ABSENT" => job'[c] = job[c]
         /\ job[c].status = "ABSENT" =>
              /\ job'[c].status = "QUEUED" /\ job'[c].payload = p
              /\ job'[c].attempts = job[c].attempts
              /\ job'[c].epoch = job[c].epoch
              /\ job'[c].owner = job[c].owner
              /\ job'[c].leaseLeft = job[c].leaseLeft
         /\ leases' = leases /\ effects' = effects /\ aggregate' = aggregate
<1>1. CASE job[c].status # "ABSENT"
  BY <1>1 DEF EnqueueInsert
<1>2. CASE job[c].status = "ABSENT"
  <2>1. job' = [job EXCEPT ![c] =
          [job[c] EXCEPT !.status = "QUEUED", !.payload = p, !.delay = d]]
    BY <1>2 DEF EnqueueInsert
  <2>2. job'[c] = [job[c] EXCEPT !.status = "QUEUED", !.payload = p, !.delay = d]
    BY <2>1 DEF TypeOK
  <2>3. \A j \in Jobs \ {c} : job'[j] = job[j]
    BY <2>1 DEF TypeOK
  <2>4. job[c] \in JobRow
    BY DEF TypeOK
  <2>5. /\ job'[c].status = "QUEUED" /\ job'[c].payload = p
        /\ job'[c].attempts = job[c].attempts
        /\ job'[c].epoch = job[c].epoch
        /\ job'[c].owner = job[c].owner
        /\ job'[c].leaseLeft = job[c].leaseLeft
    BY <2>2, <2>4 DEF JobRow
  <2> QED BY <1>2, <2>3, <2>5 DEF EnqueueInsert
<1> QED BY <1>1, <1>2

-----------------------------------------------------------------------------
\* The conjuncts of QueueInv about grants, and about payloads.
GrantInv == EpochCountsAttempts /\ OneGrantPerEpoch /\ RowMatchesGrant
              /\ AttemptBudget
ToldInv == AbsentHasNoPayload /\ EnqueueAgreement

LEMMA GrantStep ==
  ASSUME TypeOK, TypeOK', GrantInv, [Next]_vars PROVE GrantInv'
<1>c. ASSUME NEW dead \in SUBSET Jobs, NEW o \in Owners, NEW c \in Jobs,
             Claim(o, c, dead)
      PROVE  /\ job'[c].status = "RUNNING" /\ job'[c].owner = o
             /\ job'[c].attempts = job[c].attempts + 1
             /\ job'[c].epoch = job[c].epoch + 1
  BY <1>c, ClaimRows
<1> USE DEF GrantInv, EpochCountsAttempts, OneGrantPerEpoch, RowMatchesGrant,
            AttemptBudget
<1>0. job \in [Jobs -> JobRow] /\ MaxAttempts \in Nat /\ None \notin Owners
  BY QueueAssumption DEF TypeOK
<1>a. \A j \in Jobs : job[j].attempts \in Nat /\ job[j].epoch \in Nat
  BY <1>0 DEF JobRow
<1>b. \A l \in leases : l.job \in Jobs /\ l.epoch \in Nat
  BY DEF TypeOK, Lease
<1>1. CASE QuietStep
  <2>1. leases' = leases /\ \A j \in Jobs : Keeps(j)
    BY <1>1, QuietStepKeeps
  <2>2. EpochCountsAttempts'
    BY <2>1 DEF Keeps
  <2>3. OneGrantPerEpoch'
    BY <2>1
  <2>4. RowMatchesGrant'
    BY <2>1 DEF Keeps, Holds, Drops
  <2>5. AttemptBudget'
    BY <2>1, <1>0, <1>a DEF Keeps, Holds, Drops
  <2> QED BY <2>2, <2>3, <2>4, <2>5
<1>2. ASSUME NEW c \in Jobs, NEW p \in Payloads, NEW d \in 0..MaxDelay,
             EnqueueInsert(c, p, d)
      PROVE  GrantInv'
  <2>1. leases' = leases /\ \A j \in Jobs : job'[j].epoch = job[j].epoch
                            /\ job'[j].attempts = job[j].attempts
                            /\ job'[j].owner = job[j].owner
                            /\ job'[j].leaseLeft = job[j].leaseLeft
    BY <1>2, InsertRows
  <2>2. \A j \in Jobs : \/ job'[j].status = job[j].status
                        \/ job[j].status = "ABSENT" /\ job'[j].status = "QUEUED"
    BY <1>2, InsertRows
  <2> QED BY <2>1, <2>2
<1>3. ASSUME NEW dead \in SUBSET Jobs, NEW o \in Owners, NEW c \in Jobs,
             Claim(o, c, dead)
      PROVE  GrantInv'
  <2> DEFINE g == [job |-> c, owner |-> o, epoch |-> job[c].epoch + 1]
  <2>1. leases' = leases \cup {g}
    BY <1>3 DEF Claim
  <2>2. /\ job'[c].status = "RUNNING" /\ job'[c].owner = o
        /\ job'[c].attempts = job[c].attempts + 1
        /\ job'[c].epoch = job[c].epoch + 1
    BY <1>3, <1>c
  <2>3. /\ job[c].attempts < MaxAttempts
        /\ \A j \in Jobs \ {c} : Keeps(j)
    BY <1>3, ClaimRows
  <2>4. EpochCountsAttempts'
    BY <2>2, <2>3 DEF Keeps
  <2>5. \A l \in leases : l.job = c => l.epoch < job[c].epoch + 1
    BY <1>a, <1>b
  <2>6. OneGrantPerEpoch'
    BY <2>1, <2>5, <1>b, <1>a
  <2>7. RowMatchesGrant'
    <3>1. ASSUME NEW j \in Jobs \ {c}
          PROVE  /\ job'[j].status = "RUNNING" <=> job'[j].owner # None
                 /\ job'[j].status = "RUNNING" =>
                      [job |-> j, owner |-> job'[j].owner,
                       epoch |-> job'[j].epoch] \in leases'
                 /\ job'[j].status # "RUNNING" => job'[j].leaseLeft = 0
      BY <2>1, <2>3 DEF Keeps, Holds, Drops
    <3> QED BY <1>0, <2>1, <2>2, <3>1
  <2>8. AttemptBudget'
    <3>1. ASSUME NEW j \in Jobs \ {c}
          PROVE  /\ \A l \in leases' : l.job = j => l.epoch <= job'[j].attempts
                 /\ job'[j].attempts <= MaxAttempts
                 /\ job'[j].status = "DEAD_LETTER" => job'[j].attempts = MaxAttempts
      BY <1>0, <1>a, <2>1, <2>3 DEF Keeps, Holds, Drops
    <3>2. \A l \in leases' : l.job = c => l.epoch <= job'[c].attempts
      BY <1>a, <1>b, <2>1, <2>2, <2>5
    <3> QED BY <1>0, <1>a, <2>2, <2>3, <3>1, <3>2
  <2> QED BY <2>4, <2>6, <2>7, <2>8
<1> QED BY <1>1, <1>2, <1>3, StepCases

LEMMA ToldStep ==
  ASSUME TypeOK, ToldInv, [Next]_vars PROVE ToldInv'
<1> USE DEF ToldInv, AbsentHasNoPayload, EnqueueAgreement
<1>0. job \in [Jobs -> JobRow] /\ None \notin Payloads
      /\ \A r \in told : r[1] \in Jobs /\ r[2] \in Payloads
  BY QueueAssumption DEF TypeOK, Requests
<1>1. CASE QuietStep
  <2>1. \A j \in Jobs : /\ job'[j].payload = job[j].payload
                        /\ job'[j].status = "ABSENT" <=> job[j].status = "ABSENT"
    BY <1>1, QuietStepKeeps DEF Keeps, Holds, Drops
  <2>2. \A r \in told' : r \in told \/ (r[1] \in Jobs /\ job[r[1]].payload = r[2])
    <3>1. ASSUME NEW j \in Jobs, NEW p \in Payloads, EnqueueSelect(j, p)
          PROVE  \A r \in told' : r \in told \/ (r[1] \in Jobs /\ job[r[1]].payload = r[2])
      BY <3>1 DEF EnqueueSelect, Resolve
    <3>2. CASE told' = told
      BY <3>2
    <3>3. ASSUME NEW l \in leases, UseLease(l) PROVE told' = told
      BY <3>3, UseLeaseKeeps
    <3> QED BY <1>1, <3>1, <3>2, <3>3
            DEF QuietStep, ClaimNothing, CancelUnheld, ForeignWrite, Tick, vars
  <2> QED BY <1>0, <2>1, <2>2
<1>2. ASSUME NEW c \in Jobs, NEW p \in Payloads, NEW d \in 0..MaxDelay,
             EnqueueInsert(c, p, d)
      PROVE  ToldInv'
  <2>1. \A r \in told' : r \in told \/ (r = <<c, p>> /\ job'[c].payload = p)
    <3>1. CASE job[c].status = "ABSENT"
      <4>1. told' = told \cup {<<c, p>>}
        BY <1>2, <3>1 DEF EnqueueInsert
      <4> QED BY <1>2, <3>1, <4>1, InsertRows
    <3>2. CASE job[c].status # "ABSENT"
      <4>1. job' = job /\ Resolve(c, p)
        BY <1>2, <3>2 DEF EnqueueInsert
      <4> QED BY <4>1 DEF Resolve
    <3> QED BY <3>1, <3>2
  <2>2. \A j \in Jobs : \/ job'[j] = job[j]
                        \/ /\ j = c /\ job[j].status = "ABSENT"
                           /\ job'[j].status = "QUEUED" /\ job'[j].payload = p
    BY <1>2, InsertRows
  <2> QED BY <1>0, <2>1, <2>2
<1>3. ASSUME NEW dead \in SUBSET Jobs, NEW o \in Owners, NEW c \in Jobs,
             Claim(o, c, dead)
      PROVE  ToldInv'
  <2>1. \A j \in Jobs : /\ job'[j].payload = job[j].payload
                        /\ job'[j].status = "ABSENT" <=> job[j].status = "ABSENT"
    <3>1. ASSUME NEW j \in Jobs \ {c}
          PROVE  /\ job'[j].payload = job[j].payload
                 /\ job'[j].status = "ABSENT" <=> job[j].status = "ABSENT"
      <4>1. /\ c \notin dead /\ job'[c].owner = o
            /\ \A i \in Jobs \ {c} : Keeps(i)
        BY <1>3, ClaimRows
      <4> QED BY <3>1, <4>1 DEF Keeps, Holds, Drops
    <3>2. /\ job'[c].payload = job[c].payload
          /\ job'[c].status = "RUNNING" /\ job[c].status # "ABSENT"
      BY <1>3, ClaimRows
    <3> QED BY <3>1, <3>2
  <2>2. told' = told
    BY <1>3 DEF Claim
  <2> QED BY <1>0, <2>1, <2>2
<1> QED BY <1>1, <1>2, <1>3, StepCases

-----------------------------------------------------------------------------
\* The conjuncts of QueueInv about effects.
EffectInv == IsFiniteSet(Committed) /\ EffectsExactlyOnce

\* Only commit_local_effect writes receipts; everything else leaves them and
\* the count of effects alone and never lowers the version.
LEMMA EffectCases ==
  ASSUME TypeOK, [Next]_vars
  PROVE  \/ /\ effects' = effects
            /\ aggregate'.effectCount = aggregate.effectCount
            /\ aggregate'.version >= aggregate.version
         \/ \E l \in leases, k \in EffectKeys, i \in Inputs :
              CommitLocalEffect(l, k, i)
<1> aggregate \in [version: Nat, effectCount: Nat]
  BY DEF TypeOK
<1>1. CASE effects' = effects /\ aggregate' = aggregate
  BY <1>1
<1>2. CASE ForeignWrite
  BY <1>2 DEF ForeignWrite
<1>3. CASE \E l \in leases, k \in EffectKeys, i \in Inputs :
             CommitLocalEffect(l, k, i)
  BY <1>3
<1> QED
  BY <1>1, <1>2, <1>3
  DEF Next, Enqueue, EnqueueSelect, EnqueueInsert, ClaimPass, Claim,
      ClaimNothing, UseLease, Heartbeat, Complete, CancelHeld, Fail, Defer,
      CancelUnheld, Tick, vars

LEMMA EffectStep ==
  ASSUME TypeOK, TypeOK', EffectInv, [Next]_vars PROVE EffectInv'
<1> USE DEF EffectInv, EffectsExactlyOnce
<1>0. aggregate \in [version: Nat, effectCount: Nat]
      /\ aggregate' \in [version: Nat, effectCount: Nat]
  BY DEF TypeOK
<1>1. CASE /\ effects' = effects
           /\ aggregate'.effectCount = aggregate.effectCount
           /\ aggregate'.version >= aggregate.version
  <2>1. Committed' = Committed
    BY <1>1 DEF Committed, HasReceipt
  <2> QED BY <1>0, <1>1, <2>1
<1>2. ASSUME NEW l \in leases, NEW k \in EffectKeys, NEW i \in Inputs,
             CommitLocalEffect(l, k, i)
      PROVE  EffectInv'
  <2> DEFINE n == <<l.job, k>>
             r == [input |-> i, revision |-> aggregate.version + 1]
  <2>1. n \in Jobs \X EffectKeys /\ n \notin Committed
    BY <1>2 DEF CommitLocalEffect, Committed, TypeOK, Lease
  <2>2. effects' = [effects EXCEPT ![l.job][k] = r]
    BY <1>2 DEF CommitLocalEffect
  <2>3. r # NoReceipt
    BY <1>0 DEF NoReceipt
  <2>4. ASSUME NEW e \in Jobs \X EffectKeys
        PROVE  effects'[e[1]][e[2]] = IF e = n THEN r ELSE effects[e[1]][e[2]]
    <3>1. e[1] \in Jobs /\ e[2] \in EffectKeys /\ e = <<e[1], e[2]>>
      BY <2>4
    <3> QED BY <2>1, <2>2, <3>1 DEF TypeOK
  <2> HIDE DEF n, r
  <2>5. Committed' = Committed \cup {n}
    BY <2>1, <2>3, <2>4 DEF Committed, HasReceipt
  <2>6. /\ aggregate'.version = aggregate.version + 1
        /\ aggregate'.effectCount = aggregate.effectCount + 1
    BY <1>2, <1>0 DEF CommitLocalEffect
  <2>7. IsFiniteSet(Committed') /\ Cardinality(Committed') = Cardinality(Committed) + 1
    BY <2>1, <2>5, FS_AddElement
  <2>8. ASSUME NEW e \in Committed
        PROVE  /\ effects'[e[1]][e[2]] = effects[e[1]][e[2]]
               /\ effects[e[1]][e[2]].revision \in 1..aggregate.version
    BY <2>1, <2>4 DEF Committed
  <2>9. effects'[n[1]][n[2]].revision = aggregate.version + 1
    BY <2>1, <2>4 DEF r
  <2>10. \A e \in Committed' : effects'[e[1]][e[2]].revision \in 1..aggregate'.version
    BY <1>0, <2>5, <2>6, <2>8, <2>9
  <2>11. \A e, f \in Committed' :
           effects'[e[1]][e[2]].revision = effects'[f[1]][f[2]].revision => e = f
    <3>1. \A e \in Committed : effects'[e[1]][e[2]].revision # aggregate.version + 1
      BY <1>0, <2>8
    <3> QED BY <2>5, <2>8, <2>9, <3>1
  <2> QED BY <2>6, <2>7, <2>10, <2>11
<1> QED BY <1>1, <1>2, EffectCases

LEMMA CancelStep ==
  ASSUME TypeOK, NoCanceledEffect, [Next]_vars PROVE NoCanceledEffect'
<1> USE DEF NoCanceledEffect
<1>1. ASSUME NEW l \in leases, NEW k \in EffectKeys, NEW i \in Inputs,
             CommitLocalEffect(l, k, i)
      PROVE  NoCanceledEffect'
  <2>1. job' = job /\ job[l.job].status = "RUNNING" /\ l.job \in Jobs
    BY <1>1 DEF CommitLocalEffect, IsCurrent, TypeOK, Lease
  <2>2. \A e \in Committed' : e \in Committed \/ e[1] = l.job
    <3>1. \A j \in Jobs \ {l.job} : effects'[j] = effects[j]
      BY <1>1, <2>1 DEF CommitLocalEffect, TypeOK
    <3> QED BY <3>1 DEF Committed, HasReceipt
  <2> QED BY <2>1, <2>2
<1>2. CASE effects' = effects
  <2>1. Committed' = Committed /\ \A e \in Committed : e[1] \in Jobs /\ ~NoEffect(e[1])
    BY <1>2 DEF Committed, HasReceipt, NoEffect
  <2>2. ASSUME NEW j \in Jobs, ~NoEffect(j), job'[j].status = "CANCELED"
        PROVE  job[j].status = "CANCELED"
    <3>1. CASE QuietStep
      BY <2>2, <3>1, QuietStepKeeps DEF Keeps, Holds, Drops
    <3>2. ASSUME NEW c \in Jobs, NEW p \in Payloads, NEW d \in 0..MaxDelay,
                 EnqueueInsert(c, p, d)
          PROVE  job[j].status = "CANCELED"
      BY <2>2, <3>2, InsertRows
    <3>3. ASSUME NEW dead \in SUBSET Jobs, NEW o \in Owners, NEW c \in Jobs,
                 Claim(o, c, dead)
          PROVE  job[j].status = "CANCELED"
      <4>1. /\ c \notin dead
            /\ job'[c].status = "RUNNING" /\ job'[c].owner = o
            /\ \A i \in Jobs \ {c} : Keeps(i)
        BY <3>3, ClaimRows
      <4> QED BY <2>2, <4>1 DEF Keeps, Holds, Drops
    <3> QED BY <3>1, <3>2, <3>3, StepCases
  <2> QED BY <2>1, <2>2
<1> QED BY <1>1, <1>2, EffectCases

-----------------------------------------------------------------------------
LEMMA QueueInvInit == Init => QueueInv
<1> SUFFICES ASSUME Init PROVE QueueInv
  OBVIOUS
<1>1. TypeOK
  BY TypeInit
<1>2. \A j \in Jobs : job[j] = AbsentRow
  BY DEF Init
<1>3. Committed = {}
  BY DEF Init, Committed, HasReceipt
<1>4. IsFiniteSet(Committed) /\ EffectsExactlyOnce /\ NoCanceledEffect
  BY <1>3, FS_EmptySet DEF EffectsExactlyOnce, NoCanceledEffect, Init
<1> QED BY <1>1, <1>2, <1>4, QueueAssumption
        DEF QueueInv, EpochCountsAttempts, OneGrantPerEpoch, RowMatchesGrant,
            AttemptBudget, AbsentHasNoPayload, EnqueueAgreement, Init, AbsentRow

LEMMA QueueInvStep == QueueInv /\ [Next]_vars => QueueInv'
BY TypeStep, GrantStep, ToldStep, EffectStep, CancelStep
   DEF QueueInv, GrantInv, ToldInv, EffectInv

\* The inductive invariant holds in every reachable state.
THEOREM QueueInvariant == Spec => []QueueInv
BY QueueInvInit, QueueInvStep, PTL DEF Spec

\* A pair of owner and epoch names one call of claim, and a running row names
\* a grant that was really made.
THEOREM Fencing == Spec => [](OneGrantPerEpoch /\ RowMatchesGrant /\ AttemptBudget)
BY QueueInvariant, PTL DEF QueueInv

\* Every committed effect reached its aggregate exactly once, and no job that
\* committed one was canceled.
THEOREM EffectSafety == Spec => [](EffectsExactlyOnce /\ NoCanceledEffect)
BY QueueInvariant, PTL DEF QueueInv

\* A job that committed a local effect is never withdrawn (cancel, under the
\* lock of the row that commit_local_effect takes).
THEOREM Withdrawal == Spec => []NoCanceledEffect
BY EffectSafety, PTL

\* Every answer enqueue ever gave stays true.
THEOREM EnqueueSafety == Spec => []EnqueueAgreement
BY QueueInvariant, PTL DEF QueueInv

-----------------------------------------------------------------------------
\* A lapsed lease stays lapsed.  A row that keeps its epoch keeps or loses its
\* lease; only a heartbeat extends one, and it needs a current one.
LEMMA LapsedStep ==
  ASSUME QueueInv, [Next]_vars, NEW l \in leases, ~IsCurrent(l)
  PROVE  ~IsCurrent(l)'
<1>b. TypeOK
  BY DEF QueueInv
<1>c. ASSUME NEW dead \in SUBSET Jobs, NEW o \in Owners, NEW c \in Jobs,
             Claim(o, c, dead)
      PROVE  /\ job'[c].status = "RUNNING" /\ job'[c].owner = o
             /\ job'[c].attempts = job[c].attempts + 1
             /\ job'[c].epoch = job[c].epoch + 1
  BY <1>b, <1>c, ClaimRows
<1> TypeOK /\ l.job \in Jobs /\ job \in [Jobs -> JobRow] /\ l.epoch \in Nat
  BY <1>b DEF TypeOK, Lease
<1> SUFFICES ASSUME IsCurrent(l)' PROVE FALSE
  OBVIOUS
<1> USE DEF IsCurrent
<1>0. job[l.job] \in JobRow /\ job[l.job].leaseLeft \in Nat
      /\ job[l.job].epoch \in Nat
  BY DEF JobRow
<1>1. CASE job'[l.job] = job[l.job]
  BY <1>1
<1>2. ASSUME NEW m \in leases, Heartbeat(m) PROVE FALSE
  <2>1. m.job = l.job
    BY <1>2 DEF Heartbeat
  <2>2. job'[l.job].owner = job[l.job].owner /\ job'[l.job].epoch = job[l.job].epoch
    BY <1>0, <1>2 DEF Heartbeat, JobRow
  <2> QED BY <1>2, <2>1, <2>2 DEF Heartbeat
<1>3. CASE Tick
  <2>1. /\ Ticked(job[l.job]).status = job[l.job].status
        /\ Ticked(job[l.job]).owner = job[l.job].owner
        /\ Ticked(job[l.job]).epoch = job[l.job].epoch
        /\ Ticked(job[l.job]).leaseLeft <= job[l.job].leaseLeft
        /\ Ticked(job[l.job]).leaseLeft \in Nat
    BY <1>0, TickedRow DEF JobRow
  <2>2. job'[l.job] = Ticked(job[l.job])
    BY <1>3 DEF Tick
  <2>3. job[l.job].leaseLeft > 0
    BY <1>0, <2>1, <2>2
  <2> QED BY <2>1, <2>2, <2>3
<1>4. ASSUME NEW dead \in SUBSET Jobs, NEW o \in Owners, NEW c \in Jobs,
             Claim(o, c, dead)
      PROVE  FALSE
  <2>1. CASE c = l.job
    <3>1. job'[c].epoch = job[c].epoch + 1
      BY <1>4, <1>c
    <3>2. l.epoch <= job[c].epoch
      BY <2>1 DEF QueueInv, AttemptBudget, EpochCountsAttempts
    <3> QED BY <1>0, <2>1, <3>1, <3>2
  <2>2. CASE c # l.job /\ l.job \in dead
    <3>1. job'[l.job] = Unleased(job[l.job], "DEAD_LETTER")
      BY <1>4, <2>2 DEF Claim
    <3> QED BY <1>0, <3>1, UnleasedRow DEF Statuses, Terminal
  <2>3. CASE c # l.job /\ l.job \notin dead
    BY <1>1, <1>4, <2>3 DEF Claim
  <2> QED BY <2>1, <2>2, <2>3
<1>5. ASSUME NEW dead \in SUBSET Jobs, ClaimNothing(dead) PROVE FALSE
  <2>1. CASE l.job \in dead
    <3>1. job'[l.job] = Unleased(job[l.job], "DEAD_LETTER")
      BY <1>5, <2>1 DEF ClaimNothing
    <3> QED BY <1>0, <3>1, UnleasedRow DEF Statuses, Terminal
  <2> QED BY <1>1, <1>5, <2>1 DEF ClaimNothing
<1>6. ASSUME NEW m \in leases, UseLease(m), ~Heartbeat(m) PROVE FALSE
  <2>1. m.job \in Jobs /\ (m.job = l.job \/ job'[l.job] = job[l.job])
    BY <1>6 DEF UseLease, Complete, CancelHeld, Fail, Defer, CommitLocalEffect,
                TypeOK, Lease
  <2>2. CASE job' = job
    BY <1>1, <2>2
  <2>3. ASSUME m.job = l.job, job' # job PROVE job'[l.job].status # "RUNNING"
    <3>1. CASE Complete(m)
      BY <2>3, <3>1, UnleasedRow DEF Complete, Statuses, Terminal
    <3>2. CASE CancelHeld(m)
      BY <2>3, <3>2, UnleasedRow DEF CancelHeld, Statuses, Terminal
    <3>3. ASSUME NEW d \in 0..MaxDelay, NEW retryable \in BOOLEAN,
                 Fail(m, retryable, d)
          PROVE  job'[l.job].status # "RUNNING"
      <4> DEFINE s == FailStatus(job[m.job], retryable)
                 u == Unleased(job[m.job], s)
      <4>1. d \in Nat /\ s \in {"FAILED", "QUEUED", "DEAD_LETTER"}
        BY QueueAssumption, FailStatusType
      <4>2. u \in JobRow /\ u.status = s
        BY <1>0, <2>3, <4>1, UnleasedRow DEF Statuses, Terminal
      <4>3. job'[l.job] = IF s = "QUEUED" THEN Postponed(u, d) ELSE u
        BY <2>3, <3>3 DEF Fail
      <4> HIDE DEF s, u
      <4>4. job'[l.job].status = s
        BY <4>1, <4>2, <4>3, PostponedRow
      <4> QED BY <4>1, <4>4
    <3>4. ASSUME NEW d \in 0..MaxDelay, Defer(m, d) PROVE job'[l.job].status # "RUNNING"
      <4>1. d \in Nat /\ Unleased(job[m.job], "DEFERRED") \in JobRow
        BY <1>0, <2>3, QueueAssumption, UnleasedRow DEF Statuses
      <4>2. job'[l.job] = Postponed(Unleased(job[m.job], "DEFERRED"), d)
        BY <2>3, <3>4 DEF Defer
      <4>3. Unleased(job[m.job], "DEFERRED").status = "DEFERRED"
        BY <1>0, <2>3, UnleasedRow DEF Statuses
      <4>4. job'[l.job].status = "DEFERRED"
        BY <4>1, <4>2, <4>3, PostponedRow
      <4> QED BY <4>4
    <3>5. ~ \E k \in EffectKeys, i \in Inputs : CommitLocalEffect(m, k, i)
      BY <2>3 DEF CommitLocalEffect
    <3> QED BY <1>6, <3>1, <3>2, <3>3, <3>4, <3>5 DEF UseLease
  <2> QED BY <1>1, <2>1, <2>2, <2>3
<1>7. ASSUME NEW j \in Jobs, CancelUnheld(j) PROVE FALSE
  <2>1. CASE j = l.job
    <3>1. job'[l.job] = Unleased(job[l.job], "CANCELED")
      BY <1>7, <2>1 DEF CancelUnheld
    <3> QED BY <1>0, <3>1, UnleasedRow DEF Statuses, Terminal
  <2> QED BY <1>1, <1>7, <2>1 DEF CancelUnheld
<1>8. ASSUME NEW c \in Jobs, NEW p \in Payloads, NEW d \in 0..MaxDelay,
             EnqueueInsert(c, p, d)
      PROVE  FALSE
  BY <1>1, <1>8, InsertRows
<1>9. CASE job' = job
  BY <1>1, <1>9
<1> QED BY <1>2, <1>3, <1>4, <1>5, <1>6, <1>7, <1>8, <1>9
        DEF Next, Enqueue, EnqueueSelect, ClaimPass, ForeignWrite, vars

\* The lease of a worker that stalled past its expiry is dead for good: no
\* later step, of that worker or another, makes it current again.
THEOREM LapsedLeases == Spec => LapsedStaysLapsed
<1>1. QueueInv /\ [Next]_vars =>
        [\A l \in leases : ~IsCurrent(l) => ~IsCurrent(l)']_vars
  BY LapsedStep
<1> QED BY <1>1, QueueInvariant, PTL DEF Spec, LapsedStaysLapsed

-----------------------------------------------------------------------------
\* No operation touches a terminal row; only its clock-relative delay runs down.
LEMMA TerminalStep ==
  ASSUME QueueInv, [Next]_vars, NEW j \in Jobs, job[j].status \in Terminal
  PROVE  /\ job'[j] = [job[j] EXCEPT !.delay = job'[j].delay]
         /\ effects'[j] = effects[j]
<1>0. TypeOK /\ job[j] \in JobRow /\ job[j].leaseLeft = 0
  BY DEF QueueInv, TypeOK, RowMatchesGrant, Terminal
<1>1. CASE job'[j] = job[j] /\ effects'[j] = effects[j]
  BY <1>0, <1>1 DEF JobRow
<1>2. ASSUME NEW l \in leases, UseLease(l)
      PROVE  job'[j] = job[j] /\ effects'[j] = effects[j]
  <2>1. l.job \in Jobs /\ (IsCurrent(l) => l.job # j)
    BY <1>0 DEF TypeOK, Lease, IsCurrent, Terminal
  <2> QED BY <1>0, <1>2, <2>1
          DEF UseLease, Heartbeat, Complete, CancelHeld, Fail, Defer,
              CommitLocalEffect, TypeOK
<1>3. ASSUME NEW dead \in SUBSET Jobs, NEW o \in Owners, NEW c \in Jobs,
             Claim(o, c, dead)
      PROVE  job'[j] = job[j] /\ effects'[j] = effects[j]
  <2>1. c # j /\ j \notin dead
    BY <1>3 DEF Claim, Claimable, Exhausted, Terminal
  <2> QED BY <1>3, <2>1 DEF Claim
<1>4. ASSUME NEW dead \in SUBSET Jobs, ClaimNothing(dead)
      PROVE  job'[j] = job[j] /\ effects'[j] = effects[j]
  BY <1>4 DEF ClaimNothing, Exhausted, Terminal
<1>5. ASSUME NEW c \in Jobs, CancelUnheld(c)
      PROVE  job'[j] = job[j] /\ effects'[j] = effects[j]
  <2>1. c # j
    BY <1>5 DEF CancelUnheld, Terminal
  <2> QED BY <1>0, <1>5, <2>1 DEF CancelUnheld, TypeOK
<1>6. ASSUME NEW c \in Jobs, NEW p \in Payloads, NEW d \in 0..MaxDelay,
             EnqueueInsert(c, p, d)
      PROVE  job'[j] = job[j] /\ effects'[j] = effects[j]
  BY <1>0, <1>6, InsertRows DEF Terminal
<1>7. CASE Tick
  <2>1. job'[j] = Ticked(job[j]) /\ effects' = effects
    BY <1>7 DEF Tick
  <2>2. CutOff(job[j].leaseLeft - 1) = job[j].leaseLeft
    BY <1>0 DEF CutOff
  <2>3. \A d : [job[j] EXCEPT !.leaseLeft = job[j].leaseLeft, !.delay = d]
                 = [job[j] EXCEPT !.delay = d]
    BY <1>0 DEF JobRow
  <2>4. job'[j] = [job[j] EXCEPT !.delay = CutOff(job[j].delay - 1)]
    BY <2>1, <2>2, <2>3 DEF Ticked
  <2>5. job'[j].delay = CutOff(job[j].delay - 1)
    BY <1>0, <2>4 DEF JobRow
  <2> QED BY <2>1, <2>4, <2>5
<1>8. CASE job' = job /\ effects' = effects
  BY <1>1, <1>8
<1> QED BY <1>1, <1>2, <1>3, <1>4, <1>5, <1>6, <1>7, <1>8
        DEF Next, Enqueue, EnqueueSelect, ClaimPass, ForeignWrite, vars

\* A job that ended is never revived, and gains or loses no receipt.
THEOREM TerminalJobs == Spec => TerminalIsFinal
<1>1. QueueInv /\ [Next]_vars =>
        [\A j \in Jobs : job[j].status \in Terminal =>
           /\ job'[j] = [job[j] EXCEPT !.delay = job'[j].delay]
           /\ effects'[j] = effects[j]]_vars
  BY TerminalStep
<1> QED BY <1>1, QueueInvariant, PTL DEF Spec, TerminalIsFinal

-----------------------------------------------------------------------------
\* The steps of the queue are steps of FencedJobs.
LEMMA RefinementInit == Init => Fenced!Init
BY DEF Init, Fenced!Init, AbsentRow, PhaseOf, HasReceipt, AbsPhase, AbsEpoch,
       AbsApplied

\* Whatever keeps the phase, the epoch and the receipts of every job stutters.
LEMMA Stutter ==
  ASSUME effects' = effects,
         \A j \in Jobs : job'[j].epoch = job[j].epoch
                         /\ PhaseOf(job'[j].status) = PhaseOf(job[j].status)
  PROVE  UNCHANGED Fenced!vars
BY DEF Fenced!vars, HasReceipt, AbsPhase, AbsEpoch, AbsApplied

\* A step that changes the phase of one job and nothing else the abstract
\* queue can see.
LEMMA OneRow ==
  ASSUME effects' = effects, NEW c \in Jobs, NEW phase,
         \A j \in Jobs \ {c} : job'[j] = job[j],
         job'[c].epoch = job[c].epoch, PhaseOf(job'[c].status) = phase
  PROVE  /\ AbsPhase' = [AbsPhase EXCEPT ![c] = phase]
         /\ AbsEpoch' = AbsEpoch
         /\ AbsApplied' = AbsApplied
BY DEF HasReceipt, AbsPhase, AbsEpoch, AbsApplied

LEMMA HeldSteps ==
  ASSUME QueueInv, NEW l \in leases, UseLease(l)
  PROVE  Fenced!Next \/ UNCHANGED Fenced!vars
<1>1. TypeOK
  BY DEF QueueInv
<1>2. l.job \in Jobs /\ job[l.job] \in JobRow
  BY <1>1 DEF TypeOK, Lease
<1>3. IsCurrent(l) => AbsPhase[l.job] = "held"
  BY <1>2 DEF IsCurrent, PhaseOf, AbsPhase
<1>4. CASE Heartbeat(l)
  <2>1. ASSUME NEW j \in Jobs
        PROVE  job'[j].epoch = job[j].epoch /\ job'[j].status = job[j].status
    BY <1>1, <1>2, <1>4 DEF Heartbeat, TypeOK, JobRow
  <2> QED BY <1>4, <2>1, Stutter DEF Heartbeat
<1>5. CASE Complete(l)
  <2> DEFINE r == Unleased(job[l.job], "SUCCEEDED")
  <2>1. r \in JobRow /\ r.epoch = job[l.job].epoch /\ PhaseOf(r.status) = "settled"
    BY <1>2, UnleasedRow DEF PhaseOf, Statuses, Terminal
  <2>2. job' = [job EXCEPT ![l.job] = r] /\ effects' = effects
    BY <1>5 DEF Complete
  <2> HIDE DEF r
  <2>3. job'[l.job] = r /\ \A j \in Jobs \ {l.job} : job'[j] = job[j]
    BY <1>1, <1>2, <2>2 DEF TypeOK
  <2>4. Fenced!Settle(l.job)
    BY <1>2, <1>3, <1>5, <2>1, <2>2, <2>3, OneRow DEF Fenced!Settle, Complete
  <2> QED BY <1>2, <2>4 DEF Fenced!Next
<1>6. CASE CancelHeld(l)
  <2> DEFINE r == Unleased(job[l.job], "CANCELED")
  <2>1. r \in JobRow /\ r.epoch = job[l.job].epoch /\ PhaseOf(r.status) = "withdrawn"
    BY <1>2, UnleasedRow DEF PhaseOf, Statuses, Terminal
  <2>2. job' = [job EXCEPT ![l.job] = r] /\ effects' = effects
    BY <1>6 DEF CancelHeld
  <2>3. AbsApplied[l.job] = {}
    BY <1>2, <1>6 DEF CancelHeld, NoEffect, AbsApplied
  <2> HIDE DEF r
  <2>4. job'[l.job] = r /\ \A j \in Jobs \ {l.job} : job'[j] = job[j]
    BY <1>1, <1>2, <2>2 DEF TypeOK
  <2>5. Fenced!Withdraw(l.job)
    BY <1>2, <1>3, <1>6, <2>1, <2>2, <2>3, <2>4, OneRow
       DEF Fenced!Withdraw, Fenced!Open, CancelHeld
  <2> QED BY <1>2, <2>5 DEF Fenced!Next
<1>7. ASSUME NEW d \in 0..MaxDelay, NEW retryable \in BOOLEAN,
             Fail(l, retryable, d)
      PROVE  Fenced!Next
  <2> DEFINE s == FailStatus(job[l.job], retryable)
             u == Unleased(job[l.job], s)
             r == IF s = "QUEUED" THEN Postponed(u, d) ELSE u
  <2>1. d \in Nat /\ s \in {"FAILED", "QUEUED", "DEAD_LETTER"}
    BY QueueAssumption, FailStatusType
  <2>2. u \in JobRow /\ u.status = s /\ u.epoch = job[l.job].epoch
    BY <1>2, <2>1, UnleasedRow DEF Statuses, Terminal
  <2>3. job' = [job EXCEPT ![l.job] = r] /\ effects' = effects
    BY <1>7 DEF Fail
  <2> HIDE DEF s, u
  <2>4. r \in JobRow /\ r.status = s /\ r.epoch = job[l.job].epoch
    BY <2>1, <2>2, PostponedRow
  <2> HIDE DEF r
  <2>5. job'[l.job] = r /\ \A j \in Jobs \ {l.job} : job'[j] = job[j]
    BY <1>1, <1>2, <2>3 DEF TypeOK
  <2>6. CASE s = "QUEUED"
    <3>1. PhaseOf(r.status) = "waiting"
      BY <2>4, <2>6 DEF PhaseOf
    <3>2. Fenced!Release(l.job)
      BY <1>2, <1>3, <1>7, <2>3, <2>4, <2>5, <3>1, OneRow DEF Fenced!Release, Fail
    <3> QED BY <1>2, <3>2 DEF Fenced!Next
  <2>7. CASE s # "QUEUED"
    <3>1. PhaseOf(r.status) = "settled"
      BY <2>1, <2>4, <2>7 DEF PhaseOf
    <3>2. Fenced!Settle(l.job)
      BY <1>2, <1>3, <1>7, <2>3, <2>4, <2>5, <3>1, OneRow DEF Fenced!Settle, Fail
    <3> QED BY <1>2, <3>2 DEF Fenced!Next
  <2> QED BY <2>6, <2>7
<1>8. ASSUME NEW d \in 0..MaxDelay, Defer(l, d) PROVE Fenced!Next
  <2> DEFINE u == Unleased(job[l.job], "DEFERRED")
             r == Postponed(u, d)
  <2>1. d \in Nat /\ u \in JobRow /\ u.status = "DEFERRED"
        /\ u.epoch = job[l.job].epoch
    BY <1>2, QueueAssumption, UnleasedRow DEF Statuses
  <2>2. job' = [job EXCEPT ![l.job] = r] /\ effects' = effects
    BY <1>8 DEF Defer
  <2> HIDE DEF u
  <2>3. r \in JobRow /\ r.epoch = job[l.job].epoch /\ PhaseOf(r.status) = "waiting"
    BY <2>1, PostponedRow DEF PhaseOf
  <2> HIDE DEF r
  <2>4. job'[l.job] = r /\ \A j \in Jobs \ {l.job} : job'[j] = job[j]
    BY <1>1, <1>2, <2>2 DEF TypeOK
  <2>5. Fenced!Release(l.job)
    BY <1>2, <1>3, <1>8, <2>2, <2>3, <2>4, OneRow DEF Fenced!Release, Defer
  <2> QED BY <1>2, <2>5 DEF Fenced!Next
<1>9. ASSUME NEW k \in EffectKeys, NEW i \in Inputs, CommitLocalEffect(l, k, i)
      PROVE  Fenced!Next
  <2> DEFINE r == [input |-> i, revision |-> aggregate.version + 1]
  <2>1. effects' = [effects EXCEPT ![l.job][k] = r] /\ job' = job
    BY <1>9 DEF CommitLocalEffect
  <2>2. r # NoReceipt
    BY <1>1 DEF NoReceipt, TypeOK
  <2> HIDE DEF r
  <2>3. \A j \in Jobs, m \in EffectKeys :
          HasReceipt(j, m)' <=> HasReceipt(j, m) \/ (j = l.job /\ m = k)
    BY <1>1, <1>2, <2>1, <2>2 DEF HasReceipt, TypeOK
  <2>4. /\ AbsApplied' = [AbsApplied EXCEPT ![l.job] = @ \cup {k}]
        /\ k \notin AbsApplied[l.job]
    <3>1. \A j \in Jobs : {m \in EffectKeys : HasReceipt(j, m)'} =
             IF j = l.job THEN {m \in EffectKeys : HasReceipt(j, m)} \cup {k}
             ELSE {m \in EffectKeys : HasReceipt(j, m)}
      BY <2>3
    <3>2. k \notin AbsApplied[l.job]
      BY <1>2, <1>9 DEF AbsApplied, CommitLocalEffect
    <3> QED BY <1>2, <3>1, <3>2 DEF AbsApplied
  <2>5. AbsPhase' = AbsPhase /\ AbsEpoch' = AbsEpoch
    BY <2>1 DEF AbsPhase, AbsEpoch
  <2>6. Fenced!Apply(l.job, k)
    BY <1>3, <1>9, <2>4, <2>5 DEF Fenced!Apply, CommitLocalEffect
  <2> QED BY <1>2, <2>6 DEF Fenced!Next
<1> QED BY <1>4, <1>5, <1>6, <1>7, <1>8, <1>9 DEF UseLease

\* A poll: the dead letters settle, the claimed job is taken.
LEMMA PollStep ==
  ASSUME QueueInv, NEW dead \in SUBSET Jobs, NEW took \in SUBSET Jobs,
         \A i, j \in took : i = j, dead \cap took = {}, dead \subseteq Exhausted,
         effects' = effects,
         \A j \in dead : job'[j] = Unleased(job[j], "DEAD_LETTER"),
         \A j \in took : /\ AbsPhase[j] \in {"waiting", "held"}
                         /\ job[j].attempts < MaxAttempts
                         /\ job'[j].status = "RUNNING"
                         /\ job'[j].epoch = job[j].epoch + 1,
         \A j \in Jobs \ (dead \cup took) : job'[j] = job[j]
  PROVE  Fenced!Next
<1>1. job \in [Jobs -> JobRow]
  BY DEF QueueInv, TypeOK
<1>2. ASSUME NEW j \in dead
      PROVE  /\ AbsPhase[j] \in {"waiting", "held"} /\ AbsEpoch[j] = MaxAttempts
             /\ AbsPhase'[j] = "settled" /\ AbsEpoch'[j] = AbsEpoch[j]
  <2>1. /\ job'[j].status = "DEAD_LETTER" /\ job'[j].epoch = job[j].epoch
    BY <1>1, UnleasedRow DEF Statuses, Terminal
  <2>2. job[j].status \in {"QUEUED", "DEFERRED", "RUNNING"}
        /\ job[j].attempts >= MaxAttempts
    BY DEF Exhausted
  <2>3. job[j].attempts <= MaxAttempts /\ job[j].attempts \in Nat
        /\ job[j].epoch = job[j].attempts
    BY <1>1 DEF QueueInv, AttemptBudget, EpochCountsAttempts, JobRow
  <2>4. j \in Jobs /\ MaxAttempts \in Nat
    BY QueueAssumption
  <2>5. AbsPhase[j] \in {"waiting", "held"}
    BY <2>2, <2>4 DEF AbsPhase, PhaseOf
  <2>6. AbsPhase'[j] = "settled"
    BY <2>1, <2>4 DEF AbsPhase, PhaseOf
  <2>7. AbsEpoch[j] = MaxAttempts /\ AbsEpoch'[j] = AbsEpoch[j]
    BY <2>1, <2>2, <2>3, <2>4 DEF AbsEpoch
  <2> QED BY <2>5, <2>6, <2>7
<1>3. ASSUME NEW j \in took
      PROVE  /\ AbsEpoch[j] < MaxAttempts /\ AbsPhase'[j] = "held"
             /\ AbsEpoch'[j] = AbsEpoch[j] + 1
  BY <1>3 DEF AbsPhase, AbsEpoch, PhaseOf, QueueInv, EpochCountsAttempts
<1>4. ASSUME NEW j \in Jobs \ (dead \cup took)
      PROVE  AbsPhase'[j] = AbsPhase[j] /\ AbsEpoch'[j] = AbsEpoch[j]
  BY <1>4 DEF AbsPhase, AbsEpoch
<1>5. AbsPhase' = [j \in Jobs |-> IF j \in dead THEN "settled"
                                 ELSE IF j \in took THEN "held" ELSE AbsPhase[j]]
  <2>1. AbsPhase' = [j \in Jobs |-> AbsPhase'[j]]
    BY DEF AbsPhase
  <2> QED BY <2>1, <1>2, <1>3, <1>4
<1>6. AbsEpoch' = [j \in Jobs |-> IF j \in took THEN AbsEpoch[j] + 1
                                 ELSE AbsEpoch[j]]
  <2>1. AbsEpoch' = [j \in Jobs |-> AbsEpoch'[j]]
    BY DEF AbsEpoch
  <2> QED BY <2>1, <1>2, <1>3, <1>4
<1>7. AbsApplied' = AbsApplied
  BY DEF AbsApplied, HasReceipt
<1>8. Fenced!Poll(dead, took)
  BY <1>2, <1>3, <1>5, <1>6, <1>7 DEF Fenced!Poll, Fenced!Open
<1> QED BY <1>8 DEF Fenced!Next

LEMMA RefinementStep ==
  QueueInv /\ [Next]_vars => [Fenced!Next]_(Fenced!vars)
<1> SUFFICES ASSUME QueueInv, [Next]_vars PROVE Fenced!Next \/ UNCHANGED Fenced!vars
  OBVIOUS
<1>1. TypeOK
  BY DEF QueueInv
<1>2. ASSUME NEW l \in leases, UseLease(l)
      PROVE  Fenced!Next \/ UNCHANGED Fenced!vars
  BY <1>2, HeldSteps
<1>3. ASSUME NEW c \in Jobs, NEW p \in Payloads, NEW d \in 0..MaxDelay,
             EnqueueInsert(c, p, d)
      PROVE  Fenced!Next \/ UNCHANGED Fenced!vars
  <2>1. CASE job[c].status = "ABSENT"
    <3>1. /\ \A j \in Jobs \ {c} : job'[j] = job[j]
          /\ job'[c].epoch = job[c].epoch /\ job'[c].status = "QUEUED"
          /\ effects' = effects
      BY <1>1, <1>3, <2>1, InsertRows
    <3>2. AbsPhase[c] = "absent" /\ PhaseOf(job'[c].status) = "waiting"
      BY <2>1, <3>1 DEF AbsPhase, PhaseOf
    <3>3. Fenced!Submit(c)
      BY <3>1, <3>2, OneRow DEF Fenced!Submit
    <3> QED BY <3>3 DEF Fenced!Next
  <2>2. CASE job[c].status # "ABSENT"
    BY <1>3, <2>2, Stutter DEF EnqueueInsert
  <2> QED BY <2>1, <2>2
<1>4. ASSUME NEW dead \in SUBSET Jobs, NEW o \in Owners, NEW c \in Jobs,
             Claim(o, c, dead)
      PROVE  Fenced!Next
  <2>1. /\ c \notin dead /\ job[c].attempts < MaxAttempts
        /\ job'[c].status = "RUNNING" /\ job'[c].owner = o
        /\ job'[c].attempts = job[c].attempts + 1
        /\ job'[c].epoch = job[c].epoch + 1
    BY <1>1, <1>4, ClaimRows
  <2>2. /\ dead \subseteq Exhausted /\ effects' = effects /\ c \in Claimable
        /\ \A j \in dead : job'[j] = Unleased(job[j], "DEAD_LETTER")
        /\ \A j \in Jobs \ (dead \cup {c}) : job'[j] = job[j]
    BY <1>4 DEF Claim
  <2>3. AbsPhase[c] \in {"waiting", "held"}
    BY <2>2 DEF AbsPhase, PhaseOf, Claimable
  <2> QED BY <2>1, <2>2, <2>3, PollStep
<1>5. ASSUME NEW dead \in SUBSET Jobs, ClaimNothing(dead) PROVE Fenced!Next
  <2>1. /\ dead \subseteq Exhausted /\ effects' = effects
        /\ \A j \in dead : job'[j] = Unleased(job[j], "DEAD_LETTER")
        /\ \A j \in Jobs \ (dead \cup {}) : job'[j] = job[j]
    BY <1>5 DEF ClaimNothing
  <2>2. dead \cap {} = {} /\ {} \in SUBSET Jobs
    OBVIOUS
  <2> HIDE <1>5
  <2> QED BY <2>1, <2>2, PollStep
<1>6. ASSUME NEW c \in Jobs, CancelUnheld(c) PROVE Fenced!Next
  <2>1. job[c] \in JobRow
    BY <1>1 DEF TypeOK
  <2>2. job'[c] = Unleased(job[c], "CANCELED") /\ effects' = effects
        /\ \A j \in Jobs \ {c} : job'[j] = job[j]
    BY <1>1, <1>6 DEF CancelUnheld, TypeOK
  <2>3. job'[c].epoch = job[c].epoch /\ PhaseOf(job'[c].status) = "withdrawn"
    BY <2>1, <2>2, UnleasedRow DEF PhaseOf, Statuses, Terminal
  <2>4. AbsApplied[c] = {} /\ AbsPhase[c] \in {"waiting", "held"}
    BY <1>6 DEF CancelUnheld, NoEffect, AbsApplied, AbsPhase, PhaseOf
  <2>5. Fenced!Withdraw(c)
    BY <2>2, <2>3, <2>4, OneRow DEF Fenced!Withdraw, Fenced!Open
  <2> QED BY <2>5 DEF Fenced!Next
<1>7. CASE Tick
  <2>1. ASSUME NEW j \in Jobs
        PROVE  job'[j].epoch = job[j].epoch /\ job'[j].status = job[j].status
    <3>1. job'[j] = Ticked(job[j]) /\ job[j] \in JobRow
      BY <1>1, <1>7 DEF Tick, TypeOK
    <3> QED BY <3>1, TickedRow
  <2> QED BY <1>7, <2>1, Stutter DEF Tick
<1>8. CASE job' = job /\ effects' = effects
  BY <1>8, Stutter
<1> QED BY <1>2, <1>3, <1>4, <1>5, <1>6, <1>7, <1>8
        DEF Next, Enqueue, EnqueueSelect, ClaimPass, ForeignWrite, vars

\* The rows, leases, clock and retries of the queue implement FencedJobs.
THEOREM Refinement == Spec => RefinesFencedJobs
<1>1. Init => Fenced!Init
  BY RefinementInit
<1> QED BY <1>1, RefinementStep, QueueInvariant, PTL
        DEF Spec, RefinesFencedJobs, Fenced!Spec
=============================================================================
