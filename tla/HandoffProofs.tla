----------------------------- MODULE HandoffProofs ----------------------------
(***************************************************************************)
(* Proofs about HandoffDelivery, for any sets of intents, dispatchers and  *)
(* operators and any number of attempts.  The queue is the one that        *)
(* commit_delivery_effect writes to without its locks, so its invariant is *)
(* proved again, for the steps that are taken here.                        *)
(***************************************************************************)
EXTENDS HandoffDelivery, TLAPS

HandoffType ==
  /\ TypeOK
  /\ attempts \in [Intents -> SUBSET ((Nat \ {0}) \X Results)]
  /\ DOMAIN open = Intents

\* Epochs count the grants of a job, which are each made once.
QueueStands ==
  /\ Queue!EpochCountsAttempts /\ Queue!OneGrantPerEpoch /\ Queue!RowMatchesGrant
  /\ Queue!AttemptBudget
  /\ \A l \in leases : l.epoch # 0

Holding == {"claimed", "read", "marking", "sending", "sent", "writing"}

\* A dispatcher holds a grant of its own, and nobody writes its receipt for it.
DispatcherStands(w) ==
  /\ dispatcher[w].pc \in Holding => LeaseOf(w) \in leases /\ LeaseOf(w).owner = w
  /\ dispatcher[w].pc \in {"sent", "writing"} =>
       /\ dispatcher[w].result \in Outcome
       /\ dispatcher[w].result.state = "DELIVERED" => reached[Target(w)]
  /\ dispatcher[w].pc = "writing" => ~Queue!HasReceipt(Target(w), LeaseOf(w).epoch)

ReconcilerStands(r) ==
  reconciler[r].pc # "idle" =>
    /\ reconciler[r].intent \in Intents /\ reconciler[r].result \in Results
    /\ reconciler[r].result = "DELIVERED" => reached[reconciler[r].intent]

\* One number, one row.
NumbersAreUnique(i) == \A a, b \in attempts[i] : a[1] = b[1] => a = b

LedgerAgrees(i) ==
  /\ \A k \in 1..MaxAttempts : Queue!HasReceipt(i, k) =>
       <<effects[i][k].revision, effects[i][k].input>> \in attempts[i]
  /\ \A k, n \in 1..MaxAttempts :
       Queue!HasReceipt(i, k) /\ effects[i][k] = effects[i][n] => k = n
  /\ job[i].status = "SUCCEEDED" =>
       \E k \in 1..MaxAttempts : effects[i][k].input = "DELIVERED"

HandoffInv ==
  /\ HandoffType /\ QueueStands
  /\ \A w \in Owners : DispatcherStands(w)
  /\ \A r \in Operators : ReconcilerStands(r)
  /\ \A i \in Intents : NumbersAreUnique(i) /\ LedgerAgrees(i)
  /\ DeliveredIsTrue

-----------------------------------------------------------------------------
\* What the row of a job looks like after it left its owner.
LEMMA UnleasedRow ==
  ASSUME NEW r \in Queue!JobRow, NEW s \in Queue!Statuses
  PROVE  /\ Queue!Unleased(r, s) \in Queue!JobRow
         /\ Queue!Unleased(r, s).status = s
         /\ Queue!Unleased(r, s).owner = None
         /\ Queue!Unleased(r, s).leaseLeft = 0
         /\ Queue!Unleased(r, s).attempts = r.attempts
         /\ Queue!Unleased(r, s).epoch = r.epoch
BY DEF Queue!Unleased, Queue!JobRow

\* What the row of a job looks like after its available_at was moved.
LEMMA PostponedRow ==
  ASSUME NEW r \in Queue!JobRow, NEW d \in Nat
  PROVE  /\ Queue!Postponed(r, d) \in Queue!JobRow
         /\ Queue!Postponed(r, d).status = r.status
         /\ Queue!Postponed(r, d).owner = r.owner
         /\ Queue!Postponed(r, d).leaseLeft = r.leaseLeft
         /\ Queue!Postponed(r, d).attempts = r.attempts
         /\ Queue!Postponed(r, d).epoch = r.epoch
BY DEF Queue!Postponed, Queue!JobRow

\* The row of a job a dispatcher just claimed.
LEMMA ClaimedRowFields ==
  ASSUME NEW r \in Queue!JobRow, NEW o \in Owners
  PROVE  /\ Queue!ClaimedRow(r, o) \in Queue!JobRow
         /\ Queue!ClaimedRow(r, o).status = "RUNNING"
         /\ Queue!ClaimedRow(r, o).owner = o
         /\ Queue!ClaimedRow(r, o).attempts = r.attempts + 1
         /\ Queue!ClaimedRow(r, o).epoch = r.epoch + 1
<1>1. LeaseDuration \in Nat /\ r.attempts + 1 \in Nat /\ r.epoch + 1 \in Nat
      /\ r.attempts \in Nat /\ r.epoch \in Nat
  BY HandoffAssumption DEF Queue!JobRow
<1> DEFINE a == r.attempts + 1
           e == r.epoch + 1
<1>2. Queue!ClaimedRow(r, o) = [r EXCEPT !.status = "RUNNING", !.attempts = a, !.owner = o,
                                         !.epoch = e, !.leaseLeft = LeaseDuration]
  BY DEF Queue!ClaimedRow
<1>3. a \in Nat /\ e \in Nat
  BY <1>1
<1> HIDE DEF a, e
<1>4. /\ Queue!ClaimedRow(r, o) \in Queue!JobRow
      /\ Queue!ClaimedRow(r, o).status = "RUNNING"
      /\ Queue!ClaimedRow(r, o).owner = o
      /\ Queue!ClaimedRow(r, o).attempts = a
      /\ Queue!ClaimedRow(r, o).epoch = e
  BY <1>1, <1>2, <1>3 DEF Queue!JobRow, Queue!Statuses
<1> QED  BY <1>4 DEF a, e

\* What the clock does to the row of a job.
LEMMA TickedRow ==
  ASSUME NEW r \in Queue!JobRow
  PROVE  /\ Queue!Ticked(r) \in Queue!JobRow
         /\ Queue!Ticked(r).status = r.status
         /\ Queue!Ticked(r).owner = r.owner
         /\ Queue!Ticked(r).attempts = r.attempts
         /\ Queue!Ticked(r).epoch = r.epoch
         /\ r.leaseLeft = 0 => Queue!Ticked(r).leaseLeft = 0
<1> DEFINE left == Queue!CutOff(r.leaseLeft - 1)
           delay == Queue!CutOff(r.delay - 1)
<1>1. left \in Nat /\ delay \in Nat /\ (r.leaseLeft = 0 => left = 0)
  BY DEF Queue!CutOff, Queue!JobRow
<1>2. Queue!Ticked(r) = [r EXCEPT !.leaseLeft = left, !.delay = delay]
  BY DEF Queue!Ticked
<1> HIDE DEF left, delay
<1> QED  BY <1>1, <1>2 DEF Queue!JobRow

LEMMA Types ==
  ASSUME HandoffType
  PROVE  /\ job \in [Intents -> Queue!JobRow] /\ leases \subseteq Queue!Lease
         /\ effects \in [Intents -> [1..MaxAttempts -> Queue!Receipt \cup {Queue!NoReceipt}]]
         /\ delivery \in [Intents -> DeliveryRow]
         /\ attempts \in [Intents -> SUBSET ((Nat \ {0}) \X Results)]
         /\ dispatcher \in [Owners -> Calls] /\ reconciler \in [Operators -> Reconciliations]
         /\ reached \in [Intents -> BOOLEAN]
BY DEF HandoffType, TypeOK, Queue!TypeOK

\* A grant is of one of the attempts of its job.
LEMMA GrantedEpoch ==
  ASSUME HandoffInv, NEW l \in leases
  PROVE  l.job \in Intents /\ l.owner \in Owners /\ l.epoch \in 1..MaxAttempts
<1>1. l \in Queue!Lease /\ job[l.job] \in Queue!JobRow
  BY Types DEF HandoffInv, Queue!Lease
<1>2. l.epoch <= job[l.job].attempts /\ job[l.job].attempts <= MaxAttempts /\ l.epoch # 0
  BY <1>1 DEF HandoffInv, QueueStands, Queue!AttemptBudget, Queue!Lease
<1> QED  BY <1>1, <1>2, HandoffAssumption DEF Queue!Lease, Queue!JobRow

\* A step that grants nothing: rows stay with their owner or leave them.
LEMMA QueueKeeps ==
  ASSUME HandoffInv, leases' = leases, job' \in [Intents -> Queue!JobRow],
         \A i \in Intents :
           /\ job'[i].epoch = job[i].epoch /\ job'[i].attempts = job[i].attempts
           /\ \/ job'[i].status = job[i].status /\ job'[i].owner = job[i].owner
                 /\ (job[i].leaseLeft = 0 => job'[i].leaseLeft = 0)
              \/ job'[i].status # "RUNNING" /\ job'[i].owner = None /\ job'[i].leaseLeft = 0
           /\ job'[i].status = "DEAD_LETTER" =>
                job[i].status = "DEAD_LETTER" \/ job[i].attempts >= MaxAttempts
  PROVE  QueueStands'
<1>1. \A i \in Intents : job[i] \in Queue!JobRow
  BY Types DEF HandoffInv
<1>2. Queue!EpochCountsAttempts' /\ Queue!OneGrantPerEpoch'
  BY DEF HandoffInv, QueueStands, Queue!EpochCountsAttempts, Queue!OneGrantPerEpoch
<1>3. Queue!RowMatchesGrant'
  <2> SUFFICES ASSUME NEW i \in Intents
               PROVE  /\ job'[i].status = "RUNNING" <=> job'[i].owner # None
                      /\ job'[i].status = "RUNNING" =>
                           [job |-> i, owner |-> job'[i].owner, epoch |-> job'[i].epoch] \in leases'
                      /\ job'[i].status # "RUNNING" => job'[i].leaseLeft = 0
    BY DEF Queue!RowMatchesGrant
  <2>1. /\ job[i].status = "RUNNING" <=> job[i].owner # None
        /\ job[i].status = "RUNNING" =>
             [job |-> i, owner |-> job[i].owner, epoch |-> job[i].epoch] \in leases
        /\ job[i].status # "RUNNING" => job[i].leaseLeft = 0
    BY DEF HandoffInv, QueueStands, Queue!RowMatchesGrant
  <2> QED  BY <2>1
<1>4. Queue!AttemptBudget'
  <2>1. \A i \in Intents : job[i].attempts \in Nat /\ job[i].attempts <= MaxAttempts
    BY <1>1 DEF HandoffInv, QueueStands, Queue!AttemptBudget, Queue!JobRow
  <2> QED  BY <2>1, HandoffAssumption DEF HandoffInv, QueueStands, Queue!AttemptBudget
<1> QED  BY <1>2, <1>3, <1>4 DEF HandoffInv, QueueStands

-----------------------------------------------------------------------------
(* The steps that grant nothing and write no receipt. *)
Row(i) ==
  /\ job'[i].epoch = job[i].epoch /\ job'[i].attempts = job[i].attempts
  /\ \/ job'[i].status = job[i].status /\ job'[i].owner = job[i].owner
        /\ (job[i].leaseLeft = 0 => job'[i].leaseLeft = 0)
     \/ /\ job[i].status \notin Queue!Terminal /\ job'[i].status # "RUNNING"
        /\ job'[i].owner = None /\ job'[i].leaseLeft = 0
  /\ job'[i].status = "DEAD_LETTER" =>
       job[i].status = "DEAD_LETTER" \/ job[i].attempts >= MaxAttempts

\* A row that is not written is kept.
LEMMA SameRow ==
  ASSUME NEW i \in Intents, job'[i] = job[i] PROVE Row(i)
BY DEF Row

\* A row that leaves its owner, or never had one, is kept.
LEMMA RowLeft ==
  ASSUME HandoffInv, NEW i \in Intents, NEW s \in Queue!Statuses \ {"RUNNING", "DEAD_LETTER"},
         job[i].status \notin Queue!Terminal,
         job'[i] = Queue!Unleased(job[i], s)
           \/ \E d \in Nat : job'[i] = Queue!Postponed(Queue!Unleased(job[i], s), d)
  PROVE  Row(i) /\ job'[i] \in Queue!JobRow /\ job'[i].status = s
<1>1. job[i] \in Queue!JobRow
  BY Types DEF HandoffInv
<1>2. /\ Queue!Unleased(job[i], s) \in Queue!JobRow
      /\ Queue!Unleased(job[i], s).status = s
      /\ Queue!Unleased(job[i], s).owner = None
      /\ Queue!Unleased(job[i], s).leaseLeft = 0
      /\ Queue!Unleased(job[i], s).attempts = job[i].attempts
      /\ Queue!Unleased(job[i], s).epoch = job[i].epoch
  BY <1>1, UnleasedRow
<1> DEFINE u == Queue!Unleased(job[i], s)
<1> HIDE DEF u
<1>3. CASE job'[i] = Queue!Unleased(job[i], s)
  BY <1>2, <1>3 DEF Row
<1>4. ASSUME NEW d \in Nat, job'[i] = Queue!Postponed(Queue!Unleased(job[i], s), d)
      PROVE  Row(i) /\ job'[i] \in Queue!JobRow /\ job'[i].status = s
  <2>1. /\ job'[i] \in Queue!JobRow /\ job'[i].status = s /\ job'[i].owner = None
        /\ job'[i].leaseLeft = 0 /\ job'[i].attempts = job[i].attempts
        /\ job'[i].epoch = job[i].epoch
    BY <1>2, <1>4, PostponedRow
  <2> QED  BY <2>1 DEF Row
<1> QED  BY <1>3, <1>4

\* What must hold of the next state for it to be well typed.
LEMMA TypesBack ==
  ASSUME Queue!TypeOK', delivery' \in [Intents -> DeliveryRow],
         attempts' \in [Intents -> SUBSET ((Nat \ {0}) \X Results)],
         dispatcher' \in [Owners -> Calls], reconciler' \in [Operators -> Reconciliations],
         reached' \in [Intents -> BOOLEAN], DOMAIN open' = Intents,
         \A i \in Intents : open'[i] \subseteq 1..MaxAttempts
  PROVE  HandoffType'
BY DEF HandoffType, TypeOK

LEMMA TypedNow ==
  ASSUME HandoffInv
  PROVE  /\ Queue!TypeOK /\ DOMAIN open = Intents
         /\ \A i \in Intents : open[i] \subseteq 1..MaxAttempts
         /\ \A i \in Intents : job[i] \in Queue!JobRow /\ delivery[i] \in DeliveryRow
         /\ \A w \in Owners : dispatcher[w] \in Calls
         /\ \A r \in Operators : reconciler[r] \in Reconciliations
BY Types DEF HandoffInv, HandoffType, TypeOK

\* The queue is not touched.
LEMMA QueueUntouched ==
  ASSUME HandoffInv, UNCHANGED queueVars
  PROVE  /\ Queue!TypeOK' /\ leases' = leases /\ effects' = effects
         /\ \A i \in Intents : Row(i) /\ job'[i].status = job[i].status
BY TypedNow, SameRow DEF queueVars, Queue!TypeOK

\* The queue changes rows only.
LEMMA QueueRows ==
  ASSUME HandoffInv, job' \in [Intents -> Queue!JobRow], UNCHANGED <<leases, effects, aggregate>>,
         enqueuing' \subseteq Queue!Requests, told' \subseteq Queue!Requests
  PROVE  Queue!TypeOK'
BY TypedNow DEF Queue!TypeOK

\* A dispatcher goes on, the others stay where they are.
LEMMA Goes ==
  ASSUME HandoffInv, NEW w \in Owners,
         NEW pc \in {"idle", "marked", "claimed", "read", "marking", "sending", "sent", "writing"},
         Goto(w, pc)
  PROVE  /\ dispatcher' \in [Owners -> Calls]
         /\ dispatcher'[w].pc = pc /\ dispatcher'[w].lease = dispatcher[w].lease
         /\ dispatcher'[w].result = dispatcher[w].result
         /\ \A v \in Owners : v # w => dispatcher'[v] = dispatcher[v]
<1>1. dispatcher \in [Owners -> Calls] /\ dispatcher[w] \in Calls
  BY Types DEF HandoffInv
<1> DEFINE c == [dispatcher[w] EXCEPT !.pc = pc]
<1>2. /\ c \in Calls /\ c.pc = pc /\ c.lease = dispatcher[w].lease
      /\ c.result = dispatcher[w].result
  BY <1>1 DEF Calls
<1>3. dispatcher' = [dispatcher EXCEPT ![w] = c]
  BY <1>1 DEF Goto
<1> HIDE DEF c
<1> QED  BY <1>1, <1>2, <1>3

\* A dispatcher returns from dispatch_once.
LEMMA Returns ==
  ASSUME HandoffInv, NEW w \in Owners, Return(w)
  PROVE  /\ dispatcher' \in [Owners -> Calls]
         /\ dispatcher'[w].pc = "idle"
         /\ \A v \in Owners : v # w => dispatcher'[v] = dispatcher[v]
<1>1. dispatcher \in [Owners -> Calls]
  BY Types DEF HandoffInv
<1>2. Idle \in Calls /\ Idle.pc = "idle"
  BY DEF Idle, Calls
<1> QED  BY <1>1, <1>2 DEF Return

\* A dispatcher that stays where it is keeps what it knows.
LEMMA DispatcherKeeps ==
  ASSUME HandoffInv, NEW w \in Owners, dispatcher'[w] = dispatcher[w],
         leases \subseteq leases', effects' = effects,
         \A i \in Intents : reached[i] => reached'[i]
  PROVE  DispatcherStands(w)'
<1>1. DispatcherStands(w)
  BY DEF HandoffInv
<1>2. dispatcher[w].pc \in Holding => Target(w) \in Intents
  BY <1>1, GrantedEpoch DEF DispatcherStands, Target
<1> QED  BY <1>1, <1>2 DEF DispatcherStands, LeaseOf, Target, Queue!HasReceipt, Queue!NoReceipt, Holding

\* What a step that neither grants a lease nor records an outcome must show.
LEMMA QuietStep ==
  ASSUME HandoffInv, HandoffType',
         leases' = leases, effects' = effects, attempts' = attempts,
         \A i \in Intents :
           /\ Row(i) /\ (job'[i].status = "SUCCEEDED" => job[i].status = "SUCCEEDED")
           /\ delivery'[i].state = "DELIVERED" => delivery[i].state = "DELIVERED"
           /\ reached[i] => reached'[i],
         \A w \in Owners : dispatcher'[w] = dispatcher[w] \/ DispatcherStands(w)',
         \A r \in Operators : reconciler'[r] = reconciler[r] \/ ReconcilerStands(r)'
  PROVE  HandoffInv'
<1>1. QueueStands'
  <2>1. job' \in [Intents -> Queue!JobRow]
    BY DEF HandoffType, TypeOK, Queue!TypeOK
  <2> QED  BY <2>1, QueueKeeps DEF Row
<1>2. \A w \in Owners : DispatcherStands(w)'
  BY DispatcherKeeps
<1>3. ASSUME NEW r \in Operators PROVE ReconcilerStands(r)'
  BY DEF HandoffInv, ReconcilerStands
<1>4. ASSUME NEW i \in Intents PROVE NumbersAreUnique(i)' /\ LedgerAgrees(i)'
  <2>1. NumbersAreUnique(i) /\ LedgerAgrees(i)
    BY DEF HandoffInv
  <2> QED  BY <2>1 DEF NumbersAreUnique, LedgerAgrees, Queue!HasReceipt, Queue!NoReceipt
<1>5. DeliveredIsTrue'
  BY DEF HandoffInv, DeliveredIsTrue
<1> QED  BY <1>1, <1>2, <1>3, <1>4, <1>5 DEF HandoffInv

-----------------------------------------------------------------------------
LEMMA HandoffInit == Init => HandoffInv
<1> SUFFICES ASSUME Init PROVE HandoffInv
  OBVIOUS
<1>1. MaxAttempts \in Nat \ {0}
  BY HandoffAssumption
<1>2. Queue!AbsentRow \in Queue!JobRow /\ Queue!AbsentRow.status = "ABSENT"
      /\ Queue!AbsentRow.owner = None /\ Queue!AbsentRow.epoch = 0
      /\ Queue!AbsentRow.attempts = 0 /\ Queue!AbsentRow.leaseLeft = 0
  BY DEF Queue!AbsentRow, Queue!JobRow, Queue!Statuses
<1>3. Queue!TypeOK
  BY <1>2 DEF Init, Queue!Init, Queue!TypeOK, Queue!NoReceipt
<1>4. HandoffType
  <2>1. [state |-> "ABSENT", count |-> 0, bound |-> FALSE] \in DeliveryRow
    BY DEF DeliveryRow, States
  <2>2. Idle \in Calls
    BY DEF Idle, Calls
  <2>3. Resting \in Reconciliations
    BY DEF Resting, Reconciliations
  <2> QED  BY <1>3, <2>1, <2>2, <2>3 DEF Init, HandoffType, TypeOK
<1>5. QueueStands
  <2>1. leases = {} /\ \A i \in Intents : job[i] = Queue!AbsentRow
    BY DEF Init, Queue!Init
  <2> QED  BY <1>1, <1>2, <2>1 DEF QueueStands, Queue!EpochCountsAttempts, Queue!OneGrantPerEpoch,
             Queue!RowMatchesGrant, Queue!AttemptBudget
<1>6. /\ \A w \in Owners : DispatcherStands(w)
      /\ \A r \in Operators : ReconcilerStands(r)
  BY DEF Init, Idle, Resting, DispatcherStands, ReconcilerStands, Holding
<1>7. ASSUME NEW i \in Intents PROVE NumbersAreUnique(i) /\ LedgerAgrees(i)
  <2>1. /\ attempts[i] = {} /\ job[i].status = "ABSENT"
        /\ \A k \in 1..MaxAttempts : effects[i][k] = Queue!NoReceipt
    BY <1>2 DEF Init, Queue!Init
  <2> QED  BY <2>1 DEF NumbersAreUnique, LedgerAgrees, Queue!HasReceipt
<1>8. DeliveredIsTrue
  <2>1. \A i \in Intents : attempts[i] = {} /\ job[i].status = "ABSENT" /\ delivery[i].state = "ABSENT"
    BY <1>2 DEF Init, Queue!Init
  <2> QED  BY <2>1 DEF DeliveredIsTrue
<1> QED  BY <1>4, <1>5, <1>6, <1>7, <1>8 DEF HandoffInv

-----------------------------------------------------------------------------
\* A step of one dispatcher that leaves the queue and the ledger alone.
LEMMA DispatcherStep ==
  ASSUME HandoffInv, NEW w \in Owners,
         dispatcher' \in [Owners -> Calls],
         \A v \in Owners : v # w => dispatcher'[v] = dispatcher[v],
         DispatcherStands(w)',
         UNCHANGED <<queueVars, attempts, reconciler>>,
         delivery' \in [Intents -> DeliveryRow],
         \A i \in Intents : /\ delivery'[i].state = "DELIVERED" => delivery[i].state = "DELIVERED"
                            /\ reached[i] => reached'[i],
         reached' \in [Intents -> BOOLEAN], DOMAIN open' = Intents,
         \A i \in Intents : open'[i] \subseteq 1..MaxAttempts
  PROVE  HandoffInv'
<1>1. /\ Queue!TypeOK' /\ leases' = leases /\ effects' = effects
      /\ \A i \in Intents : Row(i) /\ job'[i].status = job[i].status
  BY QueueUntouched DEF queueVars
<1>2. HandoffType'
  BY <1>1, Types, TypesBack DEF HandoffInv
<1> QED  BY <1>1, <1>2, QuietStep

\* A step of one dispatcher that changes nothing else.
LEMMA DispatcherAlone ==
  ASSUME HandoffInv, NEW w \in Owners,
         dispatcher' \in [Owners -> Calls],
         \A v \in Owners : v # w => dispatcher'[v] = dispatcher[v],
         DispatcherStands(w)',
         UNCHANGED <<queueVars, delivery, attempts, reconciler, reached, open>>
  PROVE  HandoffInv'
BY TypedNow, Types, DispatcherStep DEF HandoffInv

LEMMA IdleStands ==
  ASSUME NEW w \in Owners, dispatcher'[w].pc = "idle" PROVE DispatcherStands(w)'
BY DEF DispatcherStands, Holding

\* A dispatcher that goes on keeps its grant.
LEMMA HolderStands ==
  ASSUME HandoffInv, NEW w \in Owners, dispatcher[w].pc \in Holding,
         dispatcher'[w].pc \in {"claimed", "read", "marking", "sending"},
         dispatcher'[w].lease = dispatcher[w].lease, leases' = leases
  PROVE  DispatcherStands(w)'
<1>1. LeaseOf(w) \in leases /\ LeaseOf(w).owner = w
  BY DEF HandoffInv, DispatcherStands
<1> QED  BY <1>1 DEF DispatcherStands, LeaseOf, Holding

LEMMA MarkExpiredKeeps ==
  ASSUME HandoffInv, NEW w \in Owners, MarkExpired(w) PROVE HandoffInv'
<1>1. Goto(w, "marked") /\ UNCHANGED <<queueVars, attempts, reconciler, reached, open>>
  BY DEF MarkExpired
<1>2. delivery' \in [Intents -> DeliveryRow]
  BY Types DEF HandoffInv, MarkExpired, DeliveryRow, States, Results
<1>3. \A i \in Intents : delivery'[i].state = "DELIVERED" => delivery[i].state = "DELIVERED"
  BY Types DEF HandoffInv, MarkExpired, DeliveryRow
<1>4. /\ dispatcher' \in [Owners -> Calls] /\ dispatcher'[w].pc = "marked"
      /\ \A v \in Owners : v # w => dispatcher'[v] = dispatcher[v]
  BY <1>1, Goes
<1>5. DispatcherStands(w)'
  BY <1>4 DEF DispatcherStands, Holding
<1> QED  BY <1>1, <1>2, <1>3, <1>4, <1>5, TypedNow, Types, DispatcherStep DEF HandoffInv

LEMMA ReadIntentKeeps ==
  ASSUME HandoffInv, NEW w \in Owners, ReadIntent(w) PROVE HandoffInv'
<1>1. dispatcher[w].pc = "claimed" /\ UNCHANGED <<queueVars, delivery, attempts, reconciler, reached, open>>
  BY DEF ReadIntent, At
<1>2. Target(w) \in Intents
  BY <1>1, GrantedEpoch DEF HandoffInv, DispatcherStands, Holding, Target
<1> DEFINE seen == IF delivery[Target(w)].bound THEN delivery[Target(w)].state ELSE "MISSING"
           c == [dispatcher[w] EXCEPT !.pc = "read", !.seen = seen]
<1>3. seen \in States \cup {"", "MISSING"}
  <2>1. delivery[Target(w)] \in DeliveryRow
    BY <1>2, TypedNow
  <2> QED  BY <2>1 DEF DeliveryRow
<1>4. dispatcher' = [dispatcher EXCEPT ![w] = c]
  BY Types DEF HandoffInv, ReadIntent
<1> HIDE DEF seen
<1>5. c \in Calls /\ c.pc = "read" /\ c.lease = dispatcher[w].lease
  BY <1>3, TypedNow DEF Calls
<1> HIDE DEF c
<1>6. /\ dispatcher' \in [Owners -> Calls] /\ dispatcher'[w] = c
      /\ \A v \in Owners : v # w => dispatcher'[v] = dispatcher[v]
  BY <1>4, <1>5, Types DEF HandoffInv
<1>7. DispatcherStands(w)'
  BY <1>1, <1>5, <1>6, HolderStands DEF Holding, queueVars
<1> QED  BY <1>1, <1>6, <1>7, DispatcherAlone

LEMMA CheckLeaseKeeps ==
  ASSUME HandoffInv, NEW w \in Owners, CheckLease(w) PROVE HandoffInv'
<1>1. dispatcher[w].pc = "read" /\ UNCHANGED <<queueVars, delivery, attempts, reconciler, reached, open>>
  BY DEF CheckLease, At
<1>2. CASE Goto(w, "marking")
  <2>1. /\ dispatcher' \in [Owners -> Calls] /\ dispatcher'[w].pc = "marking"
        /\ dispatcher'[w].lease = dispatcher[w].lease
        /\ \A v \in Owners : v # w => dispatcher'[v] = dispatcher[v]
    BY <1>2, Goes
  <2>2. DispatcherStands(w)'
    BY <1>1, <2>1, HolderStands DEF Holding, queueVars
  <2> QED  BY <1>1, <2>1, <2>2, DispatcherAlone
<1>3. CASE Return(w)
  BY <1>1, <1>3, Returns, IdleStands, DispatcherAlone
<1> QED  BY <1>2, <1>3 DEF CheckLease

LEMMA MarkDispatchingKeeps ==
  ASSUME HandoffInv, NEW w \in Owners, MarkDispatching(w) PROVE HandoffInv'
<1>1. /\ dispatcher[w].pc = "marking" /\ Goto(w, "sending")
      /\ UNCHANGED <<queueVars, attempts, reconciler, reached, open>>
  BY DEF MarkDispatching, At
<1>2. Target(w) \in Intents
  BY <1>1, GrantedEpoch DEF HandoffInv, DispatcherStands, Holding, Target
<1> DEFINE i == Target(w)
           n == AtLeast(delivery[i].count, job[i].attempts)
           d == [delivery[i] EXCEPT !.state = "DISPATCHING", !.count = n]
<1>3. n \in Nat
  <2>1. delivery[i].count \in Nat /\ job[i].attempts \in Nat
    BY <1>2, TypedNow DEF DeliveryRow, Queue!JobRow
  <2> QED  BY <2>1 DEF AtLeast
<1>4. delivery' = delivery \/ delivery' = [delivery EXCEPT ![i] = d]
  BY <1>2, Types DEF HandoffInv, MarkDispatching
<1> HIDE DEF n
<1>5. d \in DeliveryRow /\ d.state = "DISPATCHING"
  BY <1>2, <1>3, TypedNow DEF DeliveryRow, States
<1> HIDE DEF d, i
<1>6. /\ delivery' \in [Intents -> DeliveryRow]
      /\ \A j \in Intents : delivery'[j].state = "DELIVERED" => delivery[j].state = "DELIVERED"
  BY <1>2, <1>4, <1>5, Types DEF HandoffInv, i
<1>7. /\ dispatcher' \in [Owners -> Calls] /\ dispatcher'[w].pc = "sending"
      /\ dispatcher'[w].lease = dispatcher[w].lease
      /\ \A v \in Owners : v # w => dispatcher'[v] = dispatcher[v]
  BY <1>1, Goes
<1>8. DispatcherStands(w)'
  BY <1>1, <1>7, HolderStands DEF Holding, queueVars
<1> QED  BY <1>1, <1>6, <1>7, <1>8, TypedNow, Types, DispatcherStep DEF HandoffInv

LEMMA CommitCheckKeeps ==
  ASSUME HandoffInv, NEW w \in Owners, CommitCheck(w) PROVE HandoffInv'
<1>1. dispatcher[w].pc = "sent" /\ UNCHANGED <<queueVars, delivery, attempts, reconciler, reached, open>>
  BY DEF CommitCheck, At
<1>2. CASE Goto(w, "writing") /\ ~Queue!HasReceipt(Target(w), LeaseOf(w).epoch)
  <2>1. /\ dispatcher' \in [Owners -> Calls] /\ dispatcher'[w].pc = "writing"
        /\ dispatcher'[w].lease = dispatcher[w].lease
        /\ dispatcher'[w].result = dispatcher[w].result
        /\ \A v \in Owners : v # w => dispatcher'[v] = dispatcher[v]
    BY <1>2, Goes
  <2>2. DispatcherStands(w)
    BY DEF HandoffInv
  <2>3. leases' = leases /\ effects' = effects /\ reached' = reached
    BY <1>1 DEF queueVars
  <2>4. DispatcherStands(w)'
    BY <1>1, <1>2, <2>1, <2>2, <2>3 DEF DispatcherStands, Holding, LeaseOf, Target, Queue!HasReceipt, Queue!NoReceipt
  <2> QED  BY <1>1, <2>1, <2>4, DispatcherAlone
<1>3. CASE Return(w)
  BY <1>1, <1>3, Returns, IdleStands, DispatcherAlone
<1> QED  BY <1>2, <1>3 DEF CommitCheck

-----------------------------------------------------------------------------
\* A step of the queue, after which a dispatcher may have returned.
LEMMA QueueStep ==
  ASSUME HandoffInv, UNCHANGED <<delivery, attempts, reconciler, reached, open>>,
         dispatcher' \in [Owners -> Calls],
         \A v \in Owners : dispatcher'[v] = dispatcher[v] \/ dispatcher'[v].pc = "idle",
         Queue!TypeOK', leases' = leases, effects' = effects,
         \A i \in Intents : Row(i) /\ (job'[i].status = "SUCCEEDED" => job[i].status = "SUCCEEDED")
  PROVE  HandoffInv'
<1>1. HandoffType'
  BY TypedNow, Types, TypesBack DEF HandoffInv
<1>2. \A v \in Owners : dispatcher'[v] = dispatcher[v] \/ DispatcherStands(v)'
  BY IdleStands
<1> QED  BY <1>1, <1>2, QuietStep

\* A row that is dead-lettered had no attempts left.
LEMMA RowDies ==
  ASSUME HandoffInv, NEW i \in Queue!Exhausted, job'[i] = Queue!Unleased(job[i], "DEAD_LETTER")
  PROVE  i \in Intents /\ Row(i) /\ job'[i] \in Queue!JobRow /\ job'[i].status = "DEAD_LETTER"
<1>1. /\ i \in Intents /\ job[i].attempts >= MaxAttempts /\ job[i].status \notin Queue!Terminal
      /\ "DEAD_LETTER" \in Queue!Statuses
  BY DEF Queue!Exhausted, Queue!Terminal, Queue!Statuses
<1>2. job[i] \in Queue!JobRow
  BY <1>1, TypedNow
<1>3. /\ job'[i] \in Queue!JobRow /\ job'[i].status = "DEAD_LETTER"
      /\ job'[i].owner = None /\ job'[i].leaseLeft = 0
      /\ job'[i].attempts = job[i].attempts /\ job'[i].epoch = job[i].epoch
  BY <1>1, <1>2, UnleasedRow
<1> QED  BY <1>1, <1>3 DEF Row

LEMMA InsertIntentKeeps ==
  ASSUME HandoffInv, NEW i \in Intents, InsertIntent(i) \/ BindJob(i) PROVE HandoffInv'
<1>1. UNCHANGED <<queueVars, attempts, localVars>>
  BY DEF InsertIntent, BindJob
<1>2. /\ delivery' \in [Intents -> DeliveryRow]
      /\ \A j \in Intents : delivery'[j].state = "DELIVERED" => delivery[j].state = "DELIVERED"
  <2>1. CASE InsertIntent(i)
    BY <2>1, Types DEF HandoffInv, InsertIntent, DeliveryRow, States
  <2>2. CASE BindJob(i)
    BY <2>2, Types DEF HandoffInv, BindJob, DeliveryRow
  <2> QED  BY <2>1, <2>2
<1>3. /\ Queue!TypeOK' /\ leases' = leases /\ effects' = effects
      /\ \A j \in Intents : Row(j) /\ job'[j].status = job[j].status
  BY <1>1, QueueUntouched
<1>4. HandoffType'
  BY <1>1, <1>2, <1>3, TypedNow, Types, TypesBack DEF HandoffInv, localVars
<1> QED  BY <1>1, <1>2, <1>3, <1>4, QuietStep DEF localVars

LEMMA EnqueueJobKeeps ==
  ASSUME HandoffInv, NEW i \in Intents, EnqueueJob(i) PROVE HandoffInv'
<1>1. UNCHANGED <<delivery, attempts, localVars>>
  BY DEF EnqueueJob
<1>2. <<i, Payload>> \in Queue!Requests
  BY DEF Queue!Requests
<1>3. /\ job \in [Intents -> Queue!JobRow]
      /\ enqueuing \subseteq Queue!Requests /\ told \subseteq Queue!Requests
  BY Types, TypedNow DEF HandoffInv, Queue!TypeOK
<1>4. UNCHANGED <<leases, effects, aggregate>>
  BY DEF EnqueueJob, Queue!EnqueueSelect, Queue!EnqueueInsert
<1>5. enqueuing' \subseteq Queue!Requests /\ told' \subseteq Queue!Requests
  BY <1>2, <1>3 DEF EnqueueJob, Queue!EnqueueSelect, Queue!EnqueueInsert, Queue!Resolve
<1> DEFINE r == [job[i] EXCEPT !.status = "QUEUED", !.payload = Payload, !.delay = 0]
<1>6. /\ r \in Queue!JobRow /\ r.status = "QUEUED" /\ r.owner = job[i].owner
      /\ r.leaseLeft = job[i].leaseLeft /\ r.epoch = job[i].epoch /\ r.attempts = job[i].attempts
  BY <1>3 DEF Queue!JobRow, Queue!Statuses
<1>7. job' = job \/ (job[i].status = "ABSENT" /\ job' = [job EXCEPT ![i] = r])
  BY DEF EnqueueJob, Queue!EnqueueSelect, Queue!EnqueueInsert
<1> HIDE DEF r
<1>8. job[i].status = "ABSENT" => job[i].owner = None /\ job[i].leaseLeft = 0
  BY DEF HandoffInv, QueueStands, Queue!RowMatchesGrant
<1>9. /\ job' \in [Intents -> Queue!JobRow]
      /\ \A j \in Intents : Row(j) /\ (job'[j].status = "SUCCEEDED" => job[j].status = "SUCCEEDED")
  <2>1. CASE job' = job
    BY <1>3, <2>1, SameRow
  <2>2. CASE job[i].status = "ABSENT" /\ job' = [job EXCEPT ![i] = r]
    <3>1. job'[i] = r /\ \A j \in Intents : j # i => job'[j] = job[j]
      BY <1>3, <2>2
    <3>2. Row(i)
      BY <1>6, <1>8, <2>2, <3>1 DEF Row, Queue!Terminal
    <3> QED  BY <1>3, <1>6, <2>2, <3>1, <3>2, SameRow
  <2> QED  BY <1>7, <2>1, <2>2
<1>10. Queue!TypeOK'
  BY <1>4, <1>5, <1>9, QueueRows
<1> QED  BY <1>1, <1>4, <1>9, <1>10, Types, QueueStep DEF HandoffInv, localVars

\* Only the clock moves.
LEMMA TickKeeps == ASSUME HandoffInv, Tick PROVE HandoffInv'
<1>1. UNCHANGED <<delivery, attempts, localVars>> /\ UNCHANGED <<leases, effects, aggregate, enqueuing, told>>
      /\ job' = [j \in Intents |-> Queue!Ticked(job[j])]
  BY DEF Tick, Queue!Tick
<1>2. ASSUME NEW i \in Intents
      PROVE  Row(i) /\ job'[i] \in Queue!JobRow /\ job'[i].status = job[i].status
  <2>1. job'[i] = Queue!Ticked(job[i]) /\ job[i] \in Queue!JobRow
    BY <1>1, TypedNow
  <2>2. /\ job'[i] \in Queue!JobRow /\ job'[i].status = job[i].status
        /\ job'[i].owner = job[i].owner /\ job'[i].attempts = job[i].attempts
        /\ job'[i].epoch = job[i].epoch /\ (job[i].leaseLeft = 0 => job'[i].leaseLeft = 0)
    BY <2>1, TickedRow
  <2> QED  BY <2>2 DEF Row
<1>3. job' \in [Intents -> Queue!JobRow]
  BY <1>1, <1>2
<1>4. Queue!TypeOK'
  BY <1>1, <1>3, QueueRows, TypedNow DEF Queue!TypeOK
<1> QED  BY <1>1, <1>2, <1>4, Types, QueueStep DEF HandoffInv, localVars

\* Rows are dead-lettered and nothing is claimed.
LEMMA ClaimNothingKeeps ==
  ASSUME HandoffInv, NEW w \in Owners, NEW dead \in SUBSET Queue!Exhausted,
         Queue!ClaimNothing(dead), Return(w),
         UNCHANGED <<delivery, attempts, reconciler, reached, open>>
  PROVE  HandoffInv'
<1>1. /\ UNCHANGED <<leases, effects, aggregate, enqueuing, told>>
      /\ job' = [i \in Intents |-> IF i \in dead THEN Queue!Unleased(job[i], "DEAD_LETTER") ELSE job[i]]
  BY DEF Queue!ClaimNothing
<1>2. ASSUME NEW i \in Intents
      PROVE  Row(i) /\ job'[i] \in Queue!JobRow
             /\ (job'[i].status = "SUCCEEDED" => job[i].status = "SUCCEEDED")
  <2>1. CASE i \in dead
    BY <1>1, <2>1, RowDies
  <2>2. CASE i \notin dead
    BY <1>1, <2>2, SameRow, TypedNow
  <2> QED  BY <2>1, <2>2
<1>3. job' \in [Intents -> Queue!JobRow]
  BY <1>1, <1>2
<1>4. Queue!TypeOK'
  BY <1>1, <1>3, QueueRows, TypedNow DEF Queue!TypeOK
<1> QED  BY <1>1, <1>2, <1>4, Returns, QueueStep

\* The queue ends the job of the lease a dispatcher holds.
LEMMA HeldJobEnds ==
  ASSUME HandoffInv, NEW w \in Owners, dispatcher[w].pc \in Holding, Return(w),
         UNCHANGED <<delivery, attempts, reconciler, reached, open>>,
         NEW s \in {"FAILED", "CANCELED"}, Queue!IsCurrent(LeaseOf(w)),
         job' = [job EXCEPT ![Target(w)] = Queue!Unleased(@, s)],
         UNCHANGED <<leases, effects, aggregate, enqueuing, told>>
  PROVE  HandoffInv'
<1>1. Target(w) \in Intents
  BY GrantedEpoch DEF HandoffInv, DispatcherStands, Target
<1> DEFINE i == Target(w)
<1>2. /\ job[i].status \notin Queue!Terminal
      /\ s \in Queue!Statuses \ {"RUNNING", "DEAD_LETTER"}
  BY DEF Queue!IsCurrent, Target, Queue!Terminal, Queue!Statuses
<1> HIDE DEF i
<1>3. /\ job'[i] = Queue!Unleased(job[i], s)
      /\ \A j \in Intents : j # i => job'[j] = job[j]
  BY <1>1, Types DEF HandoffInv, i
<1>4. i \in Intents
  BY <1>1 DEF i
<1>5. Row(i) /\ job'[i] \in Queue!JobRow /\ job'[i].status = s
  BY <1>2, <1>3, <1>4, RowLeft
<1>6. /\ job' \in [Intents -> Queue!JobRow]
      /\ \A j \in Intents : Row(j) /\ (job'[j].status = "SUCCEEDED" => job[j].status = "SUCCEEDED")
  BY <1>3, <1>5, SameRow, Types DEF HandoffInv, i
<1>7. Queue!TypeOK'
  BY <1>6, QueueRows, TypedNow DEF Queue!TypeOK
<1> QED  BY <1>6, <1>7, Returns, QueueStep

LEMMA FailMissingKeeps ==
  ASSUME HandoffInv, NEW w \in Owners, FailMissing(w) PROVE HandoffInv'
<1>1. /\ dispatcher[w].pc = "read" /\ Return(w)
      /\ UNCHANGED <<delivery, attempts, reconciler, reached, open>>
  BY DEF FailMissing, At
<1>2. CASE UNCHANGED queueVars
  BY <1>1, <1>2, Returns, IdleStands, DispatcherAlone
<1>3. CASE Queue!Fail(LeaseOf(w), FALSE, 0)
  BY <1>1, <1>3, HeldJobEnds DEF Queue!Fail, Queue!FailStatus, Holding, Target
<1> QED  BY <1>2, <1>3 DEF FailMissing

LEMMA CancelUnknownKeeps ==
  ASSUME HandoffInv, NEW w \in Owners, CancelUnknown(w) PROVE HandoffInv'
<1>1. /\ dispatcher[w].pc = "read" /\ Return(w)
      /\ UNCHANGED <<delivery, attempts, reconciler, reached, open>>
  BY DEF CancelUnknown, At
<1>2. CASE UNCHANGED queueVars
  BY <1>1, <1>2, Returns, IdleStands, DispatcherAlone
<1>3. CASE Queue!CancelHeld(LeaseOf(w))
  BY <1>1, <1>3, HeldJobEnds DEF Queue!CancelHeld, Holding, Target
<1> QED  BY <1>2, <1>3 DEF CancelUnknown

\* A call that changes nothing but where its dispatcher stands.
LEMMA ReturnKeeps ==
  ASSUME HandoffInv, NEW w \in Owners, ClaimNone(w) \/ Crash(w) PROVE HandoffInv'
<1>1. Return(w) /\ UNCHANGED <<queueVars, delivery, attempts, reconciler, reached, open>>
  BY DEF ClaimNone, Crash
<1> QED  BY <1>1, Returns, IdleStands, DispatcherAlone

-----------------------------------------------------------------------------
LEMMA SendKeeps ==
  ASSUME HandoffInv, NEW w \in Owners, Send(w) PROVE HandoffInv'
<1>1. dispatcher[w].pc = "sending" /\ UNCHANGED <<queueVars, delivery, attempts, reconciler>>
  BY DEF Send, At
<1>2. /\ LeaseOf(w) \in leases /\ LeaseOf(w).owner = w
      /\ Target(w) \in Intents /\ LeaseOf(w).epoch \in 1..MaxAttempts
  BY <1>1, GrantedEpoch DEF HandoffInv, DispatcherStands, Holding, Target
<1> DEFINE i == Target(w)
<1>3. PICK a \in Outcome :
        /\ dispatcher' = [dispatcher EXCEPT ![w].pc = "sent", ![w].result = a]
        /\ \/ UNCHANGED <<reached, open>> /\ a.state = "FAILED"
           \/ /\ reached' \in {[reached EXCEPT ![i] = b] : b \in
                   CASE a.state = "DELIVERED" -> {TRUE}
                     [] a.state = "FAILED" -> {FALSE}
                     [] OTHER -> {TRUE, reached[i]}}
              /\ open' = [open EXCEPT ![i] = @ \cup {LeaseOf(w).epoch}]
              /\ a.state = "FAILED" => ~reached[i]
  <2>1. [state |-> "FAILED", retryable |-> FALSE] \in Outcome
    BY DEF Outcome, Results
  <2>2. ASSUME NEW a \in ChannelAnswers(i)
        PROVE  a \in Outcome /\ (a.state = "FAILED" => ~reached[i])
    <3>1. \/ a = [state |-> "DELIVERED", retryable |-> FALSE]
          \/ a = [state |-> "UNKNOWN", retryable |-> FALSE]
          \/ \E b \in IF reached[i] THEN {} ELSE BOOLEAN : a = [state |-> "FAILED", retryable |-> b]
      BY Zenon DEF ChannelAnswers
    <3>2. ASSUME NEW s \in {"DELIVERED", "UNKNOWN"}, a = [state |-> s, retryable |-> FALSE]
          PROVE  a \in Outcome /\ (a.state = "FAILED" => ~reached[i])
      <4>1. a.state = s /\ s # "FAILED" /\ s \in Results
        BY <3>2 DEF Results
      <4>2. a \in Outcome
        BY <3>2, <4>1 DEF Outcome
      <4> QED  BY <4>1, <4>2
    <3>3. ASSUME NEW b \in IF reached[i] THEN {} ELSE BOOLEAN, a = [state |-> "FAILED", retryable |-> b]
          PROVE  a \in Outcome /\ (a.state = "FAILED" => ~reached[i])
      <4>1. b \in BOOLEAN /\ ~reached[i]
        BY <3>3
      <4>2. a \in Outcome
        BY <3>3, <4>1, Zenon DEF Outcome, Results
      <4> QED  BY <4>1, <4>2
    <3> QED  BY <3>1, <3>2, <3>3
  <2> QED  BY <2>1, <2>2 DEF Send
<1> DEFINE c == [dispatcher[w] EXCEPT !.pc = "sent", !.result = a]
<1>4. dispatcher' = [dispatcher EXCEPT ![w] = c]
  BY <1>3, Types DEF HandoffInv
<1>5. c \in Calls /\ c.pc = "sent" /\ c.lease = dispatcher[w].lease /\ c.result = a
  BY TypedNow DEF Calls
<1> HIDE DEF c
<1>6. /\ dispatcher' \in [Owners -> Calls] /\ dispatcher'[w] = c
      /\ \A v \in Owners : v # w => dispatcher'[v] = dispatcher[v]
  BY <1>4, <1>5, Types DEF HandoffInv
<1>7. /\ reached' \in [Intents -> BOOLEAN]
      /\ \A j \in Intents : reached[j] => reached'[j]
      /\ a.state = "DELIVERED" => reached'[i]
  <2>1. reached \in [Intents -> BOOLEAN] /\ a.state \in Results
    BY Types DEF HandoffInv, Outcome
  <2>2. CASE UNCHANGED <<reached, open>> /\ a.state = "FAILED"
    BY <2>1, <2>2
  <2>3. CASE /\ reached' \in {[reached EXCEPT ![i] = b] : b \in
                   CASE a.state = "DELIVERED" -> {TRUE}
                     [] a.state = "FAILED" -> {FALSE}
                     [] OTHER -> {TRUE, reached[i]}}
             /\ a.state = "FAILED" => ~reached[i]
    <3>1. PICK b \in BOOLEAN : /\ reached' = [reached EXCEPT ![i] = b]
                               /\ a.state = "DELIVERED" => b
                               /\ reached[i] => b
      <4>1. CASE a.state = "DELIVERED"
        BY <2>3, <4>1
      <4>2. CASE a.state = "FAILED"
        BY <2>3, <4>2
      <4>3. CASE a.state = "UNKNOWN"
        BY <1>2, <2>1, <2>3, <4>3
      <4> QED  BY <2>1, <4>1, <4>2, <4>3 DEF Results
    <3> QED  BY <1>2, <2>1, <3>1
  <2> QED  BY <1>3, <2>2, <2>3
<1>8. DOMAIN open' = Intents /\ \A j \in Intents : open'[j] \subseteq 1..MaxAttempts
  <2>1. CASE UNCHANGED open
    BY <2>1, TypedNow
  <2>2. CASE open' = [open EXCEPT ![i] = @ \cup {LeaseOf(w).epoch}]
    BY <1>2, <2>2, TypedNow
  <2> QED  BY <1>3, <2>1, <2>2
<1>9. DispatcherStands(w)'
  BY <1>1, <1>2, <1>3, <1>5, <1>6, <1>7 DEF DispatcherStands, Holding, LeaseOf, Target, queueVars
<1> QED  BY <1>1, <1>6, <1>7, <1>8, <1>9, Types, DispatcherStep DEF HandoffInv

\* A step of one operator that writes nothing.
LEMMA OperatorStep ==
  ASSUME HandoffInv, NEW r \in Operators,
         UNCHANGED <<queueVars, delivery, attempts, dispatcher, reached, open>>,
         NEW c \in Reconciliations, reconciler' = [reconciler EXCEPT ![r] = c],
         c.pc # "idle" => /\ c.intent \in Intents /\ c.result \in Results
                          /\ c.result = "DELIVERED" => reached[c.intent]
  PROVE  HandoffInv'
<1>1. /\ Queue!TypeOK' /\ leases' = leases /\ effects' = effects
      /\ \A i \in Intents : Row(i) /\ job'[i].status = job[i].status
  BY QueueUntouched
<1>2. /\ reconciler' \in [Operators -> Reconciliations] /\ reconciler'[r] = c
      /\ \A s \in Operators : s # r => reconciler'[s] = reconciler[s]
  BY Types DEF HandoffInv
<1>3. HandoffType'
  BY <1>1, <1>2, TypedNow, Types, TypesBack DEF HandoffInv
<1>4. ReconcilerStands(r)'
  BY <1>2 DEF ReconcilerStands
<1> QED  BY <1>1, <1>2, <1>3, <1>4, QuietStep

LEMMA AskChannelKeeps ==
  ASSUME HandoffInv, NEW r \in Operators, NEW i \in Intents, AskChannel(r, i) PROVE HandoffInv'
<1>1. PICK s \in Results :
        /\ s = "DELIVERED" => reached[i]
        /\ reconciler' = [reconciler EXCEPT ![r] =
             [pc |-> "answered", count |-> 0, intent |-> i, result |-> s]]
  BY DEF AskChannel, Results
<1> DEFINE c == [pc |-> "answered", count |-> 0, intent |-> i, result |-> s]
<1>2. c \in Reconciliations /\ c.intent = i /\ c.result = s
  BY DEF Reconciliations
<1>3. reconciler' = [reconciler EXCEPT ![r] = c]
  BY <1>1
<1> HIDE DEF c
<1> QED  BY <1>1, <1>2, <1>3, OperatorStep DEF AskChannel

LEMMA SelectUnknownKeeps ==
  ASSUME HandoffInv, NEW r \in Operators, SelectUnknown(r) PROVE HandoffInv'
<1>1. /\ reconciler[r].pc = "answered" /\ reconciler[r] \in Reconciliations
      /\ reconciler[r].intent \in Intents /\ reconciler[r].result \in Results
      /\ reconciler[r].result = "DELIVERED" => reached[reconciler[r].intent]
  BY TypedNow DEF SelectUnknown, HandoffInv, ReconcilerStands
<1> DEFINE n == delivery[reconciler[r].intent].count
           c == [reconciler[r] EXCEPT !.pc = "writing", !.count = n]
<1>2. Resting \in Reconciliations /\ Resting.pc = "idle"
  BY DEF Resting, Reconciliations
<1>3. n \in Nat
  BY <1>1, TypedNow DEF DeliveryRow
<1>4. \/ reconciler' = [reconciler EXCEPT ![r] = Resting]
      \/ reconciler' = [reconciler EXCEPT ![r] = c]
  BY Types DEF HandoffInv, SelectUnknown
<1> HIDE DEF n
<1>5. /\ c \in Reconciliations /\ c.intent = reconciler[r].intent
      /\ c.result = reconciler[r].result
  BY <1>1, <1>3 DEF Reconciliations
<1> HIDE DEF c
<1> QED  BY <1>1, <1>2, <1>4, <1>5, OperatorStep DEF SelectUnknown

\* Recording an outcome under a number that is free keeps numbers unique.
LEMMA FreeNumber ==
  ASSUME HandoffInv, NEW i \in Intents, NEW n \in Nat \ {0}, NEW s \in Results,
         ~NumberTaken(i, n), attempts' = [attempts EXCEPT ![i] = @ \cup {<<n, s>>}]
  PROVE  /\ attempts' \in [Intents -> SUBSET ((Nat \ {0}) \X Results)]
         /\ \A j \in Intents : NumbersAreUnique(j)' /\ attempts[j] \subseteq attempts'[j]
         /\ attempts'[i] = attempts[i] \cup {<<n, s>>}
         /\ \A j \in Intents : j # i => attempts'[j] = attempts[j]
<1>1. attempts \in [Intents -> SUBSET ((Nat \ {0}) \X Results)]
  BY Types DEF HandoffInv
<1>2. /\ attempts'[i] = attempts[i] \cup {<<n, s>>}
      /\ \A j \in Intents : j # i => attempts'[j] = attempts[j]
  BY <1>1
<1>3. NumbersAreUnique(i)'
  BY <1>2 DEF HandoffInv, NumbersAreUnique, NumberTaken
<1>4. \A j \in Intents : NumbersAreUnique(j)'
  BY <1>2, <1>3 DEF HandoffInv, NumbersAreUnique
<1> QED  BY <1>1, <1>2, <1>4

\* What an operator records never disturbs the receipts of the queue.
LEMMA WriteOutcomeKeeps ==
  ASSUME HandoffInv, NEW r \in Operators, WriteOutcome(r) PROVE HandoffInv'
<1> DEFINE i == reconciler[r].intent
           s == reconciler[r].result
           n == reconciler[r].count + 1
<1>1. /\ i \in Intents /\ s \in Results /\ (s = "DELIVERED" => reached[i])
      /\ n \in Nat \ {0}
  BY TypedNow DEF WriteOutcome, HandoffInv, ReconcilerStands, Reconciliations
<1>2. UNCHANGED <<queueVars, dispatcher, reached>>
      /\ reconciler' = [reconciler EXCEPT ![r] = Resting]
  BY DEF WriteOutcome
<1>3. Resting \in Reconciliations /\ Resting.pc = "idle"
  BY DEF Resting, Reconciliations
<1>4. CASE UNCHANGED <<delivery, attempts, open>>
  BY <1>2, <1>3, <1>4, OperatorStep
<1>5. CASE /\ ~NumberTaken(i, n)
           /\ delivery' = IF delivery[i].state # "UNKNOWN" THEN delivery
                          ELSE [delivery EXCEPT ![i].state = s, ![i].count = n]
           /\ attempts' = [attempts EXCEPT ![i] = @ \cup {<<n, s>>}]
           /\ open' = open \/ open' = [open EXCEPT ![i] = @ \ (1..MaxAttempts)]
  <2> DEFINE d == [delivery[i] EXCEPT !.state = s, !.count = n]
  <2>1. d \in DeliveryRow /\ d.state = s
    BY <1>1, TypedNow DEF DeliveryRow, States
  <2>2. delivery' = delivery \/ delivery' = [delivery EXCEPT ![i] = d]
    BY <1>1, <1>5, Types DEF HandoffInv
  <2> HIDE DEF d, n, i, s
  <2>3. /\ delivery' \in [Intents -> DeliveryRow]
        /\ \A j \in Intents : delivery'[j].state = "DELIVERED" =>
             delivery[j].state = "DELIVERED" \/ reached[j]
    BY <1>1, <2>1, <2>2, Types DEF HandoffInv
  <2>4. /\ attempts' \in [Intents -> SUBSET ((Nat \ {0}) \X Results)]
        /\ \A j \in Intents : NumbersAreUnique(j)' /\ attempts[j] \subseteq attempts'[j]
        /\ attempts'[i] = attempts[i] \cup {<<n, s>>}
        /\ \A j \in Intents : j # i => attempts'[j] = attempts[j]
    BY <1>1, <1>5, FreeNumber
  <2>5. /\ Queue!TypeOK' /\ leases' = leases /\ effects' = effects /\ reached' = reached
        /\ \A j \in Intents : Row(j) /\ job'[j].status = job[j].status
    BY <1>2, QueueUntouched
  <2>6. /\ reconciler' \in [Operators -> Reconciliations]
        /\ \A q \in Operators : reconciler'[q] = reconciler[q] \/ reconciler'[q].pc = "idle"
    BY <1>2, <1>3, Types DEF HandoffInv
  <2>7. DOMAIN open' = Intents /\ \A j \in Intents : open'[j] \subseteq 1..MaxAttempts
    BY <1>1, <1>5, TypedNow
  <2>8. HandoffType'
    BY <1>2, <2>3, <2>4, <2>5, <2>6, <2>7, TypesBack, Types DEF HandoffInv
  <2>9. QueueStands'
    BY <2>5, QueueKeeps DEF Row, Queue!TypeOK
  <2>10. \A w \in Owners : DispatcherStands(w)'
    BY <1>2, <2>5, DispatcherKeeps
  <2>11. \A q \in Operators : ReconcilerStands(q)'
    BY <2>5, <2>6 DEF HandoffInv, ReconcilerStands
  <2>12. ASSUME NEW j \in Intents PROVE LedgerAgrees(j)'
    <3>1. LedgerAgrees(j) /\ attempts[j] \subseteq attempts'[j] /\ job'[j].status = job[j].status
      BY <2>4, <2>5 DEF HandoffInv
    <3>2. effects' = effects
      BY <2>5
    <3> QED  BY <3>1, <3>2 DEF LedgerAgrees, Queue!HasReceipt, Queue!NoReceipt
  <2>13. DeliveredIsTrue'
    <3> SUFFICES ASSUME NEW j \in Intents,
                        \/ delivery'[j].state = "DELIVERED"
                        \/ job'[j].status = "SUCCEEDED"
                        \/ \E a \in attempts'[j] : a[2] = "DELIVERED"
                 PROVE  reached'[j]
      BY DEF DeliveredIsTrue
    <3>1. \/ delivery[j].state = "DELIVERED"
          \/ job[j].status = "SUCCEEDED"
          \/ \E a \in attempts[j] : a[2] = "DELIVERED"
          \/ reached[j]
      BY <1>1, <2>3, <2>4, <2>5
    <3> QED  BY <2>5, <3>1 DEF HandoffInv, DeliveredIsTrue
  <2> QED  BY <2>4, <2>8, <2>9, <2>10, <2>11, <2>12, <2>13 DEF HandoffInv
<1>6. \/ UNCHANGED <<delivery, attempts, open>>
      \/ /\ ~NumberTaken(i, n)
         /\ delivery' = IF delivery[i].state # "UNKNOWN" THEN delivery
                        ELSE [delivery EXCEPT ![i].state = s, ![i].count = n]
         /\ attempts' = [attempts EXCEPT ![i] = @ \cup {<<n, s>>}]
         /\ open' = open \/ open' = [open EXCEPT ![i] = @ \ (1..MaxAttempts)]
  BY DEF WriteOutcome, Closed
<1> QED  BY <1>4, <1>5, <1>6

-----------------------------------------------------------------------------
\* A claim grants one job, under an epoch that was never granted, and kills
\* others that have no attempts left.
LEMMA ClaimGrants ==
  ASSUME HandoffInv, NEW w \in Owners, NEW i \in Intents, NEW dead \in SUBSET Queue!Exhausted,
         Queue!Claim(w, i, dead)
  PROVE  /\ QueueStands' /\ Queue!TypeOK' /\ effects' = effects
         /\ leases' = leases \cup {[job |-> i, owner |-> w, epoch |-> job[i].epoch + 1]}
         /\ \A j \in Intents : job'[j].status = "SUCCEEDED" => job[j].status = "SUCCEEDED"
<1> DEFINE g == [job |-> i, owner |-> w, epoch |-> job[i].epoch + 1]
<1>1. \A j \in Intents : job[j] \in Queue!JobRow
  BY TypedNow
<1>2. /\ leases' = leases \cup {g} /\ UNCHANGED <<effects, aggregate, enqueuing, told>>
      /\ job' = [j \in Intents |-> IF j \in dead THEN Queue!Unleased(job[j], "DEAD_LETTER")
                                   ELSE IF j = i THEN Queue!ClaimedRow(job[j], w) ELSE job[j]]
  BY DEF Queue!Claim
<1>3. /\ job[i].attempts \in Nat /\ job[i].epoch \in Nat /\ job[i].attempts < MaxAttempts
      /\ i \in Queue!Claimable /\ MaxAttempts \in Nat
  BY <1>1, HandoffAssumption DEF Queue!Claim, Queue!Claimable, Queue!JobRow
<1>4. \A j \in dead : j \in Intents /\ job[j].attempts >= MaxAttempts
  BY DEF Queue!Exhausted
<1>5. i \notin dead
  BY <1>3, <1>4
<1>6. /\ job'[i] \in Queue!JobRow /\ job'[i].status = "RUNNING" /\ job'[i].owner = w
      /\ job'[i].attempts = job[i].attempts + 1 /\ job'[i].epoch = job[i].epoch + 1
  BY <1>1, <1>2, <1>5, ClaimedRowFields
<1>7. ASSUME NEW j \in Intents, j # i
      PROVE  Row(j) /\ job'[j] \in Queue!JobRow
             /\ (job'[j].status = "SUCCEEDED" => job[j].status = "SUCCEEDED")
  <2>1. CASE j \in dead
    BY <1>2, <2>1, RowDies
  <2>2. CASE j \notin dead
    BY <1>1, <1>2, <1>7, <2>2, SameRow
  <2> QED  BY <2>1, <2>2
<1>8. g \in Queue!Lease /\ g.job = i /\ g.owner = w /\ g.epoch = job[i].epoch + 1 /\ g.epoch # 0
  BY <1>3 DEF Queue!Lease
<1>9. Queue!TypeOK'
  <2>1. job' \in [Intents -> Queue!JobRow]
    BY <1>2, <1>6, <1>7
  <2>2. leases' \subseteq Queue!Lease
    BY <1>2, <1>8, Types DEF HandoffInv
  <2> QED  BY <1>2, <2>1, <2>2, TypedNow DEF Queue!TypeOK
<1>10. /\ \A l \in leases : l \in Queue!Lease /\ l.epoch # 0
       /\ \A l \in leases : l.epoch \in Nat /\ l.epoch <= job[l.job].attempts
       /\ \A j \in Intents : job[j].epoch = job[j].attempts
  BY Types DEF HandoffInv, QueueStands, Queue!AttemptBudget, Queue!EpochCountsAttempts, Queue!Lease
<1> HIDE DEF g
<1>11. Queue!EpochCountsAttempts'
  BY <1>6, <1>7, <1>10 DEF Queue!EpochCountsAttempts, Row
<1>12. Queue!OneGrantPerEpoch'
  <2>1. ASSUME NEW l \in leases, l.job = i PROVE l.epoch # g.epoch
    BY <1>3, <1>8, <1>10, <2>1
  <2>2. Queue!OneGrantPerEpoch
    BY DEF HandoffInv, QueueStands
  <2> QED  BY <1>2, <1>8, <2>1, <2>2 DEF Queue!OneGrantPerEpoch
<1>13. Queue!RowMatchesGrant'
  <2> SUFFICES ASSUME NEW j \in Intents
               PROVE  /\ job'[j].status = "RUNNING" <=> job'[j].owner # None
                      /\ job'[j].status = "RUNNING" =>
                           [job |-> j, owner |-> job'[j].owner, epoch |-> job'[j].epoch] \in leases'
                      /\ job'[j].status # "RUNNING" => job'[j].leaseLeft = 0
    BY DEF Queue!RowMatchesGrant
  <2>1. CASE j = i
    <3>1. [job |-> j, owner |-> job'[j].owner, epoch |-> job'[j].epoch] = g
      BY <1>6, <2>1 DEF g
    <3> QED  BY <1>2, <1>6, <2>1, <3>1, HandoffAssumption
  <2>2. CASE j # i
    <3>1. /\ job[j].status = "RUNNING" <=> job[j].owner # None
          /\ job[j].status = "RUNNING" =>
               [job |-> j, owner |-> job[j].owner, epoch |-> job[j].epoch] \in leases
          /\ job[j].status # "RUNNING" => job[j].leaseLeft = 0
      BY DEF HandoffInv, QueueStands, Queue!RowMatchesGrant
    <3>2. Row(j)
      BY <1>7, <2>2
    <3> QED  BY <1>2, <3>1, <3>2 DEF Row
  <2> QED  BY <2>1, <2>2
<1>14. Queue!AttemptBudget'
  <2> SUFFICES ASSUME NEW j \in Intents
               PROVE  /\ \A l \in leases' : l.job = j => l.epoch <= job'[j].attempts
                      /\ job'[j].attempts <= MaxAttempts
                      /\ job'[j].status = "DEAD_LETTER" => job'[j].attempts = MaxAttempts
    BY DEF Queue!AttemptBudget
  <2>1. /\ job[j].attempts <= MaxAttempts /\ job[j].attempts \in Nat
        /\ job[j].status = "DEAD_LETTER" => job[j].attempts = MaxAttempts
    BY <1>1 DEF HandoffInv, QueueStands, Queue!AttemptBudget, Queue!JobRow
  <2>2. CASE j = i
    <3>1. \A l \in leases : l.job = j => l.epoch <= job[j].attempts + 1
      BY <1>3, <1>10, <2>2
    <3>2. g.epoch <= job[i].attempts + 1
      BY <1>3, <1>8, <1>10
    <3> QED  BY <1>2, <1>3, <1>6, <2>2, <3>1, <3>2
  <2>3. CASE j # i
    <3>1. Row(j)
      BY <1>7, <2>3
    <3>2. \A l \in leases' : l.job = j => l \in leases
      BY <1>2, <1>8, <2>3
    <3> QED  BY <1>3, <1>10, <2>1, <3>1, <3>2 DEF Row
  <2> QED  BY <2>2, <2>3
<1>15. \A l \in leases' : l.epoch # 0
  BY <1>2, <1>8, <1>10
<1>16. \A j \in Intents : job'[j].status = "SUCCEEDED" => job[j].status = "SUCCEEDED"
  BY <1>6, <1>7
<1> QED  BY <1>2, <1>9, <1>11, <1>12, <1>13, <1>14, <1>15, <1>16 DEF QueueStands, g

LEMMA ClaimJobKeeps ==
  ASSUME HandoffInv, NEW w \in Owners, ClaimJob(w) PROVE HandoffInv'
<1>1. PICK dead \in SUBSET Queue!Exhausted :
        \/ \E i \in Intents :
             /\ Queue!Claim(w, i, dead)
             /\ dispatcher' = [dispatcher EXCEPT ![w] =
                  [Idle EXCEPT !.pc = "claimed",
                               !.lease = [job |-> i, owner |-> w, epoch |-> job[i].epoch + 1]]]
        \/ Queue!ClaimNothing(dead) /\ Return(w)
  BY DEF ClaimJob
<1>2. UNCHANGED <<delivery, attempts, reconciler, reached, open>>
  BY DEF ClaimJob
<1>3. CASE Queue!ClaimNothing(dead) /\ Return(w)
  BY <1>2, <1>3, ClaimNothingKeeps
<1>4. ASSUME NEW i \in Intents, Queue!Claim(w, i, dead),
             dispatcher' = [dispatcher EXCEPT ![w] =
               [Idle EXCEPT !.pc = "claimed",
                            !.lease = [job |-> i, owner |-> w, epoch |-> job[i].epoch + 1]]]
      PROVE  HandoffInv'
  <2> DEFINE g == [job |-> i, owner |-> w, epoch |-> job[i].epoch + 1]
             c == [Idle EXCEPT !.pc = "claimed", !.lease = g]
  <2>1. /\ QueueStands' /\ Queue!TypeOK' /\ effects' = effects
        /\ leases' = leases \cup {g}
        /\ \A j \in Intents : job'[j].status = "SUCCEEDED" => job[j].status = "SUCCEEDED"
    BY <1>4, ClaimGrants
  <2>2. g \in Queue!Lease /\ g.owner = w
    BY <2>1 DEF Queue!TypeOK
  <2> HIDE DEF g
  <2>3. c \in Calls /\ c.pc = "claimed" /\ c.lease = g
    BY <2>2 DEF Calls, Idle
  <2>4. dispatcher' = [dispatcher EXCEPT ![w] = c]
    BY <1>4 DEF g
  <2> HIDE DEF c
  <2>5. /\ dispatcher' \in [Owners -> Calls] /\ dispatcher'[w] = c
        /\ \A v \in Owners : v # w => dispatcher'[v] = dispatcher[v]
    BY <2>3, <2>4, Types DEF HandoffInv
  <2>6. HandoffType'
    BY <1>2, <2>1, <2>5, TypedNow, Types, TypesBack DEF HandoffInv
  <2>7. DispatcherStands(w)'
    BY <2>1, <2>2, <2>3, <2>5 DEF DispatcherStands, LeaseOf
  <2>8. \A v \in Owners : DispatcherStands(v)'
    BY <1>2, <2>1, <2>5, <2>7, DispatcherKeeps
  <2>9. \A r \in Operators : ReconcilerStands(r)'
    BY <1>2 DEF HandoffInv, ReconcilerStands
  <2>10. ASSUME NEW j \in Intents PROVE NumbersAreUnique(j)' /\ LedgerAgrees(j)'
    <3>1. NumbersAreUnique(j) /\ LedgerAgrees(j)
      BY DEF HandoffInv
    <3>2. effects' = effects /\ attempts' = attempts
          /\ (job'[j].status = "SUCCEEDED" => job[j].status = "SUCCEEDED")
      BY <1>2, <2>1
    <3> QED  BY <3>1, <3>2 DEF NumbersAreUnique, LedgerAgrees, Queue!HasReceipt, Queue!NoReceipt
  <2>11. DeliveredIsTrue'
    BY <1>2, <2>1 DEF HandoffInv, DeliveredIsTrue
  <2> QED  BY <2>1, <2>6, <2>8, <2>9, <2>10, <2>11 DEF HandoffInv
<1> QED  BY <1>1, <1>3, <1>4

-----------------------------------------------------------------------------
\* The row of a job after an outcome was recorded under its grant.
LEMMA RowRecorded ==
  ASSUME HandoffInv, NEW i \in Intents, NEW state \in {"DELIVERED", "PENDING", "FAILED", "UNKNOWN"},
         job[i].status = "RUNNING", job'[i] = JobAfter(job[i], state)
  PROVE  /\ Row(i) /\ job'[i] \in Queue!JobRow
         /\ job'[i].status = "SUCCEEDED" => state = "DELIVERED"
<1>1. job[i].status \notin Queue!Terminal
  BY DEF Queue!Terminal
<1>2. {"SUCCEEDED", "QUEUED", "FAILED"} \subseteq Queue!Statuses \ {"RUNNING", "DEAD_LETTER"}
  BY DEF Queue!Statuses, Queue!Terminal
<1>3. CASE state = "DELIVERED"
  <2>1. job'[i] = Queue!Unleased(job[i], "SUCCEEDED")
    BY <1>3 DEF JobAfter
  <2> QED  BY <1>1, <1>2, <1>3, <2>1, RowLeft
<1>4. CASE state = "PENDING"
  <2>1. job'[i] = Queue!Postponed(Queue!Unleased(job[i], "QUEUED"), 1)
    BY <1>4 DEF JobAfter
  <2>2. Row(i) /\ job'[i] \in Queue!JobRow /\ job'[i].status = "QUEUED"
    BY <1>1, <1>2, <2>1, RowLeft
  <2> QED  BY <2>2
<1>5. CASE state \in {"FAILED", "UNKNOWN"}
  <2>1. job'[i] = Queue!Unleased(job[i], "FAILED")
    BY <1>5 DEF JobAfter
  <2>2. Row(i) /\ job'[i] \in Queue!JobRow /\ job'[i].status = "FAILED"
    BY <1>1, <1>2, <2>1, RowLeft
  <2> QED  BY <2>2
<1> QED  BY <1>3, <1>4, <1>5

LEMMA CommitWriteKeeps ==
  ASSUME HandoffInv, NEW w \in Owners, CommitWrite(w) PROVE HandoffInv'
<1> DEFINE l == LeaseOf(w)
           i == Target(w)
           e == LeaseOf(w).epoch
           s == dispatcher[w].result.state
           n == AtLeast(delivery[i].count + 1, e)
           state == NextState(e, dispatcher[w].result)
<1>1. /\ dispatcher[w].pc = "writing" /\ Return(w) /\ UNCHANGED <<reconciler, reached>>
  BY DEF CommitWrite, At
<1>2. /\ l \in leases /\ l.owner = w /\ i \in Intents /\ e \in 1..MaxAttempts
      /\ s \in Results /\ (s = "DELIVERED" => reached[i])
      /\ ~Queue!HasReceipt(i, e)
  BY <1>1, GrantedEpoch DEF HandoffInv, DispatcherStands, Holding, Target, Outcome
<1>3. CASE UNCHANGED <<queueVars, delivery, attempts, open>>
  BY <1>1, <1>3, Returns, IdleStands, DispatcherAlone
<1>4. CASE /\ ~NumberTaken(i, n)
           /\ delivery' = [delivery EXCEPT ![i].state = state, ![i].count = n]
           /\ attempts' = [attempts EXCEPT ![i] = @ \cup {<<n, s>>}]
           /\ effects' = [effects EXCEPT ![i][e] = [input |-> s, revision |-> n]]
           /\ job' = IF StillGranted(l) THEN [job EXCEPT ![i] = JobAfter(@, state)] ELSE job
           /\ open' = open \/ open' = [open EXCEPT ![i] = @ \ {e}]
           /\ UNCHANGED <<leases, aggregate, enqueuing, told>>
  <2>1. n \in Nat \ {0}
    <3>1. delivery[i].count \in Nat /\ MaxAttempts \in Nat
      BY <1>2, TypedNow, HandoffAssumption DEF DeliveryRow
    <3> QED  BY <1>2, <3>1 DEF AtLeast
  <2>2. state \in {"DELIVERED", "PENDING", "FAILED", "UNKNOWN"} /\ (state = "DELIVERED" => s = "DELIVERED")
    BY <1>2 DEF NextState, Results
  <2> DEFINE d == [delivery[i] EXCEPT !.state = state, !.count = n]
             f == [input |-> s, revision |-> n]
  <2>3. d \in DeliveryRow /\ d.state = state
    BY <1>2, <2>1, <2>2, TypedNow DEF DeliveryRow, States, Results
  <2>4. delivery' = [delivery EXCEPT ![i] = d]
    BY <1>2, <1>4, Types DEF HandoffInv
  <2>5. f \in Queue!Receipt /\ f # Queue!NoReceipt /\ f.input = s /\ f.revision = n
    <3>1. f.input = s /\ f.revision = n /\ Queue!NoReceipt.revision = 0
      BY DEF Queue!NoReceipt
    <3>2. f # Queue!NoReceipt
      BY <2>1, <3>1
    <3>3. f \in Queue!Receipt
      BY <1>2, <2>1 DEF Queue!Receipt
    <3> QED  BY <3>1, <3>2, <3>3
  <2>6. l.job = i /\ l.epoch = e
    BY DEF Target
  <2> HIDE DEF d, f, n, i, s, e, l, state
  <2>7. /\ delivery' \in [Intents -> DeliveryRow]
        /\ \A j \in Intents : delivery'[j].state = "DELIVERED" =>
             delivery[j].state = "DELIVERED" \/ reached[j]
    BY <1>2, <2>2, <2>3, <2>4, Types DEF HandoffInv
  <2>8. /\ attempts' \in [Intents -> SUBSET ((Nat \ {0}) \X Results)]
        /\ \A j \in Intents : NumbersAreUnique(j)' /\ attempts[j] \subseteq attempts'[j]
        /\ attempts'[i] = attempts[i] \cup {<<n, s>>}
        /\ \A j \in Intents : j # i => attempts'[j] = attempts[j]
    BY <1>2, <1>4, <2>1, FreeNumber
  <2>9. /\ effects' \in [Intents -> [1..MaxAttempts -> Queue!Receipt \cup {Queue!NoReceipt}]]
        /\ effects'[i][e] = f
        /\ \A k \in 1..MaxAttempts : k # e => effects'[i][k] = effects[i][k]
        /\ \A j \in Intents : j # i => effects'[j] = effects[j]
    <3>1. effects \in [Intents -> [1..MaxAttempts -> Queue!Receipt \cup {Queue!NoReceipt}]]
      BY Types DEF HandoffInv
    <3>2. effects' = [effects EXCEPT ![i] = [effects[i] EXCEPT ![e] = f]]
      BY <1>4 DEF f
    <3>3. [effects[i] EXCEPT ![e] = f] \in [1..MaxAttempts -> Queue!Receipt \cup {Queue!NoReceipt}]
      BY <1>2, <2>5, <3>1
    <3> QED  BY <1>2, <3>1, <3>2, <3>3
  <2>10. /\ job' \in [Intents -> Queue!JobRow]
         /\ \A j \in Intents : Row(j)
         /\ \A j \in Intents : job'[j].status = "SUCCEEDED" =>
              job[j].status = "SUCCEEDED" \/ (j = i /\ s = "DELIVERED")
    <3>1. CASE job' = job
      BY <3>1, SameRow, Types DEF HandoffInv
    <3>2. CASE StillGranted(l) /\ job' = [job EXCEPT ![i] = JobAfter(@, state)]
      <4>1. job[i].status = "RUNNING"
        BY <2>6, <3>2 DEF StillGranted
      <4>2. job'[i] = JobAfter(job[i], state) /\ \A j \in Intents : j # i => job'[j] = job[j]
        BY <1>2, <3>2, Types DEF HandoffInv
      <4>3. /\ Row(i) /\ job'[i] \in Queue!JobRow
            /\ job'[i].status = "SUCCEEDED" => state = "DELIVERED"
        BY <1>2, <2>2, <4>1, <4>2, RowRecorded
      <4>4. job' \in [Intents -> Queue!JobRow]
        BY <3>2, <4>2, <4>3, Types DEF HandoffInv
      <4> QED  BY <2>2, <4>2, <4>3, <4>4, SameRow
    <3> QED  BY <1>4, <3>1, <3>2
  <2>11. Queue!TypeOK'
    BY <1>4, <2>9, <2>10, TypedNow DEF Queue!TypeOK
  <2>12. DOMAIN open' = Intents /\ \A j \in Intents : open'[j] \subseteq 1..MaxAttempts
    BY <1>2, <1>4, TypedNow
  <2>13. /\ dispatcher' \in [Owners -> Calls] /\ dispatcher'[w].pc = "idle"
         /\ \A v \in Owners : v # w => dispatcher'[v] = dispatcher[v]
    BY <1>1, Returns
  <2>14. HandoffType'
    BY <1>1, <2>7, <2>8, <2>11, <2>12, <2>13, TypesBack, Types DEF HandoffInv
  <2>15. QueueStands'
    BY <1>4, <2>10, QueueKeeps DEF Row
  <2>16. ASSUME NEW v \in Owners PROVE DispatcherStands(v)'
    <3>1. CASE v = w
      BY <2>13, <3>1, IdleStands
    <3>2. CASE v # w
      <4>1. DispatcherStands(v) /\ dispatcher'[v] = dispatcher[v]
        BY <2>13, <3>2 DEF HandoffInv
      <4>2. ASSUME dispatcher[v].pc = "writing" PROVE ~Queue!HasReceipt(Target(v), LeaseOf(v).epoch)'
        <5>1. /\ LeaseOf(v) \in leases /\ LeaseOf(v).owner = v
              /\ Target(v) \in Intents /\ LeaseOf(v).epoch \in 1..MaxAttempts
              /\ ~Queue!HasReceipt(Target(v), LeaseOf(v).epoch)
          BY <4>1, <4>2, GrantedEpoch DEF DispatcherStands, Holding, Target
        <5>2. ~(Target(v) = i /\ LeaseOf(v).epoch = e)
          BY <1>2, <2>6, <3>2, <5>1 DEF HandoffInv, QueueStands, Queue!OneGrantPerEpoch, Target
        <5>3. effects'[Target(v)][LeaseOf(v).epoch] = effects[Target(v)][LeaseOf(v).epoch]
          BY <2>9, <5>1, <5>2
        <5>4. Target(v)' = Target(v) /\ LeaseOf(v)' = LeaseOf(v)
          BY <4>1 DEF Target, LeaseOf
        <5> QED  BY <5>1, <5>3, <5>4 DEF Queue!HasReceipt, Queue!NoReceipt
      <4>3. leases' = leases /\ reached' = reached
        BY <1>1, <1>4
      <4> QED  BY <4>1, <4>2, <4>3 DEF DispatcherStands, LeaseOf, Target, Holding
    <3> QED  BY <3>1, <3>2
  <2>17. \A r \in Operators : ReconcilerStands(r)'
    BY <1>1 DEF HandoffInv, ReconcilerStands
  <2>18. ASSUME NEW j \in Intents PROVE LedgerAgrees(j)'
    <3>1. LedgerAgrees(j) /\ attempts[j] \subseteq attempts'[j]
      BY <2>8 DEF HandoffInv
    <3>2. CASE j # i
      <4>1. /\ effects'[j] = effects[j]
            /\ job'[j].status = "SUCCEEDED" => job[j].status = "SUCCEEDED"
        BY <2>9, <2>10, <3>2
      <4> QED  BY <3>1, <4>1 DEF LedgerAgrees, Queue!HasReceipt, Queue!NoReceipt
    <3>3. CASE j = i
      <4>1. \A k \in 1..MaxAttempts : effects'[i][k] # Queue!NoReceipt =>
              <<effects'[i][k].revision, effects'[i][k].input>> \in attempts'[i]
        <5> SUFFICES ASSUME NEW k \in 1..MaxAttempts, effects'[i][k] # Queue!NoReceipt
                     PROVE  <<effects'[i][k].revision, effects'[i][k].input>> \in attempts'[i]
          OBVIOUS
        <5>1. CASE k = e
          BY <2>5, <2>8, <2>9, <5>1
        <5>2. CASE k # e
          BY <2>9, <3>1, <3>3, <5>2 DEF LedgerAgrees, Queue!HasReceipt
        <5> QED  BY <5>1, <5>2
      <4>2. ASSUME NEW k \in 1..MaxAttempts, effects[i][k] = f PROVE FALSE
        <5>1. <<n, s>> \in attempts[i]
          BY <2>5, <3>1, <3>3, <4>2 DEF LedgerAgrees, Queue!HasReceipt
        <5> QED  BY <1>4, <5>1 DEF NumberTaken
      <4>3. \A k, m \in 1..MaxAttempts :
              effects'[i][k] # Queue!NoReceipt /\ effects'[i][k] = effects'[i][m] => k = m
        <5> SUFFICES ASSUME NEW k \in 1..MaxAttempts, NEW m \in 1..MaxAttempts,
                            effects'[i][k] # Queue!NoReceipt, effects'[i][k] = effects'[i][m]
                     PROVE  k = m
          OBVIOUS
        <5>1. CASE k = e \/ m = e
          BY <2>9, <4>2, <5>1
        <5>2. CASE k # e /\ m # e
          BY <2>9, <3>1, <3>3, <5>2 DEF LedgerAgrees, Queue!HasReceipt
        <5> QED  BY <5>1, <5>2
      <4>4. job'[i].status = "SUCCEEDED" =>
              \E k \in 1..MaxAttempts : effects'[i][k].input = "DELIVERED"
        <5>1. CASE s = "DELIVERED"
          BY <1>2, <2>5, <2>9, <5>1
        <5>2. CASE job[i].status = "SUCCEEDED"
          <6>1. PICK k \in 1..MaxAttempts : effects[i][k].input = "DELIVERED"
            BY <3>1, <3>3, <5>2 DEF LedgerAgrees
          <6>2. k # e
            <7>1. Queue!NoReceipt.input = None /\ None # "DELIVERED"
              BY HandoffAssumption DEF Queue!NoReceipt, Results
            <7> QED  BY <1>2, <6>1, <7>1 DEF Queue!HasReceipt
          <6> QED  BY <2>9, <6>1, <6>2
        <5> QED  BY <1>2, <2>10, <5>1, <5>2
      <4> QED  BY <3>3, <4>1, <4>3, <4>4 DEF LedgerAgrees, Queue!HasReceipt, Queue!NoReceipt
    <3> QED  BY <3>2, <3>3
  <2>19. DeliveredIsTrue'
    <3> SUFFICES ASSUME NEW j \in Intents,
                        \/ delivery'[j].state = "DELIVERED"
                        \/ job'[j].status = "SUCCEEDED"
                        \/ \E a \in attempts'[j] : a[2] = "DELIVERED"
                 PROVE  reached'[j]
      BY DEF DeliveredIsTrue
    <3>1. \/ delivery[j].state = "DELIVERED"
          \/ job[j].status = "SUCCEEDED"
          \/ \E a \in attempts[j] : a[2] = "DELIVERED"
          \/ reached[j]
      BY <1>2, <2>7, <2>8, <2>10
    <3> QED  BY <1>1, <3>1 DEF HandoffInv, DeliveredIsTrue
  <2> QED  BY <2>8, <2>14, <2>15, <2>16, <2>17, <2>18, <2>19 DEF HandoffInv
<1>5. \/ UNCHANGED <<queueVars, delivery, attempts, open>>
      \/ /\ ~NumberTaken(i, n)
         /\ delivery' = [delivery EXCEPT ![i].state = state, ![i].count = n]
         /\ attempts' = [attempts EXCEPT ![i] = @ \cup {<<n, s>>}]
         /\ effects' = [effects EXCEPT ![i][e] = [input |-> s, revision |-> n]]
         /\ job' = IF StillGranted(l) THEN [job EXCEPT ![i] = JobAfter(@, state)] ELSE job
         /\ open' = open \/ open' = [open EXCEPT ![i] = @ \ {e}]
         /\ UNCHANGED <<leases, aggregate, enqueuing, told>>
  BY DEF CommitWrite, Closed, Target
<1> QED  BY <1>3, <1>4, <1>5

-----------------------------------------------------------------------------
LEMMA HandoffStep == HandoffInv /\ [Next]_vars => HandoffInv'
<1> SUFFICES ASSUME HandoffInv, [Next]_vars PROVE HandoffInv'
  OBVIOUS
<1>1. ASSUME NEW i \in Intents, Create(i) PROVE HandoffInv'
  BY <1>1, InsertIntentKeeps, EnqueueJobKeeps DEF Create
<1>2. ASSUME NEW w \in Owners, Dispatch(w) PROVE HandoffInv'
  BY <1>2, MarkExpiredKeeps, ClaimJobKeeps, ReturnKeeps, ReadIntentKeeps, FailMissingKeeps,
     CancelUnknownKeeps, CheckLeaseKeeps, MarkDispatchingKeeps, SendKeeps, CommitCheckKeeps,
     CommitWriteKeeps DEF Dispatch
<1>3. ASSUME NEW r \in Operators, ReconcileUnknown(r) PROVE HandoffInv'
  BY <1>3, AskChannelKeeps, SelectUnknownKeeps, WriteOutcomeKeeps DEF ReconcileUnknown
<1>4. CASE UNCHANGED vars
  <2>1. UNCHANGED <<queueVars, delivery, attempts, dispatcher, reconciler, reached, open>>
    BY <1>4 DEF vars, localVars
  <2>2. /\ Queue!TypeOK' /\ leases' = leases /\ effects' = effects
        /\ \A i \in Intents : Row(i) /\ job'[i].status = job[i].status
    BY <2>1, QueueUntouched
  <2> QED  BY <2>1, <2>2, Types, QueueStep DEF HandoffInv
<1> QED  BY <1>1, <1>2, <1>3, <1>4, ReturnKeeps, TickKeeps DEF Next

THEOREM HandoffInvariant == Spec => []HandoffInv
BY HandoffInit, HandoffStep, PTL DEF Spec

\* The recipient has every message that is reported as delivered, by the state
\* of the delivery, the ledger of attempts, a receipt or the job: for any number
\* of dispatchers that crash anywhere and operators that reconcile beside them.
THEOREM DeliveredTruly == Spec => []DeliveredIsTrue
BY HandoffInvariant, PTL DEF HandoffInv

\* The ledger, the receipts and the job rows agree, although two unlocked
\* transactions write them.
THEOREM TablesAlwaysAgree == Spec => []TablesAgree
<1>1. HandoffInv => TablesAgree
  BY DEF HandoffInv, QueueStands, LedgerAgrees, TablesAgree
<1> QED  BY <1>1, HandoffInvariant, PTL

\* A job that ended is not written again.
LEMMA EndedJobs ==
  ASSUME HandoffInv, [Next]_vars, NEW i \in Intents PROVE EndedJobStays(i)
<1> USE DEF Queue!Terminal
<1> SUFFICES ASSUME job[i].status \in Queue!Terminal
             PROVE  job'[i].status = job[i].status /\ job'[i].attempts = job[i].attempts
  BY DEF EndedJobStays
<1>1. CASE job'[i] = job[i]
  BY <1>1
<1>2. CASE Tick
  BY <1>2, TypedNow, TickedRow DEF Tick, Queue!Tick
<1>3. CASE job' = job
  BY <1>3
<1>4. ASSUME NEW j \in Intents, EnqueueJob(j) PROVE job'[i] = job[i]
  BY <1>4, Types DEF HandoffInv, EnqueueJob, Queue!EnqueueSelect, Queue!EnqueueInsert
<1>5. ASSUME NEW w \in Owners, ClaimJob(w) PROVE job'[i] = job[i]
  <2>1. i \notin Queue!Exhausted /\ i \notin Queue!Claimable
    BY DEF Queue!Exhausted, Queue!Claimable
  <2> QED  BY <1>5, <2>1 DEF ClaimJob, Queue!Claim, Queue!ClaimNothing
<1>6. ASSUME NEW w \in Owners, FailMissing(w) \/ CancelUnknown(w) PROVE job'[i] = job[i]
  <2>1. CASE UNCHANGED queueVars
    BY <2>1 DEF queueVars
  <2>2. CASE Queue!Fail(LeaseOf(w), FALSE, 0) \/ Queue!CancelHeld(LeaseOf(w))
    <3>1. LeaseOf(w).job # i
      BY <2>2 DEF Queue!Fail, Queue!CancelHeld, Queue!IsCurrent
    <3> QED  BY <2>2, <3>1, Types DEF HandoffInv, Queue!Fail, Queue!CancelHeld
  <2> QED  BY <1>6, <2>1, <2>2 DEF FailMissing, CancelUnknown
<1>7. ASSUME NEW w \in Owners, CommitWrite(w) PROVE job'[i] = job[i]
  <2>1. CASE ~StillGranted(LeaseOf(w))
    BY <1>7, <2>1 DEF CommitWrite, queueVars
  <2>2. CASE StillGranted(LeaseOf(w))
    <3>1. LeaseOf(w).job # i
      BY <2>2 DEF StillGranted
    <3> QED  BY <1>7, <3>1, Types DEF HandoffInv, CommitWrite, queueVars
  <2> QED  BY <2>1, <2>2
<1>8. ASSUME NEW j \in Intents, Create(j) PROVE job'[i] = job[i]
  BY <1>4, <1>8 DEF Create, InsertIntent, BindJob, queueVars
<1>9. ASSUME NEW w \in Owners, Dispatch(w) \/ Crash(w) PROVE job'[i] = job[i]
  BY <1>5, <1>6, <1>7, <1>9 DEF Dispatch, Crash, MarkExpired, ClaimNone, ReadIntent, CheckLease,
     MarkDispatching, Send, CommitCheck, queueVars
<1>10. ASSUME NEW r \in Operators, ReconcileUnknown(r) PROVE job' = job
  BY <1>10 DEF ReconcileUnknown, AskChannel, SelectUnknown, WriteOutcome, queueVars
<1>11. CASE UNCHANGED vars
  BY <1>11 DEF vars, queueVars
<1> QED  BY <1>1, <1>2, <1>8, <1>9, <1>10, <1>11 DEF Next

\* No row of the ledger is removed or rewritten.
LEMMA LedgerKept ==
  ASSUME HandoffInv, [Next]_vars, NEW i \in Intents PROVE attempts[i] \subseteq attempts'[i]
<1>1. CASE attempts' = attempts
  BY <1>1
<1>2. ASSUME NEW w \in Owners, CommitWrite(w) PROVE attempts[i] \subseteq attempts'[i]
  BY <1>2, Types DEF HandoffInv, CommitWrite
<1>3. ASSUME NEW r \in Operators, WriteOutcome(r) PROVE attempts[i] \subseteq attempts'[i]
  BY <1>3, Types DEF HandoffInv, WriteOutcome
<1>4. ASSUME NEW j \in Intents, Create(j) PROVE attempts' = attempts
  BY <1>4 DEF Create, InsertIntent, EnqueueJob, BindJob
<1>5. ASSUME NEW w \in Owners, Dispatch(w) \/ Crash(w) PROVE attempts' = attempts \/ CommitWrite(w)
  BY <1>5 DEF Dispatch, Crash, MarkExpired, ClaimJob, ClaimNone, ReadIntent, FailMissing,
     CancelUnknown, CheckLease, MarkDispatching, Send, CommitCheck
<1>6. ASSUME NEW r \in Operators, ReconcileUnknown(r) PROVE attempts' = attempts \/ WriteOutcome(r)
  BY <1>6 DEF ReconcileUnknown, AskChannel, SelectUnknown
<1>7. CASE Tick
  BY <1>7 DEF Tick
<1>8. CASE UNCHANGED vars
  BY <1>8 DEF vars
<1> QED  BY <1>1, <1>2, <1>3, <1>4, <1>5, <1>6, <1>7, <1>8 DEF Next

\* Nothing that was recorded is taken back: the ledger only grows, one number
\* has one row, and the row of a job that ended does not change again, however
\* late a dispatcher commits its outcome.
THEOREM NothingIsTakenBack == Spec => NothingTakenBack
<1>1. HandoffInv /\ HandoffInv' /\ [Next]_vars =>
        [\A i \in Intents : LedgerGrows(i) /\ EndedJobStays(i)]_vars
  BY EndedJobs, LedgerKept DEF LedgerGrows, HandoffInv, NumbersAreUnique
<1> QED  BY <1>1, HandoffInvariant, PTL DEF Spec, NothingTakenBack

=============================================================================
