----------------------- MODULE RcaMaterializationProofs -----------------------
(***************************************************************************)
(* Proofs about RcaMaterialization, for any number of workers and callers, *)
(* any attempts and any lease.                                             *)
(***************************************************************************)
EXTENDS RcaMaterialization, TLAPS

\* None is nothing that is decided or computed.
RcaAssumption == None \notin Outcomes /\ None \notin Facts

\* A run of process_one: it holds a lease of the query's job; what it goes on with
\* is of the view, and registered once it was written; and it is on the branch of
\* STALE only after it has seen the view gone.
Sound(q) ==
  /\ DOMAIN q = {"pc", "lease", "facts"}
  /\ q.pc # "idle" => q.lease.job = Query
  /\ q.pc \in {"analysed", "checked", "written", "committed"} => q.facts = "of the view"
  /\ q.pc \in {"written", "committed"} => artifact = "of the view"
  /\ q.pc \in {"stale", "giving up"} => ~exact

RcaInv ==
  /\ row \in {"ABSENT", "PENDING", "READY", "STALE"}
  /\ artifact \in {None, "of the view"}
  /\ exact \in BOOLEAN
  /\ DOMAIN effects = {Query} /\ DOMAIN effects[Query] = {EffectKey}
  /\ row \in Outcomes => effects[Query][EffectKey].input = row
  /\ row = "READY" => artifact = "of the view"
  /\ row = "STALE" => ~exact
  /\ DOMAIN worker = Owners
  /\ \A w \in Owners : Sound(worker[w])

-----------------------------------------------------------------------------
LEMMA RcaInit == ASSUME RcaAssumption PROVE Init => RcaInv
<1> SUFFICES ASSUME Init PROVE RcaInv
  OBVIOUS
<1>1. effects = [j \in {Query} |-> [k \in {EffectKey} |-> Queue!NoReceipt]]
  BY DEF Init, Queue!Init
<1>2. \A w \in Owners : Sound(worker[w])
  BY DEF Init, Idle, Sound
<1> QED  BY <1>1, <1>2 DEF Init, RcaInv, Outcomes

LEMMA RcaImplies == ASSUME RcaAssumption, RcaInv PROVE OutcomeIsTrue
<1>1. ASSUME ReadResult = "of the view" PROVE exact
  BY <1>1 DEF ReadResult, Validates, LoadedFacts, RcaAssumption, Facts
<1> QED  BY <1>1 DEF RcaInv, OutcomeIsTrue

-----------------------------------------------------------------------------
\* One worker moves on, and touches no table.
LEMMA RunMoves ==
  ASSUME RcaInv, NEW w \in Owners, NEW q, worker' = [worker EXCEPT ![w] = q],
         UNCHANGED <<effects, row, exact, artifact>>, Sound(q)
  PROVE  RcaInv'
<1>1. \A x : Sound(x)' <=> Sound(x)
  BY DEF Sound
<1>2. DOMAIN worker' = Owners /\ \A o \in Owners : worker'[o] = IF o = w THEN q ELSE worker[o]
  BY DEF RcaInv
<1>3. \A o \in Owners : Sound(worker[o])'
  <2> TAKE o \in Owners
  <2>1. PICK x : x = worker'[o]
    OBVIOUS
  <2>2. Sound(x)
    BY <1>2, <2>1 DEF RcaInv
  <2> QED  BY <1>1, <2>1, <2>2
<1> QED  BY <1>2, <1>3 DEF RcaInv

\* Nobody moves: the tables of this component stand.
LEMMA NobodyMoves ==
  ASSUME RcaInv, UNCHANGED <<effects, row, exact, artifact, worker>>
  PROVE  RcaInv'
<1>1. \A w \in Owners : Sound(worker[w])'
  BY DEF RcaInv, Sound
<1> QED  BY <1>1 DEF RcaInv

\* A worker that goes to another place, with what holds there.
LEMMA GotoSound ==
  ASSUME RcaInv, NEW w \in Owners, worker[w].pc # "idle", NEW pc, Goto(w, pc),
         UNCHANGED <<effects, row, exact, artifact>>,
         pc \in {"analysed", "checked", "written", "committed"} => worker[w].facts = "of the view",
         pc \in {"written", "committed"} => artifact = "of the view",
         pc \in {"stale", "giving up"} => ~exact
  PROVE  RcaInv'
<1>1. PICK q : q = [worker[w] EXCEPT !.pc = pc]
  OBVIOUS
<1>2. worker' = [worker EXCEPT ![w] = q]
  BY <1>1 DEF Goto
<1>3. Sound(worker[w])
  BY DEF RcaInv
<1>4. /\ DOMAIN q = {"pc", "lease", "facts"} /\ q.pc = pc
      /\ q.lease = worker[w].lease /\ q.facts = worker[w].facts
  BY <1>1, <1>3 DEF Sound
<1>5. Sound(q)
  BY <1>3, <1>4 DEF Sound
<1> QED  BY <1>2, <1>5, RunMoves

LEMMA ReturnSound ==
  ASSUME RcaInv, NEW w \in Owners, Return(w), UNCHANGED <<effects, row, exact, artifact>>
  PROVE  RcaInv'
<1>1. Sound(Idle)
  BY DEF Sound, Idle
<1> QED  BY <1>1, RunMoves DEF Return

-----------------------------------------------------------------------------
\* A decision leaves the row as it was, or is the first one under the receipt.
LEMMA Decides ==
  ASSUME RcaAssumption, RcaInv, NEW w \in Owners, worker[w].pc # "idle",
         NEW outcome \in Outcomes, Decide(w, outcome)
  PROVE  /\ DOMAIN effects' = {Query} /\ DOMAIN effects'[Query] = {EffectKey}
         /\ row' \in Outcomes => effects'[Query][EffectKey].input = row'
         /\ row' \in {row, outcome}
         /\ row \in Outcomes => row' = row
         /\ job' = job /\ (row' = row \/ job[Query].status = "RUNNING")
<1>1. LeaseOf(w).job = Query
  BY DEF RcaInv, Sound, LeaseOf
<1>2. CASE /\ Queue!CommitLocalEffect(LeaseOf(w), EffectKey, outcome)
           /\ row' = outcome
  <2>1. /\ effects' = [effects EXCEPT ![Query][EffectKey] =
                         [input |-> outcome, revision |-> aggregate.version + 1]]
        /\ effects[Query][EffectKey] = Queue!NoReceipt
        /\ job' = job /\ job[Query].status = "RUNNING"
    BY <1>1, <1>2 DEF Queue!CommitLocalEffect, Queue!HasReceipt, Queue!IsCurrent
  <2>2. effects[Query][EffectKey].input = None
    BY <2>1 DEF Queue!NoReceipt
  <2>3. row \notin Outcomes
    BY <2>2 DEF RcaInv, RcaAssumption
  <2> QED  BY <1>2, <2>1, <2>3 DEF RcaInv
<1>3. CASE UNCHANGED <<queueVars, row>>
  BY <1>3 DEF RcaInv, queueVars
<1> QED  BY <1>2, <1>3 DEF Decide

\* ... and the worker that decided goes on.
LEMMA DecideKeeps ==
  ASSUME RcaAssumption, RcaInv, NEW w \in Owners, worker[w].pc # "idle",
         NEW outcome \in Outcomes, Decide(w, outcome), UNCHANGED <<exact, artifact>>,
         outcome = "READY" => artifact = "of the view" /\ worker[w].facts = "of the view",
         outcome = "STALE" => ~exact,
         Goto(w, IF outcome = "READY" THEN "committed" ELSE "giving up")
  PROVE  RcaInv'
<1>1. /\ DOMAIN effects' = {Query} /\ DOMAIN effects'[Query] = {EffectKey}
      /\ row' \in Outcomes => effects'[Query][EffectKey].input = row'
      /\ row' \in {row, outcome}
  BY Decides
<1>2. PICK pc : pc = IF outcome = "READY" THEN "committed" ELSE "giving up"
  OBVIOUS
<1>3. PICK q : q = [worker[w] EXCEPT !.pc = pc]
  OBVIOUS
<1>4. worker' = [worker EXCEPT ![w] = q]
  BY <1>2, <1>3 DEF Goto
<1>5. Sound(worker[w])
  BY DEF RcaInv
<1>6. /\ DOMAIN q = {"pc", "lease", "facts"} /\ q.pc = pc
      /\ q.lease = worker[w].lease /\ q.facts = worker[w].facts
  BY <1>3, <1>5 DEF Sound
<1>7. Sound(q)
  BY <1>2, <1>5, <1>6 DEF Sound, Outcomes
<1>8. \A x : Sound(x)' <=> Sound(x)
  BY DEF Sound
<1>9. \A o \in Owners : Sound(worker[o])'
  <2> TAKE o \in Owners
  <2>1. PICK x : x = worker'[o]
    OBVIOUS
  <2>2. Sound(x)
    BY <1>4, <1>7, <2>1 DEF RcaInv
  <2> QED  BY <1>8, <2>1, <2>2
<1>10. DOMAIN worker' = Owners
  BY <1>4 DEF RcaInv
<1> QED  BY <1>1, <1>9, <1>10 DEF RcaInv, Outcomes

-----------------------------------------------------------------------------
LEMMA EnqueueKeeps ==
  ASSUME RcaAssumption, RcaInv, NEW c \in Callers, Enqueue(c)
  PROVE  RcaInv'
<1>1. CASE FindNoStatus(c) \/ SelectJob(c) \/ InsertJob(c) \/ Abandon(c)
  <2>1. UNCHANGED <<effects, row, exact, artifact, worker>>
    BY <1>1 DEF FindNoStatus, SelectJob, InsertJob, Abandon, Queue!EnqueueSelect,
                Queue!EnqueueInsert, queueVars
  <2> QED  BY <2>1, NobodyMoves
<1>2. CASE SeedStatus(c)
  <2>1. /\ UNCHANGED <<effects, exact, artifact, worker>>
        /\ row' = IF row = "ABSENT" THEN "PENDING" ELSE row
    BY <1>2 DEF SeedStatus, queueVars
  <2>2. \A w \in Owners : Sound(worker[w])'
    BY <2>1 DEF RcaInv, Sound
  <2> QED  BY <2>1, <2>2 DEF RcaInv, Outcomes
<1> QED  BY <1>1, <1>2 DEF Enqueue

LEMMA ClaimKeeps ==
  ASSUME RcaAssumption, RcaInv, NEW w \in Owners, ClaimJob(w)
  PROVE  RcaInv'
<1>1. PICK dead \in SUBSET Queue!Exhausted :
        \/ /\ Queue!Claim(w, Query, dead)
           /\ worker' = [worker EXCEPT ![w].pc = "claimed", ![w].lease =
                [job |-> Query, owner |-> w, epoch |-> job[Query].epoch + 1]]
        \/ Queue!ClaimNothing(dead) /\ UNCHANGED worker
  BY DEF ClaimJob
<1>2. UNCHANGED <<effects, row, exact, artifact>>
  BY <1>1 DEF ClaimJob, Queue!Claim, Queue!ClaimNothing
<1>3. CASE UNCHANGED worker
  BY <1>2, <1>3, NobodyMoves
<1>4. CASE worker' = [worker EXCEPT ![w].pc = "claimed", ![w].lease =
                [job |-> Query, owner |-> w, epoch |-> job[Query].epoch + 1]]
  <2>1. PICK l : l = [job |-> Query, owner |-> w, epoch |-> job[Query].epoch + 1]
    OBVIOUS
  <2>2. PICK q : q = [worker[w] EXCEPT !.pc = "claimed", !.lease = l]
    OBVIOUS
  <2>3. Sound(worker[w])
    BY DEF RcaInv
  <2>4. q.pc = "claimed" /\ q.lease = l /\ DOMAIN q = {"pc", "lease", "facts"} /\ l.job = Query
    BY <2>1, <2>2, <2>3 DEF Sound
  <2>5. Sound(q)
    BY <2>4 DEF Sound
  <2>6. worker' = [worker EXCEPT ![w] = q]
    BY <1>4, <2>1, <2>2 DEF RcaInv
  <2> QED  BY <1>2, <2>5, <2>6, RunMoves
<1> QED  BY <1>1, <1>3, <1>4

LEMMA AnalyseKeeps ==
  ASSUME RcaAssumption, RcaInv, NEW w \in Owners, Analyse(w) \/ CheckAgain(w)
  PROVE  RcaInv'
<1>1. UNCHANGED <<effects, row, exact, artifact>> /\ Sound(worker[w])
  BY DEF Analyse, CheckAgain, queueVars, RcaInv
<1>2. CASE Analyse(w)
  <2>1. PICK f, pc : /\ f = LoadedFacts
                     /\ pc = IF Validates(LoadedFacts) THEN "analysed" ELSE "stale"
    OBVIOUS
  <2>2. \/ pc = "analysed" /\ f = "of the view"
        \/ pc = "stale" /\ ~exact
    BY <2>1 DEF Validates, LoadedFacts, RcaInv
  <2>3. PICK q : q = [worker[w] EXCEPT !.facts = f, !.pc = pc]
    OBVIOUS
  <2>4. /\ q.pc = pc /\ q.facts = f /\ q.lease = worker[w].lease
        /\ DOMAIN q = {"pc", "lease", "facts"}
    BY <1>1, <2>3 DEF Sound
  <2>5. worker[w].pc # "idle"
    BY <1>2 DEF Analyse, At
  <2>6. Sound(q)
    BY <1>1, <2>2, <2>4, <2>5 DEF Sound
  <2>7. worker' = [worker EXCEPT ![w] = q]
    BY <1>2, <2>1, <2>3 DEF Analyse, RcaInv
  <2> QED  BY <1>1, <2>6, <2>7, RunMoves
<1>3. CASE CheckAgain(w)
  <2>1. worker[w].pc = "analysed" /\ worker[w].facts = "of the view"
    BY <1>1, <1>3 DEF CheckAgain, At, Sound
  <2>2. PICK pc : pc = IF Validates(LoadedFacts) THEN "checked" ELSE "stale"
    OBVIOUS
  <2>3. pc = "checked" \/ (pc = "stale" /\ ~exact)
    BY <2>2 DEF Validates, LoadedFacts, RcaInv
  <2>4. Goto(w, pc)
    BY <1>3, <2>2 DEF CheckAgain
  <2> QED  BY <1>1, <2>1, <2>3, <2>4, GotoSound
<1> QED  BY <1>2, <1>3

\* The artifact is written from facts that are of the view.
LEMMA WriteKeeps ==
  ASSUME RcaAssumption, RcaInv, NEW w \in Owners, WriteArtifact(w)
  PROVE  RcaInv'
<1>1. /\ worker[w].pc = "checked" /\ worker[w].facts = "of the view" /\ Sound(worker[w])
      /\ artifact' = "of the view" /\ UNCHANGED <<effects, row, exact>> /\ Goto(w, "written")
  BY DEF WriteArtifact, At, RcaInv, Sound, queueVars
<1>2. PICK q : q = [worker[w] EXCEPT !.pc = "written"]
  OBVIOUS
<1>3. worker' = [worker EXCEPT ![w] = q]
  BY <1>1, <1>2 DEF Goto
<1>4. /\ q.pc = "written" /\ q.facts = worker[w].facts /\ q.lease = worker[w].lease
      /\ DOMAIN q = {"pc", "lease", "facts"}
  BY <1>1, <1>2 DEF Sound
<1>5. \A x : Sound(x) => Sound(x)'
  BY <1>1 DEF Sound
<1>6. Sound(q)'
  BY <1>1, <1>4 DEF Sound
<1>7. \A o \in Owners : Sound(worker[o])'
  <2> TAKE o \in Owners
  <2>1. PICK x : x = worker'[o]
    OBVIOUS
  <2>2. CASE o = w
    BY <1>3, <1>6, <2>1, <2>2 DEF RcaInv
  <2>3. CASE o # w
    <3>1. Sound(x)
      BY <1>3, <2>1, <2>3 DEF RcaInv
    <3> QED  BY <1>5, <2>1, <3>1
  <2> QED  BY <2>2, <2>3
<1>8. DOMAIN worker' = Owners
  BY <1>3 DEF RcaInv
<1> QED  BY <1>1, <1>7, <1>8 DEF RcaInv

LEMMA CommitKeeps ==
  ASSUME RcaAssumption, RcaInv, NEW w \in Owners, CommitReady(w) \/ CommitStale(w)
  PROVE  RcaInv'
<1>1. UNCHANGED <<exact, artifact>> /\ Sound(worker[w])
  BY DEF CommitReady, CommitStale, RcaInv
<1>2. CASE CommitReady(w)
  <2>1. worker[w].pc = "written" /\ worker[w].facts = "of the view" /\ artifact = "of the view"
    BY <1>1, <1>2 DEF CommitReady, At, Sound
  <2>2. CASE Decide(w, "READY") /\ Goto(w, "committed")
    <3>1. "READY" \in Outcomes
      BY DEF Outcomes
    <3>2. Goto(w, IF "READY" = "READY" THEN "committed" ELSE "giving up")
      BY <2>2
    <3> QED  BY <1>1, <2>1, <2>2, <3>1, <3>2, DecideKeeps
  <2>3. CASE Goto(w, "failing") /\ UNCHANGED <<queueVars, row>>
    BY <1>1, <2>1, <2>3, GotoSound DEF queueVars
  <2> QED  BY <1>2, <2>2, <2>3 DEF CommitReady
<1>3. CASE CommitStale(w)
  <2>1. worker[w].pc = "stale" /\ ~exact
    BY <1>1, <1>3 DEF CommitStale, At, Sound
  <2>2. CASE Decide(w, "STALE") /\ Goto(w, "giving up")
    <3>1. "STALE" \in Outcomes
      BY DEF Outcomes
    <3>2. Goto(w, IF "STALE" = "READY" THEN "committed" ELSE "giving up")
      BY <2>2
    <3> QED  BY <1>1, <2>1, <2>2, <3>1, <3>2, DecideKeeps
  <2>3. CASE Return(w) /\ UNCHANGED <<queueVars, row>>
    BY <1>1, <2>3, ReturnSound DEF queueVars
  <2> QED  BY <1>3, <2>2, <2>3 DEF CommitStale
<1> QED  BY <1>2, <1>3

\* The steps that end an attempt.
LEMMA EndKeeps ==
  ASSUME RcaAssumption, RcaInv, NEW w \in Owners,
         CompleteJob(w) \/ GiveUp(w) \/ Raise(w) \/ Crash(w)
  PROVE  RcaInv'
<1>1. CASE Raise(w)
  <2>1. /\ worker[w].pc # "idle" /\ Goto(w, "failing")
        /\ UNCHANGED <<effects, row, exact, artifact>>
    BY <1>1 DEF Raise, queueVars
  <2> QED  BY <2>1, GotoSound
<1>2. CASE GiveUp(w) \/ Crash(w)
  <2>1. Return(w) /\ UNCHANGED <<effects, row, exact, artifact>>
    BY <1>2 DEF GiveUp, Crash, Queue!Fail, queueVars
  <2> QED  BY <2>1, ReturnSound
<1>3. CASE CompleteJob(w)
  <2>1. /\ worker[w].pc # "idle"
        /\ Return(w) \/ Goto(w, "failing")
        /\ UNCHANGED <<effects, row, exact, artifact>>
    BY <1>3 DEF CompleteJob, At, Queue!Complete, queueVars
  <2> QED  BY <2>1, ReturnSound, GotoSound
<1> QED  BY <1>1, <1>2, <1>3

LEMMA RcaStep == ASSUME RcaAssumption PROVE RcaInv /\ [Next]_vars => RcaInv'
<1> SUFFICES ASSUME RcaInv, [Next]_vars PROVE RcaInv'
  OBVIOUS
<1>1. ASSUME NEW c \in Callers, Enqueue(c) PROVE RcaInv'
  BY <1>1, EnqueueKeeps
<1>2. ASSUME NEW w \in Owners, Process(w) \/ Crash(w) PROVE RcaInv'
  BY <1>2, ClaimKeeps, AnalyseKeeps, WriteKeeps, CommitKeeps, EndKeeps DEF Process
<1>3. CASE ViewMoves
  <2>1. UNCHANGED <<effects, row, artifact, worker>> /\ exact' = FALSE
    BY <1>3 DEF ViewMoves, queueVars
  <2>2. \A w \in Owners : Sound(worker[w])'
    BY <2>1 DEF RcaInv, Sound
  <2> QED  BY <2>1, <2>2 DEF RcaInv
<1>4. CASE Tick
  BY <1>4, NobodyMoves DEF Tick, Queue!Tick
<1>5. CASE UNCHANGED vars
  BY <1>5, NobodyMoves DEF vars, queueVars
<1> QED  BY <1>1, <1>2, <1>3, <1>4, <1>5 DEF Next

\* A row that is READY was computed from the view of its query, a STALE one says
\* that the view is gone, and a result is read only while its view stands.
THEOREM Truth == ASSUME RcaAssumption PROVE Spec => []OutcomeIsTrue
<1>1. Init => RcaInv
  BY RcaInit
<1>2. RcaInv /\ [Next]_vars => RcaInv'
  BY RcaStep
<1>3. RcaInv => OutcomeIsTrue
  BY RcaImplies
<1> QED  BY <1>1, <1>2, <1>3, PTL DEF Spec

-----------------------------------------------------------------------------
\* The job is a row with a status, whatever becomes of it.
JobInv == DOMAIN job = {Query} /\ "status" \in DOMAIN job[Query]

LEMMA JobInit == Init => JobInv
BY DEF Init, Queue!Init, Queue!AbsentRow, JobInv

LEMMA JobStep ==
  ASSUME RcaInv, JobInv, [Next]_vars
  PROVE  JobInv'
<1> USE DEF JobInv
<1>1. ASSUME NEW c \in Callers, Enqueue(c) PROVE JobInv'
  <2>1. CASE FindNoStatus(c) \/ SelectJob(c) \/ SeedStatus(c) \/ Abandon(c)
    BY <2>1 DEF FindNoStatus, SelectJob, SeedStatus, Abandon, Queue!EnqueueSelect, queueVars
  <2>2. CASE InsertJob(c)
    BY <2>2 DEF InsertJob, Queue!EnqueueInsert, queueVars
  <2> QED  BY <1>1, <2>1, <2>2 DEF Enqueue
<1>2. ASSUME NEW r, NEW status, "status" \in DOMAIN r
      PROVE  "status" \in DOMAIN Queue!Unleased(r, status)
  BY <1>2 DEF Queue!Unleased
<1>3. ASSUME NEW w \in Owners, ClaimJob(w) PROVE JobInv'
  BY <1>2, <1>3 DEF ClaimJob, Queue!Claim, Queue!ClaimNothing, Queue!ClaimedRow
<1>4. ASSUME NEW w \in Owners, worker[w].pc # "idle" PROVE LeaseOf(w).job = Query
  BY <1>4 DEF RcaInv, Sound, LeaseOf
<1>5. ASSUME NEW w \in Owners, CompleteJob(w) PROVE JobInv'
  <2>1. LeaseOf(w).job = Query
    BY <1>4, <1>5 DEF CompleteJob, At
  <2> QED  BY <1>2, <1>5, <2>1 DEF CompleteJob, Queue!Complete, queueVars
<1>6. ASSUME NEW w \in Owners, GiveUp(w) PROVE JobInv'
  <2>1. LeaseOf(w).job = Query
    BY <1>4, <1>6 DEF GiveUp, At
  <2>2. ASSUME NEW retryable, NEW d, Queue!Fail(LeaseOf(w), retryable, d) PROVE JobInv'
    <3>1. PICK status : status = Queue!FailStatus(job[Query], retryable)
      OBVIOUS
    <3>2. PICK failed : failed = Queue!Unleased(job[Query], status)
      OBVIOUS
    <3>3. "status" \in DOMAIN failed
      BY <1>2, <3>2
    <3>4. job' = [job EXCEPT ![Query] = IF status = "QUEUED" THEN Queue!Postponed(failed, d) ELSE failed]
      BY <2>1, <2>2, <3>1, <3>2 DEF Queue!Fail
    <3> QED  BY <3>3, <3>4 DEF Queue!Postponed
  <2> QED  BY <1>6, <2>2 DEF GiveUp, queueVars
<1>7. ASSUME NEW w \in Owners, Process(w) \/ Crash(w), ~ClaimJob(w), ~CompleteJob(w), ~GiveUp(w)
      PROVE  JobInv'
  BY <1>7 DEF Process, Crash, Analyse, CheckAgain, WriteArtifact, Raise, CommitReady, CommitStale,
              Decide, Queue!CommitLocalEffect, queueVars
<1>8. CASE Tick
  BY <1>8 DEF Tick, Queue!Tick, Queue!Ticked
<1>9. CASE ViewMoves \/ UNCHANGED vars
  BY <1>9 DEF ViewMoves, vars, queueVars
<1> QED  BY <1>1, <1>3, <1>5, <1>6, <1>7, <1>8, <1>9 DEF Next

\* A job that ended badly stays as it is, and nobody decides it any more.
LEMMA HopelessStays ==
  ASSUME RcaAssumption, RcaInv, JobInv, [Next]_vars, job[Query].status \in Hopeless, row = "PENDING"
  PROVE  job'[Query].status = job[Query].status /\ row' = "PENDING"
<1>0. job[Query].status \notin {"ABSENT", "RUNNING", "QUEUED", "DEFERRED"}
  BY DEF Hopeless
<1>1. ASSUME NEW c \in Callers, Enqueue(c)
      PROVE  job' = job /\ row' = row
  BY <1>0, <1>1 DEF Enqueue, FindNoStatus, SelectJob, InsertJob, SeedStatus, Abandon,
                    Queue!EnqueueSelect, Queue!EnqueueInsert, queueVars
<1>2. ASSUME NEW w \in Owners, ClaimJob(w)
      PROVE  job'[Query] = job[Query] /\ row' = row
  <2>1. \A dead \in SUBSET Queue!Exhausted : Query \notin dead
    BY <1>0 DEF Queue!Exhausted
  <2>2. Query \notin Queue!Claimable
    BY <1>0 DEF Queue!Claimable
  <2>3. PICK dead \in SUBSET Queue!Exhausted : Queue!ClaimNothing(dead)
    BY <1>2, <2>2 DEF ClaimJob, Queue!Claim
  <2> QED  BY <1>2, <2>1, <2>3 DEF ClaimJob, Queue!ClaimNothing
<1>3. ASSUME NEW w \in Owners, worker[w].pc # "idle"
      PROVE  ~Current(w)
  BY <1>0, <1>3 DEF RcaInv, Sound, Current, LeaseOf, Queue!IsCurrent
<1>4. ASSUME NEW w \in Owners, Process(w) \/ Crash(w), ~ClaimJob(w)
      PROVE  job' = job /\ row' = row
  <2>0. worker[w].pc # "idle"
    BY <1>4 DEF Process, Crash, Analyse, CheckAgain, WriteArtifact, Raise, CommitReady,
                CompleteJob, CommitStale, GiveUp, At
  <2>1. ~Current(w)
    BY <1>3, <2>0
  <2>2. CASE Analyse(w) \/ CheckAgain(w) \/ WriteArtifact(w) \/ Raise(w) \/ Crash(w)
    BY <2>2 DEF Analyse, CheckAgain, WriteArtifact, Raise, Crash, queueVars
  <2>3. CASE CommitReady(w) \/ CommitStale(w)
    BY <2>1, <2>3 DEF CommitReady, CommitStale, Decide, Queue!CommitLocalEffect, Current, queueVars
  <2>4. CASE CompleteJob(w) \/ GiveUp(w)
    BY <2>1, <2>4 DEF CompleteJob, GiveUp, Queue!Complete, Queue!Fail, Current, queueVars
  <2> QED  BY <1>4, <2>2, <2>3, <2>4 DEF Process
<1>5. CASE ViewMoves
  BY <1>5 DEF ViewMoves, queueVars
<1>6. CASE Tick
  BY <1>6 DEF Tick, Queue!Tick, Queue!Ticked, JobInv
<1>7. CASE UNCHANGED vars
  BY <1>7 DEF vars, queueVars
<1> QED  BY <1>1, <1>2, <1>4, <1>5, <1>6, <1>7 DEF Next

\* A row that is decided stays.
LEMMA DecidedStays ==
  ASSUME RcaAssumption, RcaInv, [Next]_vars, row \in Outcomes
  PROVE  row' = row
<1>1. ASSUME NEW c \in Callers, Enqueue(c) PROVE row' = row
  BY <1>1 DEF Enqueue, FindNoStatus, SelectJob, InsertJob, SeedStatus, Abandon, Outcomes
<1>2. ASSUME NEW w \in Owners, CommitReady(w) \/ CommitStale(w) PROVE row' = row
  <2>1. worker[w].pc # "idle" /\ "READY" \in Outcomes /\ "STALE" \in Outcomes
    BY <1>2 DEF CommitReady, CommitStale, At, Outcomes
  <2>2. (\E outcome \in Outcomes : Decide(w, outcome)) \/ UNCHANGED row
    BY <1>2, <2>1 DEF CommitReady, CommitStale
  <2> QED  BY <2>1, <2>2, Decides
<1>3. ASSUME NEW w \in Owners, Process(w) \/ Crash(w), ~(CommitReady(w) \/ CommitStale(w))
      PROVE row' = row
  BY <1>3 DEF Process, ClaimJob, Analyse, CheckAgain, WriteArtifact, Raise, CompleteJob, GiveUp,
              Crash
<1>4. CASE ViewMoves \/ Tick \/ UNCHANGED vars
  BY <1>4 DEF ViewMoves, Tick, vars
<1> QED  BY <1>1, <1>2, <1>3, <1>4 DEF Next

\* What status reports once it is settled.
LEMMA SettledMeans ==
  ASSUME RcaInv, Reported \in Settled
  PROVE  \/ row \in Outcomes /\ Reported = row
         \/ row = "PENDING" /\ job[Query].status \in Hopeless /\ Reported = "FAILED"
<1>1. CASE row # "PENDING"
  <2>1. Reported = row
    BY <1>1 DEF Reported
  <2> QED  BY <1>1, <2>1 DEF Settled, Outcomes, RcaInv
<1>2. CASE row = "PENDING" /\ job[Query].status \in Hopeless
  BY <1>2 DEF Reported, Hopeless
<1>3. CASE row = "PENDING" /\ job[Query].status = "RUNNING"
  <2>1. Reported = "RUNNING"
    BY <1>3 DEF Reported, Hopeless
  <2> QED  BY <2>1 DEF Settled
<1>4. CASE row = "PENDING" /\ job[Query].status \notin Hopeless /\ job[Query].status # "RUNNING"
  <2>1. Reported = "PENDING"
    BY <1>4 DEF Reported
  <2> QED  BY <2>1 DEF Settled
<1> QED  BY <1>1, <1>2, <1>3, <1>4

LEMMA SettledStays ==
  ASSUME RcaAssumption, RcaInv, JobInv, [Next]_vars, Reported \in Settled
  PROVE  Reported' = Reported
<1>1. CASE row \in Outcomes /\ Reported = row
  <2>1. row' = row /\ row' # "PENDING"
    BY <1>1, DecidedStays DEF Outcomes
  <2>2. Reported' = row'
    BY <2>1 DEF Reported
  <2> QED  BY <1>1, <2>1, <2>2
<1>2. CASE row = "PENDING" /\ job[Query].status \in Hopeless /\ Reported = "FAILED"
  <2>1. row' = "PENDING" /\ job'[Query].status = job[Query].status
    BY <1>2, HopelessStays
  <2>2. row' = "PENDING" /\ job'[Query].status \in Hopeless
    BY <1>2, <2>1
  <2>3. job'[Query].status # "RUNNING"
    BY <2>2 DEF Hopeless
  <2>4. Reported' = "FAILED"
    BY <2>2, <2>3 DEF Reported
  <2> QED  BY <1>2, <2>4
<1> QED  BY <1>1, <1>2, SettledMeans

\* What status reports as READY, STALE or FAILED it reports for ever, whichever
\* attempts wake up afterwards.
THEOREM Finality == ASSUME RcaAssumption PROVE Spec => OutcomeIsFinal
<1>1. Init => RcaInv /\ JobInv
  BY RcaInit, JobInit
<1>2. RcaInv /\ JobInv /\ [Next]_vars => RcaInv' /\ JobInv'
  BY RcaStep, JobStep
<1>3. RcaInv /\ JobInv /\ [Next]_vars => (Reported \in Settled => UNCHANGED Reported)
  BY SettledStays
<1>4. RcaInv /\ JobInv /\ [Next]_vars => [(Reported \in Settled) => UNCHANGED Reported]_vars
  BY <1>3
<1> QED  BY <1>1, <1>2, <1>4, PTL DEF Spec, OutcomeIsFinal
=============================================================================
