------------------------- MODULE RcaMaterialization -------------------------
(***************************************************************************)
(* Durable RCA results: application/rca_materialization.py on the worker   *)
(* queue, a status row (a generic aggregate) and the artifact store.       *)
(*                                                                         *)
(* A query names one exact view of an Episode, so it is one job and one    *)
(* status row.  Everything that ends a view (a new revision, a command on  *)
(* the workflow, a reopened cycle) ends it for good: exact is TRUE until   *)
(* then.  An analysis of that view is a function of immutable data; what   *)
(* may differ from one attempt to the next is whether the view still       *)
(* stands, and what fails on the way.  Definitions marked "Mistake" are as *)
(* in WorkerQueue.                                                         *)
(***************************************************************************)
EXTENDS Integers, FiniteSets

CONSTANTS Query,         \* the RcaQuery; its identity is the semantic key
          Owners,        \* worker ids that call process_one
          Callers,       \* callers of enqueue
          MaxAttempts, LeaseDuration,
          None

VARIABLES job, leases, effects, aggregate, enqueuing, told,  \* WorkerQueue
          row,       \* the status row: state of the rca_materialization aggregate
          exact,     \* the Episode still is at the view that the query names
          artifact,  \* what is registered under the job: None, or whose facts
          worker,    \* local state of each process_one
          caller     \* where each call of enqueue is

queueVars == <<job, leases, effects, aggregate, enqueuing, told>>
vars == <<queueVars, row, exact, artifact, worker, caller>>

Payload == "query"
EffectKey == "publish-immutable-rca-result-v1"
Outcomes == {"READY", "STALE"}
Facts == {"of the view", "of a later view"}

Queue == INSTANCE WorkerQueue WITH
  Jobs <- {Query}, Payloads <- {Payload}, EffectKeys <- {EffectKey},
  Inputs <- Outcomes, MaxDelay <- 1, MaxVersion <- 1

Runs == [pc: {"idle", "claimed", "analysed", "checked", "written", "committed",
              "failing", "stale", "giving up"},
         lease: Queue!Lease \cup {None}, facts: Facts \cup {None}]
Idle == [pc |-> "idle", lease |-> None, facts |-> None]

TypeOK ==
  /\ Queue!TypeOK
  /\ row \in {"ABSENT", "PENDING"} \cup Outcomes
  /\ exact \in BOOLEAN
  /\ artifact \in Facts \cup {None}
  /\ worker \in [Owners -> Runs]
  /\ caller \in [Callers -> {"idle", "unknown", "inserting", "queued"}]

Init ==
  /\ Queue!Init
  /\ row = "ABSENT"
  /\ exact = TRUE
  /\ artifact = None
  /\ worker = [w \in Owners |-> Idle]
  /\ caller = [c \in Callers |-> "idle"]

-----------------------------------------------------------------------------
\* enqueue, in the order of its transactions.  A call that finds the status
\* row returns what status says.
Continue(c, from, to) == caller[c] = from /\ caller' = [caller EXCEPT ![c] = to]

FindNoStatus(c) ==
  /\ row = "ABSENT"
  /\ Continue(c, "idle", "unknown")
  /\ UNCHANGED <<queueVars, row, exact, artifact, worker>>

\* WorkerQueue.enqueue under the query's identity, in its two statements.  An
\* INSERT that comes second finds the job of the first.
SelectJob(c) ==
  /\ Queue!EnqueueSelect(Query, Payload)
  /\ Continue(c, "unknown", IF job[Query].status = "ABSENT" THEN "inserting" ELSE "queued")
  /\ UNCHANGED <<row, exact, artifact, worker>>

InsertJob(c) ==
  /\ \/ Queue!EnqueueInsert(Query, Payload, 0)
     \/ <<Query, Payload>> \in told /\ UNCHANGED queueVars
  /\ Continue(c, "inserting", "queued")
  /\ UNCHANGED <<row, exact, artifact, worker>>

\* Mistake: the row starts with the status of the job.
SeedJobStatus(c) ==
  /\ row' = IF row = "ABSENT" THEN job[Query].status ELSE row
  /\ Continue(c, "queued", "idle")
  /\ UNCHANGED <<queueVars, exact, artifact, worker>>

\* seed_aggregate, or its conflict: the row that is there names the same job.
SeedStatus(c) ==
  /\ row' = IF row = "ABSENT" THEN "PENDING" ELSE row
  /\ Continue(c, "queued", "idle")
  /\ UNCHANGED <<queueVars, exact, artifact, worker>>

\* The calling process dies between two of them.
Abandon(c) ==
  /\ caller[c] # "idle"
  /\ caller' = [caller EXCEPT ![c] = "idle"]
  /\ UNCHANGED <<queueVars, row, exact, artifact, worker>>

\* What status reports: the row's own state once an attempt decided it, and
\* what became of the job before that.  (A job that failed with RCA_STALE has
\* committed STALE first, so its failure code decides nothing.)
\* Mistake: jobs that claim gave up are forgotten.
HopelessUnlessDead == {"FAILED", "CANCELED"}

Hopeless == {"FAILED", "DEAD_LETTER", "CANCELED"}

Reported ==
  CASE row # "PENDING" -> row
    [] row = "PENDING" /\ job[Query].status \in Hopeless -> "FAILED"
    [] row = "PENDING" /\ job[Query].status = "RUNNING" -> "RUNNING"
    [] OTHER -> "PENDING"

-----------------------------------------------------------------------------
\* process_one.  Whatever it raises is caught: a conflict with the view by the
\* STALE branch, everything else by the branch that gives the attempt back.
At(w, pc) == worker[w].pc = pc
Goto(w, pc) == worker' = [worker EXCEPT ![w].pc = pc]
Return(w) == worker' = [worker EXCEPT ![w] = Idle]
LeaseOf(w) == worker[w].lease
Current(w) == Queue!IsCurrent(LeaseOf(w))

ClaimJob(w) ==
  /\ At(w, "idle")
  /\ \E dead \in SUBSET Queue!Exhausted :
       \/ /\ Queue!Claim(w, Query, dead)
          /\ worker' = [worker EXCEPT ![w].pc = "claimed", ![w].lease =
               [job |-> Query, owner |-> w, epoch |-> job[Query].epoch + 1]]
       \/ Queue!ClaimNothing(dead) /\ UNCHANGED worker
  /\ UNCHANGED <<row, exact, artifact, caller>>

\* load_current_facts reads the Episode as it is now, and its evidence comes
\* from the sources it names: the analysis treats other evidence as a conflict.
LoadedFacts == IF exact THEN "of the view" ELSE "of a later view"

\* Mistake: the facts are not compared with the query.
AcceptsAnything(facts) == facts \in Facts

\* validate_current_facts
Validates(facts) == facts = "of the view"

\* The facts are loaded, compared and analysed.
Analyse(w) ==
  /\ At(w, "claimed")
  /\ worker' = [worker EXCEPT ![w].facts = LoadedFacts,
                  ![w].pc = IF Validates(LoadedFacts) THEN "analysed" ELSE "stale"]
  /\ UNCHANGED <<queueVars, row, exact, artifact, caller>>

\* They are loaded and compared again after the analysis.
CheckAgain(w) ==
  /\ At(w, "analysed")
  /\ Goto(w, IF Validates(LoadedFacts) THEN "checked" ELSE "stale")
  /\ UNCHANGED <<queueVars, row, exact, artifact, caller>>

\* write_and_register: content addressed, so a repetition finds its own entry.
WriteArtifact(w) ==
  /\ At(w, "checked")
  /\ artifact' = worker[w].facts
  /\ Goto(w, "written")
  /\ UNCHANGED <<queueVars, row, exact, caller>>

\* The loader, the analysis or the artifact store raises something else than a
\* conflict; so does an input beyond the bounds of the analysis.
Raise(w) ==
  /\ worker[w].pc \in {"claimed", "analysed", "checked"}
  /\ Goto(w, "failing")
  /\ UNCHANGED <<queueVars, row, exact, artifact, caller>>

\* Mistake: the outcome is committed under a key of its own.
DecideAgain(w, outcome) ==
  /\ Current(w) /\ row # "ABSENT"
  /\ row' = outcome
  /\ UNCHANGED queueVars

\* _commit_status: the outcome reaches the row with the receipt of the job's
\* only effect key, or was committed by an earlier attempt.
Decide(w, outcome) ==
  \/ /\ row # "ABSENT"
     /\ Queue!CommitLocalEffect(LeaseOf(w), EffectKey, outcome)
     /\ row' = outcome
  \/ /\ Current(w)
     /\ effects[Query][EffectKey].input = outcome
     /\ UNCHANGED <<queueVars, row>>

\* It raises when the lease is lost, when an earlier attempt committed another
\* outcome, and when the enqueuing caller has not seeded the row.
Undecidable(w, outcome) ==
  \/ ~Current(w)
  \/ IF Queue!HasReceipt(Query, EffectKey)
     THEN effects[Query][EffectKey].input # outcome
     ELSE row = "ABSENT"

CommitReady(w) ==
  /\ At(w, "written")
  /\ \/ Decide(w, "READY") /\ Goto(w, "committed")
     \/ Undecidable(w, "READY") /\ Goto(w, "failing") /\ UNCHANGED <<queueVars, row>>
  /\ UNCHANGED <<exact, artifact, caller>>

CompleteJob(w) ==
  /\ At(w, "committed")
  /\ \/ Queue!Complete(LeaseOf(w)) /\ Return(w)
     \/ ~Current(w) /\ Goto(w, "failing") /\ UNCHANGED queueVars
  /\ UNCHANGED <<row, exact, artifact, caller>>

\* The STALE branch: what it raises itself is dropped, the lease is then left
\* to expire.
CommitStale(w) ==
  /\ At(w, "stale")
  /\ \/ Decide(w, "STALE") /\ Goto(w, "giving up")
     \/ Undecidable(w, "STALE") /\ Return(w) /\ UNCHANGED <<queueVars, row>>
  /\ UNCHANGED <<exact, artifact, caller>>

\* Both branches end in fail, whose own exception is dropped as well.
GiveUp(w) ==
  /\ \/ At(w, "giving up") /\ Queue!Fail(LeaseOf(w), FALSE, 0)
     \/ At(w, "failing") /\ Queue!Fail(LeaseOf(w), TRUE, 1)
     \/ /\ worker[w].pc \in {"giving up", "failing"}
        /\ ~Current(w)
        /\ UNCHANGED queueVars
  /\ Return(w)
  /\ UNCHANGED <<row, exact, artifact, caller>>

\* The worker process dies and starts again.
Crash(w) ==
  /\ ~At(w, "idle")
  /\ Return(w)
  /\ UNCHANGED <<queueVars, row, exact, artifact, caller>>

\* Mistake: a result is given out whatever has become of its view.
ReadUnchecked == IF row = "READY" THEN artifact ELSE None

\* read_result: nothing before the row is READY, and a conflict once the view is
\* another one; facts are loaded and compared before the artifact is verified.
ReadResult ==
  IF row # "READY" THEN None ELSE IF Validates(LoadedFacts) THEN artifact ELSE "conflict"

-----------------------------------------------------------------------------
\* The Episode moves on to a view that the query does not name.
ViewMoves ==
  /\ exact
  /\ exact' = FALSE
  /\ UNCHANGED <<queueVars, row, artifact, worker, caller>>

Tick == Queue!Tick /\ UNCHANGED <<row, exact, artifact, worker, caller>>

Enqueue(c) ==
  \/ FindNoStatus(c) \/ SelectJob(c) \/ InsertJob(c) \/ SeedStatus(c) \/ Abandon(c)

Process(w) ==
  \/ ClaimJob(w) \/ Analyse(w) \/ CheckAgain(w) \/ WriteArtifact(w) \/ Raise(w)
  \/ CommitReady(w) \/ CompleteJob(w) \/ CommitStale(w) \/ GiveUp(w)

Next == \/ \E c \in Callers : Enqueue(c)
        \/ \E w \in Owners : Process(w) \/ Crash(w)
        \/ ViewMoves
        \/ Tick

Spec == Init /\ [][Next]_vars

-----------------------------------------------------------------------------
\* What is decided is true: a READY row was computed from the view its query
\* names, and the result is registered before anybody can read that it is
\* there; a STALE row says that the view is gone.  Who reads a result gets the
\* one of its query, and only while the view is the one that it names.
OutcomeIsTrue ==
  /\ row = "READY" => artifact = "of the view"
  /\ ReadResult = "of the view" => exact
  /\ row = "STALE" => ~exact

\* An outcome is final, although attempts that take over an expired lease
\* analyse the same query again when its view has moved: what status reports
\* as READY, STALE or FAILED it reports for ever.
Settled == {"READY", "STALE", "FAILED"}

OutcomeIsFinal ==
  [][(Reported \in Settled) => UNCHANGED Reported]_vars

\* Fairness: time passes, and every worker goes on with its calls, or dies and
\* polls again.  No attempt is assumed to get through.
LiveSpec == Spec /\ WF_vars(Tick) /\ \A w \in Owners : WF_vars(Process(w) \/ Crash(w))

\* A caller that was promised a result is not left waiting: whatever happens to
\* the attempts, the status is settled in the end.
EveryPromiseSettles == (row = "PENDING") ~> (Reported \in Settled)
=============================================================================
