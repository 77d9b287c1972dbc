------------------------- MODULE EpisodeDecisionLoop ------------------------
(***************************************************************************)
(* The human work on one Episode: the commands of application/workflow.py  *)
(* and application/decision_loop.py on its episode_workflow aggregate.     *)
(*                                                                         *)
(* Every command runs through the executor that CommandCore models: its    *)
(* effect is applied at once, to the version its author viewed, or not at  *)
(* all.  So a command is one step here, versions are left out, and a       *)
(* command that the code refuses has no step.                              *)
(*                                                                         *)
(* A cycle is named by a number: the number that the service generates a   *)
(* name from, or any other number for a name that the caller chose for the *)
(* first cycle.  An observation's id and its sampling identity are one.    *)
(***************************************************************************)
EXTENDS Integers, Sequences, FiniteSets

CONSTANTS Engineers,
          Checks, Actions, Plans, \* the ids that requests use, per cycle
          Samples,        \* sampling identities
          Times,          \* instants of observations and of observed effects
          Observations,   \* the observations that come in
          Policies,       \* the recovery policies: [minimum, affirmative]
          Durations,      \* elapsed_duration_seconds of a plan, 0 for none
          Dispositions,   \* the closure dispositions in use
          FirstCycles,    \* the names callers choose for the first cycle
          MaxCycles,      \* bound on the cycles of the Episode
          MaxAssessments, \* bound on the observations submitted to a plan
          None

ASSUME EpisodeAssumption ==
  /\ Times \subseteq Nat /\ FirstCycles \subseteq Nat /\ Durations \subseteq Nat
  /\ MaxCycles \in Nat /\ MaxAssessments \in Nat
  /\ Observations \subseteq [sample: Samples, at: Times, qualified: BOOLEAN,
                             outcome: {"NORMAL", "ABNORMAL", "UNKNOWN"}]
  /\ Policies \subseteq [minimum: Nat \ {0}, affirmative: {"NORMAL", "ABNORMAL"}]

VARIABLES work,    \* work_state
          owner,
          cycles,  \* decision_loop.cycles, << >> before the extension exists
          active,  \* active_cycle_id
          reopens  \* reopen_history

vars == <<work, owner, cycles, active, reopens>>

WorkStates == {"OPEN", "CLAIMED", "ACKNOWLEDGED", "CLOSED"}
CheckStates == {"REQUESTED", "STARTED", "COMPLETED", "CANCELLED"}
ActionStates == {"UNKNOWN", "PENDING", "SUCCEEDED", "FAILED", "CANCELLED"}
PlanStates == {"NOT_STARTED", "WAITING_FOR_DATA", "MONITORING", "PASS", "FAIL"}

CycleIds == Nat
Action == [state: ActionStates, observed: Times \cup {None}]
Assessment == [sample: Samples \cup {None}, at: Times \cup {None}, eligible: BOOLEAN,
               contradictory: BOOLEAN, post: BOOLEAN, cited: BOOLEAN]
Plan == [action: Actions \cup {None}, boundary: Times \cup {None}, policy: Policies,
         elapsed: Durations, state: PlanStates, locked: BOOLEAN,
         assessments: Seq(Assessment), eligible: SUBSET Samples]
Closure == [disposition: Dispositions, plan: Plans \cup {None}, evidence: SUBSET Nat]
Cycle == [id: CycleIds, number: Nat, status: {"OPEN", "CLOSED"},
          checks: [Checks -> CheckStates \cup {None}],
          actions: [Actions -> Action \cup {None}],
          plans: [Plans -> Plan \cup {None}], closures: Seq(Closure)]

\* None is nothing that a request or a row could be.
ASSUME NoneAssumption ==
  /\ None \notin Engineers /\ None \notin Actions /\ None \notin Plans
  /\ None \notin Samples /\ None \notin Times /\ None \notin Observations
  /\ None \notin Action /\ None \notin Plan

TypeOK ==
  /\ work \in WorkStates
  /\ owner \in Engineers \cup {None}
  /\ cycles \in Seq(Cycle)
  /\ active \in CycleIds \cup {None}
  /\ reopens \in Seq([from: CycleIds, to: CycleIds])

Init ==
  /\ work = "OPEN"
  /\ owner = None
  /\ cycles = << >>
  /\ active = None
  /\ reopens = << >>

-----------------------------------------------------------------------------
EmptyCycle(id, n) ==
  [id |-> id, number |-> n, status |-> "OPEN",
   checks |-> [k \in Checks |-> None], actions |-> [a \in Actions |-> None],
   plans |-> [p \in Plans |-> None], closures |-> << >>]

IsActive(i) == /\ cycles[i].id = active
               /\ \A j \in 1..(i - 1) : cycles[j].id # active

\* What every read of the extension insists on.
Coherent ==
  \E i \in DOMAIN cycles :
    IsActive(i) /\ ((work = "CLOSED") <=> (cycles[i].status = "CLOSED"))

\* Mistake: a command may name any cycle of the history.
TargetNamed(i, named) ==
  Coherent /\ IF named = None THEN IsActive(i) ELSE cycles[i].id = named

\* A command works on the active cycle, and must not name another one.
Target(i, named) == Coherent /\ IsActive(i) /\ named \in {None, active}

\* Mistake: a closed cycle is not refused.
IsAnyCycle(i) == i \in DOMAIN cycles

IsOpen(i) == cycles[i].status = "OPEN"

SetCycle(i, c) ==
  /\ cycles' = [cycles EXCEPT ![i] = c]
  /\ UNCHANGED <<work, owner, active, reopens>>

SetCheck(i, k, from, to) ==
  /\ cycles[i].checks[k] \in from
  /\ SetCycle(i, [cycles[i] EXCEPT !.checks[k] = to])

RequestCheck(i, k) == SetCheck(i, k, {None}, "REQUESTED")
StartCheck(i, k) == SetCheck(i, k, {"REQUESTED"}, "STARTED")
CompleteCheck(i, k) == SetCheck(i, k, {"STARTED"}, "COMPLETED")
CancelCheck(i, k) == SetCheck(i, k, {"REQUESTED", "STARTED"}, "CANCELLED")

-----------------------------------------------------------------------------
SetAction(i, a, state, observed) ==
  SetCycle(i, [cycles[i] EXCEPT !.actions[a] = [state |-> state, observed |-> observed]])

RecordExternalAction(i, a, state, observed) ==
  /\ cycles[i].actions[a] = None
  /\ state \in {"SUCCEEDED", "FAILED"} => observed # None
  /\ SetAction(i, a, state, observed)

\* Mistake: a reconciled action is reconciled again.
IsAnyState(action) == action # None

IsUnsettled(action) == action # None /\ action.state \in {"UNKNOWN", "PENDING"}

\* observed_at is the present if it is not given.
ReconcileExternalAction(i, a, state, observed) ==
  /\ IsUnsettled(cycles[i].actions[a])
  /\ state # "UNKNOWN"
  /\ observed # None
  /\ SetAction(i, a, state, observed)

\* The instant from which on an action's effect was observed, if it was.
EffectBoundary(action) ==
  IF action # None /\ action.state = "SUCCEEDED" THEN action.observed ELSE None

-----------------------------------------------------------------------------
SetPlan(i, p, plan) == SetCycle(i, [cycles[i] EXCEPT !.plans[p] = plan])

CreateRecoveryPlan(i, p, a, policy, elapsed) ==
  LET action == IF a = None THEN None ELSE cycles[i].actions[a]
  IN  /\ cycles[i].plans[p] = None
      /\ a # None => action # None
      /\ SetPlan(i, p,
           [action |-> a, boundary |-> EffectBoundary(action), policy |-> policy,
            elapsed |-> elapsed, state |-> "NOT_STARTED", locked |-> FALSE,
            assessments |-> << >>, eligible |-> {}])

\* Mistake: the lock is not looked at.
IsAnyPlan(plan) == plan # None

IsUnlocked(plan) == plan # None /\ ~plan.locked

UpdateRecoveryPlan(i, p, policy) ==
  /\ IsUnlocked(cycles[i].plans[p])
  /\ SetPlan(i, p, [cycles[i].plans[p] EXCEPT !.policy = policy])

LockRecoveryPlan(i, p) ==
  /\ IsUnlocked(cycles[i].plans[p])
  /\ SetPlan(i, p, [cycles[i].plans[p] EXCEPT !.locked = TRUE, !.state = "WAITING_FOR_DATA"])

-----------------------------------------------------------------------------
SamplesOf(plan) ==
  {plan.assessments[n].sample : n \in DOMAIN plan.assessments} \ {None}

\* Everything but the outcome: new identity, times, context, confidence, quality.
IsQualified(plan, o) == o # None /\ o.qualified /\ o.sample \notin SamplesOf(plan)

\* Mistake: whatever was observed counts, also before the effect.
IsSubmitted(plan, boundary, o) == o # None

IsPostAction(plan, boundary, o) ==
  /\ o # None
  /\ plan.action = None \/ (boundary # None /\ o.at >= boundary)

Assess(plan, boundary, o, cited) ==
  [sample |-> IF o = None THEN None ELSE o.sample,
   at |-> IF o = None THEN None ELSE o.at,
   eligible |-> IsQualified(plan, o) /\ o.outcome = plan.policy.affirmative,
   contradictory |-> IsQualified(plan, o) /\ o.outcome = "ABNORMAL",
   post |-> IsPostAction(plan, boundary, o),
   cited |-> cited]

\* Mistake: a contradiction counts for nothing.
EligibleWithoutReset(plan, new) ==
  IF new.eligible /\ new.post /\ ~new.contradictory THEN plan.eligible \cup {new.sample}
  ELSE plan.eligible

\* A qualified contradiction resets progress.
EligibleAfter(plan, new) ==
  IF new.contradictory THEN {}
  ELSE IF new.eligible /\ new.post THEN plan.eligible \cup {new.sample} ELSE plan.eligible

\* Mistake: the state that the other reads call "waiting".
PlanStateOfReader(plan, new) ==
  IF EligibleAfter(plan, new) = {} THEN "WAITING" ELSE "MONITORING"

PlanStateAfter(plan, new) ==
  LET eligible == EligibleAfter(plan, new)
  IN  CASE new.contradictory -> "FAIL"
        [] ~new.contradictory /\ Cardinality(eligible) >= plan.policy.minimum -> "PASS"
        [] ~new.contradictory /\ Cardinality(eligible) < plan.policy.minimum ->
             IF eligible = {} THEN "WAITING_FOR_DATA" ELSE "MONITORING"

\* The first observation locks the plan.  A missing one is assessed as well.
\* "cited": the submission came with evidence references.
SubmitRecoveryObservation(i, p, o, cited) ==
  LET plan == cycles[i].plans[p]
      effect == IF plan.action = None THEN None
                ELSE EffectBoundary(cycles[i].actions[plan.action])
      new == Assess(plan, effect, o, cited)
  IN  /\ plan # None
      /\ plan.state # "PASS"
      /\ Len(plan.assessments) < MaxAssessments
      /\ SetPlan(i, p,
           [plan EXCEPT !.locked = TRUE,
                        !.boundary = IF effect # None THEN effect ELSE @,
                        !.assessments = Append(@, new),
                        !.eligible = EligibleAfter(plan, new),
                        !.state = PlanStateAfter(plan, new)])

-----------------------------------------------------------------------------
\* The assessments whose references a closure lists as recovery evidence.
RecoveryEvidence(plan) ==
  {n \in DOMAIN plan.assessments : /\ plan.assessments[n].post
                                   /\ plan.assessments[n].eligible
                                   /\ plan.assessments[n].cited}

\* Mistake: a plan that is monitoring well is good enough.
IsMonitored(i, p) ==
  /\ p # None
  /\ LET plan == cycles[i].plans[p]
     IN  /\ plan # None /\ plan.state \in {"MONITORING", "PASS"} /\ plan.action # None
         /\ RecoveryEvidence(plan) # {}

IsProof(i, p) ==
  /\ p # None
  /\ LET plan == cycles[i].plans[p]
     IN  /\ plan # None /\ plan.state = "PASS" /\ plan.locked
         /\ plan.action # None
         /\ EffectBoundary(cycles[i].actions[plan.action]) # None
         /\ RecoveryEvidence(plan) # {}

\* The other dispositions only ask something of the request itself, and keep the
\* recovery plan that it names unread.
CloseEpisode(i, disposition, p) ==
  LET evidence == IF disposition = "CONFIRMED_ISSUE"
                    THEN RecoveryEvidence(cycles[i].plans[p]) ELSE {}
  IN  /\ disposition = "CONFIRMED_ISSUE" => IsProof(i, p)
      /\ cycles' = [cycles EXCEPT
           ![i].status = "CLOSED",
           ![i].closures = Append(@, [disposition |-> disposition, plan |-> p,
                                      evidence |-> evidence])]
      /\ work' = "CLOSED"
      /\ UNCHANGED <<owner, active, reopens>>

IsTaken(id) == \E i \in DOMAIN cycles : cycles[i].id = id

\* Mistake: the generated name is not compared with the names in use.
NumberAfterLast == cycles[Len(cycles)].number + 1

\* One above the highest number, and on while its name is in use.
NewNumber ==
  LET above == {n \in 1..(Len(cycles) + 2) : \A i \in DOMAIN cycles : cycles[i].number < n}
      free == {n \in above : ~IsTaken(n)}
  IN  CHOOSE n \in free : \A m \in free : n <= m

\* Mistake: the new cycle keeps the owner of the old one.
OwnerBefore == owner

OwnerAfterReset == None

ReopenEpisode(i) ==
  /\ cycles[i].status = "CLOSED"
  /\ cycles[i].closures # << >>
  /\ Len(cycles) < MaxCycles
  /\ reopens' = Append(reopens, [from |-> cycles[i].id, to |-> NewNumber])
  /\ cycles' = Append(cycles, EmptyCycle(NewNumber, NewNumber))
  /\ active' = NewNumber
  /\ work' = "OPEN"
  /\ owner' = OwnerAfterReset

-----------------------------------------------------------------------------
InitializeDecisionLoop(id) ==
  /\ work \in {"OPEN", "CLAIMED", "ACKNOWLEDGED"}
  /\ cycles = << >>
  /\ cycles' = <<EmptyCycle(id, 1)>>
  /\ active' = id
  /\ UNCHANGED <<work, owner, reopens>>

ClaimEpisode(e) ==
  /\ work = "OPEN"
  /\ owner = None
  /\ work' = "CLAIMED"
  /\ owner' = e
  /\ UNCHANGED <<cycles, active, reopens>>

AcknowledgeEpisode(e) ==
  /\ work = "CLAIMED"
  /\ owner = e
  /\ work' = "ACKNOWLEDGED"
  /\ UNCHANGED <<owner, cycles, active, reopens>>

CheckCommand(i) ==
  \E k \in Checks :
    RequestCheck(i, k) \/ StartCheck(i, k) \/ CompleteCheck(i, k) \/ CancelCheck(i, k)

ActionCommand(i) ==
  \E a \in Actions, state \in ActionStates, observed \in Times \cup {None} :
    \/ RecordExternalAction(i, a, state, observed)
    \/ ReconcileExternalAction(i, a, state, observed)

PlanCommand(i) ==
  \E p \in Plans :
    \/ \E a \in Actions \cup {None}, policy \in Policies, elapsed \in Durations :
         CreateRecoveryPlan(i, p, a, policy, elapsed)
    \/ \E policy \in Policies : UpdateRecoveryPlan(i, p, policy)
    \/ LockRecoveryPlan(i, p)
    \/ \E o \in Observations \cup {None}, cited \in BOOLEAN :
         SubmitRecoveryObservation(i, p, o, cited)

Close(i) == \E disposition \in Dispositions, p \in Plans \cup {None} :
              CloseEpisode(i, disposition, p)

Names == {cycles[i].id : i \in DOMAIN cycles} \cup {None}

Next ==
  \/ \E e \in Engineers : ClaimEpisode(e) \/ AcknowledgeEpisode(e)
  \/ \E id \in FirstCycles : InitializeDecisionLoop(id)
  \/ \E i \in DOMAIN cycles, named \in Names :
       /\ Target(i, named)
       /\ \/ IsOpen(i) /\ (CheckCommand(i) \/ ActionCommand(i) \/ PlanCommand(i) \/ Close(i))
          \/ ReopenEpisode(i)

Spec == Init /\ [][Next]_vars

-----------------------------------------------------------------------------
\* No sequence of commands writes a state that later commands refuse for good.
\* decision_loop.py refuses to read a workflow and a cycle that disagree; an
\* owned OPEN Episode could never be claimed again, and one that is at work
\* without an owner would have nobody to act on it.
AlwaysUsable ==
  /\ cycles # << >> => Coherent
  /\ work # "CLOSED" => (work = "OPEN" <=> owner = None)

\* Cycles have different names, only the last one is open, and every other one
\* was closed once and reopened into the next.
OneWorkCycle ==
  /\ \A i, j \in DOMAIN cycles : cycles[i].id = cycles[j].id => i = j
  /\ \A i \in DOMAIN cycles : i < Len(cycles) => cycles[i].status = "CLOSED"
  /\ \A i \in DOMAIN cycles :
       Len(cycles[i].closures) = IF cycles[i].status = "CLOSED" THEN 1 ELSE 0
  /\ reopens = [i \in 1..(Len(cycles) - 1) |->
                  [from |-> cycles[i].id, to |-> cycles[i + 1].id]] \/ cycles = << >>

-----------------------------------------------------------------------------
AllPlans == {cycles[i].plans[p] : i \in DOMAIN cycles, p \in Plans} \ {None}

\* The assessments after the last qualified contradiction.
SinceReset(plan) ==
  {n \in DOMAIN plan.assessments :
     \A m \in n..Len(plan.assessments) : ~plan.assessments[m].contradictory}

Progress(plan) == {n \in SinceReset(plan) : plan.assessments[n].eligible /\ plan.assessments[n].post}

\* The running counter is what the history of assessments says, counted afresh:
\* different samples, eligible, after the observed effect of the bound action,
\* and since the last contradiction; PASS is reached with enough of them.
ProgressIsEvidence ==
  \A plan \in AllPlans :
    /\ plan.eligible = {plan.assessments[n].sample : n \in Progress(plan)}
    /\ Cardinality(plan.eligible) = Cardinality(Progress(plan))
    /\ plan.state = "PASS" => Cardinality(Progress(plan)) >= plan.policy.minimum
    /\ plan.action # None =>
         \A n \in Progress(plan) : plan.boundary # None /\ plan.assessments[n].at >= plan.boundary

\* The boundary of a plan is the observed effect of its action, which stands: no
\* later reconciliation moves it under the evidence that was judged by it.
BoundaryStands ==
  \A i \in DOMAIN cycles, p \in Plans :
    LET plan == cycles[i].plans[p]
    IN  plan # None /\ plan.boundary # None =>
          plan.action # None /\ EffectBoundary(cycles[i].actions[plan.action]) = plan.boundary

\* "requires an exact locked PASS plan bound to a qualifying current-cycle action
\* and post-action evidence": every confirmed closure, however many cycles ago.
ConfirmedIsEarned ==
  \A i \in DOMAIN cycles : \A n \in DOMAIN cycles[i].closures :
    LET closure == cycles[i].closures[n]
        plan == cycles[i].plans[closure.plan]
    IN  closure.disposition = "CONFIRMED_ISSUE" =>
          /\ closure.plan \in Plans /\ plan # None /\ plan.locked
          /\ Cardinality({plan.assessments[m].sample : m \in Progress(plan)})
               >= plan.policy.minimum
          /\ \A m \in Progress(plan) : plan.assessments[m].at >=
               EffectBoundary(cycles[i].actions[plan.action])

\* Every command leaves a state that later commands accept, with one cycle at
\* work and none lost.
WorkStaysUsable == TypeOK /\ AlwaysUsable /\ OneWorkCycle

\* A recovery that is claimed proves its boundary, and a confirmed issue has its
\* evidence.
ClosuresAreEarned == BoundaryStands /\ ConfirmedIsEarned

\* What was closed is history: its checks, actions, plans and closure stay.
ClosedStands(i) == cycles[i].status = "CLOSED" => i \in DOMAIN cycles' /\ cycles'[i] = cycles[i]

\* The terms of a locked plan are fixed, and a plan that passed does not change.
TermsStand(plan, after) ==
  plan # None =>
    /\ after # None /\ after.action = plan.action
    /\ plan.locked => after.locked /\ after.policy = plan.policy
    /\ plan.state = "PASS" => after = plan

\* Neither a closed cycle nor the terms that evidence was judged by ever change.
HistoryStands ==
  [][\A i \in DOMAIN cycles :
       /\ ClosedStands(i)
       /\ \A p \in Plans : TermsStand(cycles[i].plans[p], cycles'[i].plans[p])]_vars

-----------------------------------------------------------------------------
\* "a qualified contradiction resets progress": the evidence that a confirmed
\* closure lists is of the observations that its PASS rests on.
ClosureCitesProgress ==
  \A i \in DOMAIN cycles : \A n \in DOMAIN cycles[i].closures :
    LET closure == cycles[i].closures[n]
    IN  closure.disposition = "CONFIRMED_ISSUE" =>
          closure.evidence \subseteq Progress(cycles[i].plans[closure.plan])

\* "Operational RecoveryPlan defines ... minimum elapsed operating duration": a
\* plan passes on observations that reach that far beyond the observed effect.
DurationObserved ==
  \A plan \in AllPlans : plan.state = "PASS" /\ plan.action # None =>
    \E n \in Progress(plan) : plan.assessments[n].at >= plan.boundary + plan.elapsed
=============================================================================
