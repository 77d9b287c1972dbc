---------------------- MODULE EpisodeDecisionLoopProofs -----------------------
(***************************************************************************)
(* Proofs about EpisodeDecisionLoop, for any requests, policies and first  *)
(* cycle names, and any number of cycles and observations.                 *)
(***************************************************************************)
EXTENDS EpisodeDecisionLoop, FiniteSetTheorems, SequenceTheorems, TLAPS

-----------------------------------------------------------------------------
\* Different samples, each of an assessment that was new when it was made.
Distinct(plan) ==
  \A n \in DOMAIN plan.assessments : plan.assessments[n].eligible =>
    /\ plan.assessments[n].sample # None
    /\ \A m \in 1..(n - 1) : plan.assessments[m].sample # plan.assessments[n].sample

\* The counter is the history, and a PASS has enough of it.
Counted(plan) ==
  /\ plan.eligible = {plan.assessments[n].sample : n \in Progress(plan)}
  /\ plan.state = "PASS" => plan.locked /\ Cardinality(plan.eligible) >= plan.policy.minimum

\* Progress is of observations from the boundary on.
After(plan) ==
  plan.action # None =>
    \A n \in Progress(plan) : plan.boundary # None /\ plan.assessments[n].at >= plan.boundary

\* The boundary is the effect of the action that the plan names.
Bound(c, plan) ==
  plan.boundary # None =>
    plan.action # None /\ EffectBoundary(c.actions[plan.action]) = plan.boundary

PlanGood(c, plan) == Distinct(plan) /\ Counted(plan) /\ After(plan) /\ Bound(c, plan)

-----------------------------------------------------------------------------
\* Progress depends on the assessments alone ...
LEMMA ProgressOf ==
  ASSUME NEW a, NEW b, a.assessments = b.assessments
  PROVE  Progress(a) = Progress(b)
BY DEF Progress, SinceReset

\* ... and with another one goes on, or starts again.
LEMMA ProgressAppend ==
  ASSUME NEW plan, NEW after, plan.assessments \in Seq(Assessment), NEW new \in Assessment,
         after.assessments = Append(plan.assessments, new)
  PROVE  /\ new.contradictory => Progress(after) = {}
         /\ ~new.contradictory /\ new.eligible /\ new.post =>
              Progress(after) = Progress(plan) \cup {Len(plan.assessments) + 1}
         /\ ~new.contradictory /\ ~(new.eligible /\ new.post) => Progress(after) = Progress(plan)
<1> DEFINE s == plan.assessments
           t == after.assessments
           l == Len(plan.assessments)
<1>1. /\ l \in Nat /\ Len(t) = l + 1 /\ t[l + 1] = new
      /\ \A i \in 1..l : t[i] = s[i]
      /\ DOMAIN s = 1..l /\ DOMAIN t = 1..(l + 1)
  BY AppendProperties
<1>2. \A n \in 1..(l + 1) : l + 1 \in n..(l + 1)
  BY <1>1
<1>3. CASE new.contradictory
  <2>1. SinceReset(after) = {}
    BY <1>1, <1>2, <1>3 DEF SinceReset
  <2> QED  BY <1>3, <2>1 DEF Progress
<1>4. CASE ~new.contradictory
  <2>1. ASSUME NEW n \in 1..l
        PROVE  (\A m \in n..(l + 1) : ~t[m].contradictory) <=> (\A m \in n..l : ~s[m].contradictory)
    <3>1. \A m : m \in n..(l + 1) <=> m \in n..l \/ m = l + 1
      BY <1>1
    <3>2. \A m \in n..l : m \in 1..l
      BY <1>1
    <3> QED  BY <1>1, <1>4, <3>1, <3>2
  <2>2. \A m \in (l + 1)..(l + 1) : ~t[m].contradictory
    BY <1>1, <1>4
  <2>3. \A n : n \in 1..(l + 1) <=> n \in 1..l \/ n = l + 1
    BY <1>1
  <2>4. SinceReset(plan) = {n \in 1..l : \A m \in n..l : ~s[m].contradictory}
    BY <1>1 DEF SinceReset
  <2>5. SinceReset(after) = {n \in 1..(l + 1) : \A m \in n..(l + 1) : ~t[m].contradictory}
    BY <1>1 DEF SinceReset
  <2>6. SinceReset(after) = SinceReset(plan) \cup {l + 1}
    BY <2>1, <2>2, <2>3, <2>4, <2>5
  <2>7. \A n \in SinceReset(plan) : t[n] = s[n]
    BY <1>1, <2>4
  <2> QED  BY <1>1, <1>4, <2>6, <2>7 DEF Progress
<1> QED  BY <1>3, <1>4

\* The counter is finite, and counts as many assessments as samples.
LEMMA CountsOnce ==
  ASSUME NEW plan, plan.assessments \in Seq(Assessment), Distinct(plan),
         plan.eligible = {plan.assessments[n].sample : n \in Progress(plan)}
  PROVE  /\ IsFiniteSet(plan.eligible)
         /\ Cardinality(plan.eligible) \in Nat
         /\ Cardinality(plan.eligible) = Cardinality(Progress(plan))
<1> DEFINE P == Progress(plan)
           s == plan.assessments
           f == [n \in P |-> s[n].sample]
<1>1. Len(s) \in Nat /\ DOMAIN s = 1..Len(s) /\ P \in SUBSET (1..Len(s))
  BY DEF Progress, SinceReset
<1>2. IsFiniteSet(1..Len(s))
  BY <1>1, FS_Interval
<1>3. IsFiniteSet(P)
  BY <1>1, <1>2, FS_Subset
<1>4. ASSUME NEW n \in P, NEW m \in P, s[n].sample = s[m].sample PROVE n = m
  <2>1. s[n].eligible /\ s[m].eligible /\ n \in 1..Len(s) /\ m \in 1..Len(s)
    BY <1>1 DEF Progress
  <2>2. CASE n < m
    <3>1. n \in 1..(m - 1)
      BY <1>1, <2>1, <2>2
    <3> QED  BY <1>1, <1>4, <2>1, <3>1 DEF Distinct
  <2>3. CASE m < n
    <3>1. m \in 1..(n - 1)
      BY <1>1, <2>1, <2>3
    <3> QED  BY <1>1, <1>4, <2>1, <3>1 DEF Distinct
  <2> QED  BY <1>1, <2>1, <2>2, <2>3
<1>5. f \in Bijection(P, plan.eligible)
  <2>1. f \in [P -> plan.eligible]
    OBVIOUS
  <2>2. \A t \in plan.eligible : \E n \in P : f[n] = t
    OBVIOUS
  <2>3. \A a, b \in P : f[a] = f[b] => a = b
    BY <1>4
  <2> QED  BY <2>1, <2>2, <2>3 DEF Bijection, Injection, Surjection, IsInjective
<1>6. ExistsBijection(P, plan.eligible)
  BY <1>5 DEF ExistsBijection
<1> QED  BY <1>3, <1>6, FS_Bijection, FS_CardinalityType

-----------------------------------------------------------------------------
LEMMA EffectTyped ==
  ASSUME NoneAssumption, NEW action \in Action \cup {None}
  PROVE  EffectBoundary(action) \in Times \cup {None}
BY DEF EffectBoundary, Action

LEMMA AssessTyped ==
  ASSUME NoneAssumption, NEW plan, NEW effect, NEW o \in Observations \cup {None}, NEW cited \in BOOLEAN
  PROVE  Assess(plan, effect, o, cited) \in Assessment
<1> USE EpisodeAssumption
<1>1. CASE o = None
  BY <1>1 DEF Assess, Assessment, IsQualified, IsPostAction
<1>2. CASE o \in Observations
  <2>1. o.sample \in Samples /\ o.at \in Times /\ o.qualified \in BOOLEAN
    BY <1>2 DEF EpisodeAssumption
  <2> QED  BY <2>1 DEF Assess, Assessment, IsQualified, IsPostAction
<1> QED  BY <1>1, <1>2

\* What becomes PASS has enough observations that count.
LEMMA PassIsCounted ==
  ASSUME NEW plan, NEW new, Cardinality(EligibleAfter(plan, new)) \in Nat,
         plan.policy.minimum \in Nat, new.contradictory \in BOOLEAN
  PROVE  /\ PlanStateAfter(plan, new) \in PlanStates
         /\ PlanStateAfter(plan, new) = "PASS" =>
              Cardinality(EligibleAfter(plan, new)) >= plan.policy.minimum
<1> DEFINE n == Cardinality(EligibleAfter(plan, new))
<1>1. CASE new.contradictory
  <2>1. PlanStateAfter(plan, new) = "FAIL"
    BY <1>1 DEF PlanStateAfter
  <2> QED  BY <2>1 DEF PlanStates
<1>2. CASE ~new.contradictory /\ n >= plan.policy.minimum
  <2>1. ~(n < plan.policy.minimum)
    BY <1>2
  <2>2. PlanStateAfter(plan, new) = "PASS"
    BY <1>2, <2>1, Zenon DEF PlanStateAfter
  <2> QED  BY <1>2, <2>2 DEF PlanStates
<1>3. CASE ~new.contradictory /\ n < plan.policy.minimum
  <2>1. ~(n >= plan.policy.minimum)
    BY <1>3
  <2>2. PlanStateAfter(plan, new) =
          IF EligibleAfter(plan, new) = {} THEN "WAITING_FOR_DATA" ELSE "MONITORING"
    BY <1>3, <2>1, Zenon DEF PlanStateAfter
  <2> QED  BY <2>2 DEF PlanStates
<1> QED  BY <1>1, <1>2, <1>3

-----------------------------------------------------------------------------
CycleGood(c) == \A p \in Plans : c.plans[p] # None => PlanGood(c, c.plans[p])

\* What a command leaves of the cycle that it works on.
SameCycle(c, d) ==
  /\ d \in Cycle /\ CycleGood(d)
  /\ d.id = c.id /\ d.number = c.number /\ d.status = c.status /\ d.closures = c.closures
  /\ \A p \in Plans : TermsStand(c.plans[p], d.plans[p])

LEMMA SetPlanKeeps ==
  ASSUME NoneAssumption, NEW c \in Cycle, CycleGood(c), NEW p \in Plans, NEW plan \in Plan,
         PlanGood(c, plan), TermsStand(c.plans[p], plan), NEW d, d = [c EXCEPT !.plans[p] = plan]
  PROVE  SameCycle(c, d)
<1>1. /\ d.plans = [c.plans EXCEPT ![p] = plan] /\ d.actions = c.actions
      /\ d.id = c.id /\ d.number = c.number /\ d.status = c.status /\ d.closures = c.closures
      /\ d.checks = c.checks
  BY DEF Cycle
<1>2. d.plans \in [Plans -> Plan \cup {None}]
  BY <1>1 DEF Cycle
<1>3. d \in Cycle
  BY <1>2 DEF Cycle
<1>4. ASSUME NEW q \in Plans, d.plans[q] # None PROVE PlanGood(d, d.plans[q])
  <2>1. PICK x : x = d.plans[q]
    OBVIOUS
  <2>2. PlanGood(c, x)
    BY <1>1, <1>4, <2>1 DEF CycleGood, Cycle
  <2>3. PlanGood(d, x)
    BY <1>1, <2>2 DEF PlanGood, Bound
  <2> QED  BY <2>1, <2>3
<1>5. ASSUME NEW q \in Plans PROVE TermsStand(c.plans[q], d.plans[q])
  <2>1. CASE q = p
    BY <1>1, <2>1 DEF Cycle
  <2>2. CASE q # p
    <3>1. d.plans[q] = c.plans[q]
      BY <1>1, <2>2 DEF Cycle
    <3> QED  BY <3>1 DEF TermsStand
  <2> QED  BY <2>1, <2>2
<1> QED  BY <1>1, <1>3, <1>4, <1>5 DEF SameCycle, CycleGood

\* A check moves: the plans and the actions stand.
LEMMA CheckKeeps ==
  ASSUME NoneAssumption, NEW c \in Cycle, CycleGood(c), NEW k \in Checks, NEW to \in CheckStates,
         NEW d, d = [c EXCEPT !.checks[k] = to]
  PROVE  SameCycle(c, d)
<1>1. /\ d.plans = c.plans /\ d.actions = c.actions
      /\ d.id = c.id /\ d.number = c.number /\ d.status = c.status /\ d.closures = c.closures
      /\ d.checks \in [Checks -> CheckStates \cup {None}]
  BY DEF Cycle
<1>2. d \in Cycle
  BY <1>1 DEF Cycle
<1>3. \A plan : PlanGood(d, plan) <=> PlanGood(c, plan)
  BY <1>1 DEF PlanGood, Bound
<1>4. \A p \in Plans : TermsStand(c.plans[p], d.plans[p])
  BY <1>1 DEF TermsStand
<1> QED  BY <1>1, <1>2, <1>3, <1>4 DEF SameCycle, CycleGood

\* An action is recorded, or settled: what had an effect is neither.
LEMMA ActionKeeps ==
  ASSUME NoneAssumption, NEW c \in Cycle, CycleGood(c), NEW a \in Actions, NEW action \in Action,
         c.actions[a] = None \/ IsUnsettled(c.actions[a]),
         NEW d, d = [c EXCEPT !.actions[a] = action]
  PROVE  SameCycle(c, d)
<1>1. /\ d.plans = c.plans /\ d.actions = [c.actions EXCEPT ![a] = action]
      /\ d.id = c.id /\ d.number = c.number /\ d.status = c.status /\ d.closures = c.closures
      /\ d.actions \in [Actions -> Action \cup {None}] /\ d.checks = c.checks
  BY DEF Cycle
<1>2. d \in Cycle
  BY <1>1 DEF Cycle
<1>3. EffectBoundary(c.actions[a]) = None
  BY DEF EffectBoundary, IsUnsettled
<1>4. ASSUME NEW p \in Plans, d.plans[p] # None PROVE PlanGood(d, d.plans[p])
  <2>1. PICK plan : plan = c.plans[p]
    OBVIOUS
  <2>2. PlanGood(c, plan) /\ plan \in Plan
    BY <1>1, <1>4, <2>1 DEF CycleGood, Cycle
  <2>3. Bound(d, plan)
    <3>1. SUFFICES ASSUME plan.boundary # None
                   PROVE  plan.action # None /\ EffectBoundary(d.actions[plan.action]) = plan.boundary
      BY DEF Bound
    <3>2. plan.action # None /\ EffectBoundary(c.actions[plan.action]) = plan.boundary
      BY <2>2, <3>1 DEF PlanGood, Bound
    <3>3. plan.action \in Actions /\ plan.action # a
      BY <1>3, <2>2, <3>1, <3>2 DEF Plan
    <3> QED  BY <1>1, <3>2, <3>3 DEF Cycle
  <2> QED  BY <1>1, <2>1, <2>2, <2>3 DEF PlanGood
<1>5. \A p \in Plans : TermsStand(c.plans[p], d.plans[p])
  BY <1>1 DEF TermsStand
<1> QED  BY <1>1, <1>2, <1>4, <1>5 DEF SameCycle, CycleGood

\* A plan is created: nothing was observed yet.
LEMMA NewPlanGood ==
  ASSUME NoneAssumption, NEW c \in Cycle, NEW a \in Actions \cup {None}, NEW policy \in Policies,
         NEW elapsed \in Durations, NEW action, action = IF a = None THEN None ELSE c.actions[a],
         NEW plan,
         plan = [action |-> a, boundary |-> EffectBoundary(action), policy |-> policy,
                 elapsed |-> elapsed, state |-> "NOT_STARTED", locked |-> FALSE,
                 assessments |-> << >>, eligible |-> {}]
  PROVE  plan \in Plan /\ PlanGood(c, plan)
<1>1. action \in Action \cup {None}
  BY DEF Cycle
<1>2. EffectBoundary(action) \in Times \cup {None}
  BY <1>1, EffectTyped
<1>3. << >> \in Seq(Assessment)
  BY EmptySeq
<1>4. plan \in Plan
  BY <1>2, <1>3 DEF Plan, PlanStates
<1>5. Progress(plan) = {}
  BY DEF Progress, SinceReset
<1>6. Distinct(plan) /\ After(plan)
  <2>1. plan.assessments = << >> /\ DOMAIN << >> = {}
    OBVIOUS
  <2>2. DOMAIN plan.assessments = {}
    BY <2>1
  <2>3. Distinct(plan)
    BY <2>2 DEF Distinct
  <2> QED  BY <1>5, <2>3 DEF After
<1>8. Counted(plan)
  BY <1>5 DEF Counted
<1>7. Bound(c, plan)
  BY DEF Bound, EffectBoundary
<1> QED  BY <1>4, <1>6, <1>7, <1>8 DEF PlanGood

\* A plan that is not locked has not passed, so its terms may still change.
LEMMA UnlockedGood ==
  ASSUME NoneAssumption, NEW c \in Cycle, NEW plan \in Plan, PlanGood(c, plan), ~plan.locked,
         NEW policy \in Policies, NEW after,
         \/ after = [plan EXCEPT !.policy = policy]
         \/ after = [plan EXCEPT !.locked = TRUE, !.state = "WAITING_FOR_DATA"]
  PROVE  after \in Plan /\ PlanGood(c, after) /\ TermsStand(plan, after)
<1>1. /\ after.assessments = plan.assessments /\ after.eligible = plan.eligible
      /\ after.action = plan.action /\ after.boundary = plan.boundary
      /\ after.state = plan.state \/ after.state = "WAITING_FOR_DATA"
      /\ after \in Plan
  BY DEF Plan, PlanStates
<1>2. Progress(after) = Progress(plan)
  BY <1>1, ProgressOf
<1>3. plan.state # "PASS"
  BY DEF PlanGood, Counted
<1>4. TermsStand(plan, after)
  BY <1>1, <1>3 DEF TermsStand, NoneAssumption
<1> QED  BY <1>1, <1>2, <1>3, <1>4 DEF PlanGood, Distinct, Counted, After, Bound

\* An observation is submitted.
EffectFor(c, plan) ==
  IF plan.action = None THEN None ELSE EffectBoundary(c.actions[plan.action])

Submitted(plan, effect, new) ==
  [plan EXCEPT !.locked = TRUE,
               !.boundary = IF effect # None THEN effect ELSE @,
               !.assessments = Append(@, new),
               !.eligible = EligibleAfter(plan, new),
               !.state = PlanStateAfter(plan, new)]

LEMMA SubmitGood ==
  ASSUME NoneAssumption, NEW c \in Cycle, NEW plan \in Plan, PlanGood(c, plan),
         plan.state # "PASS", NEW o \in Observations \cup {None}, NEW cited \in BOOLEAN
  PROVE  LET after == Submitted(plan, EffectFor(c, plan), Assess(plan, EffectFor(c, plan), o, cited))
         IN  after \in Plan /\ PlanGood(c, after) /\ TermsStand(plan, after)
<1>a. PICK effect :
        effect = IF plan.action = None THEN None ELSE EffectBoundary(c.actions[plan.action])
  OBVIOUS
<1>b. PICK new : new = Assess(plan, effect, o, cited)
  OBVIOUS
<1>c. PICK after :
        after = [plan EXCEPT !.locked = TRUE,
                             !.boundary = IF effect # None THEN effect ELSE @,
                             !.assessments = Append(@, new),
                             !.eligible = EligibleAfter(plan, new),
                             !.state = PlanStateAfter(plan, new)]
  OBVIOUS
<1> USE <1>a, <1>b, <1>c
<1> USE EpisodeAssumption
<1> DEFINE l == Len(plan.assessments)
<1>1. new \in Assessment
  BY AssessTyped
<1>2. plan.assessments \in Seq(Assessment) /\ l \in Nat /\ DOMAIN plan.assessments = 1..l
  BY DEF Plan
<1>3. /\ after.assessments = Append(plan.assessments, new)
      /\ after.eligible = EligibleAfter(plan, new) /\ after.state = PlanStateAfter(plan, new)
      /\ after.locked = TRUE /\ after.action = plan.action /\ after.policy = plan.policy
      /\ after.boundary = IF effect # None THEN effect ELSE plan.boundary
      /\ after.elapsed = plan.elapsed
  BY DEF Plan
<1>4. /\ after.assessments \in Seq(Assessment) /\ Len(after.assessments) = l + 1
      /\ \A n \in 1..l : after.assessments[n] = plan.assessments[n]
      /\ after.assessments[l + 1] = new /\ DOMAIN after.assessments = 1..(l + 1)
  BY <1>1, <1>2, <1>3, AppendProperties
<1>5. /\ new.contradictory => Progress(after) = {}
      /\ ~new.contradictory /\ new.eligible /\ new.post => Progress(after) = Progress(plan) \cup {l + 1}
      /\ ~new.contradictory /\ ~(new.eligible /\ new.post) => Progress(after) = Progress(plan)
  <2>1. PICK x : x = after
    OBVIOUS
  <2>2. PICK y : y = new
    OBVIOUS
  <2>3. x.assessments = Append(plan.assessments, y) /\ y \in Assessment
    BY <1>1, <1>3, <2>1, <2>2
  <2>4. /\ y.contradictory => Progress(x) = {}
        /\ ~y.contradictory /\ y.eligible /\ y.post => Progress(x) = Progress(plan) \cup {l + 1}
        /\ ~y.contradictory /\ ~(y.eligible /\ y.post) => Progress(x) = Progress(plan)
    BY <1>2, <2>3, ProgressAppend
  <2> QED  BY <2>1, <2>2, <2>4
<1>6. \A n \in Progress(plan) : n \in 1..l
  BY <1>2 DEF Progress, SinceReset
<1>7. new.eligible => new.sample # None /\ new.sample \notin SamplesOf(plan)
  BY DEF Assess, IsQualified, NoneAssumption, EpisodeAssumption
<1>8. Distinct(after)
  <2> SUFFICES ASSUME NEW n \in DOMAIN after.assessments, after.assessments[n].eligible
               PROVE  /\ after.assessments[n].sample # None
                      /\ \A m \in 1..(n - 1) : after.assessments[m].sample # after.assessments[n].sample
    BY DEF Distinct
  <2>1. CASE n \in 1..l
    <3>1. \A m \in 1..(n - 1) : m \in 1..l
      BY <1>2, <2>1
    <3> QED  BY <1>2, <1>4, <2>1, <3>1 DEF PlanGood, Distinct
  <2>2. CASE n = l + 1
    <3>1. \A m \in 1..l : plan.assessments[m].sample # new.sample
      BY <1>2, <1>4, <1>7, <2>2 DEF SamplesOf
    <3>2. n - 1 = l
      BY <1>2, <2>2
    <3> QED  BY <1>4, <1>7, <2>2, <3>1, <3>2
  <2> QED  BY <1>2, <1>4, <2>1, <2>2
<1>9. after.eligible = {after.assessments[n].sample : n \in Progress(after)}
  <2>1. plan.eligible = {plan.assessments[n].sample : n \in Progress(plan)}
    BY DEF PlanGood, Counted
  <2>2. {after.assessments[n].sample : n \in Progress(plan)} = plan.eligible
    BY <1>4, <1>6, <2>1
  <2>3. CASE new.contradictory
    BY <1>3, <1>5, <2>3 DEF EligibleAfter
  <2>4. CASE ~new.contradictory /\ new.eligible /\ new.post
    <3>1. Progress(after) = Progress(plan) \cup {l + 1}
      BY <1>5, <2>4
    <3>2. {after.assessments[n].sample : n \in Progress(after)} = plan.eligible \cup {new.sample}
      <4>1. {after.assessments[n].sample : n \in Progress(after)} =
              {after.assessments[n].sample : n \in Progress(plan)} \cup {after.assessments[l + 1].sample}
        BY <3>1
      <4> QED  BY <1>4, <2>2, <4>1
    <3> QED  BY <1>3, <2>4, <3>2 DEF EligibleAfter
  <2>5. CASE ~new.contradictory /\ ~(new.eligible /\ new.post)
    <3>1. Progress(after) = Progress(plan)
      BY <1>5, <2>5
    <3>2. after.eligible = plan.eligible
      BY <1>3, <2>5 DEF EligibleAfter
    <3> QED  BY <2>2, <3>1, <3>2
  <2> QED  BY <2>3, <2>4, <2>5
<1>10. Cardinality(EligibleAfter(plan, new)) \in Nat
  <2>1. PICK x : x = after
    OBVIOUS
  <2>2. /\ x.assessments \in Seq(Assessment) /\ Distinct(x)
        /\ x.eligible = {x.assessments[n].sample : n \in Progress(x)}
    <3>1. x.assessments \in Seq(Assessment)
      BY <1>4, <2>1
    <3>2. Distinct(x)
      BY <1>8, <2>1
    <3>3. x.eligible = {x.assessments[n].sample : n \in Progress(x)}
      BY <1>9, <2>1
    <3> QED  BY <3>1, <3>2, <3>3
  <2>3. Cardinality(x.eligible) \in Nat
    BY <2>2, CountsOnce
  <2> QED  BY <1>3, <2>1, <2>3
<1>11. plan.policy.minimum \in Nat /\ new.contradictory \in BOOLEAN
  BY <1>1 DEF Plan, Assessment, EpisodeAssumption
<1>12. /\ PlanStateAfter(plan, new) \in PlanStates
       /\ PlanStateAfter(plan, new) = "PASS" =>
            Cardinality(EligibleAfter(plan, new)) >= plan.policy.minimum
  BY <1>10, <1>11, PassIsCounted
<1>13. Counted(after)
  BY <1>3, <1>9, <1>12 DEF Counted
<1>14. plan.boundary # None => effect = plan.boundary
  BY DEF PlanGood, Bound
<1>15. effect # None => plan.action # None /\ effect = EffectBoundary(c.actions[plan.action])
  OBVIOUS
<1>16. Bound(c, after)
  BY <1>3, <1>14, <1>15 DEF Bound
<1>17. After(after)
  <2> SUFFICES ASSUME plan.action # None, NEW n \in Progress(after)
               PROVE  after.boundary # None /\ after.assessments[n].at >= after.boundary
    BY <1>3 DEF After
  <2>1. CASE n \in Progress(plan)
    <3>1. plan.boundary # None /\ plan.assessments[n].at >= plan.boundary
      BY <2>1 DEF PlanGood, After
    <3> QED  BY <1>3, <1>4, <1>6, <1>14, <2>1, <3>1
  <2>2. CASE n = l + 1 /\ new.post
    <3>1. effect # None /\ o # None /\ o.at >= effect
      BY <2>2 DEF Assess, IsPostAction
    <3>2. new.at = o.at
      BY <3>1 DEF Assess
    <3> QED  BY <1>3, <1>4, <2>2, <3>1, <3>2
  <2> QED  BY <1>5, <2>1, <2>2
<1>18. after.eligible \in SUBSET Samples
  <2>1. new.eligible => new.sample \in Samples
    BY <1>1, <1>7 DEF Assessment
  <2>2. plan.eligible \in SUBSET Samples
    BY DEF Plan
  <2> QED  BY <1>3, <2>1, <2>2 DEF EligibleAfter
<1>19. effect \in Times \cup {None}
  <2>1. plan.action # None => c.actions[plan.action] \in Action \cup {None}
    BY DEF Plan, Cycle
  <2> QED  BY <2>1, EffectTyped
<1>20. after.boundary \in Times \cup {None}
  BY <1>3, <1>19 DEF Plan
<1>21. after \in Plan
  BY <1>3, <1>4, <1>12, <1>18, <1>20 DEF Plan
<1>22. TermsStand(plan, after)
  BY <1>3, <1>21 DEF TermsStand, NoneAssumption
<1>23. after = Submitted(plan, EffectFor(c, plan), Assess(plan, EffectFor(c, plan), o, cited))
  BY DEF Submitted, EffectFor
<1> QED  BY <1>8, <1>13, <1>16, <1>17, <1>21, <1>22, <1>23 DEF PlanGood

-----------------------------------------------------------------------------
\* Names are numbers but for the first one, which is whatever its caller chose; a
\* number is left out only where the first name is in the way.
Named ==
  /\ \A i, j \in DOMAIN cycles : cycles[i].id = cycles[j].id => i = j
  /\ \A i, j \in DOMAIN cycles : i < j => cycles[i].number < cycles[j].number
  /\ \A i \in DOMAIN cycles :
       /\ i <= cycles[i].number /\ cycles[i].number <= i + 1
       /\ cycles[i].number = i + 1 => cycles[1].id <= i + 1
       /\ i > 1 => cycles[i].id = cycles[i].number

\* The active cycle is the last one, and every other was reopened into the next.
LastAtWork ==
  /\ cycles = << >> => work # "CLOSED" /\ reopens = << >>
  /\ cycles # << >> =>
       /\ active = cycles[Len(cycles)].id
       /\ work = "CLOSED" <=> cycles[Len(cycles)].status = "CLOSED"
       /\ reopens = [i \in 1..(Len(cycles) - 1) |->
                       [from |-> cycles[i].id, to |-> cycles[i + 1].id]]
  /\ work # "CLOSED" => (work = "OPEN" <=> owner = None)

ClosedOnce ==
  \A i \in DOMAIN cycles :
    /\ i < Len(cycles) => cycles[i].status = "CLOSED"
    /\ Len(cycles[i].closures) = IF cycles[i].status = "CLOSED" THEN 1 ELSE 0

\* A confirmed closure has its evidence in the plan that it names.
Confirmed(c) ==
  \A n \in DOMAIN c.closures :
    c.closures[n].disposition = "CONFIRMED_ISSUE" =>
      LET plan == c.plans[c.closures[n].plan]
      IN  /\ c.closures[n].plan \in Plans /\ plan # None /\ plan.locked
          /\ Cardinality({plan.assessments[m].sample : m \in Progress(plan)})
               >= plan.policy.minimum
          /\ \A m \in Progress(plan) : plan.assessments[m].at >=
               EffectBoundary(c.actions[plan.action])

EpisodeInv ==
  /\ TypeOK /\ Named /\ LastAtWork /\ ClosedOnce
  /\ \A i \in DOMAIN cycles : CycleGood(cycles[i]) /\ Confirmed(cycles[i])

-----------------------------------------------------------------------------
\* The sequence of cycles.
LEMMA Cycles ==
  ASSUME TypeOK
  PROVE  /\ Len(cycles) \in Nat /\ DOMAIN cycles = 1..Len(cycles)
         /\ \A i \in DOMAIN cycles : cycles[i] \in Cycle
         /\ cycles # << >> => Len(cycles) \in DOMAIN cycles
<1>1. cycles \in Seq(Cycle)
  BY DEF TypeOK
<1>2. Len(cycles) \in Nat /\ DOMAIN cycles = 1..Len(cycles)
  BY <1>1
<1>3. cycles # << >> => Len(cycles) \in Nat \ {0}
  BY <1>1, EmptySeq
<1> QED  BY <1>1, <1>2, <1>3, ElementOfSeq

LEMMA ActiveIsLast ==
  ASSUME EpisodeInv, NEW i \in DOMAIN cycles, IsActive(i)
  PROVE  i = Len(cycles) /\ cycles # << >>
<1>1. cycles # << >>
  BY Cycles DEF EpisodeInv
<1> QED  BY <1>1, Cycles DEF EpisodeInv, LastAtWork, Named, IsActive

LEMMA LastIsCoherent ==
  ASSUME EpisodeInv, cycles # << >>
  PROVE  Coherent
<1>1. Len(cycles) \in DOMAIN cycles /\ Len(cycles) \in Nat /\ DOMAIN cycles = 1..Len(cycles)
  BY Cycles DEF EpisodeInv
<1>2. cycles[Len(cycles)].id = active
  BY DEF EpisodeInv, LastAtWork
<1>3. ASSUME NEW j \in 1..(Len(cycles) - 1) PROVE j \in DOMAIN cycles /\ j # Len(cycles)
  <2>1. PICK l \in Nat : l = Len(cycles)
    BY <1>1
  <2>2. j \in 1..l /\ j # l
    BY <2>1
  <2> QED  BY <1>1, <2>1, <2>2
<1>4. \A j \in 1..(Len(cycles) - 1) : cycles[j].id # active
  BY <1>1, <1>2, <1>3 DEF EpisodeInv, Named
<1>5. IsActive(Len(cycles))
  BY <1>2, <1>4 DEF IsActive
<1> QED  BY <1>1, <1>5 DEF Coherent, EpisodeInv, LastAtWork

LEMMA EpisodeImplies ==
  ASSUME NoneAssumption, EpisodeInv
  PROVE  AlwaysUsable /\ OneWorkCycle /\ ProgressIsEvidence /\ BoundaryStands /\ ConfirmedIsEarned
<1>1. AlwaysUsable
  BY LastIsCoherent DEF AlwaysUsable, EpisodeInv, LastAtWork
<1>2. OneWorkCycle
  BY DEF OneWorkCycle, EpisodeInv, LastAtWork, Named, ClosedOnce
<1>3. ASSUME NEW i \in DOMAIN cycles, NEW p \in Plans, cycles[i].plans[p] # None
      PROVE  PlanGood(cycles[i], cycles[i].plans[p]) /\ cycles[i].plans[p] \in Plan
  BY <1>3, Cycles DEF EpisodeInv, CycleGood, Cycle
<1>4. ProgressIsEvidence
  <2> SUFFICES ASSUME NEW plan \in AllPlans
               PROVE  /\ plan.eligible = {plan.assessments[n].sample : n \in Progress(plan)}
                      /\ Cardinality(plan.eligible) = Cardinality(Progress(plan))
                      /\ plan.state = "PASS" => Cardinality(Progress(plan)) >= plan.policy.minimum
                      /\ plan.action # None =>
                           \A n \in Progress(plan) :
                             plan.boundary # None /\ plan.assessments[n].at >= plan.boundary
    BY DEF ProgressIsEvidence
  <2>1. PICK i \in DOMAIN cycles, p \in Plans : plan = cycles[i].plans[p] /\ plan # None
    BY DEF AllPlans
  <2>2. PlanGood(cycles[i], plan) /\ plan.assessments \in Seq(Assessment)
    BY <1>3, <2>1 DEF Plan
  <2>3. plan.eligible = {plan.assessments[n].sample : n \in Progress(plan)} /\ Distinct(plan)
    BY <2>2 DEF PlanGood, Counted
  <2>4. Cardinality(plan.eligible) = Cardinality(Progress(plan))
    BY <2>2, <2>3, CountsOnce
  <2> QED  BY <2>2, <2>3, <2>4 DEF PlanGood, Counted, After
<1>5. BoundaryStands
  BY <1>3 DEF BoundaryStands, PlanGood, Bound
<1>6. ConfirmedIsEarned
  BY DEF ConfirmedIsEarned, EpisodeInv, Confirmed
<1> QED  BY <1>1, <1>2, <1>4, <1>5, <1>6

LEMMA EpisodeInit == Init => EpisodeInv
<1> SUFFICES ASSUME Init PROVE EpisodeInv
  OBVIOUS
<1>1. cycles = << >> /\ DOMAIN cycles = {} /\ reopens = << >>
  BY DEF Init
<1>2. TypeOK
  BY <1>1, EmptySeq DEF Init, TypeOK, WorkStates
<1> QED  BY <1>1, <1>2 DEF Init, EpisodeInv, Named, LastAtWork, ClosedOnce

-----------------------------------------------------------------------------
\* A command on the work of the active cycle.
LEMMA CommandOnCycle ==
  ASSUME NoneAssumption, EpisodeInv, NEW i \in DOMAIN cycles,
         CheckCommand(i) \/ ActionCommand(i) \/ PlanCommand(i)
  PROVE  \E d : SetCycle(i, d) /\ SameCycle(cycles[i], d)
<1>1. PICK c : c = cycles[i]
  OBVIOUS
<1>2. c \in Cycle /\ CycleGood(c)
  BY <1>1, Cycles DEF EpisodeInv
<1>3. CASE CheckCommand(i)
  <2>1. PICK k \in Checks, to \in CheckStates : SetCycle(i, [cycles[i] EXCEPT !.checks[k] = to])
    BY <1>3 DEF CheckCommand, RequestCheck, StartCheck, CompleteCheck, CancelCheck, SetCheck, CheckStates
  <2>2. PICK d : d = [c EXCEPT !.checks[k] = to]
    OBVIOUS
  <2>3. SameCycle(c, d)
    BY <1>2, <2>2, CheckKeeps
  <2> QED  BY <1>1, <2>1, <2>2, <2>3
<1>4. CASE ActionCommand(i)
  <2>1. PICK a \in Actions, state \in ActionStates, observed \in Times \cup {None} :
          /\ c.actions[a] = None \/ IsUnsettled(c.actions[a])
          /\ SetAction(i, a, state, observed)
    BY <1>1, <1>4 DEF ActionCommand, RecordExternalAction, ReconcileExternalAction
  <2>2. PICK action : action = [state |-> state, observed |-> observed]
    OBVIOUS
  <2>3. PICK d : d = [c EXCEPT !.actions[a] = action]
    OBVIOUS
  <2>4. action \in Action
    BY <2>2 DEF Action
  <2>5. SameCycle(c, d)
    BY <1>2, <2>1, <2>3, <2>4, ActionKeeps
  <2> QED  BY <1>1, <2>1, <2>2, <2>3, <2>5 DEF SetAction
<1>5. CASE PlanCommand(i)
  <2>1. PICK p \in Plans :
          \/ \E a \in Actions \cup {None}, policy \in Policies, elapsed \in Durations :
               CreateRecoveryPlan(i, p, a, policy, elapsed)
          \/ \E policy \in Policies : UpdateRecoveryPlan(i, p, policy)
          \/ LockRecoveryPlan(i, p)
          \/ \E o \in Observations \cup {None}, cited \in BOOLEAN :
               SubmitRecoveryObservation(i, p, o, cited)
    BY <1>5 DEF PlanCommand
  <2>2. ASSUME NEW plan \in Plan, PlanGood(c, plan), TermsStand(c.plans[p], plan), SetPlan(i, p, plan)
        PROVE  \E d : SetCycle(i, d) /\ SameCycle(c, d)
    <3>1. PICK d : d = [c EXCEPT !.plans[p] = plan]
      OBVIOUS
    <3>2. SameCycle(c, d)
      BY <1>2, <2>2, <3>1, SetPlanKeeps
    <3> QED  BY <1>1, <2>2, <3>1, <3>2 DEF SetPlan
  <2>3. PICK x : x = c.plans[p]
    OBVIOUS
  <2>4. x # None => x \in Plan /\ PlanGood(c, x)
    BY <1>2, <2>3 DEF CycleGood, Cycle
  <2>5. ASSUME NEW a \in Actions \cup {None}, NEW policy \in Policies, NEW elapsed \in Durations,
               CreateRecoveryPlan(i, p, a, policy, elapsed)
        PROVE  \E d : SetCycle(i, d) /\ SameCycle(c, d)
    <3>1. PICK action : action = IF a = None THEN None ELSE c.actions[a]
      OBVIOUS
    <3>2. PICK plan :
            plan = [action |-> a, boundary |-> EffectBoundary(action), policy |-> policy,
                    elapsed |-> elapsed, state |-> "NOT_STARTED", locked |-> FALSE,
                    assessments |-> << >>, eligible |-> {}]
      OBVIOUS
    <3>3. plan \in Plan /\ PlanGood(c, plan)
      BY <1>2, <3>1, <3>2, NewPlanGood
    <3>4. SetPlan(i, p, plan) /\ c.plans[p] = None
      BY <1>1, <2>5, <3>1, <3>2 DEF CreateRecoveryPlan
    <3>5. TermsStand(c.plans[p], plan)
      BY <3>4 DEF TermsStand
    <3> QED  BY <2>2, <3>3, <3>4, <3>5
  <2>6. ASSUME NEW policy \in Policies, NEW after, x # None, ~x.locked,
               \/ after = [x EXCEPT !.policy = policy]
               \/ after = [x EXCEPT !.locked = TRUE, !.state = "WAITING_FOR_DATA"],
               SetPlan(i, p, after)
        PROVE  \E d : SetCycle(i, d) /\ SameCycle(c, d)
    <3>1. after \in Plan /\ PlanGood(c, after) /\ TermsStand(x, after)
      BY <1>2, <2>4, <2>6, UnlockedGood
    <3> QED  BY <2>2, <2>3, <2>6, <3>1
  <2>7. ASSUME NEW policy \in Policies, UpdateRecoveryPlan(i, p, policy)
        PROVE  \E d : SetCycle(i, d) /\ SameCycle(c, d)
    <3>1. PICK after : after = [x EXCEPT !.policy = policy]
      OBVIOUS
    <3>2. x # None /\ ~x.locked /\ SetPlan(i, p, after)
      BY <1>1, <2>3, <2>7, <3>1 DEF UpdateRecoveryPlan, IsUnlocked
    <3> QED  BY <2>6, <3>1, <3>2
  <2>8. ASSUME LockRecoveryPlan(i, p)
        PROVE  \E d : SetCycle(i, d) /\ SameCycle(c, d)
    <3>1. PICK after : after = [x EXCEPT !.locked = TRUE, !.state = "WAITING_FOR_DATA"]
      OBVIOUS
    <3>2. x # None /\ ~x.locked /\ SetPlan(i, p, after)
      BY <1>1, <2>3, <2>8, <3>1 DEF LockRecoveryPlan, IsUnlocked
    <3>3. x.policy \in Policies
      BY <2>4, <3>2 DEF Plan
    <3> QED  BY <2>6, <3>1, <3>2, <3>3
  <2>9. ASSUME NEW o \in Observations \cup {None}, NEW cited \in BOOLEAN,
               SubmitRecoveryObservation(i, p, o, cited)
        PROVE  \E d : SetCycle(i, d) /\ SameCycle(c, d)
    <3>1. PICK after :
            after = Submitted(x, EffectFor(c, x), Assess(x, EffectFor(c, x), o, cited))
      OBVIOUS
    <3>2. x # None /\ x.state # "PASS" /\ SetPlan(i, p, after)
      BY <1>1, <2>3, <2>9, <3>1 DEF SubmitRecoveryObservation, Submitted, EffectFor
    <3>3. after \in Plan /\ PlanGood(c, after) /\ TermsStand(x, after)
      BY <1>2, <2>4, <3>1, <3>2, SubmitGood
    <3> QED  BY <2>2, <2>3, <3>2, <3>3
  <2> QED  BY <1>1, <2>1, <2>5, <2>7, <2>8, <2>9
<1> QED  BY <1>1, <1>3, <1>4, <1>5

-----------------------------------------------------------------------------
\* The active cycle is replaced, with its name, number, status and closures.
LEMMA WorkKeeps ==
  ASSUME NoneAssumption, EpisodeInv, NEW i \in DOMAIN cycles, NEW d,
         SetCycle(i, d), SameCycle(cycles[i], d), cycles[i].status = "OPEN"
  PROVE  EpisodeInv'
<1>1. /\ cycles \in Seq(Cycle) /\ Len(cycles) \in Nat /\ DOMAIN cycles = 1..Len(cycles)
      /\ d \in Cycle /\ cycles' = [cycles EXCEPT ![i] = d]
  BY Cycles DEF EpisodeInv, TypeOK, SetCycle, SameCycle
<1>2. /\ cycles' \in Seq(Cycle) /\ Len(cycles') = Len(cycles) /\ DOMAIN cycles' = DOMAIN cycles
      /\ \A j \in DOMAIN cycles : cycles'[j] = IF j = i THEN d ELSE cycles[j]
  BY <1>1, ExceptSeq
<1>3. \A j \in DOMAIN cycles :
        /\ cycles'[j].id = cycles[j].id /\ cycles'[j].number = cycles[j].number
        /\ cycles'[j].status = cycles[j].status /\ cycles'[j].closures = cycles[j].closures
  BY <1>2 DEF SameCycle
<1>4. UNCHANGED <<work, owner, active, reopens>>
  BY DEF SetCycle
<1>5. TypeOK'
  BY <1>2, <1>4 DEF EpisodeInv, TypeOK
<1>6. Named'
  BY <1>1, <1>2, <1>3 DEF EpisodeInv, Named
<1>7. LastAtWork'
  <2>1. cycles # << >> /\ cycles' # << >> /\ Len(cycles) \in DOMAIN cycles
    <3>1. cycles # << >>
      BY <1>1
    <3>2. Len(cycles) \in DOMAIN cycles
      BY <3>1, Cycles DEF EpisodeInv
    <3> QED  BY <1>2, <3>1, <3>2
  <2>2. \A j \in 1..(Len(cycles) - 1) : j \in DOMAIN cycles /\ j + 1 \in DOMAIN cycles
    BY <1>1
  <2>3. [j \in 1..(Len(cycles) - 1) |-> [from |-> cycles[j].id, to |-> cycles[j + 1].id]]
          = [j \in 1..(Len(cycles) - 1) |-> [from |-> cycles'[j].id, to |-> cycles'[j + 1].id]]
    BY <1>3, <2>2
  <2> QED  BY <1>2, <1>3, <1>4, <2>1, <2>3 DEF EpisodeInv, LastAtWork
<1>8. ClosedOnce'
  BY <1>2, <1>3 DEF EpisodeInv, ClosedOnce
<1>9. ASSUME NEW j \in DOMAIN cycles' PROVE (CycleGood(cycles[j]) /\ Confirmed(cycles[j]))'
  <2>1. PICK c : c = cycles'[j]
    OBVIOUS
  <2>2. CASE j = i
    <3>1. c = d /\ CycleGood(c)
      BY <1>2, <2>1, <2>2 DEF SameCycle
    <3>2. c.closures \in Seq(Closure) /\ Len(c.closures) = 0
      <4>1. c.closures = cycles[i].closures /\ c \in Cycle
        BY <3>1 DEF SameCycle
      <4>2. Len(cycles[i].closures) = 0
        BY DEF EpisodeInv, ClosedOnce
      <4> QED  BY <4>1, <4>2 DEF Cycle
    <3>3. Confirmed(c)
      <4>1. DOMAIN c.closures = {}
        BY <3>2
      <4> QED  BY <4>1 DEF Confirmed
    <3> QED  BY <2>1, <3>1, <3>3
  <2>3. CASE j # i
    <3>1. c = cycles[j]
      BY <1>2, <2>1, <2>3
    <3>2. CycleGood(c) /\ Confirmed(c)
      BY <1>2, <3>1 DEF EpisodeInv
    <3> QED  BY <2>1, <3>2
  <2> QED  BY <2>2, <2>3
<1> QED  BY <1>5, <1>6, <1>7, <1>8, <1>9 DEF EpisodeInv

-----------------------------------------------------------------------------
\* What a proof of recovery proves.
LEMMA ProofIsEvidence ==
  ASSUME NoneAssumption, NEW c \in Cycle, CycleGood(c), NEW p \in Plans,
         LET plan == c.plans[p]
         IN  /\ plan # None /\ plan.state = "PASS" /\ plan.locked /\ plan.action # None
             /\ EffectBoundary(c.actions[plan.action]) # None
  PROVE  LET plan == c.plans[p]
         IN  /\ Cardinality({plan.assessments[m].sample : m \in Progress(plan)})
                  >= plan.policy.minimum
             /\ \A m \in Progress(plan) : plan.assessments[m].at >=
                  EffectBoundary(c.actions[plan.action])
<1>1. PICK plan : plan = c.plans[p]
  OBVIOUS
<1>2. /\ PlanGood(c, plan) /\ plan.state = "PASS" /\ plan.action # None
  BY <1>1 DEF CycleGood
<1>3. /\ plan.eligible = {plan.assessments[m].sample : m \in Progress(plan)}
      /\ Cardinality(plan.eligible) >= plan.policy.minimum
  BY <1>2 DEF PlanGood, Counted
<1>4. \A m \in Progress(plan) : plan.assessments[m].at >= EffectBoundary(c.actions[plan.action])
  BY <1>2 DEF PlanGood, After, Bound
<1> QED  BY <1>1, <1>3, <1>4

LEMMA CloseKeeps ==
  ASSUME NoneAssumption, EpisodeInv, NEW i \in DOMAIN cycles, IsActive(i), IsOpen(i), Close(i)
  PROVE  EpisodeInv'
<1>1. PICK disposition \in Dispositions, p \in Plans \cup {None} : CloseEpisode(i, disposition, p)
  BY DEF Close
<1>2. PICK c : c = cycles[i]
  OBVIOUS
<1>3. /\ c \in Cycle /\ CycleGood(c) /\ c.closures \in Seq(Closure) /\ Len(c.closures) = 0
      /\ c.status = "OPEN" /\ i = Len(cycles) /\ cycles # << >>
      /\ Len(cycles) \in Nat /\ DOMAIN cycles = 1..Len(cycles) /\ cycles \in Seq(Cycle)
  <2>1. c \in Cycle
    BY <1>2, Cycles DEF EpisodeInv
  <2>2. c.closures \in Seq(Closure)
    BY <2>1 DEF Cycle
  <2> QED  BY <1>2, <2>1, <2>2, Cycles, ActiveIsLast DEF EpisodeInv, ClosedOnce, IsOpen, TypeOK
<1>4. PICK evidence : evidence = IF disposition = "CONFIRMED_ISSUE"
                                   THEN RecoveryEvidence(c.plans[p]) ELSE {}
  OBVIOUS
<1>5. PICK closure : closure = [disposition |-> disposition, plan |-> p, evidence |-> evidence]
  OBVIOUS
<1>6. disposition = "CONFIRMED_ISSUE" =>
        /\ p \in Plans /\ c.plans[p] # None /\ c.plans[p].state = "PASS" /\ c.plans[p].locked
        /\ c.plans[p].action # None
        /\ EffectBoundary(c.actions[c.plans[p].action]) # None
  BY <1>1, <1>2 DEF CloseEpisode, IsProof
<1>7. evidence \in SUBSET Nat
  <2>1. CASE disposition = "CONFIRMED_ISSUE"
    <3>1. PICK plan : plan = c.plans[p]
      OBVIOUS
    <3>2. plan.assessments \in Seq(Assessment)
      BY <1>3, <1>6, <2>1, <3>1 DEF Cycle, Plan
    <3>3. RecoveryEvidence(plan) \in SUBSET Nat
      BY <3>2 DEF RecoveryEvidence
    <3> QED  BY <1>4, <2>1, <3>1, <3>3
  <2>2. CASE disposition # "CONFIRMED_ISSUE"
    BY <1>4, <2>2
  <2> QED  BY <2>1, <2>2
<1>8. closure \in Closure
  BY <1>5, <1>7 DEF Closure
<1>9. PICK d : d = [c EXCEPT !.status = "CLOSED", !.closures = Append(c.closures, closure)]
  OBVIOUS
<1>10. cycles' = [cycles EXCEPT ![i] = d] /\ work' = "CLOSED" /\ UNCHANGED <<owner, active, reopens>>
  BY <1>1, <1>2, <1>4, <1>5, <1>9 DEF CloseEpisode
<1>11. /\ d.closures \in Seq(Closure) /\ Len(d.closures) = 1 /\ d.closures[1] = closure
       /\ d.closures = Append(c.closures, closure) /\ DOMAIN d.closures = 1..1
  <2>1. d.closures = Append(c.closures, closure)
    BY <1>3, <1>9 DEF Cycle
  <2>2. /\ Append(c.closures, closure) \in Seq(Closure)
        /\ Len(Append(c.closures, closure)) = Len(c.closures) + 1
        /\ Append(c.closures, closure)[Len(c.closures) + 1] = closure
    BY <1>3, <1>8, AppendProperties
  <2> QED  BY <1>3, <2>1, <2>2
<1>12. /\ d.id = c.id /\ d.number = c.number /\ d.status = "CLOSED"
       /\ d.plans = c.plans /\ d.actions = c.actions /\ d.checks = c.checks
  BY <1>3, <1>9 DEF Cycle
<1>13. d \in Cycle
  BY <1>3, <1>9, <1>11 DEF Cycle
<1>14. /\ cycles' \in Seq(Cycle) /\ Len(cycles') = Len(cycles) /\ DOMAIN cycles' = DOMAIN cycles
       /\ \A j \in DOMAIN cycles : cycles'[j] = IF j = i THEN d ELSE cycles[j]
  BY <1>3, <1>10, <1>13, ExceptSeq
<1>15. \A j \in DOMAIN cycles :
         cycles'[j].id = cycles[j].id /\ cycles'[j].number = cycles[j].number
  BY <1>2, <1>12, <1>14
<1>16. TypeOK'
  BY <1>10, <1>14 DEF EpisodeInv, TypeOK, WorkStates
<1>17. Named'
  <2>1. Named /\ 1 \in DOMAIN cycles /\ DOMAIN cycles' = DOMAIN cycles
    BY <1>3, <1>14 DEF EpisodeInv
  <2> QED  BY <1>15, <2>1 DEF Named
<1>18. LastAtWork'
  <2>1. \A j \in 1..(Len(cycles) - 1) : j \in DOMAIN cycles /\ j + 1 \in DOMAIN cycles
    BY <1>3
  <2>2. [j \in 1..(Len(cycles) - 1) |-> [from |-> cycles[j].id, to |-> cycles[j + 1].id]]
          = [j \in 1..(Len(cycles) - 1) |-> [from |-> cycles'[j].id, to |-> cycles'[j + 1].id]]
    BY <1>15, <2>1
  <2>3. cycles' # << >> /\ cycles'[Len(cycles)].status = "CLOSED"
    BY <1>3, <1>12, <1>14
  <2> QED  BY <1>3, <1>10, <1>14, <1>15, <2>2, <2>3 DEF EpisodeInv, LastAtWork
<1>19. ClosedOnce'
  BY <1>3, <1>11, <1>12, <1>14 DEF EpisodeInv, ClosedOnce
<1>20. CycleGood(d) /\ Confirmed(d)
  <2>1. CycleGood(d)
    BY <1>3, <1>12 DEF CycleGood, PlanGood, Bound
  <2>2. ASSUME disposition = "CONFIRMED_ISSUE"
        PROVE  LET plan == d.plans[p]
               IN  /\ p \in Plans /\ plan # None /\ plan.locked
                   /\ Cardinality({plan.assessments[m].sample : m \in Progress(plan)})
                        >= plan.policy.minimum
                   /\ \A m \in Progress(plan) : plan.assessments[m].at >=
                        EffectBoundary(d.actions[plan.action])
    <3>1. PICK plan : plan = c.plans[p]
      OBVIOUS
    <3>2. /\ p \in Plans /\ plan # None /\ plan.state = "PASS" /\ plan.locked /\ plan.action # None
          /\ EffectBoundary(c.actions[plan.action]) # None
      BY <1>6, <2>2, <3>1
    <3>3. /\ Cardinality({plan.assessments[m].sample : m \in Progress(plan)}) >= plan.policy.minimum
          /\ \A m \in Progress(plan) : plan.assessments[m].at >=
               EffectBoundary(c.actions[plan.action])
      BY <1>3, <3>1, <3>2, ProofIsEvidence
    <3>4. d.plans[p] = plan /\ d.actions = c.actions
      BY <1>12, <3>1
    <3> QED  BY <3>2, <3>3, <3>4
  <2>3. ASSUME NEW n \in DOMAIN d.closures, d.closures[n].disposition = "CONFIRMED_ISSUE"
        PROVE  d.closures[n].plan = p /\ disposition = "CONFIRMED_ISSUE"
    <3>1. n = 1
      BY <1>11, <2>3
    <3> QED  BY <1>5, <1>11, <2>3, <3>1
  <2> QED  BY <2>1, <2>2, <2>3, Zenon DEF Confirmed
<1>21. ASSUME NEW j \in DOMAIN cycles' PROVE (CycleGood(cycles[j]) /\ Confirmed(cycles[j]))'
  <2>1. PICK x : x = cycles'[j]
    OBVIOUS
  <2>2. CycleGood(x) /\ Confirmed(x)
    BY <1>14, <1>20, <2>1 DEF EpisodeInv
  <2> QED  BY <2>1, <2>2
<1> QED  BY <1>16, <1>17, <1>18, <1>19, <1>21 DEF EpisodeInv

-----------------------------------------------------------------------------
\* A name for the next cycle is found: of the two numbers above the last one, at
\* most one is the name that the first cycle was given.
LEMMA NewNumbers ==
  ASSUME EpisodeInv, cycles # << >>
  PROVE  /\ NewNumber \in Nat
         /\ \A i \in DOMAIN cycles : cycles[i].number < NewNumber /\ cycles[i].id # NewNumber
         /\ Len(cycles) + 1 <= NewNumber /\ NewNumber <= Len(cycles) + 2
         /\ NewNumber = Len(cycles) + 2 => cycles[1].id <= Len(cycles) + 2
<1>1. PICK l \in Nat : l = Len(cycles) /\ l \in DOMAIN cycles /\ DOMAIN cycles = 1..l /\ l >= 1
  <2>1. PICK l \in Nat : l = Len(cycles)
    BY Cycles DEF EpisodeInv
  <2>2. l \in DOMAIN cycles /\ DOMAIN cycles = 1..l
    BY <2>1, Cycles DEF EpisodeInv
  <2>3. l \in 1..l
    BY <2>2
  <2>4. l >= 1
    BY <2>3
  <2> QED  BY <2>1, <2>2, <2>4
<1>2. \A i \in DOMAIN cycles : cycles[i].id \in Nat /\ cycles[i].number \in Nat
  BY Cycles DEF EpisodeInv, Cycle, CycleIds
<1>3. \A i \in DOMAIN cycles : /\ i \in 1..l /\ cycles[i].number <= i + 1
                               /\ cycles[i].number <= cycles[l].number
                               /\ i > 1 => cycles[i].id = cycles[i].number
  BY <1>1, <1>2 DEF EpisodeInv, Named
<1>4. /\ l <= cycles[l].number /\ cycles[l].number <= l + 1
      /\ cycles[l].number = l + 1 => cycles[1].id <= l + 1
  BY <1>1 DEF EpisodeInv, Named
<1> DEFINE above == {n \in 1..(Len(cycles) + 2) : \A i \in DOMAIN cycles : cycles[i].number < n}
           free == {n \in above : ~IsTaken(n)}
<1>5. \A n \in above : n \in Nat /\ n >= l + 1 /\ n <= l + 2 /\ n > cycles[l].number
  BY <1>1, <1>2, <1>4
<1>6. \A n \in {l + 1, l + 2} : (\A i \in DOMAIN cycles : cycles[i].number < n) => n \in above
  BY <1>1
<1>7. \A n : IsTaken(n) /\ n > cycles[l].number => n = cycles[1].id
  <2> SUFFICES ASSUME NEW n, IsTaken(n), n > cycles[l].number PROVE n = cycles[1].id
    OBVIOUS
  <2>1. PICK i \in DOMAIN cycles : cycles[i].id = n
    BY DEF IsTaken
  <2>2. ~(i > 1)
    BY <1>1, <1>2, <1>3, <2>1
  <2> QED  BY <1>1, <2>1, <2>2
<1>8. l + 2 \in above
  BY <1>1, <1>2, <1>3, <1>6
<1> HIDE DEF above
<1>9. \E n \in free : (\A m \in free : n <= m) /\ (n = l + 2 => cycles[1].id <= l + 2)
  <2>1. CASE cycles[l].number = l + 1
    <3>1. l + 2 > cycles[l].number
      BY <1>1, <2>1
    <3>2. ~IsTaken(l + 2)
      BY <1>1, <1>2, <1>4, <1>7, <2>1, <3>1
    <3>3. \A m \in free : l + 2 <= m
      BY <1>1, <1>5, <2>1
    <3>4. cycles[1].id <= l + 2
      BY <1>1, <1>2, <1>4, <2>1
    <3> QED  BY <1>8, <3>2, <3>3, <3>4
  <2>2. CASE cycles[l].number = l /\ ~IsTaken(l + 1)
    <3>1. l + 1 \in above
      BY <1>1, <1>2, <1>3, <1>6, <2>2
    <3>2. l + 1 # l + 2
      BY <1>1
    <3> QED  BY <1>5, <2>2, <3>1, <3>2
  <2>3. CASE cycles[l].number = l /\ IsTaken(l + 1)
    <3>1. cycles[1].id = l + 1
      BY <1>1, <1>7, <2>3
    <3>2. ~IsTaken(l + 2)
      BY <1>1, <1>7, <2>3, <3>1
    <3>3. \A m \in free : m # l + 1
      BY <2>3
    <3>4. \A m \in free : l + 2 <= m
      BY <1>1, <1>5, <3>3
    <3> QED  BY <1>1, <1>8, <3>1, <3>2, <3>4
  <2> QED  BY <1>1, <1>2, <1>4, <2>1, <2>2, <2>3
<1>10. NewNumber = CHOOSE n \in free : \A m \in free : n <= m
  BY DEF NewNumber, above
<1>11. PICK x : x = NewNumber
  OBVIOUS
<1>12. x \in free /\ \A m \in free : x <= m
  BY <1>9, <1>10, <1>11
<1>13. x = l + 2 => cycles[1].id <= l + 2
  BY <1>1, <1>5, <1>9, <1>12
<1>14. \A i \in DOMAIN cycles : cycles[i].number < x
  BY <1>12 DEF above
<1>15. \A i \in DOMAIN cycles : cycles[i].id # x
  BY <1>12 DEF IsTaken
<1> QED  BY <1>1, <1>5, <1>11, <1>12, <1>13, <1>14, <1>15

LEMMA EmptyCycleGood ==
  ASSUME NoneAssumption, NEW id \in Nat, NEW n \in Nat, NEW c, c = EmptyCycle(id, n)
  PROVE  /\ c \in Cycle /\ CycleGood(c) /\ Confirmed(c)
         /\ c.id = id /\ c.number = n /\ c.status = "OPEN" /\ Len(c.closures) = 0
<1>1. << >> \in Seq(Closure) /\ Len(<< >>) = 0 /\ DOMAIN << >> = {}
  BY EmptySeq
<1>2. /\ c.closures = << >> /\ c.id = id /\ c.number = n /\ c.status = "OPEN"
      /\ c.plans = [p \in Plans |-> None]
  BY DEF EmptyCycle
<1>3. c \in Cycle
  BY <1>1 DEF EmptyCycle, Cycle, CycleIds
<1>4. CycleGood(c)
  BY <1>2 DEF CycleGood
<1>5. DOMAIN c.closures = {}
  BY <1>1, <1>2
<1>6. Confirmed(c)
  BY <1>5 DEF Confirmed
<1> QED  BY <1>1, <1>2, <1>3, <1>4, <1>6

LEMMA ReopenKeeps ==
  ASSUME NoneAssumption, EpisodeInv, NEW i \in DOMAIN cycles, IsActive(i), ReopenEpisode(i)
  PROVE  EpisodeInv'
<1>1. PICK x : x = NewNumber
  OBVIOUS
<1>2. PICK c : c = EmptyCycle(x, x)
  OBVIOUS
<1>3. PICK l \in Nat : l = Len(cycles)
  BY Cycles DEF EpisodeInv
<1>4. /\ cycles # << >> /\ i = l /\ l \in DOMAIN cycles /\ DOMAIN cycles = 1..l /\ l >= 1
      /\ cycles \in Seq(Cycle) /\ \A j \in DOMAIN cycles : cycles[j].id \in Nat /\ cycles[j].number \in Nat
  <2>1. cycles # << >> /\ i = l
    BY <1>3, ActiveIsLast
  <2>2. \A j \in DOMAIN cycles : cycles[j].id \in Nat /\ cycles[j].number \in Nat
    BY Cycles DEF EpisodeInv, Cycle, CycleIds
  <2> QED  BY <1>3, <2>1, <2>2, Cycles DEF EpisodeInv, TypeOK
<1>5. /\ x \in Nat /\ l + 1 <= x /\ x <= l + 2
      /\ \A j \in DOMAIN cycles : cycles[j].number < x /\ cycles[j].id # x
      /\ x = l + 2 => cycles[1].id <= l + 2
  BY <1>1, <1>3, <1>4, NewNumbers
<1>6. /\ c \in Cycle /\ CycleGood(c) /\ Confirmed(c)
      /\ c.id = x /\ c.number = x /\ c.status = "OPEN" /\ Len(c.closures) = 0
  BY <1>2, <1>5, EmptyCycleGood
<1>7. /\ cycles' = Append(cycles, c) /\ active' = x /\ work' = "OPEN" /\ owner' = None
      /\ reopens' = Append(reopens, [from |-> cycles[l].id, to |-> x])
      /\ cycles[l].status = "CLOSED"
  BY <1>1, <1>2, <1>4 DEF ReopenEpisode, OwnerAfterReset
<1>8. /\ cycles' \in Seq(Cycle) /\ Len(cycles') = l + 1 /\ DOMAIN cycles' = 1..(l + 1)
      /\ \A j \in 1..l : cycles'[j] = cycles[j]
      /\ cycles'[l + 1] = c /\ cycles' # << >>
  BY <1>3, <1>4, <1>6, <1>7, AppendProperties
<1>9. PICK step : step = [from |-> cycles[l].id, to |-> x]
  OBVIOUS
<1>10. /\ reopens \in Seq([from: CycleIds, to: CycleIds]) /\ step \in [from: CycleIds, to: CycleIds]
       /\ reopens = [j \in 1..(l - 1) |-> [from |-> cycles[j].id, to |-> cycles[j + 1].id]]
  BY <1>3, <1>4, <1>5, <1>9 DEF EpisodeInv, TypeOK, LastAtWork, CycleIds
<1>11. Len(reopens) = l - 1
  BY <1>4, <1>10
<1>12. /\ reopens' \in Seq([from: CycleIds, to: CycleIds]) /\ DOMAIN reopens' = 1..l
       /\ \A j \in 1..(l - 1) : reopens'[j] = reopens[j]
       /\ reopens'[l] = step
  <2>1. reopens' = Append(reopens, step)
    BY <1>7, <1>9
  <2>2. /\ Append(reopens, step) \in Seq([from: CycleIds, to: CycleIds])
        /\ Len(Append(reopens, step)) = Len(reopens) + 1
        /\ \A j \in 1..Len(reopens) : Append(reopens, step)[j] = reopens[j]
        /\ Append(reopens, step)[Len(reopens) + 1] = step
    <3>1. reopens \in Seq([from: CycleIds, to: CycleIds]) /\ step \in [from: CycleIds, to: CycleIds]
      BY <1>10
    <3> QED  BY <3>1, AppendProperties
  <2>3. Len(reopens) + 1 = l
    BY <1>3, <1>11
  <2> QED  BY <1>4, <1>11, <2>1, <2>2, <2>3
<1>13. reopens' = [j \in 1..l |-> [from |-> cycles'[j].id, to |-> cycles'[j + 1].id]]
  <2> DEFINE f == [j \in 1..l |-> [from |-> cycles'[j].id, to |-> cycles'[j + 1].id]]
  <2>1. ASSUME NEW j \in 1..l PROVE reopens'[j] = f[j]
    <3>1. CASE j = l
      BY <1>4, <1>6, <1>8, <1>9, <1>12, <3>1
    <3>2. CASE j # l
      <4>1. j \in 1..(l - 1) /\ j + 1 \in 1..l
        BY <3>2
      <4>2. reopens'[j] = [from |-> cycles[j].id, to |-> cycles[j + 1].id]
        BY <1>10, <1>12, <4>1
      <4> QED  BY <1>8, <4>1, <4>2
    <3> QED  BY <3>1, <3>2
  <2>2. DOMAIN f = 1..l
    OBVIOUS
  <2>3. reopens' = [j \in DOMAIN reopens' |-> reopens'[j]]
    BY <1>12
  <2> QED  BY <1>12, <2>1, <2>2, <2>3
<1>14. TypeOK'
  BY <1>5, <1>7, <1>8, <1>12 DEF TypeOK, WorkStates, CycleIds
<1>15. Named'
  <2>1. \A j \in 1..(l + 1) : j \in 1..l \/ j = l + 1
    OBVIOUS
  <2>2. \A j, k \in DOMAIN cycles' : cycles'[j].id = cycles'[k].id => j = k
    BY <1>4, <1>5, <1>6, <1>8, <2>1 DEF EpisodeInv, Named
  <2>3. \A j, k \in DOMAIN cycles' : j < k => cycles'[j].number < cycles'[k].number
    <3> SUFFICES ASSUME NEW j \in 1..(l + 1), NEW k \in 1..(l + 1), j < k
                 PROVE  cycles'[j].number < cycles'[k].number
      BY <1>8
    <3>1. j \in 1..l
      OBVIOUS
    <3>2. CASE k = l + 1
      BY <1>4, <1>5, <1>6, <1>8, <3>1, <3>2
    <3>3. CASE k \in 1..l
      BY <1>4, <1>8, <3>1, <3>3 DEF EpisodeInv, Named
    <3> QED  BY <2>1, <3>2, <3>3
  <2>4. ASSUME NEW j \in DOMAIN cycles'
        PROVE  /\ j <= cycles'[j].number /\ cycles'[j].number <= j + 1
               /\ cycles'[j].number = j + 1 => cycles'[1].id <= j + 1
               /\ j > 1 => cycles'[j].id = cycles'[j].number
    <3>0. cycles'[1] = cycles[1]
      BY <1>4, <1>8
    <3>1. CASE j = l + 1
      BY <1>4, <1>5, <1>6, <1>8, <3>0, <3>1
    <3>2. CASE j \in 1..l
      BY <1>4, <1>8, <3>0, <3>2 DEF EpisodeInv, Named
    <3> QED  BY <1>8, <2>1, <3>1, <3>2
  <2> QED  BY <2>2, <2>3, <2>4 DEF Named
<1>16. LastAtWork'
  <2>1. (l + 1) - 1 = l
    OBVIOUS
  <2> QED  BY <1>6, <1>7, <1>8, <1>13, <2>1 DEF LastAtWork
<1>17. ClosedOnce'
  <2> SUFFICES ASSUME NEW j \in 1..(l + 1)
               PROVE  /\ j < l + 1 => cycles'[j].status = "CLOSED"
                      /\ Len(cycles'[j].closures) = IF cycles'[j].status = "CLOSED" THEN 1 ELSE 0
    BY <1>8 DEF ClosedOnce
  <2>1. CASE j = l + 1
    BY <1>6, <1>8, <2>1
  <2>2. CASE j \in 1..l
    <3>1. cycles'[j] = cycles[j] /\ (j < l \/ j = l)
      BY <1>8, <2>2
    <3> QED  BY <1>3, <1>4, <1>7, <2>2, <3>1 DEF EpisodeInv, ClosedOnce
  <2> QED  BY <2>1, <2>2
<1>18. ASSUME NEW j \in DOMAIN cycles' PROVE (CycleGood(cycles[j]) /\ Confirmed(cycles[j]))'
  <2>1. PICK y : y = cycles'[j]
    OBVIOUS
  <2>2. j = l + 1 \/ j \in 1..l
    BY <1>8
  <2>3. CycleGood(y) /\ Confirmed(y)
    BY <1>4, <1>6, <1>8, <2>1, <2>2 DEF EpisodeInv
  <2> QED  BY <2>1, <2>3
<1> QED  BY <1>14, <1>15, <1>16, <1>17, <1>18 DEF EpisodeInv

LEMMA InitializeKeeps ==
  ASSUME NoneAssumption, EpisodeInv, NEW id \in FirstCycles, InitializeDecisionLoop(id)
  PROVE  EpisodeInv'
<1>1. PICK c : c = EmptyCycle(id, 1)
  OBVIOUS
<1>2. id \in Nat
  BY EpisodeAssumption DEF EpisodeAssumption
<1>3. /\ c \in Cycle /\ CycleGood(c) /\ Confirmed(c)
      /\ c.id = id /\ c.number = 1 /\ c.status = "OPEN" /\ Len(c.closures) = 0
  BY <1>1, <1>2, EmptyCycleGood
<1>4. /\ cycles' = <<c>> /\ active' = id /\ UNCHANGED <<work, owner, reopens>>
      /\ work # "CLOSED" /\ reopens = << >>
  BY <1>1 DEF InitializeDecisionLoop, EpisodeInv, LastAtWork
<1>5. /\ cycles' \in Seq(Cycle) /\ Len(cycles') = 1 /\ DOMAIN cycles' = 1..1 /\ cycles'[1] = c
      /\ cycles' # << >>
  BY <1>3, <1>4
<1>6. TypeOK'
  BY <1>2, <1>4, <1>5 DEF EpisodeInv, TypeOK, CycleIds
<1>7. \A j \in DOMAIN cycles' : j = 1
  BY <1>5
<1>8. Named'
  BY <1>3, <1>5, <1>7 DEF Named
<1>9. LastAtWork'
  <2>1. [j \in 1..0 |-> [from |-> cycles'[j].id, to |-> cycles'[j + 1].id]] = << >>
    BY EmptySeq
  <2>2. (work = "OPEN" <=> owner = None)
    BY <1>4 DEF EpisodeInv, LastAtWork
  <2> QED  BY <1>3, <1>4, <1>5, <2>1, <2>2 DEF LastAtWork
<1>10. ClosedOnce'
  BY <1>3, <1>5, <1>7 DEF ClosedOnce
<1>11. ASSUME NEW j \in DOMAIN cycles' PROVE (CycleGood(cycles[j]) /\ Confirmed(cycles[j]))'
  <2>1. cycles'[j] = c
    BY <1>5, <1>7
  <2> QED  BY <1>3, <2>1
<1> QED  BY <1>6, <1>8, <1>9, <1>10, <1>11 DEF EpisodeInv

LEMMA OwnerKeeps ==
  ASSUME NoneAssumption, EpisodeInv, NEW e \in Engineers, ClaimEpisode(e) \/ AcknowledgeEpisode(e)
  PROVE  EpisodeInv'
<1>1. UNCHANGED <<cycles, active, reopens>>
  BY DEF ClaimEpisode, AcknowledgeEpisode
<1>2. /\ work \in {"OPEN", "CLAIMED"} /\ work' \in {"CLAIMED", "ACKNOWLEDGED"}
      /\ owner' = e /\ e # None
  BY DEF ClaimEpisode, AcknowledgeEpisode, NoneAssumption
<1>3. TypeOK'
  BY <1>1, <1>2 DEF EpisodeInv, TypeOK, WorkStates
<1>4. Named' /\ ClosedOnce'
  BY <1>1 DEF EpisodeInv, Named, ClosedOnce
<1>5. LastAtWork'
  BY <1>1, <1>2 DEF EpisodeInv, LastAtWork
<1>6. \A i \in DOMAIN cycles' : (CycleGood(cycles[i]) /\ Confirmed(cycles[i]))'
  BY <1>1 DEF EpisodeInv
<1> QED  BY <1>3, <1>4, <1>5, <1>6 DEF EpisodeInv

\* What a step does, seen from the cycles.
LEMMA Steps ==
  ASSUME NoneAssumption, EpisodeInv, Next
  PROVE  \/ \E e \in Engineers : ClaimEpisode(e) \/ AcknowledgeEpisode(e)
         \/ \E id \in FirstCycles : InitializeDecisionLoop(id)
         \/ \E i \in DOMAIN cycles :
              /\ IsActive(i)
              /\ \/ /\ cycles[i].status = "OPEN"
                    /\ \E d : SetCycle(i, d) /\ SameCycle(cycles[i], d)
                 \/ IsOpen(i) /\ Close(i)
                 \/ ReopenEpisode(i)
<1>1. ASSUME NEW i \in DOMAIN cycles, NEW named \in Names, Target(i, named), IsOpen(i),
             CheckCommand(i) \/ ActionCommand(i) \/ PlanCommand(i)
      PROVE  /\ IsActive(i) /\ cycles[i].status = "OPEN"
             /\ \E d : SetCycle(i, d) /\ SameCycle(cycles[i], d)
  BY <1>1, CommandOnCycle DEF Target, IsOpen
<1>2. ASSUME NEW i \in DOMAIN cycles, NEW named \in Names, Target(i, named),
             \/ IsOpen(i) /\ (CheckCommand(i) \/ ActionCommand(i) \/ PlanCommand(i) \/ Close(i))
             \/ ReopenEpisode(i)
      PROVE  /\ IsActive(i)
             /\ \/ /\ cycles[i].status = "OPEN"
                   /\ \E d : SetCycle(i, d) /\ SameCycle(cycles[i], d)
                \/ IsOpen(i) /\ Close(i)
                \/ ReopenEpisode(i)
  BY <1>1, <1>2 DEF Target
<1> QED  BY <1>2 DEF Next

LEMMA EpisodeStep == EpisodeInv /\ [Next]_vars => EpisodeInv'
<1> SUFFICES ASSUME EpisodeInv, [Next]_vars PROVE EpisodeInv'
  OBVIOUS
<1>1. CASE Next
  BY <1>1, Steps, OwnerKeeps, InitializeKeeps, WorkKeeps, CloseKeeps, ReopenKeeps,
       NoneAssumption
<1>2. CASE UNCHANGED vars
  <2>1. UNCHANGED <<work, owner, cycles, active, reopens>>
    BY <1>2 DEF vars
  <2>2. TypeOK' /\ Named' /\ LastAtWork' /\ ClosedOnce'
    BY <2>1 DEF EpisodeInv, TypeOK, Named, LastAtWork, ClosedOnce
  <2>3. \A i \in DOMAIN cycles' : (CycleGood(cycles[i]) /\ Confirmed(cycles[i]))'
    BY <2>1 DEF EpisodeInv
  <2> QED  BY <2>2, <2>3 DEF EpisodeInv
<1> QED  BY <1>1, <1>2

-----------------------------------------------------------------------------
\* Neither a closed cycle nor the terms of a locked plan, nor a plan that passed,
\* are touched by any command.
LEMMA HistoryStep ==
  ASSUME NoneAssumption, EpisodeInv, [Next]_vars, NEW i \in DOMAIN cycles
  PROVE  /\ ClosedStands(i)
         /\ \A p \in Plans : TermsStand(cycles[i].plans[p], cycles'[i].plans[p])
<1>0. DOMAIN cycles = 1..Len(cycles) /\ Len(cycles) \in Nat /\ cycles \in Seq(Cycle)
  BY Cycles DEF EpisodeInv, TypeOK
<1>1. ASSUME i \in DOMAIN cycles', cycles'[i] = cycles[i]
      PROVE  /\ ClosedStands(i)
             /\ \A p \in Plans : TermsStand(cycles[i].plans[p], cycles'[i].plans[p])
  BY <1>1 DEF ClosedStands, TermsStand
<1>2. CASE UNCHANGED cycles
  BY <1>1, <1>2
<1>3. ASSUME NEW k \in DOMAIN cycles, cycles[k].status = "OPEN", NEW d,
             SetCycle(k, d), SameCycle(cycles[k], d)
      PROVE  /\ ClosedStands(i)
             /\ \A p \in Plans : TermsStand(cycles[i].plans[p], cycles'[i].plans[p])
  <2>1. cycles' = [cycles EXCEPT ![k] = d] /\ DOMAIN cycles' = DOMAIN cycles
    BY <1>3 DEF SetCycle
  <2>2. CASE i = k
    <3>1. cycles'[i] = d
      BY <2>1, <2>2
    <3> QED  BY <1>3, <2>2, <3>1 DEF ClosedStands, SameCycle
  <2>3. CASE i # k
    BY <1>1, <2>1, <2>3
  <2> QED  BY <2>2, <2>3
<1>4. ASSUME NEW k \in DOMAIN cycles, IsOpen(k), Close(k)
      PROVE  /\ ClosedStands(i)
             /\ \A p \in Plans : TermsStand(cycles[i].plans[p], cycles'[i].plans[p])
  <2>1. PICK closures : cycles' = [cycles EXCEPT ![k].status = "CLOSED", ![k].closures = closures]
    BY <1>4 DEF Close, CloseEpisode
  <2>2. cycles[k] \in Cycle /\ DOMAIN cycles' = DOMAIN cycles
    BY <2>1, Cycles DEF EpisodeInv
  <2>3. CASE i = k
    <3>1. cycles'[i].plans = cycles[i].plans
      BY <2>1, <2>2, <2>3 DEF Cycle
    <3> QED  BY <1>4, <2>3, <3>1 DEF ClosedStands, IsOpen, TermsStand
  <2>4. CASE i # k
    <3>1. cycles'[i] = cycles[i]
      BY <2>1, <2>4
    <3> QED  BY <1>1, <2>2, <3>1
  <2> QED  BY <2>3, <2>4
<1>5. ASSUME NEW k \in DOMAIN cycles, IsActive(k), ReopenEpisode(k)
      PROVE  /\ ClosedStands(i)
             /\ \A p \in Plans : TermsStand(cycles[i].plans[p], cycles'[i].plans[p])
  <2>1. PICK c : c = EmptyCycle(NewNumber, NewNumber)
    OBVIOUS
  <2>2. c \in Cycle
    <3>1. cycles # << >>
      BY <1>5, ActiveIsLast
    <3>2. NewNumber \in Nat
      BY <3>1, NewNumbers
    <3> QED  BY <2>1, <3>2, EmptyCycleGood
  <2>3. cycles' = Append(cycles, c)
    BY <1>5, <2>1 DEF ReopenEpisode
  <2>4. i \in DOMAIN cycles' /\ cycles'[i] = cycles[i]
    BY <1>0, <2>2, <2>3, AppendProperties
  <2> QED  BY <1>1, <2>4
<1>6. ASSUME NEW id \in FirstCycles, InitializeDecisionLoop(id) PROVE FALSE
  BY <1>0, <1>6 DEF InitializeDecisionLoop
<1>7. CASE Next
  <2>1. CASE \E e \in Engineers : ClaimEpisode(e) \/ AcknowledgeEpisode(e)
    BY <1>2, <2>1 DEF ClaimEpisode, AcknowledgeEpisode
  <2> QED  BY <1>3, <1>4, <1>5, <1>6, <1>7, <2>1, Steps
<1> QED  BY <1>2, <1>7 DEF vars

\* Whatever the requests: the counter of a plan is what its history of assessments says, and PASS is
\* reached with enough of them ...
THEOREM Evidence == Spec => []ProgressIsEvidence
<1>1. Init => EpisodeInv
  BY EpisodeInit
<1>2. EpisodeInv /\ [Next]_vars => EpisodeInv'
  BY EpisodeStep
<1>3. EpisodeInv => ProgressIsEvidence
  BY EpisodeImplies, NoneAssumption
<1> QED  BY <1>1, <1>2, <1>3, PTL DEF Spec

\* ... no boundary moves under its evidence, and every confirmed closure has its
\* evidence ...
THEOREM Closures == Spec => []ClosuresAreEarned
<1>1. Init => EpisodeInv
  BY EpisodeInit
<1>2. EpisodeInv /\ [Next]_vars => EpisodeInv'
  BY EpisodeStep
<1>3. EpisodeInv => ClosuresAreEarned
  BY EpisodeImplies, NoneAssumption DEF ClosuresAreEarned
<1> QED  BY <1>1, <1>2, <1>3, PTL DEF Spec

\* ... the state has its type, no command writes one that later commands refuse
\* for good, and cycles follow one another under names of their own ...
THEOREM Usable == Spec => []WorkStaysUsable
<1>1. Init => EpisodeInv
  BY EpisodeInit
<1>2. EpisodeInv /\ [Next]_vars => EpisodeInv'
  BY EpisodeStep
<1>3. EpisodeInv => WorkStaysUsable
  BY EpisodeImplies, NoneAssumption DEF EpisodeInv, WorkStaysUsable
<1> QED  BY <1>1, <1>2, <1>3, PTL DEF Spec

\* ... and what was closed, locked or passed stands.
THEOREM History == Spec => HistoryStands
<1> DEFINE Stands == \A i \in DOMAIN cycles :
             /\ ClosedStands(i)
             /\ \A p \in Plans : TermsStand(cycles[i].plans[p], cycles'[i].plans[p])
<1>1. Init => EpisodeInv
  BY EpisodeInit
<1>2. EpisodeInv /\ [Next]_vars => EpisodeInv'
  BY EpisodeStep
<1>3. EpisodeInv /\ [Next]_vars => Stands
  BY HistoryStep, NoneAssumption
<1>4. EpisodeInv /\ [Next]_vars => [Stands]_vars
  BY <1>3
<1> QED  BY <1>1, <1>2, <1>4, PTL DEF Spec, HistoryStands
=============================================================================
