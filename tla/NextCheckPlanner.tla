--------------------------- MODULE NextCheckPlanner ---------------------------
(***************************************************************************)
(* The next checks for one Episode: NextCheckPlannerService of             *)
(* application/planner.py.                                                 *)
(*                                                                         *)
(* A plan reads the Episode and the facts of one view of it, excludes the  *)
(* templates of the catalog that are not eligible, picks the best of what  *)
(* remains round by round, and is only given out if the Episode has not    *)
(* moved; others request, start and complete checks meanwhile.  Scores are *)
(* in units of 1 / Unit.  Identities and traces are left out; who may read *)
(* and approve is CommandCore's.  Definitions marked "Mistake" are as in   *)
(* ArtifactStore.                                                          *)
(***************************************************************************)
EXTENDS Integers, SequencesExt

CONSTANTS Catalog,    \* the templates of CheckTemplateCatalog
          FactSets,   \* the facts that a profile may give
          Pairs,      \* of competing hypotheses
          Weight,     \* reviewed weight of each: PlannerPolicy
          Groups,     \* of evidence that depends on each other
          MaxRecommendations,
          Unit, MaxVersion,   \* bounds of the model
          None

VARIABLES episode,    \* the workflow of the Episode
          planning,   \* the plan that is computed
          disclosed   \* history: the plan that was given out, until the next one begins

vars == <<episode, planning, disclosed>>

Never == 1000000      \* 2^63 - 1 seconds

\* One capability, one prerequisite and one source of turnaround for each template.
Template == [id : Nat, path : {"DISCRIMINATION", "PREREQUISITE_VALIDATION"},
             rubric : [Pairs -> 0 .. 2], groups : SUBSET Groups, redundant : SUBSET Nat,
             effort : 1 .. 4, disruption : 0 .. 4, maxAge : Nat, reuse : Nat,
             anyContext : BOOLEAN]
Fact == [state : {"AVAILABLE", "UNAVAILABLE", "STALE", "UNQUALIFIED", "UNKNOWN"},
         observed : Nat \cup {None}, until : Nat, qualified : BOOLEAN, prerequisite :
         {"SATISFIED", "MISSING", "STALE", "UNKNOWN"}, valid : BOOLEAN,
         seconds : Nat \cup {None}, unknownTurnaround : BOOLEAN]
Facts == [asOf : Nat, context : BOOLEAN, unresolved : SUBSET Pairs, deadline : Nat \cup {None},
          of : [Catalog -> Fact]]
Check == [status : {"NONE", "REQUESTED", "STARTED", "COMPLETED"}, evidence : BOOLEAN, at : Nat]

\* CheckTemplateCatalog and PlannerPolicy
CatalogIsValid ==
  /\ Catalog \subseteq Template /\ FactSets \subseteq Facts
  /\ \A t \in Catalog : t.id \notin t.redundant /\ t.redundant \subseteq {u.id : u \in Catalog}
  /\ \A t, u \in Catalog : t.id = u.id => t = u
  /\ \A p \in Pairs : Weight[p] > 0
  /\ MaxRecommendations \in 1 .. 3

NoCheck == [status |-> "NONE", evidence |-> FALSE, at |-> 0]

TypeOK ==
  /\ episode \in [version : 0 .. MaxVersion, open : BOOLEAN, checks : [Catalog -> Check]]
  /\ planning # None => planning.facts \in FactSets /\ planning.candidates \subseteq Catalog
  /\ disclosed # None => {r.template : r \in ToSet(disclosed.chosen)} \subseteq Catalog

Init ==
  /\ episode = [version |-> 0, open |-> TRUE, checks |-> [t \in Catalog |-> NoCheck]]
  /\ planning = None
  /\ disclosed = None

-----------------------------------------------------------------------------
\* What else happens to the Episode: decision_loop.py, and the passing of time.
Work(t) ==
  /\ episode.open /\ episode.version < MaxVersion
  /\ \E status \in {"REQUESTED", "STARTED", "COMPLETED"}, evidence \in BOOLEAN,
        at \in {f.asOf : f \in FactSets} :
       /\ <<episode.checks[t].status, status>> \in
            {<<"NONE", "REQUESTED">>, <<"REQUESTED", "STARTED">>, <<"STARTED", "COMPLETED">>}
       /\ episode' = [episode EXCEPT !.version = @ + 1,
            !.checks[t] = IF status = "COMPLETED" THEN [status |-> status, evidence |-> evidence, at |-> at]
                          ELSE [status |-> status, evidence |-> FALSE, at |-> 0]]
  /\ UNCHANGED <<planning, disclosed>>

Close ==
  /\ episode.open /\ episode.version < MaxVersion
  /\ episode' = [episode EXCEPT !.version = @ + 1, !.open = FALSE]
  /\ UNCHANGED <<planning, disclosed>>

-----------------------------------------------------------------------------
\* _eligibility

\* One capability is available, fresh and qualified, in the order of the code.
CapabilityReasons(t, f) ==
  LET fact == f.of[t]
      stale == fact.observed = None \/ fact.state = "STALE"
  IN CASE fact.state \in {"UNAVAILABLE", "UNKNOWN"} -> {"CAPABILITY_UNAVAILABLE"}
       [] fact.state = "UNQUALIFIED" -> {"UNQUALIFIED_CAPABILITY"}
       [] OTHER -> IF stale THEN {"STALE_EVIDENCE"}
                   ELSE IF f.asOf < fact.observed \/ f.asOf >= fact.until
                          \/ f.asOf - fact.observed > t.maxAge
                        THEN {"STALE_EVIDENCE"}
                        ELSE IF fact.qualified THEN {} ELSE {"UNQUALIFIED_CAPABILITY"}

PrerequisiteReasons(fact) ==
  CASE fact.prerequisite = "MISSING" -> {"MISSING_PREREQUISITE"}
    [] fact.prerequisite = "UNKNOWN" -> {"UNKNOWN_PREREQUISITE"}
    [] fact.prerequisite = "STALE" -> {"STALE_PREREQUISITE"}
    [] fact.prerequisite = "SATISFIED" -> {}

\* A turnaround that is not known is only tolerated where no deadline is.
TurnaroundReasons(t, f) ==
  LET seconds == f.of[t].seconds IN
    IF seconds = None
    THEN IF ~f.of[t].unknownTurnaround THEN {"UNSUPPORTED_TURNAROUND"}
         ELSE IF f.deadline # None THEN {"MISSED_DECISION_WINDOW"} ELSE {}
    ELSE IF f.deadline = None THEN {}
         ELSE IF f.asOf >= f.deadline \/ f.asOf + seconds > f.deadline
              THEN {"MISSED_DECISION_WINDOW"} ELSE {}

\* Evidence of an earlier check that still stands.
StillValid(t, f, check) ==
  /\ check.status = "COMPLETED" /\ check.evidence /\ f.of[t].valid
  /\ check.at <= f.asOf /\ f.asOf <= check.at + t.reuse

Discriminates(t, f) == {p \in f.unresolved : t.rubric[p] > 0}

Excludes(t, f, loop) ==
  [UNSUPPORTED_CONTEXT |-> ~f.context /\ ~t.anyContext,
   LIFECYCLE_CLOSED |-> ~loop.open,
   NO_VALIDATION_PATH |->
     IF f.unresolved = {} THEN t.path # "PREREQUISITE_VALIDATION"
     ELSE t.path = "DISCRIMINATION" /\ Discriminates(t, f) = {},
   CHECK_ALREADY_REQUESTED |-> loop.checks[t].status = "REQUESTED",
   CHECK_IN_PROGRESS |-> loop.checks[t].status = "STARTED",
   VALID_PRIOR_COMPLETION |-> StillValid(t, f, loop.checks[t])]

Reasons(t, f, loop) ==
  {r \in DOMAIN Excludes(t, f, loop) : Excludes(t, f, loop)[r]}
    \cup CapabilityReasons(t, f) \cup PrerequisiteReasons(f.of[t]) \cup TurnaroundReasons(t, f)

Eligible(f, loop) == {t \in Catalog : Reasons(t, f, loop) = {}}

-----------------------------------------------------------------------------
\* _score, _pareto_front and _rank_key
Share(part, whole) == IF whole = 0 THEN 0 ELSE (Unit * part) \div whole

\* The sum of natural numbers: as many as there are in all of them together.
Total(value) == Cardinality(UNION {{x} \X (1 .. value[x]) : x \in DOMAIN value})

\* Of a candidate, after the pairs and groups that are covered: in percent.
Score(t, f, covered) ==
  LET weighted(S) == Total([p \in S \cap f.unresolved |-> Weight[p] * t.rubric[p]])
      age == f.asOf - f.of[t].observed
      ready == Share(IF age < t.maxAge THEN t.maxAge - age ELSE 0, t.maxAge)
      time == IF f.of[t].seconds = None THEN Unit \div 4
              ELSE IF f.deadline = None THEN Unit
              ELSE Share(f.deadline - f.asOf - f.of[t].seconds, f.deadline - f.asOf)
  IN [discrimination |-> Share(weighted(Pairs), 2 * Total([p \in f.unresolved |-> Weight[p]])),
      novelty |-> Share(Cardinality(t.groups \ covered.groups), Cardinality(Groups)),
      feasibility |-> (ready + time) \div 2,
      cost |-> (Share(t.effort, 4) + Share(t.disruption, 4)) \div 2,
      redundancy |-> (Share(weighted(covered.pairs), weighted(Pairs))
                        + Share(Cardinality(t.groups \cap covered.groups), Cardinality(t.groups))) \div 2]

Utility(s) ==
  45 * s.discrimination + 20 * s.novelty + 20 * s.feasibility - 10 * s.cost - 15 * s.redundancy

Seconds(t, f) == IF f.of[t].seconds = None THEN Never ELSE f.of[t].seconds

\* Another that discriminates as much is nowhere worse, and somewhere better.
Dominated(t, f, score) ==
  LET burden(u) == <<score[u].cost, Seconds(u, f), u.disruption>> IN
    \E u \in DOMAIN score :
      /\ score[u].discrimination = score[t].discrimination
      /\ burden(u) # burden(t) /\ \A n \in 1 .. 3 : burden(u)[n] <= burden(t)[n]

RankKey(t, f, score) ==
  <<-Utility(score[t]), -score[t].discrimination, IF Dominated(t, f, score) THEN 1 ELSE 0,
    t.disruption, Seconds(t, f), t.id>>

Less(a, b) == \E n \in DOMAIN a : a[n] < b[n] /\ \A m \in 1 .. n - 1 : a[m] = b[m]

Best(candidates, f, covered) ==
  LET score == [t \in candidates |-> Score(t, f, covered)]
      key == [t \in candidates |-> RankKey(t, f, score)]
  IN CHOOSE t \in candidates : \A u \in candidates \ {t} : Less(key[t], key[u])

\* Mistake: only the redundancy that a template declares for itself.
DeclaresRedundant(t, chosen) == chosen.id \in t.redundant

\* They are redundant by either's word, or by the evidence they depend on.
Redundant(t, chosen) ==
  t.id \in chosen.redundant \/ chosen.id \in t.redundant \/ t.groups \cap chosen.groups # {}

-----------------------------------------------------------------------------
\* plan: the facts are of the view that is read.
Begin(f) ==
  /\ planning = None
  /\ planning' = [facts |-> f, loop |-> episode, candidates |-> Eligible(f, episode), chosen |-> <<>>,
                  covered |-> [pairs |-> {}, groups |-> {}]]
  /\ disclosed' = None
  /\ UNCHANGED episode

More == planning # None /\ planning.candidates # {} /\ Len(planning.chosen) < MaxRecommendations

\* What is told of a check beside its place: the groups of evidence that it
\* adds, and the pairs and groups on which it says nothing.
Recommendation(t, f, covered) ==
  [template |-> t, added |-> t.groups \ covered.groups,
   leaves |-> [pairs |-> f.unresolved \ Discriminates(t, f), groups |-> Groups \ t.groups]]

Round ==
  /\ More
  /\ LET f == planning.facts
         best == Best(planning.candidates, f, planning.covered)
     IN planning' = [planning EXCEPT
          !.candidates = {t \in planning.candidates : t # best /\ ~Redundant(t, best)},
          !.chosen = Append(@, Recommendation(best, f, planning.covered)),
          !.covered = [pairs |-> @.pairs \cup Discriminates(best, f),
                       groups |-> @.groups \cup best.groups]]
  /\ UNCHANGED <<episode, disclosed>>

\* Mistake: the plan is given out as it was computed.
TrustsView(plan) == TRUE

\* _require_still_current
StillCurrent(plan) == plan.loop.version = episode.version

Disclose ==
  /\ planning # None /\ ~More
  /\ IF StillCurrent(planning) THEN disclosed' = planning ELSE UNCHANGED disclosed
  /\ planning' = None
  /\ UNCHANGED episode

Next ==
  \/ \E t \in Catalog : Work(t)
  \/ Close
  \/ \E f \in FactSets : Begin(f)
  \/ Round \/ Disclose

Spec == Init /\ [][Next]_vars

-----------------------------------------------------------------------------
\* A plan that is given out is one for the Episode as it is: nothing that it
\* recommends is requested, running, late or already known, no two of its
\* checks would ask or add the same evidence, none leaves open what it would
\* resolve, no other choice would have come first, and whatever it leaves out is
\* not eligible, redundant, or over the limit.
Sound(plan) ==
  LET f == plan.facts
      told == ToSet(plan.chosen)
      chosen == {r.template : r \in told}
      eligible == Eligible(f, episode)
      first == [pairs |-> {}, groups |-> {}]
  IN /\ chosen \subseteq eligible
     /\ \A t, u \in chosen : t # u => t.groups \cap u.groups = {} /\ t.id \notin u.redundant
     /\ \A t \in chosen : f.deadline # None =>
          f.of[t].seconds # None /\ f.asOf + f.of[t].seconds <= f.deadline
     /\ \A t \in eligible : Utility(Score(t, f, first)) <= Utility(Score(plan.chosen[1].template, f, first))
     /\ \A t \in eligible \ chosen :
          Len(plan.chosen) = MaxRecommendations \/ \E u \in chosen : Redundant(t, u)
     /\ \A r \in told, p \in Pairs :
          p \in r.leaves.pairs => p \in f.unresolved /\ r.template.rubric[p] = 0
     /\ \A r, s \in told : r # s => r.added \cap s.added = {} /\ s.added \subseteq r.leaves.groups

PlansAreCurrent == [][disclosed' # disclosed /\ disclosed' # None => Sound(disclosed')]_vars
=============================================================================
