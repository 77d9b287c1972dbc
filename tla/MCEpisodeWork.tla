----------------------------- MODULE MCEpisodeWork ----------------------------
(***************************************************************************)
(* A small instance of EpisodeWork.  As its components share no state, a   *)
(* behaviour runs the one that it starts with: one cycle with a recovery   *)
(* plan, several cycles of a check, or one of the readers.                 *)
(***************************************************************************)
EXTENDS EpisodeWork, MCEpisodeDecisionLoop

VARIABLE focus

-----------------------------------------------------------------------------
\* Four templates: two that compete, one that depends on the context, and the
\* validation of a prerequisite, which makes one of them redundant.
Template(id, path, p, q, groups, redundant, effort, disruption, any) ==
  [id |-> id, path |-> path, rubric |-> [x \in {"p", "q"} |-> IF x = "p" THEN p ELSE q],
   groups |-> groups, redundant |-> redundant, effort |-> effort, disruption |-> disruption,
   maxAge |-> 2, reuse |-> 1, anyContext |-> any]

Templates ==
  {Template(1, "DISCRIMINATION", 2, 0, {"g"}, {}, 1, 0, TRUE),
   Template(2, "DISCRIMINATION", 1, 1, {"h"}, {}, 2, 1, TRUE),
   Template(3, "DISCRIMINATION", 0, 2, {"g"}, {}, 1, 2, FALSE),
   Template(4, "PREREQUISITE_VALIDATION", 0, 1, {}, {2}, 4, 0, TRUE)}

Good == [state |-> "AVAILABLE", observed |-> 1, until |-> 9, qualified |-> TRUE,
         prerequisite |-> "SATISFIED", valid |-> TRUE, seconds |-> 1, unknownTurnaround |-> FALSE]
Unhurried == [Good EXCEPT !.seconds = None, !.unknownTurnaround = TRUE]

\* Good facts of all templates but the one.
Of(fact, n) == [t \in Templates |-> IF t.id = n THEN fact ELSE Good]
Given(asOf, context, unresolved, deadline, of) ==
  [asOf |-> asOf, context |-> context, unresolved |-> unresolved, deadline |-> deadline,
   of |-> of]

Profiles ==
  {Given(2, TRUE, {"p", "q"}, None, Of(Good, 0)),
   Given(2, FALSE, {"p", "q"}, 3, Of([Good EXCEPT !.seconds = 2], 1)),
   Given(2, TRUE, {}, None, Of(Good, 0)),
   Given(2, TRUE, {"q"}, 3, Of(Unhurried, 2)),
   Given(2, TRUE, {"q"}, None, Of(Unhurried, 2)),
   Given(4, TRUE, {"p"}, None, Of([Good EXCEPT !.observed = 3, !.qualified = FALSE], 4)),
   Given(2, TRUE, {"p", "q"}, 9, Of([Good EXCEPT !.prerequisite = "STALE", !.valid = FALSE], 3)),
   Given(2, TRUE, {"p", "q"}, 9, Of([Good EXCEPT !.state = "UNQUALIFIED"], 2))}

Weighted == [p \in {"p", "q"} |-> IF p = "p" THEN 2 ELSE 1]

-----------------------------------------------------------------------------
\* Revisions of two Episodes, one with claims that are told, not curated, not
\* mature and not known; one source is known to be partial.
Told(at, curated, matures) ==
  [known |-> at, available |-> at, curated |-> curated, matures |-> matures]
Compares(from, eligibility, curated, features, told) ==
  [source |-> from, ok |-> TRUE, eligibility |-> eligibility, curated |-> curated,
   features |-> features, claims |-> told]
Both(n, m) == [x \in {"f", "g"} |-> IF x = "f" THEN n ELSE m]
Past(of, id, at, profile) == [episode |-> of, id |-> id, known |-> at, profile |-> profile]
Manifest(of, status) == [source |-> of, ok |-> TRUE, available |-> 0, status |-> status]

SomeCases ==
  {Past(1, 1, 0, Compares("s", "QUALIFIED", TRUE, Both(1, 2),
                   {Told(0, TRUE, None), Told(0, FALSE, None), Told(0, TRUE, 2), Told(2, TRUE, None)})),
   Past(1, 2, 1, Compares("t", "LIMITED", FALSE, [x \in {"f"} |-> 1], {})),
   Past(2, 3, 0, Compares("s", "QUALIFIED", TRUE, Both(1, 1), {Told(0, TRUE, 1)})),
   Past(2, 4, 0, None)}
SomeManifests == {Manifest("s", "PUBLISHED"), Manifest("t", "PARTIAL")}
ThisCase == Compares("s", "QUALIFIED", TRUE, Both(1, 1), {})

-----------------------------------------------------------------------------
\* Two affected and two control groups, repeated in two control cohorts, at and
\* after the cutoff; one group whose samples are inconsistent.
Measured(cohort, group, sample, factors, event, available) ==
  [cohort |-> cohort, group |-> group, sample |-> sample, factors |-> factors,
   event |-> event, available |-> available]
Claimed(kind, event, available, linked) ==
  [kind |-> kind, event |-> event, available |-> available, linked |-> linked,
   order |-> IF event = 0 THEN "FOLLOWS" ELSE "PRECEDES"]

SomeFacts ==
  {Measured("affected", 1, 1, {"p"}, 1, 1), Measured("affected", 2, 1, {}, 1, 1),
   Measured("affected", 1, 1, {"p"}, 0, 1), Measured("affected", 2, 1, {"p", "q"}, 1, 2),
   Measured("x", 1, 1, {"q"}, 1, 1), Measured("x", 2, 1, {}, 0, 0),
   Measured("y", 1, 2, {"p"}, 0, 1), Measured("y", 1, 1, {}, 0, 0)}
SomeClaims ==
  {Claimed("CANDIDATE_CHANGE", 1, 1, 0), Claimed("CONTROL_REGIME_START", 2, 2, 0),
   Claimed("INTERVENTION_CLAIM", 1, 1, 0), Claimed("INTERVENTION_CLAIM", 0, 0, 1),
   Claimed("CONTROL_REGIME_START", 1, 1, 0), Claimed("HISTORICAL_CLAIM", 0, 1, 2)}

-----------------------------------------------------------------------------
\* Two revisions of an Episode of asset "a", of different targets, and one of its
\* peer; a source snapshot, and a later one of what was available later.
About(id, of, asset, target) ==
  [id |-> id, episode |-> of, asset |-> asset, target |-> target]
From(id, available, limit) ==
  [id |-> id, available |-> available, rows |-> TRUE, limit |-> limit, status |-> "PUBLISHED"]
Seen(snapshot, asset, event, available, qualified) ==
  [snapshot |-> snapshot, asset |-> asset, event |-> event, available |-> available,
   qualified |-> qualified]
By(cutoff, target) ==
  [asset |-> "a", target |-> target, peer |-> "b", start |-> 0, end |-> cutoff, cutoff |-> cutoff]

SomeRevisions == {About(1, 1, "a", "t"), About(2, 1, "a", "u"), About(3, 2, "b", "t")}
SomeSnapshots == {From(1, 0, 0), From(2, 1, 1)}
SomePoints ==
  {Seen(1, "a", 0, 0, TRUE), Seen(1, "a", 0, 1, TRUE), Seen(1, "b", 0, 1, TRUE),
   Seen(2, "a", 1, 1, FALSE), Seen(2, "a", 0, 0, TRUE), Seen(2, "b", 1, 1, TRUE)}
SomeQuestions == {By(0, None), By(1, "t")}
TwoOfOne == [e \in {1, 2} |-> IF e = 1 THEN 2 ELSE 0]

-----------------------------------------------------------------------------
\* The composed view with its services bound, or without them.
MCInit ==
  /\ focus \in {"recovery", "cycles", "planner", "cases", "cohorts", "composed", "page",
                "asset", "asset source"}
  /\ WorkInit
  /\ focus # "cohorts" => \A c \in DOMAIN quality : quality[c].eligibility = "INVALID" /\ quality[c].matches
  /\ services \in {{}, {"history", "jobs"}}
  /\ focus # "composed" => profiles[1].kind = "none" /\ services = {}
  /\ focus # "page" => handler[1].pc = "read"

\* One cycle with a recovery plan and nobody else at work.
Recovers ==
  /\ UNCHANGED owner
  /\ \A i \in DOMAIN cycles' :
       i = 1 /\ cycles'[i].id = 0 /\ \A k \in Checks : cycles'[i].checks[k] = None

\* Three cycles of one check, under names that collide with generated ones.  No
\* plan is ever made.
Cycles ==
  \A i \in DOMAIN cycles' :
    /\ \A a \in Actions : cycles'[i].actions[a] = None
    /\ \A p \in Plans : cycles'[i].plans[p] = None
    /\ \A n \in DOMAIN cycles'[i].closures : cycles'[i].closures[n].plan = None

\* One asset while its workflow is worked on, or while its source publishes.
Writes(tables) == flight' # None => flight'.table \in tables

\* The component at work takes a step.
MCNext ==
  /\ UNCHANGED focus
  /\ \/ focus = "recovery" /\ LoopStep /\ Recovers
     \/ focus = "cycles" /\ LoopStep /\ Cycles
     \/ focus = "planner" /\ PlannerStep
     \/ focus = "cases" /\ CasesStep
     \/ focus = "cohorts" /\ CohortsStep
     \/ focus = "composed" /\ ComposedStep
     \/ focus = "page" /\ PageStep
     \/ focus = "asset" /\ AssetStep /\ Writes({"read_revision", "command_receipt"})
     \/ focus = "asset source" /\ AssetStep /\ Writes({"read_revision", "source_snapshot"})

MCSpec == MCInit /\ [][MCNext]_<<workVars, focus>>
=============================================================================
