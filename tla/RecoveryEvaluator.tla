--------------------------- MODULE RecoveryEvaluator --------------------------
(***************************************************************************)
(* Recovery of an episode from observations that are submitted in any      *)
(* order, early, late or twice: recovery.py.                               *)
(*                                                                         *)
(* Instants are numbers.  The context, characteristic, unit, confidence,   *)
(* reference, capability and attribution of an observation only decide     *)
(* whether it fits the policy; severity decides nothing.  The evaluation   *)
(* cutoff is the caller's, and need not grow.  Definitions marked          *)
(* "Mistake" are as in ArtifactStore.                                      *)
(***************************************************************************)
EXTENDS Integers, Sequences, FiniteSets

CONSTANTS Ids, Samples,   \* observation ids and sampling identities
          Shapes,         \* [event, observed, available, fits, outcome] to submit
          Needed,         \* minimum_eligible_independent_samples
          MaxAge, MaxDelay,
          MaxClock, MaxSubmissions,   \* bounds of the model
          None

VARIABLES submitted,   \* _observations, each with the eligibility it was given
          counted,     \* _eligible_sampling_identities
          episode      \* [state, assessments, eligible]

vars == <<submitted, counted, episode>>

TypeOK ==
  /\ Len(submitted) <= MaxSubmissions
  /\ counted \subseteq Samples
  /\ episode \in [state : {"ACTIVE", "RECOVERING", "RESOLVED"}, assessments : Nat, eligible : Nat]

\* create_episode
Init ==
  /\ submitted = << >>
  /\ counted = {}
  /\ episode = [state |-> "ACTIVE", assessments |-> 0, eligible |-> 0]

-----------------------------------------------------------------------------
Submissions == {submitted[i] : i \in DOMAIN submitted}

\* event_cutoff, availability_cutoff, timing_order, availability_delay, freshness
IsTimely(o, at) ==
  /\ o.event <= o.observed
  /\ o.available # None =>
       o.observed <= o.available /\ o.available - o.observed <= MaxDelay
  /\ o.available # None /\ o.available <= at
  /\ o.event <= at
  /\ o.observed <= at /\ at - o.observed <= MaxAge

\* Mistake: only what was counted is known already.
IsCounted(o) == o.sample \in counted

\* observation_identity and sampling_identity: known is whatever was
\* submitted before, with whatever result.
IsKnown(o) == \E s \in Submissions : s.id = o.id \/ s.sample = o.sample

IsQualified(o, at) == IsTimely(o, at) /\ ~IsKnown(o) /\ o.fits

Evaluated(o, at) ==
  [qualified |-> IsQualified(o, at),
   eligible |-> IsQualified(o, at) /\ o.outcome = "NORMAL",
   contradictory |-> IsQualified(o, at) /\ o.outcome = "ABNORMAL"]

\* Mistake: a contradiction leaves what was counted before it.
KeepsCount(o, result) == IF result.eligible THEN counted \cup {o.sample} ELSE counted

CountAfter(o, result) ==
  CASE result.contradictory -> {}
    [] result.eligible -> counted \cup {o.sample}
    [] OTHER -> counted

StateAfter(result, count) ==
  CASE result.contradictory -> "ACTIVE"
    [] Cardinality(count) >= Needed -> "RESOLVED"
    [] Cardinality(count) \in 1 .. Needed - 1 -> "RECOVERING"
    [] OTHER -> episode.state

\* submit
Submit(o, at) ==
  /\ Len(submitted) < MaxSubmissions
  /\ LET result == Evaluated(o, at)
         count == CountAfter(o, result)
     IN  /\ submitted' = Append(submitted,
              [id |-> o.id, sample |-> o.sample, observed |-> o.observed, result |-> result])
         /\ counted' = count
         /\ episode' = [state |-> StateAfter(result, count),
                        assessments |-> Len(submitted) + 1, eligible |-> Cardinality(count)]

Next ==
  \E i \in Ids, s \in Samples, shape \in Shapes, at \in 0 .. MaxClock :
    Submit([id |-> i, sample |-> s, event |-> shape.event, observed |-> shape.observed,
            available |-> shape.available, fits |-> shape.fits, outcome |-> shape.outcome], at)

Spec == Init /\ [][Next]_vars

-----------------------------------------------------------------------------
Contradictions == {i \in DOMAIN submitted : submitted[i].result.contradictory}
Support == {i \in DOMAIN submitted : submitted[i].result.eligible /\ \A c \in Contradictions : c < i}

\* The state is what the affirmative evidence since the last contradiction
\* makes of it, however it was interleaved with what does not count; and no
\* physical sample has been evidence twice, not across a contradiction either.
RecoveryIsEarned ==
  /\ episode.state = CASE Cardinality(Support) >= Needed -> "RESOLVED"
                       [] Support = {} -> "ACTIVE"
                       [] OTHER -> "RECOVERING"
  /\ episode.eligible = Cardinality(Support) /\ episode.assessments = Len(submitted)
  /\ \A i, j \in DOMAIN submitted :
       i # j /\ submitted[i].sample = submitted[j].sample =>
         ~(submitted[i].result.qualified /\ submitted[j].result.qualified)
=============================================================================
