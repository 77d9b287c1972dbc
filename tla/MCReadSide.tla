------------------------------ MODULE MCReadSide ------------------------------
(***************************************************************************)
(* A small instance of ReadSide.  As its components share no state, a      *)
(* behaviour runs the one that it starts with.  s1 and s2 are subjects,    *)
(* clients or publishers, r1 to r3 revisions or samples.                   *)
(***************************************************************************)
EXTENDS ReadSide, TLC

CONSTANTS s1, s2, i1, r1, r2, r3, x1, e1

VARIABLE focus

\* Drafts of three partition revisions: two contents of one, an empty one.
Draft(partition, content, event, available, fact, status) ==
  [partition |-> partition, content |-> content, event |-> event, available |-> available,
   fact |-> fact, status |-> status, age |-> 1]
Fact(event, available) == [event |-> event, available |-> available]

SomeDrafts ==
  {Draft("d1", 1, 0, 0, Fact(0, 0), "PUBLISHED"), Draft("d1", 2, 1, 1, Fact(0, 0), "PUBLISHED"),
   Draft("d2", 1, 1, 1, Fact(1, 1), "PUBLISHED"), Draft("d3", 1, 0, 1, None, "INSUFFICIENT"),
   Draft("d3", 1, 0, 1, Fact(0, 1), "QUARANTINED")}
OldSnapshot == {[Draft("d1", 1, 0, 0, Fact(0, 0), "PUBLISHED") EXCEPT !.age = None]}

\* Two threads of one offline adapter and one of another, on a file of an older
\* release.
TwoAndOne == [t \in Threads |-> IF t = "t3" THEN "a2" ELSE "a1"]

\* Evidence that is on time, known late, never known, and two contradictions of
\* which one does not fit the policy.
Shape(observed, available, fits, outcome) ==
  [event |-> observed, observed |-> observed, available |-> available, fits |-> fits,
   outcome |-> outcome]
SomeShapes ==
  {Shape(0, 0, TRUE, "NORMAL"), Shape(0, 1, TRUE, "NORMAL"), Shape(1, 2, TRUE, "NORMAL"),
   Shape(0, None, TRUE, "UNKNOWN"), Shape(1, 1, TRUE, "ABNORMAL"), Shape(1, 1, FALSE, "ABNORMAL")}

-----------------------------------------------------------------------------
MCInit ==
  /\ focus \in {"readers", "heads", "ingress", "offline", "advisory", "recovery",
                "queue health", "source health", "access health"} \cup Subjects
  /\ Init
  /\ focus # "ingress" => \A d \in DOMAIN source : source[d] = None

\* Two readers of one query, of whom one keeps his grants, or one reader of two.
Readable ==
  /\ focus = "readers" => /\ \A e \in Episodes : table'[e] <= 1
                          /\ \E s \in Subjects : authority'[s].revision = 0
  /\ focus \in Subjects => \A s \in Subjects \ {focus} : call'[s] = call[s] /\ authority'[s] = authority[s]

\* A cockpit while the queue, the source, or anything else moves.
Healthy ==
  /\ focus = "queue health" => UNCHANGED <<feed, bytes, gates, promoted, granted>>
  /\ focus = "source health" => UNCHANGED <<jobs, bytes, gates, promoted, granted>>
  /\ focus = "access health" => UNCHANGED <<tick, jobs, feed>>

\* The component at work takes a step.
MCNext ==
  /\ UNCHANGED focus
  /\ \/ focus \in {"readers"} \cup Subjects /\ PagesStep /\ Readable
     \/ focus = "heads" /\ HeadsStep
     \/ focus = "ingress" /\ IngressStep
     \/ focus = "offline" /\ OfflineStep
     \/ focus = "advisory" /\ AdvisoryStep
     \/ focus = "recovery" /\ RecoveryStep
     \/ focus \in {"queue health", "source health", "access health"} /\ HealthStep /\ Healthy

MCSpec == MCInit /\ [][MCNext]_<<vars, focus>>

Symmetry == Permutations({s1, s2}) \cup Permutations({r1, r2, r3})
=============================================================================
