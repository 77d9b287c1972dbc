------------------------ MODULE MCEpisodeDecisionLoop -----------------------
(* Small instances of EpisodeDecisionLoop for TLC. *)
EXTENDS EpisodeDecisionLoop

CONSTANTS s1, s2, s3, s4, e1, e2, k1

Observed(sample, at, outcome) ==
  [sample |-> sample, at |-> at, qualified |-> TRUE, outcome |-> outcome]

\* A sample before and after the effect, an independent one, one that does not
\* qualify, and a contradiction.
SomeObservations ==
  {Observed(s1, 1, "NORMAL"), Observed(s1, 2, "NORMAL"), Observed(s2, 2, "NORMAL"),
   [Observed(s2, 2, "NORMAL") EXCEPT !.qualified = FALSE], Observed(s3, 2, "ABNORMAL")}

\* Three independent samples and a contradiction, all after the effect.
ThreeAndContradiction ==
  {Observed(s, 2, "NORMAL") : s \in {s1, s2, s4}} \cup {Observed(s3, 2, "ABNORMAL")}

Asks(minimum, affirmative) == [minimum |-> minimum, affirmative |-> affirmative]

TwoNormal == {Asks(2, "NORMAL")}
AnyPolicy == {Asks(1, "NORMAL"), Asks(2, "NORMAL"), Asks(1, "ABNORMAL")}
=============================================================================
