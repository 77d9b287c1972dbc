------------------------------- MODULE MCRecords ------------------------------
(***************************************************************************)
(* A small instance of Records.  As its components share no state, a       *)
(* behaviour runs the one that it starts with.  a and b are the two who    *)
(* compete, as clients, operators, subjects or engineers, x1 and x2 are    *)
(* texts or rehearsals.                                                    *)
(***************************************************************************)
EXTENDS Records, TLC

CONSTANTS d1, d2, m1, m2, s1, t1, t2, r1, r2, l1, l2, i1, x1, x2, a, b

VARIABLE focus

\* Three stages, of which the last is judged by others.
ThreeStages == <<"DISCOVER_MAP", "DATA_REALITY", "GOLDEN">>

MCInit ==
  /\ focus \in {"artifacts", "releases", "values", "verdicts", "family", "aging", "decisions",
                "backups", "rehearsals", "reviews", "identity", "moving", "composition", "start"}
  /\ focus = "composition" \/ binding = [c \in Composition!Category |-> None]
  /\ focus = "artifacts" \/ catalog = "sqlite"
  /\ focus = "releases" \/ installed = [r \in Roots |-> None]
  /\ Init
  /\ checkout.parts["code"] = d1

\* Values of two categories without reviews, or of one with reviews: three values
\* with one review, or two with two.
Amounts == pending' \notin Values!Review
Verdicts ==
  /\ pending' \in Values!Entry => /\ pending'.category = "benefit"
                                  /\ pending'.id = 3 => Cardinality(reviews) <= 1
  /\ pending' \in Values!Review /\ pending'.id = 2 => Cardinality(entries) <= 2

\* Two pictures of a source that comes and goes, while what is recorded for the first
\* stage stands, or one that gets too old; hosts are at two instants.  Evidence of the stage at
\* which others judge may be older than its record.
Present == {time + ahead : ahead \in FamilyAhead}
Late == {s \in DOMAIN gates : gates'[s] # gates[s] /\ gates'[s].published \notin Present}

Pictures ==
  /\ Late \subseteq Independent
  /\ \/ focus = "family" /\ time' = 0 /\ gates["DISCOVER_MAP"] \in {None, gates'["DISCOVER_MAP"]}
     \/ focus = "aging" /\ source'.snapshot <= 1 /\ (source.up => source'.up) /\ version' <= 6

\* Commands that close, reopen, and of the others one that triggers a handoff and
\* one that does not; two snapshots.
Commanded == episode'[Len(episode')].command # "ClaimEpisode" /\ Cardinality(snapshots') <= 2

\* At most n of the processes have begun.
Begun(processes, n) == Cardinality({p \in DOMAIN processes : processes[p].pc # "idle"}) <= n

\* Two backups in one directory of which only files are damaged, two rehearsals
\* with one target, and reviews of a database that moves on.
Intact ==
  /\ bundle'.dump # None => bundle'.dump.content # "damaged"
  /\ bundle'.manifest # None => ~bundle'.manifest.damaged

Recoveries ==
  \/ /\ focus = "backups" /\ Intact
     /\ Begun(rehearsal', 1) /\ review' = review /\ Len(database') <= 2
  \/ focus = "rehearsals" /\ Begun(backup', 1) /\ review' = review
  \/ focus = "reviews" /\ Begun(backup', 1) /\ Begun(rehearsal', 0)

\* Two releases in two directories, on hosts that stand still.  Preparations and
\* installed hosts share nothing but directories that appear whole: it is enough
\* that the hosts begin when the preparations are over.
QuietStep ==
  /\ \/ Identity!CheckoutStep \/ Identity!PrepareStep \/ Identity!PreflightStep
     \/ \E t \in Targets, optional \in {{}, Identity!Postgres}, kit \in BOOLEAN :
          Identity!Install(t, optional, kit)
  /\ environment' # None => checkout' = checkout /\ preparation' = [p \in Preparers |-> None]

\* One release, whose host does not stand still.
MovingStep ==
  /\ Identity!PrepareStep \/ Identity!HostStep \/ Identity!PreflightStep
  /\ \A p \in Preparers : preparation'[p] # None => preparation'[p].target = t1
  /\ preflight' # None => preflight'.target = t1

\* The component at work takes a step.
MCNext ==
  /\ UNCHANGED focus
  /\ \/ focus = "artifacts" /\ ArtifactStep
     \/ focus = "releases" /\ SelectionStep
     \/ focus = "values" /\ ValueStep /\ Amounts
     \/ focus = "verdicts" /\ ValueStep /\ Verdicts
     \/ focus \in {"family", "aging"} /\ FamilyStep /\ Pictures
     \/ focus = "decisions" /\ DecisionStep /\ Commanded
     \/ focus \in {"backups", "rehearsals", "reviews"} /\ RecoveryStep /\ Recoveries
     \/ focus = "identity" /\ QuietStep /\ UNCHANGED <<keptVars, compositionVars, startVars>>
     \/ focus = "moving" /\ MovingStep /\ UNCHANGED <<keptVars, compositionVars, startVars>>
     \/ focus = "composition" /\ CompositionStep
     \/ focus = "start" /\ StartStep

MCSpec == MCInit /\ [][MCNext]_<<vars, focus>>

Symmetry == Permutations({a, b}) \cup Permutations({x1, x2})
=============================================================================
