------------------------------ MODULE EpisodeWork ------------------------------
(***************************************************************************)
(* The work on one Episode and what is read of it, side by side: the       *)
(* decision loop, the plans of next checks, comparable cases, the analysis *)
(* of cohorts, the view that is composed of them, its page, and the view   *)
(* of one asset.  They share no state; each step is one of one of them.    *)
(***************************************************************************)
EXTENDS EpisodeDecisionLoop

CONSTANTS Catalog, FactSets, Pairs, Weight, Groups, MaxRecommendations, Unit, PlannerVersions,
          CaseEpisodes, Sources, Features, CaseDrafts, Manifests, Current, CaseCutoff,
          CandidateLimit, RetrievalPolicies, CaseClock, CaseVersions, MaxAnswers,
          Controls, CohortGroups, CohortSamples, Factors, CohortInstants, CohortCutoff, Onset,
          AffectedEnd, ReadLimit, JobLimit, MaxFactors, CohortFacts, Claims,
          ViewRevisions, ViewVersions, Handlers, PageVersions,
          AssetDrafts, Snapshots, Points, Measures, Questions, HistoryLimit, Skews, AssetClock,
          AssetVersions

VARIABLES episode, planning, disclosed,
          time, published, manifests, subject, retrieving, answers,
          facts, claims, quality,
          head, services, profiles, jobs, composing, given, quiet,
          stored, receipts, view, handler, known,
          clock, revisions, committed, snapshots, flight, inquiry, outcome

Planner == INSTANCE NextCheckPlanner WITH MaxVersion <- PlannerVersions

Cases == INSTANCE ComparableHistory WITH
  Episodes <- CaseEpisodes, Drafts <- CaseDrafts, Cutoff <- CaseCutoff, Policies <- RetrievalPolicies,
  MaxClock <- CaseClock, MaxVersion <- CaseVersions,
  now <- time, head <- subject, reading <- retrieving

Cohorts == INSTANCE RcaAnalysis WITH
  Groups <- CohortGroups, Samples <- CohortSamples, Instants <- CohortInstants,
  Cutoff <- CohortCutoff, Facts <- CohortFacts

Composed == INSTANCE EpisodeInvestigation WITH
  MaxRevision <- ViewRevisions, MaxVersion <- ViewVersions, reading <- composing

Page == INSTANCE EpisodeView WITH MaxVersion <- PageVersions, episode <- stored

Assets == INSTANCE AssetHistory WITH
  Drafts <- AssetDrafts, Bound <- Measures, MaxClock <- AssetClock, MaxVersion <- AssetVersions,
  receipts <- committed

plannerVars == <<episode, planning, disclosed>>
caseVars == <<time, published, manifests, subject, retrieving, answers>>
cohortVars == <<facts, claims, quality>>
composedVars == <<head, services, profiles, jobs, composing, given, quiet>>
pageVars == <<stored, receipts, view, handler, known>>
assetVars == <<clock, revisions, committed, snapshots, flight, inquiry, outcome>>
workVars == <<vars, plannerVars, caseVars, cohortVars, composedVars, pageVars, assetVars>>

-----------------------------------------------------------------------------
\* What the components' constants are.
PlannerAssumption ==
  /\ Planner!CatalogIsValid /\ IsFiniteSet(Catalog) /\ IsFiniteSet(Pairs) /\ IsFiniteSet(Groups)
  /\ Weight \in [Pairs -> Nat] /\ Unit \in Nat

CasesAssumption ==
  /\ CaseDrafts \subseteq Cases!Draft /\ IsFiniteSet(CaseDrafts)
  /\ \A d, e \in CaseDrafts : d.episode = e.episode /\ d.id = e.id => d = e
  /\ Manifests \subseteq Cases!Manifest
  /\ \A m, n \in Manifests : m.source = n.source => m = n
  /\ CaseEpisodes \subseteq Int /\ IsFiniteSet(Features)
  /\ CaseClock \in Nat /\ CaseVersions \in Nat /\ CaseCutoff \in Nat /\ CandidateLimit \in Nat

CohortsAssumption ==
  /\ CohortFacts \subseteq Cohorts!Fact /\ Claims \subseteq Cohorts!Claim
  /\ CohortInstants \subseteq Int /\ CohortCutoff \in Int
  /\ ReadLimit \in Nat /\ JobLimit \in Nat /\ ReadLimit <= JobLimit

AssetsAssumption ==
  /\ AssetDrafts \subseteq Assets!Draft /\ Snapshots \subseteq Assets!Snapshot
  /\ Points \subseteq Assets!Point
  /\ \A s, t \in Snapshots : s.id = t.id => s = t
  /\ AssetClock \in Nat /\ AssetVersions \in [Assets!Episodes -> Nat]
  /\ IsFiniteSet(Skews) /\ Skews \subseteq Nat
  /\ \A q \in Questions : q \in Assets!Question /\ q.start <= q.end /\ q.end <= q.cutoff

\* What a reader has of each component, and what it has given.
Briefs == [revision : 1 .. ViewRevisions, version : 0 .. ViewVersions]
Parts == [Composed!Components ->
            [state : Composed!States,
             of : [revision : 1 .. ViewRevisions, version : 0 .. ViewVersions, cycle : Nat,
                   viewed : {None}] \cup {None}]]
Investigations == [brief : Briefs, parts : Parts, quiet : BOOLEAN]
ComposedAssumption ==
  ViewRevisions \in Nat \ {0} /\ ViewVersions \in Nat /\ None \notin Investigations

PageAssumption == PageVersions \in Nat

ASSUME EpisodeWorkAssumption ==
  /\ PlannerAssumption /\ CasesAssumption /\ CohortsAssumption /\ ComposedAssumption
  /\ PageAssumption /\ AssetsAssumption

-----------------------------------------------------------------------------
WorkInit ==
  /\ Init /\ Planner!Init /\ Cases!Init /\ Cohorts!Init /\ Composed!Init /\ Page!Init
  /\ Assets!Init

LoopStep ==
  Next /\ UNCHANGED <<plannerVars, caseVars, cohortVars, composedVars, pageVars, assetVars>>
PlannerStep ==
  Planner!Next /\ UNCHANGED <<vars, caseVars, cohortVars, composedVars, pageVars, assetVars>>
CasesStep ==
  Cases!Next /\ UNCHANGED <<vars, plannerVars, cohortVars, composedVars, pageVars, assetVars>>
CohortsStep ==
  Cohorts!Next /\ UNCHANGED <<vars, plannerVars, caseVars, composedVars, pageVars, assetVars>>
ComposedStep ==
  Composed!Next /\ UNCHANGED <<vars, plannerVars, caseVars, cohortVars, pageVars, assetVars>>
PageStep ==
  Page!Next /\ UNCHANGED <<vars, plannerVars, caseVars, cohortVars, composedVars, assetVars>>
AssetStep ==
  Assets!Next /\ UNCHANGED <<vars, plannerVars, caseVars, cohortVars, composedVars, pageVars>>

WorkNext ==
  LoopStep \/ PlannerStep \/ CasesStep \/ CohortsStep \/ ComposedStep \/ PageStep \/ AssetStep

WorkSpec == WorkInit /\ [][WorkNext]_workVars

-----------------------------------------------------------------------------
\* A plan of next checks that is given out is of the Episode as it is
\* (NextCheckPlanner).
PlansAreCurrent == Planner!PlansAreCurrent

\* Cases of the past are told as they were known, whole and in order
\* (ComparableHistory); a comparison of cohorts is only given when it is earned,
\* and a job gives the one that a read gives (RcaAnalysis); the view of an asset is
\* what was known by its cutoff (AssetHistory).
AnswersAreAsKnown ==
  Cases!HistoryIsAsKnown /\ Cohorts!AnalysisIsSound /\ Assets!AssetIsAsKnown

\* The components that a composed view shows as ready are of the brief that they
\* are shown with (EpisodeInvestigation), and a page that waits waits for a
\* handler that is under way (EpisodeView).
ViewsAreCoherent ==
  Composed!InvestigationIsCoherent /\ Page!TypeOK /\ Page!WaitsForSomebody

\* What was not known by the cutoff, or is a repetition, changes no comparison
\* (RcaAnalysis), and a page never goes back behind what it showed or was answered
\* (EpisodeView).
AnswersStand == Cohorts!FactsCountOnce /\ Page!NeverGoesBack
=============================================================================
