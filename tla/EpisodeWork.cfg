\* One cycle with one plan and every order of three observations; three cycles
\* of one check; four templates of next checks.  A closed cycle that may not be
\* reopened is the end, and so is a planner whose Episode is closed.
CONSTANTS
  s1 = s1
  s2 = s2
  s3 = s3
  s4 = s4
  a1 = a1
  e1 = e1
  e2 = e2
  k1 = k1
  p1 = p1
  None = None
  Engineers = {e1, e2}
  Checks = {k1}
  Actions = {a1}
  Plans = {p1}
  Samples = {s1, s2, s3}
  Times = {1, 2}
  Observations <- SomeObservations
  Policies <- AnyPolicy
  Durations = {0}
  Dispositions = {"CONFIRMED_ISSUE", "UNRESOLVED"}
  FirstCycles = {0, 2, 3}
  MaxCycles = 3
  MaxAssessments = 3
  Catalog <- Templates
  FactSets <- Profiles
  Pairs = {"p", "q"}
  Weight <- Weighted
  Groups = {"g", "h"}
  MaxRecommendations = 2
  Unit = 240
  PlannerVersions = 3
  CaseEpisodes = {1, 2}
  Sources = {"s", "t"}
  Features = {"f", "g"}
  CaseDrafts <- SomeCases
  Manifests <- SomeManifests
  Current <- ThisCase
  CaseCutoff = 1
  CandidateLimit = 2
  RetrievalPolicies = {2}
  CaseClock = 2
  CaseVersions = 1
  MaxAnswers = 2
  Controls = {"x", "y"}
  CohortGroups = {1, 2}
  CohortSamples = {1, 2}
  Factors = {"p", "q"}
  CohortInstants = {0, 1, 2}
  CohortCutoff = 1
  Onset = 0
  AffectedEnd = 0
  ReadLimit = 2
  JobLimit = 5
  MaxFactors = 1
  CohortFacts <- SomeFacts
  Claims <- SomeClaims
  ViewRevisions = 2
  ViewVersions = 1
  Handlers = {1, 2}
  PageVersions = 2
  AssetDrafts <- SomeRevisions
  Snapshots <- SomeSnapshots
  Points <- SomePoints
  Measures = "t"
  Questions <- SomeQuestions
  HistoryLimit = 2
  Skews = {0, 1}
  AssetClock = 1
  AssetVersions <- TwoOfOne
SPECIFICATION MCSpec
INVARIANTS WorkStaysUsable ProgressIsEvidence ClosuresAreEarned AnswersAreAsKnown ViewsAreCoherent
PROPERTIES HistoryStands PlansAreCurrent AnswersStand
CHECK_DEADLOCK FALSE
