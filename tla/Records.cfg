\* Two of everything that competes, and clocks of three instants.
CONSTANTS
  d1 = d1
  d2 = d2
  m1 = m1
  m2 = m2
  s1 = s1
  t1 = t1
  t2 = t2
  r1 = r1
  r2 = r2
  l1 = l1
  l2 = l2
  i1 = i1
  x1 = x1
  x2 = x2
  a = a
  b = b
  None = None
  Digests = {d1, d2}
  Scopes = {s1}
  Metadata = {m1, m2}
  Clients = {a, b}
  Catalogs = {"postgresql", "sqlite"}
  Slots = {t1, t2}
  Roots = {r1, r2}
  Releases = {l1, l2}
  Inputs = {i1}
  Operators = {a, b}
  MaxGeneration = 3
  Subjects = {a, b}
  Ahead = {0, 1}
  FamilyAhead = {0, 1}
  Categories = {"benefit", "observed_outcome"}
  ValueClock = 2
  MaxEntries = 3
  MaxReviews = 2
  Stages <- ThreeStages
  NotApplicable = {}
  Independent = {"GOLDEN"}
  Freshness = 1
  Lifetimes = {1}
  FamilyClock = 1
  FamilyVersion = 7
  MaxSnapshots = 2
  Engineers = {a, b}
  Selectors = {"r1"}
  Texts = {x1, x2}
  EpisodeVersion = 3
  Rows = {d1, "state", "other"}
  Critical = {d1, "state"}
  Blobs = {d1}
  Backups = {a, b}
  Rehearsals = {x1, x2}
  Reviews = {"against", "reconcile"}
  MaxCommits = 2
  Contents = {d1, d2}
  Preparers = {s1}
  Targets = {t1, t2}
  MaxEdits = 1
  MaxDrifts = 2
  Callers = {a, b}
  Versions = {1, 2}
  Published = 1
  MaxSettings = 3
SPECIFICATION MCSpec
SYMMETRY Symmetry
INVARIANTS ArtifactsStand SelectionStands ValueIsSound QualifiedIsEarned DecisionsAreTrue BackupsAreTrue
PROPERTIES RecordsStand
CHECK_DEADLOCK FALSE
