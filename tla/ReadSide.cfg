\* Two subjects with one retained snapshot; one entity with three revisions and
\* two publishers; two publishers of three partitions; three
\* threads on two adapters of one file with two versions of one group.
CONSTANTS
  s1 = s1
  s2 = s2
  i1 = i1
  r1 = r1
  r2 = r2
  r3 = r3
  x1 = x1
  e1 = e1
  None = None
  Episodes = {1, 2}
  Subjects = {s1, s2}
  Snapshots = {i1}
  PageSizes = {1}
  MaxRows = 2
  Ttl = 1
  MaxState = 2
  MaxRevision = 1
  Entities = {e1}
  Revisions = {r1, r2, r3}
  HeadPublishers = {s1, s2}
  Readers = {x1}
  MaxWorkflow = 1
  HeadClock = 1
  Partitions = {"d1", "d2", "d3"}
  Drafts <- SomeDrafts
  LegacySnapshots <- OldSnapshot
  SourcePublishers = {s1, s2}
  SourceClock = 2
  Adapters = {"a1", "a2"}
  Threads = {"t1", "t2", "t3"}
  AdapterOf <- TwoAndOne
  Groups = {"g1"}
  LegacyGroups = {"g1"}
  Keys = {"k1", "k2"}
  GroupVersions = 2
  AdvisoryEpisodes = {e1}
  Clients = {s1, s2}
  Damaged = None
  AdvisoryVersions = 2
  MaxCheckpoints = 1
  Ids = {r1, r2, r3}
  Samples = {r1, r2, r3}
  Shapes <- SomeShapes
  Needed = 2
  MaxAge = 1
  MaxDelay = 1
  RecoveryClock = 2
  MaxSubmissions = 3
  Jobs = {e1}
  Blobs = {x1}
  Gates = {i1}
  Inspected = {x1}
  Freshness = 0
  Moving = {"clock", "jobs", "source", "bytes", "gates", "granted"}
  HealthClock = 2
SPECIFICATION MCSpec
SYMMETRY Symmetry
INVARIANTS PagesAreOneAnswer HeadsAreLinear CapabilityIsEarned OfflineIsSound EvidenceCountsOnce
PROPERTIES StepsAreCommands
CHECK_DEADLOCK FALSE
