\* One plan that passes after a contradiction.
CONSTANTS
  s1 = s1
  s2 = s2
  s3 = s3
  s4 = s4
  e1 = e1
  e2 = e2
  k1 = k1
  a1 = a1
  p1 = p1
  None = None
  Engineers = {}
  Checks = {}
  Actions = {a1}
  Plans = {p1}
  Samples = {s1, s2, s3, s4}
  Times = {2}
  Observations <- ThreeAndContradiction
  Policies <- TwoNormal
  Durations = {0}
  Dispositions = {"CONFIRMED_ISSUE"}
  FirstCycles = {0}
  MaxCycles = 1
  MaxAssessments = 4
SPECIFICATION Spec
INVARIANT ClosureCitesProgress
CHECK_DEADLOCK FALSE
