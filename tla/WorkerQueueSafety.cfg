\* Two jobs, two workers, one aggregate, leases of two ticks.
CONSTANTS
  j1 = j1
  j2 = j2
  w1 = w1
  w2 = w2
  p1 = p1
  p2 = p2
  e1 = e1
  i1 = i1
  None = None
  Jobs = {j1, j2}
  Owners = {w1, w2}
  Payloads = {p1, p2}
  EffectKeys = {e1}
  Inputs = {i1}
  MaxAttempts = 2
  LeaseDuration = 2
  MaxDelay = 1
  MaxVersion = 3
SPECIFICATION Spec
SYMMETRY Symmetry
INVARIANTS OneGrantPerEpoch EffectsExactlyOnce NoCanceledEffect EnqueueAgreement
PROPERTIES LapsedStaysLapsed RefinesFencedJobs
