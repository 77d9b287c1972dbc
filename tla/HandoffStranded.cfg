\* A dispatcher polls between enqueue and the binding of the job.
CONSTANTS
  h1 = h1
  w1 = w1
  r1 = r1
  None = None
  Intents = {h1}
  Owners = {w1}
  Operators = {r1}
  MaxAttempts = 2
  LeaseDuration = 1
  MaxCount = 2
SPECIFICATION Spec
INVARIANTS FailedAfterAttempt
