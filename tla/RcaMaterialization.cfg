\* The three attempts of the code, two workers, two callers.
CONSTANTS
  q1 = q1
  w1 = w1
  w2 = w2
  c1 = c1
  c2 = c2
  None = None
  Query = q1
  Owners = {w1, w2}
  Callers = {c1, c2}
  MaxAttempts = 3
  LeaseDuration = 1
SPECIFICATION LiveSpec
INVARIANTS OutcomeIsTrue
PROPERTIES OutcomeIsFinal EveryPromiseSettles
