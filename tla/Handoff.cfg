\* Two dispatchers that may crash at every step and an operator, with one
\* handoff of two attempts.
CONSTANTS
  h1 = h1
  w1 = w1
  w2 = w2
  r1 = r1
  None = None
  Intents = {h1}
  Owners = {w1, w2}
  Operators = {r1}
  MaxAttempts = 2
  LeaseDuration = 1
  MaxCount = 3
SPECIFICATION LiveSpec
INVARIANTS DeliveredIsTrue TablesAgree
PROPERTIES NothingTakenBack DeliveryJobsEnd
