\* Two sessions of a client send one command.
CONSTANTS
  c1 = c1
  c2 = c2
  k1 = k1
  a1 = a1
  None = None
  Calls = {c1, c2}
  Keys = {k1}
  Aggregates = {a1}
  Seeded = {a1}
  Payloads = {0, 1}
  MaxVersion = 1
  Target = a1
  Expected = 0
SPECIFICATION RetrySpec
INVARIANT RetryIsRecognized
