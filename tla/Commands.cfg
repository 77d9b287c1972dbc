\* Two calls with two command keys on two aggregates.
CONSTANTS
  c1 = c1
  c2 = c2
  k1 = k1
  k2 = k2
  a1 = a1
  a2 = a2
  p1 = p1
  None = None
  Calls = {c1, c2}
  Keys = {k1, k2}
  Aggregates = {a1, a2}
  Seeded = {a1}
  Payloads = {p1}
  MaxVersion = 1
SPECIFICATION LiveSpec
INVARIANTS EffectsOnce AnswersAgree
PROPERTIES NoConflictWithSelf RevokedLearnsNothing RefinesCommands EveryCallEnds
