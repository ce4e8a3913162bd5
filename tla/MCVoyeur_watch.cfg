CONSTANTS
  w1 = w1
  w2 = w2
  m1 = m1
  m2 = m2
  a = a
  b = b
  c = c
  d = d
  Watchers = {w1, w2}
  Mutators = {m1, m2}
  Vals <- DistinctVals
  MaxCalls = 3
SPECIFICATION LiveSpec
INVARIANTS NoLostWakeup CurrentIsVersion
PROPERTY CallsReturn
CHECK_DEADLOCK FALSE
