SPECIFICATION Spec
CONSTANTS
  None = None
  w1 = w1
  w2 = w2
  w3 = w3
  i1 = i1
  i2 = i2
  i3 = i3
  i4 = i4
  Workers = {w1, w2}
  Items = {i1, i2}
  Repeats = {}
  PriorityOf <- OneLevel
INVARIANTS
  EndsOnlyDisconnected
\* The items run out.
CHECK_DEADLOCK FALSE
