SPECIFICATION FairSpec
CONSTANTS
  None = None
  w1 = w1
  w2 = w2
  w3 = w3
  i1 = i1
  i2 = i2
  i3 = i3
  i4 = i4
  Workers = {w1, w2, w3}
  Items = {i1, i2, i3, i4}
  Repeats = {i1}
  PriorityOf <- ThreeLevels
INVARIANTS
  RunOnce
  NoLostWakeup
  OneWorkerLeft
PROPERTIES
  EveryItemRuns
\* The items run out.
CHECK_DEADLOCK FALSE
