SPECIFICATION Spec
CONSTANTS
  Emitters = {e1, e2}
  MaxSubscribers = 3
  MaxPasses = 1
INVARIANTS
  NoLiveLost
  OwnedOnce
  CancelRecorded
  RecordsOfThisPass
\* The ids run out.
CHECK_DEADLOCK FALSE
