SPECIFICATION Spec
CONSTANTS
  Emitters = {e1}
  MaxSubscribers = 2
  MaxPasses = 1
INVARIANTS
  NoneLeftBehind
\* The ids run out.
CHECK_DEADLOCK FALSE
