SPECIFICATION Spec
CONSTANTS
  Entities = {e1}
  Observers = {o1}
  Windows = {}
  None = None
  MaxDepth = 3
  MaxQueue = 3
  AllowShutdown = FALSE
SYMMETRY Symmetry
INVARIANTS
  NotifyReachesNewObserver
\* The entities and observers run out.
CHECK_DEADLOCK FALSE
