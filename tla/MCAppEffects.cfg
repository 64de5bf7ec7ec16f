SPECIFICATION Spec
CONSTANTS
  Entities = {e1, e2}
  Observers = {o1}
  Windows = {w1}
  None = None
  MaxDepth = 4
  MaxQueue = 3
  AllowShutdown = TRUE
SYMMETRY Symmetry
INVARIANTS
  UpdatesCounted
  NotifyQueuedOnce
  NothingLeasedWhileFlushing
  Quiescent
  NotifyDelivered
  NoObserverOfReleased
\* The entities and observers run out.
CHECK_DEADLOCK FALSE
