SPECIFICATION Spec
CONSTANTS
  Entities = {e1}
  Observers = {}
  Windows = {}
  None = None
  MaxDepth = 2
  MaxQueue = 2
  AllowShutdown = FALSE
INVARIANTS
  AllReleased
\* The entities run out.
CHECK_DEADLOCK FALSE
