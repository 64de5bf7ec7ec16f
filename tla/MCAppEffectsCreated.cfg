SPECIFICATION Spec
CONSTANTS
  Entities = {e1}
  Observers = {o1}
  Windows = {w1}
  None = None
  MaxDepth = 3
  MaxQueue = 2
  AllowShutdown = FALSE
SYMMETRY Symmetry
INVARIANTS
  CreatedWindowFound
\* The entities and observers run out.
CHECK_DEADLOCK FALSE
