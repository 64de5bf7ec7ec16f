CONSTANTS
  Main = main
  Threads = {main, worker}
  Handles = {h1, h2, h3}
  MaxEntities = 2
SPECIFICATION Spec
SYMMETRY HandleSymmetry
INVARIANTS
  RefCountExact
  DroppedQueueExact
  DataOutlivesHandles
PROPERTIES
  ImplementsLifetime
CHECK_DEADLOCK FALSE
