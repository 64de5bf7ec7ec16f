SPECIFICATION MainFairSpec
CONSTANTS
  Runnables = {r1, r2, r3}
  Delayed = {r1}
  Blocking = {r2}
INVARIANTS
  QueueServed
PROPERTIES
  EveryRunnableRuns
\* The runnables run out, or the loop is stopped.
CHECK_DEADLOCK FALSE
