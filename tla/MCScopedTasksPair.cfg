SPECIFICATION ScopeSpec
CONSTANTS
  Parents = {p1, p2}
  PoolThreads = {t1, t2}
  Main = main
  OnMain = {p1}
  InScope = {p2}
  Nothing = Nothing
  MaxPolls = 1
INVARIANTS
  FrameOutlives
CHECK_DEADLOCK FALSE
