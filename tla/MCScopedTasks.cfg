SPECIFICATION ScopeFairSpec
CONSTANTS
  Parents = {p1, p2, p3}
  PoolThreads = {t1, t2, t3}
  Main = main
  OnMain = {p1}
  InScope = {p1, p2}
  Nothing = Nothing
  MaxPolls = 2
INVARIANTS
  EnvironmentOutlives
PROPERTIES
  ScopesEnd
\* The tasks end, or are stuck.
CHECK_DEADLOCK FALSE
