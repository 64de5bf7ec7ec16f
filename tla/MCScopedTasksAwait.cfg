SPECIFICATION ScopeFairSpec
CONSTANTS
  Parents = {p1}
  PoolThreads = {t1}
  Main = main
  OnMain = {p1}
  InScope = {}
  Nothing = Nothing
  MaxPolls = 2
PROPERTIES
  ParentsEnd
\* The tasks end, or are stuck.
CHECK_DEADLOCK FALSE
