SPECIFICATION FairSpec
CONSTANTS
  main = main
  t1 = t1
  t2 = t2
  t3 = t3
  NoThread = NoThread
  Nobody = Nobody
  Single = Single
  MaxRecursion = 3
  Threads <- MCThreads
  Leaders <- OnlyMain
INVARIANTS
  OneOwner
  AssertionsHold
  RecursionMatchesDepth
PROPERTIES
  DeadlockFree
CHECK_DEADLOCK FALSE
