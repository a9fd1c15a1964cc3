SPECIFICATION Spec
CONSTANTS
  main = main
  t1 = t1
  t2 = t2
  t3 = t3
  NoThread = NoThread
  Nobody = Nobody
  Single = Single
  MaxRecursion = 3
  Threads <- MCThreads
  Leaders <- WithSeparate
INVARIANTS
  CheckAssertion
CHECK_DEADLOCK FALSE
