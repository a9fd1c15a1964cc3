SPECIFICATION FairSpec
CONSTANTS
  t1 = t1
  t2 = t2
  t3 = t3
  t4 = t4
  NoThread = NoThread
  Threads <- MCThreads
INVARIANTS
  MutualExclusion
  NoLostWakeup
PROPERTIES
  ImplementsLock
  DeadlockFree
