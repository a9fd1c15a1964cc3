SPECIFICATION Spec
CONSTANTS
  t1 = t1
  t2 = t2
  a1 = a1
  a2 = a2
  a3 = a3
  m1 = m1
  m2 = m2
  NoThread = NoThread
  Null = Null
  Threads <- MCThreads
  HeapAddr <- MCHeapAddr
  MapAddr <- MCMapAddr
  Sizes <- MCSizes
  Counts <- MCCounts
  Threshold = 5
  MapHeader = 2
  Modulus = 32
SYMMETRY MCSymmetry
INVARIANTS
  ErrorKeepsBlock
