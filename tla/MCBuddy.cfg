SPECIFICATION FairSpec
CONSTANTS
  Depth = 3
  MinAlloc = 4
  HeaderSize = 1
  ListSize = 2
  Modulus = 128
  Chunk = 8
  Prefix = 3
  Requests <- MCRequests
INVARIANTS
  Partition
  BitsAreRight
  Coalesced
  TouchesReserved
PROPERTIES
  ImplementsHeap
  CallsReturn
