SPECIFICATION AllSpec
CONSTANTS
  Objects <- MCObjects
  Elems <- MCElems
  Nodes <- MCNodes
  FirstCapacity = 1
  MaxCells = 6
  Keys <- MCKeys
  Values <- MCValues
  Default = moved
  HashOf <- MCHashOf
  MinCapacity = 3
  Load = 150
  MaxCapacity = 6
  Extracted <- MCExtracted
  Asked <- MCAsked
  Requests <- MCRequests
  NoNode = NoNode
  Nobody = Nobody
  c1 = c1
  c2 = c2
  c3 = c3
  k1 = k1
  k2 = k2
  k3 = k3
  v1 = v1
  moved = moved
  n1 = n1
  n2 = n2
  n3 = n3
  MayFail = TRUE
SYMMETRY MCSymmetry
INVARIANTS
  HashRight
  TreeRight
  ListLinks
PROPERTIES
  HashImplements
  TreeImplements
  VectorImplements
  ListImplements
CHECK_DEADLOCK FALSE
