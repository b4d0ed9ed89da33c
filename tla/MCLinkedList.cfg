CONSTANTS
  n1 = n1
  n2 = n2
  n3 = n3
  a = a
  b = b
  NULL = NULL
  Nodes <- ThreeNodes
  Values <- TwoValues
  Requests <- SparseRequests
SYMMETRY Symmetry
SPECIFICATION Spec
INVARIANTS
  TypeOK
  WellFormed
PROPERTIES
  ImplementsList
