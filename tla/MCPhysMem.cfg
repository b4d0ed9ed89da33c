CONSTANTS
  total_memory = 25000
  FirstAddr = 8192
  Ranges <- BoundaryRanges
SPECIFICATION Spec
INVARIANTS
  TypeOK
  UserPagesAreHeld
  ReservedIsSystem
PROPERTIES
  SystemForever
  AllocatedPageIsExclusive
