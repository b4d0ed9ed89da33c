SPECIFICATION MCSpec
CONSTANTS
  Boots <- AllMachines
  Driven <- AmpleOrScarce
  Requests = {36800}
  Starts <- Around
  NewSizes = {0}
  Sizes = {5000}
  Physical <- PhysicalOne
  MaxSpaces = 3
  MaxRegions = 4
  MaxCalls = 5
  Modules <- FilesFor
  Arguments <- ArgumentSizes
  MaxTasks = 2
INVARIANTS TypeOK TablesShowRegions KernelInEverySpace 
INVARIANTS AttachedBothWays RegionsApart TablesWhereEntriesSay
INVARIANTS LoadedAsLinked TasksApart LoadsUpToFirstMisfit ArgumentsLaidOut
PROPERTY HeapSpec
CHECK_DEADLOCK FALSE
