SPECIFICATION MCSpec
CONSTANTS
  Boots <- Ample
  Driven <- Ample
  Requests = {452500}
  Starts <- Across
  NewSizes = {8192}
  Sizes = {}
  Physical = {}
  MaxSpaces = 1
  MaxRegions = 4
  MaxCalls = 7
  Modules <- FilesFor
  Arguments = {}
  MaxTasks = 0
INVARIANT StructureHoldsRecords
CHECK_DEADLOCK FALSE
