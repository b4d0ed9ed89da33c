SPECIFICATION MCSpec
CONSTANTS
  Boots <- Larger
  Driven <- Larger
  Requests = {40000}
  Starts = {}
  NewSizes = {}
  Sizes = {}
  Physical = {}
  MaxSpaces = 1
  MaxRegions = 2
  MaxCalls = 1
  Modules <- FilesFor
  Arguments = {}
  MaxTasks = 0
INVARIANT BootFits
CHECK_DEADLOCK FALSE
