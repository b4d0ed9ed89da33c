SPECIFICATION MCSpec
CONSTANTS
  Boots <- Ample
  Driven <- Ample
  Requests = {36800}
  Starts = {}
  NewSizes = {}
  Sizes = {}
  Physical = {}
  MaxSpaces = 2
  MaxRegions = 2
  MaxCalls = 5
  Modules <- FilesFor
  Arguments = {}
  MaxTasks = 0
INVARIANT KernelFoundInEverySpace
CHECK_DEADLOCK FALSE
