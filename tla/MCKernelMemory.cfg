CONSTANTS
  t1 = t1
  t2 = t2
  t3 = t3
  kernelMemory = kernelMemory
  Tasks <- TwoTasks
  NoTask = NoTask
  Memory <- OwnMemory
  KernelMemory = kernelMemory
  Allocation = {TRUE, FALSE}
  Registers = {0}
  MaxTaskId = 2
  Devices = {}
  SyscallNumbers = {1}
SPECIFICATION Spec
INVARIANTS
  ScheduledTasksComplete
