CONSTANTS
  t1 = t1
  t2 = t2
  t3 = t3
  kernelMemory = kernelMemory
  Tasks <- ThreeTasks
  NoTask = NoTask
  Memory <- SharedMemory
  KernelMemory = kernelMemory
  Allocation = {TRUE, FALSE}
  Registers = {0}
  MaxTaskId = 3
  Devices = {1}
  SyscallNumbers = {1}
SPECIFICATION FairSpec
PROPERTIES
  NoOvertaking
  NoStarvation
