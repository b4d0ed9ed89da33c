CONSTANTS
  t1 = t1
  t2 = t2
  t3 = t3
  kernelMemory = kernelMemory
  Tasks <- TwoTasks
  NoTask = NoTask
  Memory <- OwnMemory
  KernelMemory = kernelMemory
  Allocation = {TRUE, FALSE}
  Registers = {0, 1}
  MaxTaskId = 3
  Devices = {1, 5}
  SyscallNumbers = {0, 1, 2, 3}
SPECIFICATION Spec
INVARIANTS
  TypeOK
  OnePlacePerTask
  ReadyTaskLostOnlyWithoutMemory
  CurrentAddressSpace
  PrivilegeKept
  HandlesResolve
PROPERTIES
  RegistersSurviveSwitches
  LifeIsOneWay
