----------------------------- MODULE MCKernel -----------------------------
(***************************************************************************)
(* Instances of Kernel for TLC.                                            *)
(***************************************************************************)
EXTENDS Kernel

CONSTANTS t1, t2, t3, kernelMemory

TwoTasks == {t1, t2}
ThreeTasks == {t1, t2, t3}

\* the module loader gives every task an address space of its own
OwnMemory == [t \in Tasks |-> <<"memory of", t>>]

\* two tasks in one address space, the third alone
SharedMemory ==
  [t \in Tasks |-> IF t = t3 THEN <<"memory of", t>> ELSE <<"memory of", t1>>]
=============================================================================
