----------------------------- MODULE TaskMemory -----------------------------
(***************************************************************************)
(* What core/src/task/services.c does with memory: the records of a task,  *)
(* its stack, and the region its arguments are copied to.                  *)
(***************************************************************************)
EXTENDS KernelMemory

TASK == 56
NATIVE_TASK == 168
USERDATA == 16
TASK_DEFAULT_STACK_SIZE == 10 * SYSTEM_PAGE_SIZE

task_create(m) ==
  Then(kalloc(m, TASK), LAMBDA task :
    IF task.v = 0 THEN [m |-> task.m, v |-> FALSE] ELSE id_mapper_add(task.m))

\* a stack where space v has its next address, the native task and a node in
\* the scheduler's queue: the stack's region, 0 when the task is not run.  The
\* task is READY before it is put in the queue, which fails unnoticed.
task_run(m, v) ==
  LET Failed(n) == [m |-> n, v |-> 0, queued |-> FALSE]
  IN IF v = 0 THEN Failed(m)
     ELSE Then(vmem_region_create(m, v, 0, TASK_DEFAULT_STACK_SIZE), LAMBDA stack :
       IF stack.v = 0 THEN Failed(stack.m)
       ELSE Then(kalloc(stack.m, NATIVE_TASK), LAMBDA native :
         IF native.v = 0 THEN Failed(native.m)
         ELSE Then(Node(native.m, TRUE), LAMBDA node :
           [m |-> node.m, v |-> stack.v, queued |-> node.v])))

(***************************************************************************)
(* copy_arguments_to_task: "stores" are the copies it sets out to make,    *)
(* each [vaddr, paddr, size]: the byte a task should find at vaddr is      *)
(* stored through paddr.  That is a physical address, looked up twice, for *)
(* the array of pointers and for the first argument, and counted up from   *)
(* there; what a store reaches depends on the tables that are loaded.      *)
(***************************************************************************)
Total(sizes) == FoldLeft(LAMBDA sum, size : sum + size, 0, sizes)

\* the arguments from data on, up to the first one for which there is no room
CopyFrom(m, v, data, stack, stack_size, sizes) ==
  LET pointers == vmem_get_physical_address(m, v, stack)
      data_phys == vmem_get_physical_address(m, v, data)
      Before(i) == Total(SubSeq(sizes, 1, i - 1))
      Pointer(i) == [vaddr |-> stack + (8 * (i - 1)), paddr |-> pointers + (8 * (i - 1)),
                     size |-> 8, value |-> data + Before(i)]
      Argument(i) == [vaddr |-> data + Before(i), paddr |-> data_phys + Before(i),
                      size |-> sizes[i], value |-> i]
      end == Total(sizes)
      misfits == {i \in DOMAIN sizes : data + Before(i) + sizes[i] > stack + stack_size - USERDATA}
      done == {i \in DOMAIN sizes : \A j \in misfits : i < j}
      copied == {Pointer(i) : i \in done} \cup {Argument(i) : i \in done}
  IN CASE pointers = 0 \/ data_phys = 0 -> [v |-> 0, stores |-> {}]
       [] pointers # 0 /\ data_phys # 0 /\ misfits # {} -> [v |-> 0, stores |-> copied]
       [] OTHER ->
            [v |-> data + end,
             stores |-> copied \cup
               {[vaddr |-> data + end, paddr |-> data_phys + end, size |-> USERDATA, value |-> 0]}]

\* faulty: no room for the pointer that ends the array
copy_arguments_to_task_NoNull(m, v, stack, stack_size, sizes) ==
  CopyFrom(m, v, stack + (8 * Len(sizes)), stack, stack_size, sizes)

copy_arguments_to_task(m, v, stack, stack_size, sizes) ==
  CopyFrom(m, v, stack + (8 * (Len(sizes) + 1)), stack, stack_size, sizes)

\* The tables boot.S made lead the first 6 MB to themselves; those of the
\* kernel are loaded when the allocator is up.  0: a page fault.
Reached(m, page) ==
  CASE m.ready -> WalkIn(m, 1, page)
    [] ~m.ready /\ page < 6 * 1024 * 1024 -> page
    [] OTHER -> 0

\* the offsets at which a store begins and goes on to a new page
Offsets(addr, size) == {0} \cup {k \in {ALIGN_NEXT(addr) + (n * SYSTEM_PAGE_SIZE) - addr : n \in 0 .. 10} : k < size}

Faults(m, store) ==
  store.size > 0 /\ \E k \in Offsets(store.paddr, store.size) : Reached(m, ALIGN(store.paddr + k)) = 0

\* the region is attached to the kernel's space as well; that nothing was
\* copied is not reported
task_set_arguments(m, v, sizes) ==
  LET Refused(n, r) == [m |-> n, region |-> r, copy |-> [v |-> 0, stores |-> {}]]
  IN IF v = 0 THEN Refused(m, 0)
     ELSE Then(vmem_region_create(m, v, 0, TASK_DEFAULT_STACK_SIZE), LAMBDA region :
       IF region.v = 0 THEN Refused(region.m, 0)
       ELSE Then(vmem_attach(region.m, 1, region.v), LAMBDA attach :
         IF ~attach.v THEN Refused(attach.m, region.v)
         ELSE LET r == attach.m.region[region.v]
              IN Then(copy_arguments_to_task(attach.m, v, r.start, r.size, sizes), LAMBDA copy :
                   [m |-> [attach.m EXCEPT !.fault = @ \/ \E s \in copy.stores : Faults(attach.m, s)],
                    region |-> region.v, copy |-> copy])))
=============================================================================
