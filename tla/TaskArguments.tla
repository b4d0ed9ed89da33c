--------------------------- MODULE TaskArguments ----------------------------
(***************************************************************************)
(* The kernel after its modules are loaded: tasks that are created, given  *)
(* arguments and run (task/services.c), over the same memory.              *)
(***************************************************************************)
EXTENDS ModuleLoader

CONSTANTS
  Arguments,   \* the lists of argument sizes a caller may pass
  MaxTasks     \* bound: tasks created

VARIABLE task  \* the tasks: [space, status, sizes, region, userdata, copy]
tvars == <<lvars, task>>

TaskInit == LoaderInit /\ task = <<>>

Load == LoaderNext /\ UNCHANGED task

\* bound: calls from outside on machines that have no modules
Alone == Call /\ Loaded /\ modules = <<>> /\ UNCHANGED <<modules, next, tasks>>

\* the heap moves between the calls
Work(size) == Alone /\ Kalloc(size) /\ UNCHANGED task

\* a new space and a task in it
CreateTask ==
  LET New(v) == [space |-> v, status |-> "CREATED", sizes |-> <<>>, region |-> 0, userdata |-> 0,
                 copy |-> [v |-> 0, stores |-> {}]]
  IN /\ Alone /\ Len(task) < MaxTasks
     /\ Then(vmem_create(mem), LAMBDA space : Then(task_create(space.m), LAMBDA new :
          /\ mem' = new.m
          /\ task' = IF new.v THEN Append(task, New(space.v)) ELSE task))
     /\ UNCHANGED blocks

\* refused when the task runs or has arguments; "copy" is what the call sets
\* out to copy, whether or not it faults on the way
SetArguments(i, sizes) ==
  /\ Alone /\ task[i].status = "CREATED" /\ task[i].userdata = 0
  /\ task[i].region = 0    \* bound: one try for each task
  /\ Then(task_set_arguments(mem, task[i].space, sizes), LAMBDA set :
       /\ mem' = set.m
       /\ task' = [task EXCEPT ![i].sizes = sizes, ![i].region = set.region, ![i].copy = set.copy,
                               ![i].userdata = IF set.m.fault THEN 0 ELSE set.copy.v])
  /\ UNCHANGED blocks

RunTask(i) ==
  /\ Alone /\ task[i].status = "CREATED"
  /\ Then(task_run(mem, task[i].space), LAMBDA run :
       /\ mem' = run.m
       /\ task' = IF run.v = 0 THEN task ELSE [task EXCEPT ![i].status = "READY"])
  /\ UNCHANGED blocks

TaskNext == \/ Load
            \/ \E size \in Requests : Work(size)
            \/ CreateTask
            \/ \E i \in DOMAIN task :
                 \/ \E sizes \in Arguments : SetArguments(i, sizes)
                 \/ RunTask(i)

TaskSpec == TaskInit /\ [][TaskNext]_tvars

(***************************************************************************)
(* Properties                                                              *)
(***************************************************************************)
StoreEnd(store) == store.vaddr + store.size

\* copy_arguments_to_task: the arguments are accepted exactly when there is
\* room for all of them.  What is to be copied, also before it turns out that
\* there is none, is inside the region, in parts that do not overlap and leave
\* the pointer that ends the array alone; each pointer leads to its argument.
ArgumentsLaidOut ==
  \A i \in DOMAIN task : task[i].region # 0 =>
    LET t == task[i]
        stores == t.copy.stores
        n == Len(t.sizes)
        start == mem.region[t.region].start
        null == [vaddr |-> start + (8 * n), size |-> 8]
    IN /\ t.copy.v # 0 <=>
            8 * (n + 1) + Total(t.sizes) + USERDATA <= TASK_DEFAULT_STACK_SIZE
       /\ \A s \in stores :
            /\ start <= s.vaddr /\ StoreEnd(s) <= start + TASK_DEFAULT_STACK_SIZE
            /\ \A o \in (stores \ {s}) \cup {null} : StoreEnd(s) <= o.vaddr \/ StoreEnd(o) <= s.vaddr
       /\ t.copy.v # 0 => \A k \in 1 .. n :
            \E p, a \in stores : /\ p.vaddr = start + (8 * (k - 1)) /\ p.value = a.vaddr
                                 /\ a.value = k /\ a.size = t.sizes[k]
=============================================================================
