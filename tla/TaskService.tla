---------------------------- MODULE TaskService ----------------------------
(***************************************************************************)
(* The task services of core/src/task/services.c, with the part of         *)
(* hal/src/x86_64/native_task.c they call.                                 *)
(*                                                                         *)
(* The actions are the calls kernel code makes while the system boots      *)
(* (interrupts are off until the first task switch).  A call that returns  *)
(* false or NULL without having changed anything is a stuttering step and  *)
(* has no action.                                                          *)
(***************************************************************************)
EXTENDS Scheduler, IdMapper, Integers

CONSTANTS
  Registers,   \* values of a register file; 0 is a task without arguments
  Allocation,  \* whether kalloc may succeed, and whether it may fail
  MaxTaskId    \* bound on the handles given out, for model checking

ASSUME RegistersAssumption == 0 \in Registers
ASSUME AllocationAssumption == Allocation \subseteq BOOLEAN
ASSUME MaxTaskIdAssumption == MaxTaskId \in Nat

VARIABLES
  sched,   \* the scheduler state
  tcb,     \* the other fields of each task_t
  mapper   \* task_id_mapper

Modes == {"user", "kernel"}

(***************************************************************************)
(* What a system call returns in rax.                                      *)
(***************************************************************************)
Results == {-1, 0}

(***************************************************************************)
(* native_task_t: the segment selectors cs and ss as a mode, rax, and one  *)
(* value for the registers a system call preserves.                        *)
(***************************************************************************)
Context == [mode : Modes, regs : Registers, rax : Results]

BlankContext == [mode |-> "user", regs |-> 0, rax |-> 0]

TaskRecord ==
  [id : Nat, kernel : BOOLEAN, userdata : Registers, native : Context]

ModeOf(t) == IF tcb[t].kernel THEN "kernel" ELSE "user"

task_service_initialize ==
  /\ mapper = id_mapper_create
  /\ tcb = [t \in Tasks |-> [id |-> 0, kernel |-> FALSE, userdata |-> 0,
                             native |-> BlankContext]]

task_get(id) == id_mapper_get(mapper, id, NoTask)

(***************************************************************************)
(* When the handle cannot be registered task_create gives the task_t back  *)
(* and returns NULL.                                                       *)
(***************************************************************************)
task_create(t, node) ==
  /\ sched.status[t] = "NONE"
  /\ mapper.next <= MaxTaskId
  /\ mapper' = id_mapper_add(mapper, t, node)
  /\ IF node
       THEN /\ sched' = [sched EXCEPT !.status = [@ EXCEPT ![t] = "CREATED"]]
            /\ tcb' = [tcb EXCEPT ![t] =
                         [id |-> mapper.next, kernel |-> FALSE, userdata |-> 0,
                          native |-> BlankContext]]
       ELSE UNCHANGED <<sched, tcb>>

task_set_kernel_mode(t) ==
  /\ sched.status[t] = "CREATED"
  /\ tcb' = [tcb EXCEPT ![t].kernel = TRUE]
  /\ UNCHANGED <<sched, mapper>>

(***************************************************************************)
(* The call that finds room for the arguments.  Without room userdata      *)
(* stays 0, although the call still returns true.                          *)
(***************************************************************************)
task_set_arguments(t) ==
  /\ sched.status[t] = "CREATED"
  /\ tcb[t].userdata = 0
  /\ \E address \in Registers \ {0} :
       tcb' = [tcb EXCEPT ![t].userdata = address]
  /\ UNCHANGED <<sched, mapper>>

(***************************************************************************)
(* The context a task starts with; kalloc has cleared the other registers. *)
(***************************************************************************)
native_task_create(t) ==
  [mode |-> ModeOf(t), regs |-> tcb[t].userdata, rax |-> 0]

\* faulty: a task in any state is started
task_run_Any(t, node) ==
  /\ sched.status[t] # "NONE"
  /\ tcb' = [tcb EXCEPT ![t].native = native_task_create(t)]
  /\ sched' = scheduler_task_ready(sched, t, node)
  /\ UNCHANGED mapper

(***************************************************************************)
(* The call that finds memory for the stack and the context.               *)
(***************************************************************************)
task_run(t, node) ==
  /\ sched.status[t] = "CREATED"
  /\ tcb' = [tcb EXCEPT ![t].native = native_task_create(t)]
  /\ sched' = scheduler_task_ready(sched, t, node)
  /\ UNCHANGED mapper

(***************************************************************************)
(* task_release_resources: the two updates task_destroy makes.             *)
(***************************************************************************)
release_scheduler(s, t, node) == scheduler_task_not_ready(s, t, node)

release_handle(m, t) == id_mapper_del(m, tcb[t].id)

task_destroy(t, node) ==
  /\ sched.status[t] # "NONE"
  /\ sched' = release_scheduler(sched, t, node)
  /\ mapper' = release_handle(mapper, t)
  /\ UNCHANGED tcb
=============================================================================
