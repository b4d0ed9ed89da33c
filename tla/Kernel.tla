------------------------------- MODULE Kernel -------------------------------
(***************************************************************************)
(* The running kernel: tasks on one processor, the interrupt handlers of   *)
(* hal/src/x86_64/lib/idt.c, the hardware events of core/src/hw_events.c   *)
(* and the system calls, over the task and scheduler services.             *)
(*                                                                         *)
(* Every gate is an interrupt gate and SYSCALL masks IF, so a handler runs *)
(* to its final task switch without being interrupted: one handler is one  *)
(* step.  Between handlers the processor runs the current task, or sleeps  *)
(* with interrupts on.                                                     *)
(***************************************************************************)
EXTENDS TaskService, FiniteSetsExt

CONSTANTS
  Devices,         \* interrupt lines of the PIC that devices raise
  SyscallNumbers   \* the numbers tasks ask for

ASSUME DevicesAssumption == Devices \subseteq {1, 5, 6, 7}
ASSUME SyscallNumbersAssumption == SyscallNumbers \subseteq Nat

VARIABLES
  booted,   \* whether scheduler_switch_task has been entered from boot.S
  cpu,      \* the context the processor executes
  isr       \* in-service register of the interrupt controller

vars == <<sched, tcb, mapper, booted, cpu, isr>>

TimerLine == 0

(***************************************************************************)
(* The kernel leaves the PIC where the firmware put it: line n raises      *)
(* vector 8 + n.  Lines 5 and 6 thus share their vectors with #GP and #PF. *)
(***************************************************************************)
Vector(line) == 8 + line

FaultVectors == {13, 14, 6}

(***************************************************************************)
(* A line is delivered when neither it nor one of higher priority (a lower *)
(* number) is in service.                                                  *)
(***************************************************************************)
Deliverable(line) == booted /\ \A l \in isr : line < l

\* faulty: nothing is sent to the controller
EndOfInterrupt_Missing(lines) == lines

(***************************************************************************)
(* outb(0x20, 0x20): the non-specific end of interrupt ends the service of *)
(* the line of highest priority.                                           *)
(***************************************************************************)
EndOfInterrupt(lines) == lines \ {Min(lines)}

Running == booted /\ sched.current # NoTask

\* faulty: the selectors on the stack are taken
hal_update_current_state_Selectors(frame) ==
  IF sched.current = NoTask THEN tcb
                            ELSE [tcb EXCEPT ![sched.current].native = frame]

\* faulty: the frame is not copied to the task
hal_update_current_state_Unsaved(frame) == tcb

(***************************************************************************)
(* hal_update_current_state: the frame on the kernel stack becomes the     *)
(* saved context of the current task, which keeps its own selectors.       *)
(***************************************************************************)
hal_update_current_state(frame) ==
  IF sched.current = NoTask
    THEN tcb
    ELSE [tcb EXCEPT ![sched.current].native =
            [frame EXCEPT !.mode = tcb[sched.current].native.mode]]

(***************************************************************************)
(* What the processor executes once scheduler_switch_task is done.         *)
(***************************************************************************)
SleepContext == [mode |-> "kernel", regs |-> 0, rax |-> 0]

native_task_switch(s, tasks) ==
  IF s.current = NoTask THEN SleepContext ELSE tasks[s.current].native

(***************************************************************************)
(* scheduler_switch_task called when the services are in state s and the   *)
(* task records are tasks.                                                 *)
(***************************************************************************)
SwitchFrom(s, tasks, node) ==
  /\ sched' = scheduler_switch_task(s, node)
  /\ tcb' = tasks
  /\ cpu' = native_task_switch(scheduler_switch_task(s, node), tasks)

(***************************************************************************)
(* The current task is destroyed, if there is one, and another one chosen: *)
(* handle_protection_fault, handle_page_fault, handle_invalid_operation    *)
(* and syscall_handler_task_exit.                                          *)
(***************************************************************************)
KillCurrentAndSwitch(tasks, node) ==
  LET t == sched.current
  IN  IF t = NoTask
        THEN SwitchFrom(sched, tasks, node) /\ UNCHANGED mapper
        ELSE /\ SwitchFrom(release_scheduler(sched, t, node), tasks, node)
             /\ mapper' = release_handle(mapper, t)

(***************************************************************************)
(* The default case of interrupt_handler: state saved, event logged.       *)
(***************************************************************************)
SaveAndSwitch(node) ==
  /\ SwitchFrom(sched, hal_update_current_state(cpu), node)
  /\ UNCHANGED mapper
-----------------------------------------------------------------------------
Init ==
  /\ sched = scheduler_initialise
  /\ task_service_initialize
  /\ booted = FALSE
  /\ cpu = SleepContext
  /\ isr = {}

(***************************************************************************)
(* Kernel code setting tasks up during boot.                               *)
(***************************************************************************)
BootCall(t, node) ==
  /\ ~booted
  /\ \/ task_create(t, node)
     \/ task_set_kernel_mode(t)
     \/ task_set_arguments(t)
     \/ task_run(t, node)
     \/ task_destroy(t, node)
  /\ UNCHANGED <<booted, cpu, isr>>

(***************************************************************************)
(* kernel_main and native_boot return; boot.S jumps to the scheduler.      *)
(***************************************************************************)
StartScheduling(node) ==
  /\ ~booted
  /\ booted' = TRUE
  /\ SwitchFrom(sched, tcb, node)
  /\ UNCHANGED <<mapper, isr>>

(***************************************************************************)
(* The current task executes an instruction of its own.                    *)
(***************************************************************************)
TaskStep ==
  /\ Running
  /\ \E r \in Registers, v \in Results :
       cpu' = [cpu EXCEPT !.regs = r, !.rax = v]
  /\ UNCHANGED <<sched, tcb, mapper, booted, isr>>

(***************************************************************************)
(* interrupt_handler, case 0x8: handle_task_switch.                        *)
(***************************************************************************)
TimerInterrupt(node) ==
  /\ Deliverable(TimerLine)
  /\ isr' = EndOfInterrupt(isr \cup {TimerLine})
  /\ SaveAndSwitch(node)
  /\ UNCHANGED booted

(***************************************************************************)
(* Any other line: no end of interrupt is sent.                            *)
(***************************************************************************)
DeviceInterrupt(line, node) ==
  /\ Deliverable(line)
  /\ isr' = isr \cup {line}
  /\ IF Vector(line) \in FaultVectors THEN KillCurrentAndSwitch(tcb, node)
                                      ELSE SaveAndSwitch(node)
  /\ UNCHANGED booted

(***************************************************************************)
(* #GP, #PF or #UD raised by the running task, in its own code or in a     *)
(* system call made for it.                                                *)
(***************************************************************************)
FaultingInstruction(node) ==
  /\ Running
  /\ KillCurrentAndSwitch(tcb, node)
  /\ UNCHANGED <<booted, isr>>

(***************************************************************************)
(* An exception without a handler of its own, such as #DE or #BP.          *)
(***************************************************************************)
UnmappedException(node) ==
  /\ Running
  /\ SaveAndSwitch(node)
  /\ UNCHANGED <<booted, isr>>
-----------------------------------------------------------------------------
SYSCALL_MAX_NUMBER == 255
SYSCALL_EXIT == 1
SYSCALL_LOGGING == 2

(***************************************************************************)
(* syscall_vector after syscall_registering.                               *)
(***************************************************************************)
syscall_vector == {SYSCALL_EXIT, SYSCALL_LOGGING}

(***************************************************************************)
(* What handle_syscall returns when the handler returns at all.            *)
(***************************************************************************)
handle_syscall(number) ==
  IF number = 0 \/ number >= SYSCALL_MAX_NUMBER \/ number \notin syscall_vector
    THEN -1
    ELSE 0

(***************************************************************************)
(* int 50: the frame on the kernel stack is resumed with the result.       *)
(***************************************************************************)
SyscallByInterrupt(number, node) ==
  /\ Running
  /\ IF number = SYSCALL_EXIT
       THEN KillCurrentAndSwitch(tcb, node)
       ELSE /\ cpu' = [cpu EXCEPT !.rax = handle_syscall(number)]
            /\ UNCHANGED <<sched, tcb, mapper>>
  /\ UNCHANGED <<booted, isr>>

(***************************************************************************)
(* SYSCALL: syscall_jumper pushes user selectors, saves the frame in the   *)
(* task and resumes from there, with the result.                           *)
(***************************************************************************)
SyscallByJumper(number, node) ==
  LET t == sched.current
      saved == hal_update_current_state([cpu EXCEPT !.mode = "user"])
      done == [saved EXCEPT ![t].native.rax = handle_syscall(number)]
  IN  /\ Running
      /\ IF number = SYSCALL_EXIT
           THEN KillCurrentAndSwitch(saved, node)
           ELSE /\ tcb' = done
                /\ cpu' = done[t].native
                /\ UNCHANGED <<sched, mapper>>
      /\ UNCHANGED <<booted, isr>>

Next ==
  \/ TaskStep
  \/ \E node \in Allocation :
       \/ \E t \in Tasks : BootCall(t, node)
       \/ StartScheduling(node)
       \/ TimerInterrupt(node)
       \/ \E line \in Devices : DeviceInterrupt(line, node)
       \/ FaultingInstruction(node)
       \/ UnmappedException(node)
       \/ \E n \in SyscallNumbers :
            SyscallByInterrupt(n, node) \/ SyscallByJumper(n, node)

Spec == Init /\ [][Next]_vars

(***************************************************************************)
(* The timer is periodic: a tick that stays deliverable is delivered.      *)
(* Nothing is assumed of the tasks or of the other devices.                *)
(***************************************************************************)
Tick == \E node \in Allocation : TimerInterrupt(node)

FairSpec == Spec /\ WF_vars(Tick)
-----------------------------------------------------------------------------
TypeOK ==
  /\ sched \in SchedulerState
  /\ tcb \in [Tasks -> TaskRecord]
  /\ mapper \in [list : Seq([id : Nat, val : Tasks]), next : Nat]
  /\ booted \in BOOLEAN
  /\ cpu \in Context
  /\ isr \subseteq Devices \cup {TimerLine}

Queued(t) == t \in ToSet(sched.queue)

ReadyTask(t) == sched.status[t] = "READY"

(***************************************************************************)
(* A task has one place at most: scheduled_tasks holds ready tasks only,   *)
(* each once, and never the one in execution; the task in execution is     *)
(* ready.  Otherwise a destroyed task could be resumed, or one task be     *)
(* given two turns per round.                                              *)
(***************************************************************************)
OnePlacePerTask ==
  /\ IsInjective(sched.queue)
  /\ \A t \in Tasks : Queued(t) => ReadyTask(t) /\ t # sched.current
  /\ sched.current # NoTask => ReadyTask(sched.current)

(***************************************************************************)
(* Every ready task is in execution, in scheduled_tasks, or was dropped    *)
(* when kalloc had no node for it, and is in one of these only: no other   *)
(* path loses a task, and a dropped task never comes back.                 *)
(***************************************************************************)
ReadyTaskLostOnlyWithoutMemory ==
  \A t \in Tasks :
    ReadyTask(t) =>
      (t \in sched.lost <=> t # sched.current /\ ~Queued(t))

(***************************************************************************)
(* The processor translates addresses with the tables of the task it       *)
(* executes, although scheduler_switch_task skips native_vmem_switch when  *)
(* the next task is the current one.                                       *)
(***************************************************************************)
CurrentAddressSpace ==
  sched.current # NoTask => sched.cr3 = Memory[sched.current]

(***************************************************************************)
(* A task executes with the privilege it was created with, whichever way   *)
(* it enters the kernel: SYSCALL always pushes user selectors.             *)
(***************************************************************************)
PrivilegeKept ==
  /\ sched.current # NoTask => cpu.mode = ModeOf(sched.current)
  /\ \A t \in Tasks : ReadyTask(t) => tcb[t].native.mode = ModeOf(t)

(***************************************************************************)
(* task_get finds exactly the tasks created and not destroyed, each under  *)
(* its own handle.                                                         *)
(***************************************************************************)
HandlesResolve ==
  \A t \in Tasks :
    task_get(tcb[t].id) =
      IF sched.status[t] \in {"CREATED", "READY"} THEN t ELSE NoTask

(***************************************************************************)
(* The registers of a task: in the processor or saved in its native_task.  *)
(***************************************************************************)
RegistersOf(t) ==
  LET context == IF sched.current = t THEN cpu ELSE tcb[t].native
  IN  <<context.regs, context.rax>>

(***************************************************************************)
(* A started task's registers change only by its own instructions and by   *)
(* the result of its own system call, never by being interrupted and       *)
(* resumed, whatever happened to other tasks in between.                   *)
(***************************************************************************)
RegistersSurviveSwitches ==
  [][\A t \in Tasks :
       ReadyTask(t) /\ RegistersOf(t)' # RegistersOf(t) =>
         \/ sched'.status[t] = "NOT_READY"
         \/ sched.current = t /\ UNCHANGED <<sched, mapper, isr>>]_vars

(***************************************************************************)
(* Round robin: a task that waits never falls back in scheduled_tasks, and *)
(* it moves up each time another task is given the processor; so it waits  *)
(* for those before it once, whoever else is started, preempted or killed. *)
(***************************************************************************)
Position(t) == CHOOSE i \in DOMAIN sched.queue : sched.queue[i] = t

NoOvertaking ==
  [][\A t \in Tasks :
       Queued(t) /\ Queued(t)' =>
         /\ Position(t)' <= Position(t)
         /\ sched'.current \notin {sched.current, NoTask} =>
              Position(t)' < Position(t)]_vars

(***************************************************************************)
(* A destroyed task is never executed or scheduled again, and a task once  *)
(* started never returns to the states that precede its start.             *)
(***************************************************************************)
Rank(t) ==
  CHOOSE i \in 1..4 :
    <<"NONE", "CREATED", "READY", "NOT_READY">>[i] = sched.status[t]

LifeIsOneWay == [][\A t \in Tasks : Rank(t) <= Rank(t)']_vars

(***************************************************************************)
(* The comment on scheduled_tasks (scheduler/services.c:10) without        *)
(* condition: it "contains all tasks ready to execute, unless task already *)
(* in execution".                                                          *)
(***************************************************************************)
ScheduledTasksComplete ==
  \A t \in Tasks : ReadyTask(t) /\ t # sched.current => Queued(t)

(***************************************************************************)
(* A task in scheduled_tasks is executed some time later, as long as the   *)
(* timer ticks: in particular every tick is acknowledged, and a processor  *)
(* put to sleep with a ready task wakes up for it.                         *)
(***************************************************************************)
NoStarvation ==
  \A t \in Tasks : (booted /\ Queued(t)) ~> (sched.current = t)
=============================================================================
