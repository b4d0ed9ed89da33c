----------------------------- MODULE Scheduler -----------------------------
(***************************************************************************)
(* The round-robin scheduler of core/src/scheduler/services.c.             *)
(*                                                                         *)
(* The scheduler is a passive service: it runs inside interrupt handlers   *)
(* and system calls, one call after another.  Each service is therefore a  *)
(* function from a scheduler state to the next one, so that a handler      *)
(* making several calls in a row is the composition of those functions     *)
(* (see Kernel).  A scheduler state is a record with                       *)
(*   status  - task_t.status; "NONE" is a task_t not allocated yet         *)
(*   queue   - scheduled_tasks                                             *)
(*   current - current_task, NoTask standing for NULL                      *)
(*   cr3     - the address space loaded in the processor                   *)
(*   lost    - history: the tasks whose linkedlist_append has failed       *)
(*                                                                         *)
(* linkedlist_append takes its node from kalloc, and fails when there is   *)
(* none.  The argument "node" says whether there is one; no handler makes  *)
(* more than one append to scheduled_tasks.                                *)
(***************************************************************************)
EXTENDS Naturals, SequencesExt

CONSTANTS
  Tasks,         \* the task_t objects
  NoTask,        \* the NULL task pointer
  Memory,        \* task_t.memory_handler of each task
  KernelMemory   \* the address space loaded while booting

ASSUME NoTaskAssumption == NoTask \notin Tasks
ASSUME MemoryAssumption == DOMAIN Memory = Tasks

Status == {"NONE", "CREATED", "READY", "NOT_READY"}

AddressSpaces == {KernelMemory} \cup {Memory[t] : t \in Tasks}

SchedulerState ==
  [status  : [Tasks -> Status],
   queue   : Seq(Tasks),
   current : Tasks \cup {NoTask},
   cr3     : AddressSpaces,
   lost    : SUBSET Tasks]

scheduler_initialise ==
  [status  |-> [t \in Tasks |-> "NONE"],
   queue   |-> << >>,
   current |-> NoTask,
   cr3     |-> KernelMemory,
   lost    |-> {}]

\* faulty: the task is put first
enqueue_First(s, t, node) ==
  IF node THEN [s EXCEPT !.queue = <<t>> \o @]
          ELSE [s EXCEPT !.lost = @ \cup {t}]

(***************************************************************************)
(* linkedlist_append(scheduled_tasks, t); the scheduler ignores its result.*)
(***************************************************************************)
enqueue(s, t, node) ==
  IF node THEN [s EXCEPT !.queue = Append(@, t)]
          ELSE [s EXCEPT !.lost = @ \cup {t}]

\* faulty: current_task is cleared before it is appended
scheduler_clear_current_task_Early(s, node) ==
  LET cleared == [s EXCEPT !.current = NoTask]
  IN  IF s.current # NoTask /\ s.status[s.current] = "READY"
        THEN enqueue(cleared, cleared.current, node)
        ELSE cleared

\* faulty: the status is not looked at
scheduler_clear_current_task_Any(s, node) ==
  IF s.current = NoTask
    THEN s
    ELSE [enqueue(s, s.current, node) EXCEPT !.current = NoTask]

scheduler_clear_current_task(s, node) ==
  IF s.current = NoTask
    THEN s
    ELSE [(IF s.status[s.current] = "READY" THEN enqueue(s, s.current, node)
                                            ELSE s) EXCEPT !.current = NoTask]

scheduler_task_not_ready(s, t, node) ==
  LET removed == [s EXCEPT !.status = [@ EXCEPT ![t] = "NOT_READY"],
                           !.queue  = RemoveFirst(@, t)]
  IN  IF s.current = t THEN scheduler_clear_current_task(removed, node)
                       ELSE removed

scheduler_task_ready(s, t, node) ==
  enqueue([s EXCEPT !.status = [@ EXCEPT ![t] = "READY"]], t, node)

\* faulty: the task that was current is forgotten
scheduler_switch_task_Forget(s, node) ==
  IF s.queue = << >>
    THEN scheduler_clear_current_task(s, node)
    ELSE [s EXCEPT !.queue = Tail(@), !.current = Head(s.queue),
                   !.cr3 = Memory[Head(s.queue)]]

\* faulty: the address space is not switched
scheduler_switch_task_SameSpace(s, node) ==
  IF s.queue = << >>
    THEN scheduler_clear_current_task(s, node)
    ELSE [scheduler_clear_current_task([s EXCEPT !.queue = Tail(@)], node)
            EXCEPT !.current = Head(s.queue)]

(***************************************************************************)
(* The processor ends up in native_task_switch(current), or asleep in      *)
(* native_task_sleep when current is NoTask.                               *)
(***************************************************************************)
scheduler_switch_task(s, node) ==
  IF s.queue = << >>
    THEN scheduler_clear_current_task(s, node)
    ELSE LET next == Head(s.queue)
             rest == [s EXCEPT !.queue = Tail(@)]
         IN  IF next = s.current
               THEN rest
               ELSE [scheduler_clear_current_task(rest, node)
                       EXCEPT !.current = next, !.cr3 = Memory[next]]
=============================================================================
