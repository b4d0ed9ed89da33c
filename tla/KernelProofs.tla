---------------------------- MODULE KernelProofs ----------------------------
(***************************************************************************)
(* The safety of the running kernel for any number of tasks, any use of     *)
(* shared address spaces, and allocations that fail at any time.           *)
(*                                                                         *)
(* The invariants of Kernel are not inductive one by one: that a task is   *)
(* executed in its own address space rests on the queue not holding the    *)
(* current task, that rests on every enqueued task being ready and new to  *)
(* the queue, and so on.  Inv joins them, and adds that nothing is current *)
(* before the first switch.                                                *)
(*                                                                         *)
(* The first part says what each scheduler service does to a scheduler     *)
(* state, whether or not memory is left, and describes the queue by the    *)
(* set of its tasks; the second part builds the invariants on that.        *)
(***************************************************************************)
EXTENDS Kernel, ListFacts

(***************************************************************************)
(* The scheduler                                                           *)
(***************************************************************************)

InQueue(s) == ToSet(s.queue)

(***************************************************************************)
(* A state is a record of its five fields.                                 *)
(***************************************************************************)
LEMMA StateFields ==
  ASSUME NEW s \in SchedulerState
  PROVE  /\ s.status \in [Tasks -> Status]
         /\ s.queue \in Seq(Tasks)
         /\ s.current \in Tasks \cup {NoTask}
         /\ s.cr3 \in AddressSpaces
         /\ s.lost \subseteq Tasks
         /\ InQueue(s) \subseteq Tasks
<1>1. /\ s.status \in [Tasks -> Status]
      /\ s.queue \in Seq(Tasks)
      /\ s.current \in Tasks \cup {NoTask}
      /\ s.cr3 \in AddressSpaces
      /\ s.lost \subseteq Tasks
  BY DEF SchedulerState
<1>2. InQueue(s) \subseteq Tasks
  BY <1>1, LenProperties DEF InQueue, ToSet
<1> QED
  BY <1>1, <1>2

(***************************************************************************)
(* enqueue adds the task to the queue, or to the lost ones when there is   *)
(* no node for it.                                                         *)
(***************************************************************************)
LEMMA EnqueueFacts ==
  ASSUME NEW s \in SchedulerState, NEW t \in Tasks, NEW node \in BOOLEAN
  PROVE  LET r == enqueue(s, t, node)
         IN  /\ r \in SchedulerState
             /\ r.status = s.status
             /\ r.current = s.current
             /\ r.cr3 = s.cr3
             /\ InQueue(r) = InQueue(s) \cup (IF node THEN {t} ELSE {})
             /\ r.lost = s.lost \cup (IF node THEN {} ELSE {t})
             /\ IsInjective(s.queue) /\ t \notin InQueue(s) =>
                  IsInjective(r.queue)
<1> DEFINE r == enqueue(s, t, node)
<1>1. CASE ~node
  <2>1. r = [s EXCEPT !.lost = @ \cup {t}]
    BY <1>1 DEF enqueue
  <2>2. /\ r \in SchedulerState
        /\ r.status = s.status
        /\ r.current = s.current
        /\ r.cr3 = s.cr3
        /\ r.queue = s.queue
        /\ r.lost = s.lost \cup {t}
    BY <2>1 DEF SchedulerState
  <2> HIDE DEF r
  <2> QED
    BY <1>1, <2>2 DEF r, InQueue
<1>2. CASE node
  <2>1. r = [s EXCEPT !.queue = Append(@, t)]
    BY <1>2 DEF enqueue
  <2>2. Append(s.queue, t) \in Seq(Tasks)
    BY StateFields, AppendElements
  <2>3. /\ r \in SchedulerState
        /\ r.status = s.status
        /\ r.current = s.current
        /\ r.cr3 = s.cr3
        /\ r.lost = s.lost
        /\ r.queue = Append(s.queue, t)
    BY <2>1, <2>2 DEF SchedulerState
  <2> HIDE DEF r
  <2>4. /\ ToSet(r.queue) = ToSet(s.queue) \cup {t}
        /\ IsInjective(s.queue) /\ t \notin ToSet(s.queue) => IsInjective(r.queue)
    BY <2>3, StateFields, AppendElements
  <2> QED
    BY <1>2, <2>3, <2>4 DEF r, InQueue
<1> QED
  BY <1>1, <1>2

(***************************************************************************)
(* The tasks scheduler_clear_current_task appends to the queue: the        *)
(* current one, if it is ready.                                            *)
(***************************************************************************)
Resumable(s) ==
  IF s.current # NoTask /\ s.status[s.current] = "READY" THEN {s.current} ELSE {}

(***************************************************************************)
(* scheduler_clear_current_task leaves no current task, and puts a ready   *)
(* one in the queue, or among the lost ones.                               *)
(***************************************************************************)
LEMMA ClearCurrentFacts ==
  ASSUME NEW s \in SchedulerState, NEW node \in BOOLEAN
  PROVE  LET c == scheduler_clear_current_task(s, node)
         IN  /\ c \in SchedulerState
             /\ c.status = s.status
             /\ c.current = NoTask
             /\ c.cr3 = s.cr3
             /\ InQueue(c) = InQueue(s) \cup (IF node THEN Resumable(s) ELSE {})
             /\ c.lost = s.lost \cup (IF node THEN {} ELSE Resumable(s))
             /\ IsInjective(s.queue) /\ s.current \notin InQueue(s) =>
                  IsInjective(c.queue)
<1> DEFINE c == scheduler_clear_current_task(s, node)
           e == IF s.status[s.current] = "READY" THEN enqueue(s, s.current, node)
                                                 ELSE s
<1>1. CASE s.current = NoTask
  <2>1. c = s
    BY <1>1 DEF scheduler_clear_current_task
  <2>2. Resumable(s) = {}
    BY <1>1 DEF Resumable
  <2> QED
    BY <1>1, <2>1, <2>2
<1>2. CASE s.current # NoTask
  <2>1. c = [e EXCEPT !.current = NoTask]
    BY <1>2 DEF scheduler_clear_current_task
  <2>2. /\ e \in SchedulerState
        /\ e.status = s.status
        /\ e.cr3 = s.cr3
        /\ InQueue(e) = InQueue(s) \cup (IF node THEN Resumable(s) ELSE {})
        /\ e.lost = s.lost \cup (IF node THEN {} ELSE Resumable(s))
        /\ IsInjective(s.queue) /\ s.current \notin InQueue(s) =>
             IsInjective(e.queue)
    <3>1. s.current \in Tasks
      BY <1>2, StateFields
    <3>2. CASE s.status[s.current] = "READY"
      <4>1. e = enqueue(s, s.current, node) /\ Resumable(s) = {s.current}
        BY <1>2, <3>2 DEF Resumable
      <4> HIDE DEF e
      <4> QED
        BY <3>1, <4>1, EnqueueFacts
    <3>3. CASE s.status[s.current] # "READY"
      <4>1. e = s /\ Resumable(s) = {}
        BY <3>3 DEF Resumable
      <4> QED
        BY <4>1
    <3> QED
      BY <3>2, <3>3
  <2> HIDE DEF e, c
  <2>3. /\ c \in SchedulerState
        /\ c.status = e.status
        /\ c.current = NoTask
        /\ c.cr3 = e.cr3
        /\ c.lost = e.lost
        /\ c.queue = e.queue
    BY <2>1, <2>2 DEF SchedulerState
  <2> QED
    BY <1>2, <2>2, <2>3 DEF c, InQueue
<1> QED
  BY <1>1, <1>2

(***************************************************************************)
(* scheduler_task_not_ready stops a task for good: it is neither current   *)
(* nor queued, and the other tasks keep their place.                       *)
(***************************************************************************)
LEMMA NotReadyFacts ==
  ASSUME NEW s \in SchedulerState, NEW t \in Tasks, NEW node \in BOOLEAN,
         IsInjective(s.queue)
  PROVE  LET n == scheduler_task_not_ready(s, t, node)
         IN  /\ n \in SchedulerState
             /\ n.status = [s.status EXCEPT ![t] = "NOT_READY"]
             /\ n.current = IF s.current = t THEN NoTask ELSE s.current
             /\ n.cr3 = s.cr3
             /\ n.lost = s.lost
             /\ InQueue(n) = InQueue(s) \ {t}
             /\ IsInjective(n.queue)
<1> DEFINE n == scheduler_task_not_ready(s, t, node)
           removed == [s EXCEPT !.status = [@ EXCEPT ![t] = "NOT_READY"],
                                !.queue  = RemoveFirst(@, t)]
<1>1. /\ RemoveFirst(s.queue, t) \in Seq(Tasks)
      /\ IsInjective(RemoveFirst(s.queue, t))
      /\ ToSet(RemoveFirst(s.queue, t)) = InQueue(s) \ {t}
  BY StateFields, RemoveFirstElements DEF InQueue
<1>2. /\ removed \in SchedulerState
      /\ removed.status = [s.status EXCEPT ![t] = "NOT_READY"]
      /\ removed.queue = RemoveFirst(s.queue, t)
      /\ removed.current = s.current
      /\ removed.cr3 = s.cr3
      /\ removed.lost = s.lost
  BY <1>1 DEF SchedulerState, Status
<1>3. n = IF s.current = t THEN scheduler_clear_current_task(removed, node)
                           ELSE removed
  BY DEF scheduler_task_not_ready
<1> HIDE DEF n, removed
<1>4. CASE s.current # t
  BY <1>1, <1>2, <1>3, <1>4 DEF n, InQueue
<1>5. CASE s.current = t
  <2>1. removed.status[t] # "READY"
    BY <1>2, StateFields
  <2>2. scheduler_clear_current_task(removed, node) = [removed EXCEPT !.current = NoTask]
    BY <1>2, <1>5, <2>1, NoTaskAssumption DEF scheduler_clear_current_task
  <2>3. /\ n \in SchedulerState
        /\ n.status = removed.status
        /\ n.current = NoTask
        /\ n.cr3 = removed.cr3
        /\ n.lost = removed.lost
        /\ n.queue = removed.queue
    BY <1>2, <1>3, <1>5, <2>2 DEF SchedulerState
  <2> QED
    BY <1>1, <1>2, <1>5, <2>3 DEF n, InQueue
<1> QED
  BY <1>4, <1>5

(***************************************************************************)
(* scheduler_task_ready makes a task ready and queues it, or loses it.     *)
(***************************************************************************)
LEMMA ReadyFacts ==
  ASSUME NEW s \in SchedulerState, NEW t \in Tasks, NEW node \in BOOLEAN
  PROVE  LET r == scheduler_task_ready(s, t, node)
         IN  /\ r \in SchedulerState
             /\ r.status = [s.status EXCEPT ![t] = "READY"]
             /\ r.current = s.current
             /\ r.cr3 = s.cr3
             /\ InQueue(r) = InQueue(s) \cup (IF node THEN {t} ELSE {})
             /\ r.lost = s.lost \cup (IF node THEN {} ELSE {t})
             /\ IsInjective(s.queue) /\ t \notin InQueue(s) =>
                  IsInjective(r.queue)
<1> DEFINE m == [s EXCEPT !.status = [@ EXCEPT ![t] = "READY"]]
<1>1. /\ m \in SchedulerState
      /\ m.status = [s.status EXCEPT ![t] = "READY"]
      /\ m.queue = s.queue
      /\ m.current = s.current
      /\ m.cr3 = s.cr3
      /\ m.lost = s.lost
  BY DEF SchedulerState, Status
<1>2. scheduler_task_ready(s, t, node) = enqueue(m, t, node)
  BY DEF scheduler_task_ready
<1> HIDE DEF m
<1> DEFINE r == enqueue(m, t, node)
<1>3. /\ r \in SchedulerState
      /\ r.status = m.status
      /\ r.current = m.current
      /\ r.cr3 = m.cr3
      /\ InQueue(r) = InQueue(m) \cup (IF node THEN {t} ELSE {})
      /\ r.lost = m.lost \cup (IF node THEN {} ELSE {t})
      /\ IsInjective(m.queue) /\ t \notin InQueue(m) => IsInjective(r.queue)
  BY <1>1, EnqueueFacts
<1>4. InQueue(m) = InQueue(s)
  BY <1>1 DEF InQueue
<1> HIDE DEF r
<1> QED
  BY <1>1, <1>2, <1>3, <1>4 DEF r

(***************************************************************************)
(* A task made ready leaves the processor with the task that has it.       *)
(***************************************************************************)
LEMMA ReadyKeepsCurrent ==
  ASSUME NEW s \in SchedulerState, NEW t \in Tasks, NEW node \in BOOLEAN
  PROVE  scheduler_task_ready(s, t, node).current = s.current
BY DEF scheduler_task_ready, enqueue, SchedulerState, Status

(***************************************************************************)
(* A task that is no longer ready loses the processor, any other keeps it. *)
(***************************************************************************)
LEMMA NotReadyCurrent ==
  ASSUME NEW s \in SchedulerState, NEW t \in Tasks, NEW node \in BOOLEAN,
         IsInjective(s.queue)
  PROVE  scheduler_task_not_ready(s, t, node).current
           = IF s.current = t THEN NoTask ELSE s.current
<1>1. s.current \in Tasks \cup {NoTask}
  BY StateFields
<1> QED
  BY <1>1, NoTaskAssumption
     DEF scheduler_task_not_ready, scheduler_clear_current_task, enqueue, SchedulerState,
         Status

(***************************************************************************)
(* scheduler_switch_task puts the processor to sleep when no task waits,   *)
(* and otherwise gives it, with its address space, to the task that waited *)
(* longest.  It is stated for a queue without repetitions that does not    *)
(* hold the current task, where the branch that skips native_vmem_switch   *)
(* is never taken.                                                         *)
(***************************************************************************)
LEMMA SwitchFacts ==
  ASSUME NEW s \in SchedulerState, NEW node \in BOOLEAN,
         IsInjective(s.queue),
         s.current \notin InQueue(s)
  PROVE  LET w == scheduler_switch_task(s, node)
         IN  /\ w \in SchedulerState
             /\ w.status = s.status
             /\ IsInjective(w.queue)
             /\ w.current = IF s.queue = << >> THEN NoTask ELSE Head(s.queue)
             /\ w.current # NoTask => w.cr3 = Memory[w.current]
             /\ w.current # NoTask => w.current \in InQueue(s)
             /\ InQueue(w) = (InQueue(s) \ {w.current})
                               \cup (IF node THEN Resumable(s) ELSE {})
             /\ w.lost = s.lost \cup (IF node THEN {} ELSE Resumable(s))
<1> DEFINE w == scheduler_switch_task(s, node)
<1>1. CASE s.queue = << >>
  <2>1. w = scheduler_clear_current_task(s, node)
    BY <1>1 DEF scheduler_switch_task
  <2>2. InQueue(s) \subseteq Tasks
    BY StateFields
  <2> HIDE DEF w
  <2> QED
    BY <1>1, <2>1, <2>2, ClearCurrentFacts, NoTaskAssumption DEF w
<1>2. CASE s.queue # << >>
  <2> DEFINE next == Head(s.queue)
             rest == [s EXCEPT !.queue = Tail(@)]
             c == scheduler_clear_current_task(rest, node)
  <2>1. /\ next \in Tasks
        /\ next \in InQueue(s)
        /\ Tail(s.queue) \in Seq(Tasks)
        /\ InQueue(s) = ToSet(Tail(s.queue)) \cup {next}
        /\ IsInjective(Tail(s.queue))
        /\ next \notin ToSet(Tail(s.queue))
    BY <1>2, StateFields, TailElements DEF InQueue
  <2>2. w = [c EXCEPT !.current = next, !.cr3 = Memory[next]]
    BY <1>2, <2>1 DEF scheduler_switch_task
  <2>3. /\ rest \in SchedulerState
        /\ rest.status = s.status
        /\ rest.queue = Tail(s.queue)
        /\ rest.current = s.current
        /\ rest.lost = s.lost
    BY <2>1 DEF SchedulerState
  <2> HIDE DEF w, next, rest
  <2>4. Resumable(rest) = Resumable(s) /\ InQueue(rest) = ToSet(Tail(s.queue))
    BY <2>3 DEF Resumable, InQueue
  <2>5. /\ c \in SchedulerState
        /\ c.status = rest.status
        /\ InQueue(c) = InQueue(rest) \cup (IF node THEN Resumable(rest) ELSE {})
        /\ c.lost = rest.lost \cup (IF node THEN {} ELSE Resumable(rest))
        /\ IsInjective(c.queue)
    <3>1. IsInjective(rest.queue) /\ rest.current \notin InQueue(rest)
      BY <2>1, <2>3, <2>4
    <3> QED
      BY <2>3, <3>1, ClearCurrentFacts
  <2> HIDE DEF c
  <2>6. /\ w \in SchedulerState
        /\ w.status = c.status
        /\ w.queue = c.queue
        /\ w.lost = c.lost
        /\ w.current = next
        /\ w.cr3 = Memory[next]
    <3>1. Memory[next] \in AddressSpaces
      BY <2>1 DEF AddressSpaces
    <3> QED
      BY <2>1, <2>2, <2>5, <3>1 DEF SchedulerState
  <2>7. InQueue(w) = InQueue(c)
    BY <2>6 DEF InQueue
  <2>8. InQueue(w) = (InQueue(s) \ {next}) \cup (IF node THEN Resumable(s) ELSE {})
    BY <2>1, <2>4, <2>5, <2>7
  <2> QED
    BY <1>2, <2>1, <2>3, <2>4, <2>5, <2>6, <2>8 DEF w, next
<1> QED
  BY <1>1, <1>2
-----------------------------------------------------------------------------
(***************************************************************************)
(* The state between two handlers: the queue holds ready tasks, each once, *)
(* without the current one; the current task is ready and its address      *)
(* space loaded; and the ready tasks in neither place are the lost ones.   *)
(***************************************************************************)
Consistent(s) ==
  /\ s \in SchedulerState
  /\ IsInjective(s.queue)
  /\ \A t \in InQueue(s) : s.status[t] = "READY" /\ t # s.current
  /\ s.current # NoTask => /\ s.status[s.current] = "READY"
                           /\ s.cr3 = Memory[s.current]
  /\ \A t \in s.lost : s.status[t] \in {"READY", "NOT_READY"}
  /\ \A t \in Tasks :
       s.status[t] = "READY" =>
         (t \in s.lost <=> t # s.current /\ t \notin InQueue(s))

(***************************************************************************)
(* The scheduler starts consistent.                                        *)
(***************************************************************************)
LEMMA InitialiseConsistent == Consistent(scheduler_initialise)
<1> DEFINE s == scheduler_initialise
<1>1. /\ s \in SchedulerState
      /\ s.status = [t \in Tasks |-> "NONE"]
      /\ s.queue = << >>
      /\ s.current = NoTask
      /\ s.lost = {}
  BY DEF scheduler_initialise, SchedulerState, Status, AddressSpaces
<1>2. InQueue(s) = {} /\ IsInjective(s.queue)
  BY <1>1 DEF InQueue, ToSet, IsInjective
<1> HIDE DEF s
<1> QED
  BY <1>1, <1>2 DEF s, Consistent

(***************************************************************************)
(* A switch from a consistent state ends in a consistent state.            *)
(***************************************************************************)
LEMMA SwitchConsistent ==
  ASSUME NEW s, Consistent(s), NEW node \in BOOLEAN
  PROVE  Consistent(scheduler_switch_task(s, node))
<1> DEFINE w == scheduler_switch_task(s, node)
<1>1. /\ s \in SchedulerState
      /\ s.current \notin InQueue(s)
      /\ InQueue(s) \subseteq Tasks
      /\ s.current \in Tasks \cup {NoTask}
      /\ s.lost \subseteq Tasks
  BY StateFields, NoTaskAssumption DEF Consistent
<1>2. /\ w \in SchedulerState
      /\ w.status = s.status
      /\ IsInjective(w.queue)
      /\ w.current # NoTask => w.cr3 = Memory[w.current]
      /\ w.current # NoTask => w.current \in InQueue(s)
      /\ InQueue(w) = (InQueue(s) \ {w.current})
                        \cup (IF node THEN Resumable(s) ELSE {})
      /\ w.lost = s.lost \cup (IF node THEN {} ELSE Resumable(s))
  BY <1>1, SwitchFacts DEF Consistent
<1>3. Resumable(s) = IF s.current = NoTask THEN {} ELSE {s.current}
  BY DEF Resumable, Consistent
<1> HIDE DEF w
<1>4. \A t \in InQueue(w) : w.status[t] = "READY" /\ t # w.current
  BY <1>1, <1>2, <1>3 DEF Consistent
<1>5. w.current # NoTask => w.status[w.current] = "READY"
  BY <1>2 DEF Consistent
<1>6. \A t \in w.lost : w.status[t] \in {"READY", "NOT_READY"}
  BY <1>2, <1>3 DEF Consistent
<1>7. ASSUME NEW t \in Tasks, w.status[t] = "READY"
      PROVE  t \in w.lost <=> t # w.current /\ t \notin InQueue(w)
  <2>1. t \in s.lost <=> t # s.current /\ t \notin InQueue(s)
    BY <1>2, <1>7 DEF Consistent
  <2> QED
    BY <1>1, <1>2, <1>3, <2>1, NoTaskAssumption
<1> QED
  BY <1>2, <1>4, <1>5, <1>6, <1>7 DEF w, Consistent

(***************************************************************************)
(* Stopping any task keeps the state consistent.                           *)
(***************************************************************************)
LEMMA NotReadyConsistent ==
  ASSUME NEW s, Consistent(s), NEW t \in Tasks, NEW node \in BOOLEAN
  PROVE  Consistent(scheduler_task_not_ready(s, t, node))
<1> DEFINE n == scheduler_task_not_ready(s, t, node)
<1>1. s \in SchedulerState /\ IsInjective(s.queue)
  BY DEF Consistent
<1>2. /\ n \in SchedulerState
      /\ n.status = [s.status EXCEPT ![t] = "NOT_READY"]
      /\ n.current = IF s.current = t THEN NoTask ELSE s.current
      /\ n.cr3 = s.cr3
      /\ n.lost = s.lost
      /\ InQueue(n) = InQueue(s) \ {t}
      /\ IsInjective(n.queue)
  BY <1>1, NotReadyFacts
<1>3. /\ s.status \in [Tasks -> Status]
      /\ InQueue(s) \subseteq Tasks
      /\ s.current \in Tasks \cup {NoTask}
      /\ s.lost \subseteq Tasks
  BY <1>1, StateFields
<1> HIDE DEF n
<1>4. \A u \in InQueue(n) : n.status[u] = "READY" /\ u # n.current
  BY <1>2, <1>3, NoTaskAssumption DEF Consistent
<1>5. n.current # NoTask => /\ n.status[n.current] = "READY"
                            /\ n.cr3 = Memory[n.current]
  BY <1>2, <1>3 DEF Consistent
<1>6. \A u \in n.lost : n.status[u] \in {"READY", "NOT_READY"}
  BY <1>2, <1>3 DEF Consistent
<1>7. ASSUME NEW u \in Tasks, n.status[u] = "READY"
      PROVE  u \in n.lost <=> u # n.current /\ u \notin InQueue(n)
  <2>1. u # t /\ s.status[u] = "READY"
    BY <1>2, <1>3, <1>7
  <2> QED
    BY <1>2, <2>1, NoTaskAssumption DEF Consistent
<1> QED
  BY <1>2, <1>4, <1>5, <1>6, <1>7 DEF n, Consistent

(***************************************************************************)
(* Starting a task that was only created keeps the state consistent.       *)
(***************************************************************************)
LEMMA ReadyConsistent ==
  ASSUME NEW s, Consistent(s), NEW t \in Tasks, NEW node \in BOOLEAN,
         s.status[t] = "CREATED"
  PROVE  Consistent(scheduler_task_ready(s, t, node))
<1> DEFINE r == scheduler_task_ready(s, t, node)
<1>1. /\ s \in SchedulerState
      /\ t \notin InQueue(s)
      /\ t # s.current
      /\ t \notin s.lost
  BY NoTaskAssumption DEF Consistent
<1>2. /\ r \in SchedulerState
      /\ r.status = [s.status EXCEPT ![t] = "READY"]
      /\ r.current = s.current
      /\ r.cr3 = s.cr3
      /\ InQueue(r) = InQueue(s) \cup (IF node THEN {t} ELSE {})
      /\ r.lost = s.lost \cup (IF node THEN {} ELSE {t})
      /\ IsInjective(r.queue)
  BY <1>1, ReadyFacts DEF Consistent
<1>3. /\ s.status \in [Tasks -> Status]
      /\ InQueue(s) \subseteq Tasks
      /\ s.lost \subseteq Tasks
  BY <1>1, StateFields
<1> HIDE DEF r
<1>4. \A u \in InQueue(r) : r.status[u] = "READY" /\ u # r.current
  BY <1>1, <1>2, <1>3 DEF Consistent
<1>5. r.current # NoTask => /\ r.status[r.current] = "READY"
                            /\ r.cr3 = Memory[r.current]
  BY <1>1, <1>2, <1>3 DEF Consistent
<1>6. \A u \in r.lost : r.status[u] \in {"READY", "NOT_READY"}
  BY <1>1, <1>2, <1>3 DEF Consistent
<1>7. ASSUME NEW u \in Tasks, r.status[u] = "READY"
      PROVE  u \in r.lost <=> u # r.current /\ u \notin InQueue(r)
  BY <1>1, <1>2, <1>3, <1>7 DEF Consistent
<1> QED
  BY <1>2, <1>4, <1>5, <1>6, <1>7 DEF r, Consistent

(***************************************************************************)
(* The kernel                                                              *)
(***************************************************************************)

BootHasNoCurrent == ~booted => sched.current = NoTask

Inv ==
  /\ TypeOK
  /\ Consistent(sched)
  /\ PrivilegeKept
  /\ BootHasNoCurrent

(***************************************************************************)
(* id_mapper_add and id_mapper_del return mappers.                         *)
(***************************************************************************)
Mappers == [list : Seq([id : Nat, val : Tasks]), next : Nat]

(***************************************************************************)
(* id_mapper_add returns a mapper.                                         *)
(***************************************************************************)
LEMMA AddIsMapper ==
  ASSUME NEW m \in Mappers, NEW t \in Tasks, NEW hasNode \in BOOLEAN
  PROVE  id_mapper_add(m, t, hasNode) \in Mappers
<1>1. m.list \in Seq([id : Nat, val : Tasks]) /\ m.next \in Nat
  BY DEF Mappers
<1>2. [id |-> m.next, val |-> t] \in [id : Nat, val : Tasks]
  BY <1>1
<1>3. Append(m.list, [id |-> m.next, val |-> t]) \in Seq([id : Nat, val : Tasks])
  BY <1>1, <1>2, AppendProperties
<1>4. m.next + 1 \in Nat
  BY <1>1
<1>5. CASE hasNode
  BY <1>3, <1>4, <1>5 DEF id_mapper_add, Mappers
<1>6. CASE ~hasNode
  BY <1>1, <1>4, <1>6 DEF id_mapper_add, Mappers
<1> QED
  BY <1>5, <1>6

(***************************************************************************)
(* id_mapper_del returns a mapper.                                         *)
(***************************************************************************)
LEMMA DelIsMapper ==
  ASSUME NEW m \in Mappers, NEW id
  PROVE  id_mapper_del(m, id) \in Mappers
<1> DEFINE E == [id : Nat, val : Tasks]
           q == m.list
           I == {i \in 1 .. Len(q) : q[i].id = id}
           n == Min(I)
           r == RemoveFirstMatch(q, LAMBDA entry : entry.id = id)
<1>1. q \in Seq(E) /\ Len(q) \in Nat /\ \A i \in 1 .. Len(q) : q[i] \in E
  BY LenProperties DEF Mappers
<1>2. r \in Seq(E)
  <2>1. CASE ~ \E i \in 1 .. Len(q) : q[i].id = id
    <3>1. r = q
      BY <2>1 DEF RemoveFirstMatch
    <3> QED
      BY <1>1, <3>1
  <2>2. CASE \E i \in 1 .. Len(q) : q[i].id = id
    <3>1. n \in 1 .. Len(q)
      <4>1. I \in SUBSET Nat /\ I # {}
        BY <1>1, <2>2
      <4> QED
        BY <4>1, MinInSet
    <3>2. r = SubSeq(q, 1, n - 1) \o SubSeq(q, n + 1, Len(q))
      BY <2>2 DEF RemoveFirstMatch, RemoveAt, SelectInSeq
    <3> HIDE DEF n, r, q
    <3>3. SubSeq(q, 1, n - 1) \in Seq(E)
      BY <1>1, <3>1, SubSeqProperties
    <3>4. SubSeq(q, n + 1, Len(q)) \in Seq(E)
      BY <1>1, <3>1, SubSeqProperties
    <3> QED
      BY <3>2, <3>3, <3>4, ConcatProperties
  <2> QED
    BY <2>1, <2>2
<1> HIDE DEF r
<1>3. CASE id = 0
  BY <1>3 DEF id_mapper_del
<1>4. CASE id # 0
  <2>1. id_mapper_del(m, id) = [m EXCEPT !.list = r]
    BY <1>4 DEF id_mapper_del, r
  <2> QED
    BY <1>2, <2>1 DEF Mappers
<1> QED
  BY <1>3, <1>4

(***************************************************************************)
(* What the invariant needs of the task records.                           *)
(***************************************************************************)
ModesMatch(s, tasks) ==
  \A t \in Tasks :
    s.status[t] = "READY" =>
      tasks[t].native.mode = IF tasks[t].kernel THEN "kernel" ELSE "user"

(***************************************************************************)
(* Every handler ends in SwitchFrom: started from a consistent state, it   *)
(* re-establishes the part of the invariant about scheduler and contexts.  *)
(***************************************************************************)
LEMMA SwitchFromKeeps ==
  ASSUME NEW s, NEW tasks, NEW node \in BOOLEAN,
         Consistent(s),
         tasks \in [Tasks -> TaskRecord],
         ModesMatch(s, tasks),
         SwitchFrom(s, tasks, node)
  PROVE  /\ Consistent(sched')
         /\ tcb' \in [Tasks -> TaskRecord]
         /\ cpu' \in Context
         /\ PrivilegeKept'
<1>1. sched' = scheduler_switch_task(s, node) /\ tcb' = tasks
  BY DEF SwitchFrom
<1>2. Consistent(sched')
  BY <1>1, SwitchConsistent
<1>3. cpu' = IF sched'.current = NoTask THEN SleepContext
                                        ELSE tasks[sched'.current].native
  BY <1>1 DEF SwitchFrom, native_task_switch
<1>4. /\ s \in SchedulerState
      /\ IsInjective(s.queue)
      /\ s.current \notin InQueue(s)
  BY StateFields DEF Consistent
<1>5. sched'.status = s.status
  BY <1>1, <1>4, SwitchFacts
<1>6. /\ sched'.current \in Tasks \cup {NoTask}
      /\ sched'.current # NoTask => sched'.status[sched'.current] = "READY"
  BY <1>2, StateFields DEF Consistent
<1>7. SleepContext \in Context /\ \A t \in Tasks : tasks[t].native \in Context
  BY RegistersAssumption
     DEF SleepContext, Context, Modes, Results, TaskRecord
<1>8. cpu' \in Context
  BY <1>3, <1>6, <1>7
<1>9. PrivilegeKept'
  <2>1. \A t \in Tasks :
          sched'.status[t] = "READY" =>
            tcb'[t].native.mode = IF tcb'[t].kernel THEN "kernel" ELSE "user"
    BY <1>1, <1>5 DEF ModesMatch
  <2>2. sched'.current # NoTask =>
          cpu'.mode = IF tcb'[sched'.current].kernel THEN "kernel" ELSE "user"
    BY <1>1, <1>3, <1>6, <2>1
  <2> QED
    BY <2>1, <2>2 DEF PrivilegeKept, ReadyTask, ModeOf
<1> QED
  BY <1>1, <1>2, <1>8, <1>9

(***************************************************************************)
(* The context saved on entry to the kernel keeps the mode of its task.    *)
(***************************************************************************)
LEMMA SaveKeeps ==
  ASSUME Inv, NEW frame \in Context
  PROVE  LET saved == hal_update_current_state(frame)
         IN  /\ saved \in [Tasks -> TaskRecord]
             /\ ModesMatch(sched, saved)
             /\ sched.current # NoTask =>
                  /\ saved[sched.current].native \in Context
                  /\ saved[sched.current].native.mode =
                       tcb[sched.current].native.mode
<1> DEFINE saved == hal_update_current_state(frame)
           c == sched.current
           kept == [frame EXCEPT !.mode = tcb[c].native.mode]
<1>1. tcb \in [Tasks -> TaskRecord] /\ c \in Tasks \cup {NoTask}
  BY StateFields DEF Inv, TypeOK
<1>2. ModesMatch(sched, tcb)
  BY DEF Inv, PrivilegeKept, ReadyTask, ModeOf, ModesMatch
<1>3. CASE c = NoTask
  BY <1>1, <1>2, <1>3 DEF hal_update_current_state
<1>4. CASE c # NoTask
  <2>1. c \in Tasks /\ tcb[c] \in TaskRecord /\ tcb[c].native \in Context
    BY <1>1, <1>4 DEF TaskRecord
  <2>2. kept \in Context /\ kept.mode = tcb[c].native.mode
    BY <2>1 DEF Context
  <2>3. saved = [tcb EXCEPT ![c].native = kept]
    BY <1>4 DEF hal_update_current_state
  <2> HIDE DEF saved, kept
  <2>4. /\ saved \in [Tasks -> TaskRecord]
        /\ saved[c].native = kept
        /\ \A t \in Tasks : /\ saved[t].kernel = tcb[t].kernel
                            /\ t # c => saved[t] = tcb[t]
    BY <1>1, <2>1, <2>2, <2>3 DEF TaskRecord
  <2>5. ModesMatch(sched, saved)
    BY <1>2, <2>1, <2>2, <2>4 DEF ModesMatch
  <2> QED
    BY <2>2, <2>4, <2>5 DEF saved
<1> QED
  BY <1>3, <1>4

(***************************************************************************)
(* Killing the current task and choosing another one keeps the invariant,  *)
(* whatever happens to booted and to the interrupt controller.             *)
(***************************************************************************)
LEMMA KillKeeps ==
  ASSUME Inv, NEW tasks \in [Tasks -> TaskRecord], NEW node \in BOOLEAN,
         ModesMatch(sched, tasks), KillCurrentAndSwitch(tasks, node)
  PROVE  /\ Consistent(sched')
         /\ tcb' \in [Tasks -> TaskRecord]
         /\ mapper' \in Mappers
         /\ cpu' \in Context
         /\ PrivilegeKept'
<1> DEFINE c == sched.current
           n == release_scheduler(sched, c, node)
<1>1. /\ Consistent(sched)
      /\ sched \in SchedulerState
      /\ IsInjective(sched.queue)
      /\ mapper \in Mappers
      /\ c \in Tasks \cup {NoTask}
  BY StateFields DEF Inv, TypeOK, Mappers, Consistent
<1>2. CASE c = NoTask
  <2>1. SwitchFrom(sched, tasks, node) /\ mapper' = mapper
    BY <1>2 DEF KillCurrentAndSwitch
  <2> QED
    BY <1>1, <2>1, SwitchFromKeeps
<1>3. CASE c # NoTask
  <2>1. c \in Tasks
    BY <1>1, <1>3
  <2>2. SwitchFrom(n, tasks, node) /\ mapper' = release_handle(mapper, c)
    BY <1>3 DEF KillCurrentAndSwitch
  <2>3. mapper' \in Mappers
    BY <1>1, <2>2, DelIsMapper DEF release_handle
  <2>4. n = scheduler_task_not_ready(sched, c, node)
    BY DEF release_scheduler
  <2> HIDE DEF n
  <2>5. Consistent(n) /\ n.status = [sched.status EXCEPT ![c] = "NOT_READY"]
    BY <1>1, <2>1, <2>4, NotReadyConsistent, NotReadyFacts
  <2>6. ModesMatch(n, tasks)
    BY <1>1, <2>1, <2>5, StateFields DEF ModesMatch
  <2> QED
    BY <2>2, <2>3, <2>5, <2>6, SwitchFromKeeps
<1> QED
  BY <1>2, <1>3

(***************************************************************************)
(* Saving the current task and choosing another one keeps it, too.         *)
(***************************************************************************)
LEMMA SaveAndSwitchKeeps ==
  ASSUME Inv, NEW node \in BOOLEAN, SaveAndSwitch(node)
  PROVE  /\ Consistent(sched')
         /\ tcb' \in [Tasks -> TaskRecord]
         /\ mapper' \in Mappers
         /\ cpu' \in Context
         /\ PrivilegeKept'
<1> DEFINE saved == hal_update_current_state(cpu)
<1>1. Consistent(sched) /\ cpu \in Context /\ mapper \in Mappers
  BY DEF Inv, TypeOK, Mappers
<1>2. saved \in [Tasks -> TaskRecord] /\ ModesMatch(sched, saved)
  BY <1>1, SaveKeeps
<1>3. SwitchFrom(sched, saved, node) /\ mapper' = mapper
  BY DEF SaveAndSwitch
<1> HIDE DEF saved
<1> QED
  BY <1>1, <1>2, <1>3, SwitchFromKeeps

(***************************************************************************)
(* The conjuncts to establish after a step of the running kernel.          *)
(***************************************************************************)
LEMMA InvAfter ==
  ASSUME Consistent(sched'),
         tcb' \in [Tasks -> TaskRecord],
         mapper' \in Mappers,
         cpu' \in Context,
         PrivilegeKept',
         booted' = TRUE,
         isr' \subseteq Devices \cup {TimerLine}
  PROVE  Inv'
BY DEF Inv, TypeOK, Mappers, Consistent, BootHasNoCurrent
-----------------------------------------------------------------------------
(***************************************************************************)
(* The state after initialisation satisfies the invariant.                 *)
(***************************************************************************)
LEMMA InitInv == Init => Inv
<1> SUFFICES ASSUME Init PROVE Inv
  OBVIOUS
<1>1. Consistent(sched)
  BY InitialiseConsistent DEF Init
<1>2. /\ sched.status = [t \in Tasks |-> "NONE"]
      /\ sched.current = NoTask
  BY DEF Init, scheduler_initialise
<1>3. mapper \in Mappers
  BY DEF Init, task_service_initialize, id_mapper_create, Mappers
<1>4. tcb \in [Tasks -> TaskRecord]
  BY RegistersAssumption
     DEF Init, task_service_initialize, TaskRecord, BlankContext, Context,
         Modes, Results
<1>5. cpu \in Context
  BY RegistersAssumption DEF Init, SleepContext, Context, Modes, Results
<1>6. PrivilegeKept
  BY <1>2 DEF PrivilegeKept, ReadyTask
<1> QED
  BY <1>1, <1>2, <1>3, <1>4, <1>5, <1>6
     DEF Init, Inv, TypeOK, Mappers, Consistent, BootHasNoCurrent

(***************************************************************************)
(* The task services called while booting.                                 *)
(***************************************************************************)
LEMMA BootCallInv ==
  ASSUME Inv, NEW t \in Tasks, NEW node \in BOOLEAN, BootCall(t, node)
  PROVE  Inv'
<1>1. /\ Consistent(sched)
      /\ sched \in SchedulerState
      /\ IsInjective(sched.queue)
      /\ sched.status \in [Tasks -> Status]
      /\ tcb \in [Tasks -> TaskRecord]
      /\ mapper \in Mappers
      /\ sched.current = NoTask
  BY StateFields
     DEF Inv, TypeOK, Mappers, BootCall, BootHasNoCurrent, Consistent
<1>2. ModesMatch(sched, tcb)
  BY DEF Inv, PrivilegeKept, ReadyTask, ModeOf, ModesMatch
<1>3. booted' = booted /\ cpu' = cpu /\ isr' = isr
  BY DEF BootCall
<1>4. SUFFICES /\ Consistent(sched')
               /\ tcb' \in [Tasks -> TaskRecord]
               /\ mapper' \in Mappers
               /\ sched'.current = NoTask
               /\ ModesMatch(sched', tcb')
  BY <1>3 DEF Inv, TypeOK, Mappers, Consistent, BootHasNoCurrent,
              PrivilegeKept, ReadyTask, ModeOf, ModesMatch
<1>5. CASE task_create(t, node)
  <2>1. sched.status[t] = "NONE"
    BY <1>5 DEF task_create
  <2>3. mapper' \in Mappers
    BY <1>1, <1>5, AddIsMapper DEF task_create
  <2>4. CASE ~node
    BY <1>1, <1>2, <1>5, <2>3, <2>4 DEF task_create
  <2>5. CASE node
    <3> DEFINE new == [id |-> mapper.next, kernel |-> FALSE, userdata |-> 0,
                       native |-> BlankContext]
    <3>1. /\ sched' = [sched EXCEPT !.status = [@ EXCEPT ![t] = "CREATED"]]
          /\ tcb' = [tcb EXCEPT ![t] = new]
      BY <1>5, <2>5 DEF task_create
    <3>3. /\ sched' \in SchedulerState
          /\ sched'.status = [sched.status EXCEPT ![t] = "CREATED"]
          /\ sched'.queue = sched.queue
          /\ sched'.current = sched.current
          /\ sched'.cr3 = sched.cr3
          /\ sched'.lost = sched.lost
      BY <1>1, <3>1 DEF SchedulerState, Status
    <3>4. InQueue(sched') = InQueue(sched)
      BY <3>3 DEF InQueue
    <3>5. t \notin sched.lost /\ sched.lost \subseteq Tasks
      BY <1>1, <2>1, StateFields DEF Consistent
    <3>6. Consistent(sched')
      BY <1>1, <2>1, <3>3, <3>4, <3>5 DEF Consistent
    <3>7. mapper.next \in Nat
      BY <1>1 DEF Mappers
    <3>8. new \in TaskRecord
      BY <3>7, RegistersAssumption
         DEF TaskRecord, BlankContext, Context, Modes, Results
    <3> HIDE DEF new
    <3>9. tcb' \in [Tasks -> TaskRecord]
      BY <1>1, <3>1, <3>8
    <3>10. ModesMatch(sched', tcb')
      BY <1>1, <1>2, <3>1, <3>3 DEF ModesMatch
    <3> QED
      BY <1>1, <2>3, <3>3, <3>6, <3>9, <3>10
  <2> QED
    BY <2>4, <2>5
<1>6. CASE task_set_kernel_mode(t)
  <2>1. /\ sched.status[t] = "CREATED"
        /\ tcb' = [tcb EXCEPT ![t].kernel = TRUE]
        /\ sched' = sched /\ mapper' = mapper
    BY <1>6 DEF task_set_kernel_mode
  <2>2. tcb' \in [Tasks -> TaskRecord]
    BY <1>1, <2>1 DEF TaskRecord
  <2>3. ModesMatch(sched', tcb')
    BY <1>1, <1>2, <2>1 DEF ModesMatch
  <2> QED
    BY <1>1, <2>1, <2>2, <2>3
<1>7. CASE task_set_arguments(t)
  <2>1. PICK address \in Registers : tcb' = [tcb EXCEPT ![t].userdata = address]
    BY <1>7 DEF task_set_arguments
  <2>2. /\ sched.status[t] = "CREATED"
        /\ sched' = sched /\ mapper' = mapper
    BY <1>7 DEF task_set_arguments
  <2>3. tcb' \in [Tasks -> TaskRecord]
    BY <1>1, <2>1 DEF TaskRecord
  <2>4. ModesMatch(sched', tcb')
    BY <1>1, <1>2, <2>1, <2>2 DEF ModesMatch
  <2> QED
    BY <1>1, <2>2, <2>3, <2>4
<1>8. CASE task_run(t, node)
  <2> DEFINE start == native_task_create(t)
  <2>1. tcb' = [tcb EXCEPT ![t].native = start]
    BY <1>8 DEF task_run
  <2>2. /\ sched.status[t] = "CREATED"
        /\ sched' = scheduler_task_ready(sched, t, node)
        /\ mapper' = mapper
    BY <1>8 DEF task_run
  <2>3. /\ start \in Context
        /\ start.mode = IF tcb[t].kernel THEN "kernel" ELSE "user"
    BY <1>1 DEF native_task_create, ModeOf, Context, Modes, Results, TaskRecord
  <2> HIDE DEF start
  <2>4. /\ tcb' \in [Tasks -> TaskRecord]
        /\ tcb'[t].native = start
        /\ \A u \in Tasks : /\ tcb'[u].kernel = tcb[u].kernel
                            /\ u # t => tcb'[u] = tcb[u]
    BY <1>1, <2>1, <2>3 DEF TaskRecord
  <2>5. /\ Consistent(sched')
        /\ sched'.current = NoTask
        /\ sched'.status = [sched.status EXCEPT ![t] = "READY"]
    BY <1>1, <2>2, ReadyConsistent, ReadyFacts
  <2>6. ModesMatch(sched', tcb')
    BY <1>1, <1>2, <2>3, <2>4, <2>5 DEF ModesMatch
  <2> QED
    BY <1>1, <2>2, <2>4, <2>5, <2>6
<1>9. CASE task_destroy(t, node)
  <2>1. /\ sched' = scheduler_task_not_ready(sched, t, node)
        /\ mapper' = id_mapper_del(mapper, tcb[t].id)
        /\ tcb' = tcb
    BY <1>9 DEF task_destroy, release_scheduler, release_handle
  <2>2. mapper' \in Mappers
    BY <1>1, <2>1, DelIsMapper
  <2>3. /\ Consistent(sched')
        /\ sched'.current = NoTask
        /\ sched'.status = [sched.status EXCEPT ![t] = "NOT_READY"]
    BY <1>1, <2>1, NotReadyConsistent, NotReadyFacts
  <2>4. ModesMatch(sched', tcb')
    BY <1>1, <1>2, <2>1, <2>3 DEF ModesMatch
  <2> QED
    BY <1>1, <2>1, <2>2, <2>3, <2>4
<1> QED
  BY <1>5, <1>6, <1>7, <1>8, <1>9 DEF BootCall

(***************************************************************************)
(* Every step of the kernel keeps the invariant.                           *)
(***************************************************************************)
LEMMA NextInv == Inv /\ [Next]_vars => Inv'
<1> SUFFICES ASSUME Inv, [Next]_vars PROVE Inv'
  OBVIOUS
<1>1. /\ Consistent(sched)
      /\ sched \in SchedulerState
      /\ tcb \in [Tasks -> TaskRecord]
      /\ mapper \in Mappers
      /\ booted \in BOOLEAN
      /\ cpu \in Context
      /\ isr \subseteq Devices \cup {TimerLine}
      /\ sched.current \in Tasks \cup {NoTask}
      /\ PrivilegeKept
  BY StateFields DEF Inv, TypeOK, Mappers
<1>2. ModesMatch(sched, tcb)
  BY DEF Inv, PrivilegeKept, ReadyTask, ModeOf, ModesMatch
<1>3. ASSUME NEW t \in Tasks, NEW node \in BOOLEAN, BootCall(t, node)
      PROVE  Inv'
  BY <1>3, BootCallInv
<1>4. ASSUME NEW node \in BOOLEAN, StartScheduling(node) PROVE Inv'
  <2>1. /\ SwitchFrom(sched, tcb, node)
        /\ booted' = TRUE /\ mapper' = mapper /\ isr' = isr
    BY <1>4 DEF StartScheduling
  <2> QED
    BY <1>1, <1>2, <2>1, SwitchFromKeeps, InvAfter
<1>5. CASE TaskStep
  <2>1. PICK r \in Registers, v \in Results :
          cpu' = [cpu EXCEPT !.regs = r, !.rax = v]
    BY <1>5 DEF TaskStep
  <2>2. /\ booted = TRUE
        /\ sched' = sched /\ tcb' = tcb /\ mapper' = mapper
        /\ booted' = booted /\ isr' = isr
    BY <1>1, <1>5 DEF TaskStep, Running
  <2>3. cpu' \in Context /\ cpu'.mode = cpu.mode
    BY <1>1, <2>1 DEF Context
  <2>4. PrivilegeKept'
    BY <1>1, <2>2, <2>3 DEF PrivilegeKept, ReadyTask, ModeOf
  <2> QED
    BY <1>1, <2>2, <2>3, <2>4, InvAfter
<1>6. ASSUME NEW node \in BOOLEAN, TimerInterrupt(node) PROVE Inv'
  <2>1. /\ SaveAndSwitch(node)
        /\ booted = TRUE /\ booted' = booted
        /\ isr' \subseteq isr \cup {TimerLine}
    BY <1>1, <1>6 DEF TimerInterrupt, Deliverable, EndOfInterrupt
  <2> QED
    BY <1>1, <2>1, SaveAndSwitchKeeps, InvAfter
<1>7. ASSUME NEW line \in Devices, NEW node \in BOOLEAN,
             DeviceInterrupt(line, node)
      PROVE  Inv'
  <2>1. /\ KillCurrentAndSwitch(tcb, node) \/ SaveAndSwitch(node)
        /\ booted = TRUE /\ booted' = booted
        /\ isr' \subseteq Devices \cup {TimerLine}
    BY <1>1, <1>7 DEF DeviceInterrupt, Deliverable
  <2> QED
    BY <1>1, <1>2, <2>1, KillKeeps, SaveAndSwitchKeeps, InvAfter
<1>8. ASSUME NEW node \in BOOLEAN, FaultingInstruction(node) PROVE Inv'
  <2>1. /\ KillCurrentAndSwitch(tcb, node)
        /\ booted = TRUE /\ booted' = booted /\ isr' = isr
    BY <1>1, <1>8 DEF FaultingInstruction, Running
  <2> QED
    BY <1>1, <1>2, <2>1, KillKeeps, InvAfter
<1>9. ASSUME NEW node \in BOOLEAN, UnmappedException(node) PROVE Inv'
  <2>1. SaveAndSwitch(node) /\ booted = TRUE /\ booted' = booted /\ isr' = isr
    BY <1>1, <1>9 DEF UnmappedException, Running
  <2> QED
    BY <1>1, <2>1, SaveAndSwitchKeeps, InvAfter
<1>10. ASSUME NEW number \in SyscallNumbers, NEW node \in BOOLEAN,
              SyscallByInterrupt(number, node)
       PROVE  Inv'
  <2>1. booted = TRUE /\ booted' = booted /\ isr' = isr
    BY <1>1, <1>10 DEF SyscallByInterrupt, Running
  <2>2. CASE number = SYSCALL_EXIT
    <3>1. KillCurrentAndSwitch(tcb, node)
      BY <1>10, <2>2 DEF SyscallByInterrupt
    <3> QED
      BY <1>1, <1>2, <2>1, <3>1, KillKeeps, InvAfter
  <2>3. CASE number # SYSCALL_EXIT
    <3>1. /\ cpu' = [cpu EXCEPT !.rax = handle_syscall(number)]
          /\ sched' = sched /\ tcb' = tcb /\ mapper' = mapper
      BY <1>10, <2>3 DEF SyscallByInterrupt
    <3>2. handle_syscall(number) \in Results
      BY DEF handle_syscall, Results
    <3>3. cpu' \in Context /\ cpu'.mode = cpu.mode
      BY <1>1, <3>1, <3>2 DEF Context
    <3>4. PrivilegeKept'
      BY <1>1, <3>1, <3>3 DEF PrivilegeKept, ReadyTask, ModeOf
    <3> QED
      BY <1>1, <2>1, <3>1, <3>3, <3>4, InvAfter
  <2> QED
    BY <2>2, <2>3
<1>11. ASSUME NEW number \in SyscallNumbers, NEW node \in BOOLEAN,
              SyscallByJumper(number, node)
       PROVE  Inv'
  <2> DEFINE c == sched.current
             pushed == [cpu EXCEPT !.mode = "user"]
             saved == hal_update_current_state(pushed)
             done == [saved EXCEPT ![c].native.rax = handle_syscall(number)]
  <2>1. /\ booted = TRUE /\ booted' = booted /\ isr' = isr
        /\ c \in Tasks /\ c # NoTask
    BY <1>1, <1>11 DEF SyscallByJumper, Running
  <2>2. pushed \in Context
    BY <1>1 DEF Context, Modes
  <2> HIDE DEF pushed
  <2>3. /\ saved \in [Tasks -> TaskRecord]
        /\ ModesMatch(sched, saved)
    BY <2>2, SaveKeeps
  <2>4. CASE number = SYSCALL_EXIT
    <3>1. KillCurrentAndSwitch(saved, node)
      BY <1>11, <2>4 DEF SyscallByJumper, pushed
    <3> HIDE DEF saved
    <3> QED
      BY <1>1, <2>1, <2>3, <3>1, KillKeeps, InvAfter
  <2>5. CASE number # SYSCALL_EXIT
    <3>1. tcb' = done /\ cpu' = done[c].native
          /\ sched' = sched /\ mapper' = mapper
      BY <1>11, <2>5 DEF SyscallByJumper, pushed
    <3>2. handle_syscall(number) \in Results
      BY DEF handle_syscall, Results
    <3> HIDE DEF saved
    <3>3. /\ done \in [Tasks -> TaskRecord]
          /\ done[c].native \in Context
          /\ \A t \in Tasks : /\ done[t].native.mode = saved[t].native.mode
                              /\ done[t].kernel = saved[t].kernel
      BY <2>1, <2>3, <3>2 DEF TaskRecord, Context
    <3> HIDE DEF done
    <3>4. ModesMatch(sched, done)
      BY <2>3, <3>3 DEF ModesMatch
    <3>5. sched.status[c] = "READY"
      BY <1>1, <2>1 DEF Consistent
    <3>6. PrivilegeKept'
      BY <2>1, <3>1, <3>4, <3>5
         DEF ModesMatch, PrivilegeKept, ReadyTask, ModeOf
    <3> QED
      BY <1>1, <2>1, <3>1, <3>3, <3>6, InvAfter
  <2> QED
    BY <2>4, <2>5
<1>12. CASE UNCHANGED vars
  BY <1>12 DEF vars, Inv, TypeOK, Consistent, PrivilegeKept, ReadyTask, ModeOf,
               BootHasNoCurrent, InQueue
<1> QED
  BY <1>3, <1>4, <1>5, <1>6, <1>7, <1>8, <1>9, <1>10, <1>11, <1>12,
     AllocationAssumption DEF Next

(***************************************************************************)
(* The inductive invariant holds in every reachable state: whatever        *)
(* interrupts, faults and system calls arrive, and whichever allocations   *)
(* fail, the handlers leave a consistent scheduler and contexts with the   *)
(* privilege of their tasks.                                               *)
(***************************************************************************)
THEOREM KernelInvariant == Spec => []Inv
BY InitInv, NextInv, PTL DEF Spec

(***************************************************************************)
(* All fields keep their types in every reachable state.                   *)
(***************************************************************************)
THEOREM TypesCorrect == Spec => []TypeOK
<1>1. Inv => TypeOK
  BY DEF Inv
<1> QED
  BY <1>1, KernelInvariant, PTL

(***************************************************************************)
(* No task is ever in two places of the scheduler: scheduled_tasks never   *)
(* holds a task twice, nor the current one, nor one that is not ready.     *)
(***************************************************************************)
THEOREM EveryTaskOnePlace == Spec => []OnePlacePerTask
<1>1. Inv => OnePlacePerTask
  BY DEF Inv, Consistent, OnePlacePerTask, Queued, ReadyTask, InQueue
<1> QED
  BY <1>1, KernelInvariant, PTL

(***************************************************************************)
(* The scheduler loses a ready task only when kalloc fails for it.         *)
(***************************************************************************)
THEOREM NoTaskLostWithMemory == Spec => []ReadyTaskLostOnlyWithoutMemory
<1>1. Inv => ReadyTaskLostOnlyWithoutMemory
  BY DEF Inv, Consistent, ReadyTaskLostOnlyWithoutMemory, Queued, ReadyTask,
         InQueue
<1> QED
  BY <1>1, KernelInvariant, PTL

(***************************************************************************)
(* The address space loaded is always that of the task in execution.       *)
(***************************************************************************)
THEOREM AddressSpaceOfCurrent == Spec => []CurrentAddressSpace
<1>1. Inv => CurrentAddressSpace
  BY DEF Inv, Consistent, CurrentAddressSpace
<1> QED
  BY <1>1, KernelInvariant, PTL

(***************************************************************************)
(* No sequence of interrupts, faults and system calls changes the          *)
(* privilege a task executes with.                                         *)
(***************************************************************************)
THEOREM PrivilegeNeverChanges == Spec => []PrivilegeKept
<1>1. Inv => PrivilegeKept
  BY DEF Inv
<1> QED
  BY <1>1, KernelInvariant, PTL
=============================================================================
