-------------------------- MODULE KernelStepProofs --------------------------
(***************************************************************************)
(* Task handles, and what a step of the kernel may do to a task: proved    *)
(* for any number of tasks on top of the invariant of KernelProofs.        *)
(*                                                                         *)
(* HandlesResolve is not inductive: a handle that is removed must not have *)
(* been given to two tasks, and one that is added must be new, also to the *)
(* tasks destroyed long ago.  HandleInv says so of every task_t ever used. *)
(***************************************************************************)
EXTENDS KernelProofs

Live == {t \in Tasks : sched.status[t] \in {"CREATED", "READY"}}

EntryOf(t) == [id |-> tcb[t].id, val |-> t]

(***************************************************************************)
(* task_id_mapper holds one entry for each task created and not destroyed, *)
(* and every handle ever given out was given to one task only.             *)
(***************************************************************************)
HandleInv ==
  /\ IsInjective(mapper.list)
  /\ ToSet(mapper.list) = {EntryOf(t) : t \in Live}
  /\ \A t \in Tasks : IF sched.status[t] = "NONE"
                        THEN tcb[t].id = 0
                        ELSE 0 < tcb[t].id /\ tcb[t].id < mapper.next
  /\ \A t, u \in Tasks :
       sched.status[t] # "NONE" /\ tcb[t].id = tcb[u].id => t = u
  /\ 0 < mapper.next
-----------------------------------------------------------------------------
(***************************************************************************)
(* id_mapper_get finds the only entry with an id, and nothing else.        *)
(***************************************************************************)
LEMMA GetFinds ==
  ASSUME NEW m \in Mappers, NEW id, id # 0, NEW none
  PROVE  /\ \A e \in ToSet(m.list) :
              e.id = id /\ (\A f \in ToSet(m.list) : f.id = id => f = e) =>
                id_mapper_get(m, id, none) = e.val
         /\ (\A f \in ToSet(m.list) : f.id # id) =>
              id_mapper_get(m, id, none) = none
<1> DEFINE q == m.list
           I == {i \in 1 .. Len(q) : q[i].id = id}
           at == SelectInSeq(q, LAMBDA entry : entry.id = id)
<1>1. Len(q) \in Nat /\ DOMAIN q = 1 .. Len(q)
  BY LenProperties DEF Mappers
<1>2. at = IF I # {} THEN Min(I) ELSE 0
  BY DEF SelectInSeq
<1>3. id_mapper_get(m, id, none) = IF at = 0 THEN none ELSE q[at].val
  BY DEF id_mapper_get
<1>4. \A i \in 1 .. Len(q) : q[i] \in ToSet(q)
  BY <1>1 DEF ToSet
<1>5. ToSet(q) = {q[i] : i \in 1 .. Len(q)}
  BY <1>1 DEF ToSet
<1> HIDE DEF at
<1>6. ASSUME NEW e \in ToSet(q), e.id = id,
             \A f \in ToSet(q) : f.id = id => f = e
      PROVE  id_mapper_get(m, id, none) = e.val
  <2>1. I # {} /\ I \in SUBSET Nat
    BY <1>1, <1>5, <1>6
  <2>2. at \in I
    BY <1>2, <2>1, MinInSet
  <2>3. at # 0 /\ q[at] = e
    BY <1>1, <1>4, <1>6, <2>2
  <2> QED
    BY <1>3, <2>3
<1>7. ASSUME \A f \in ToSet(q) : f.id # id
      PROVE  id_mapper_get(m, id, none) = none
  <2>1. I = {}
    BY <1>4, <1>7
  <2> QED
    BY <1>2, <1>3, <2>1
<1> QED
  BY <1>6, <1>7

(***************************************************************************)
(* id_mapper_del removes the only entry with an id, and nothing else.      *)
(***************************************************************************)
LEMMA DelRemoves ==
  ASSUME NEW m \in Mappers, IsInjective(m.list), NEW id, id # 0
  PROVE  /\ \A e \in ToSet(m.list) :
              e.id = id /\ (\A f \in ToSet(m.list) : f.id = id => f = e) =>
                /\ IsInjective(id_mapper_del(m, id).list)
                /\ ToSet(id_mapper_del(m, id).list) = ToSet(m.list) \ {e}
         /\ (\A f \in ToSet(m.list) : f.id # id) =>
              id_mapper_del(m, id).list = m.list
         /\ id_mapper_del(m, id).next = m.next
<1> DEFINE E == [id : Nat, val : Tasks]
           q == m.list
           r == RemoveFirstMatch(q, LAMBDA entry : entry.id = id)
<1>1. Len(q) \in Nat /\ DOMAIN q = 1 .. Len(q) /\ q \in Seq(E)
  BY LenProperties DEF Mappers
<1>2. \A i \in 1 .. Len(q) : q[i] \in ToSet(q)
  BY <1>1 DEF ToSet
<1>3. ToSet(q) = {q[i] : i \in 1 .. Len(q)}
  BY <1>1 DEF ToSet
<1>4. id_mapper_del(m, id) = [m EXCEPT !.list = r]
  BY DEF id_mapper_del
<1>5. ASSUME NEW e \in ToSet(q), e.id = id,
             \A f \in ToSet(q) : f.id = id => f = e
      PROVE  r = RemoveFirst(q, e)
  <2>1. \E i \in 1 .. Len(q) : q[i] = e
    BY <1>3
  <2>2. \A i \in 1 .. Len(q) : q[i].id = id <=> q[i] = e
    BY <1>2, <1>5
  <2>3. r = RemoveAt(q, SelectInSeq(q, LAMBDA entry : entry.id = id))
    BY <2>1, <2>2 DEF RemoveFirstMatch
  <2>4. RemoveFirst(q, e) = RemoveAt(q, SelectInSeq(q, LAMBDA entry : entry = e))
    BY <2>1 DEF RemoveFirst
  <2>5. {i \in 1 .. Len(q) : q[i].id = id} = {i \in 1 .. Len(q) : q[i] = e}
    BY <2>2
  <2>6. SelectInSeq(q, LAMBDA entry : entry.id = id)
          = SelectInSeq(q, LAMBDA entry : entry = e)
    BY <2>5 DEF SelectInSeq
  <2> QED
    BY <2>3, <2>4, <2>6
<1>6. ASSUME \A f \in ToSet(q) : f.id # id
      PROVE  r = q
  BY <1>2, <1>6 DEF RemoveFirstMatch
<1> HIDE DEF r
<1>7. id_mapper_del(m, id).list = r /\ id_mapper_del(m, id).next = m.next
  BY <1>4 DEF Mappers
<1>8. \A e \in ToSet(q) : /\ IsInjective(RemoveFirst(q, e))
                          /\ ToSet(RemoveFirst(q, e)) = ToSet(q) \ {e}
  BY <1>1, RemoveFirstElements
<1> QED
  BY <1>5, <1>6, <1>7, <1>8
-----------------------------------------------------------------------------
(***************************************************************************)
(* The ways a step can touch the life of a task, its handle and the        *)
(* mapper: not at all, by creating one (or failing to), by starting one,   *)
(* and by destroying one.                                                  *)
(***************************************************************************)
SameIds == \A t \in Tasks : tcb'[t].id = tcb[t].id

NoLifeChange ==
  sched'.status = sched.status /\ SameIds /\ mapper' = mapper

CreationFails ==
  /\ sched'.status = sched.status
  /\ SameIds
  /\ \E t \in Tasks : mapper' = id_mapper_add(mapper, t, FALSE)

Creates(t) ==
  /\ sched.status[t] = "NONE"
  /\ sched'.status = [sched.status EXCEPT ![t] = "CREATED"]
  /\ mapper' = id_mapper_add(mapper, t, TRUE)
  /\ tcb'[t].id = mapper.next
  /\ \A u \in Tasks \ {t} : tcb'[u].id = tcb[u].id

Runs(t) ==
  /\ sched.status[t] = "CREATED"
  /\ sched'.status = [sched.status EXCEPT ![t] = "READY"]
  /\ SameIds
  /\ mapper' = mapper

Destroys(t) ==
  /\ sched.status[t] # "NONE"
  /\ sched'.status = [sched.status EXCEPT ![t] = "NOT_READY"]
  /\ SameIds
  /\ mapper' = id_mapper_del(mapper, tcb[t].id)

LifeStep ==
  \/ NoLifeChange
  \/ CreationFails
  \/ \E t \in Tasks : Creates(t) \/ Runs(t) \/ Destroys(t)

(***************************************************************************)
(* Saving a context touches nothing but native_task of the current task.   *)
(***************************************************************************)
LEMMA SaveKeepsIds ==
  ASSUME Inv, NEW frame \in Context
  PROVE  LET saved == hal_update_current_state(frame)
         IN  /\ saved \in [Tasks -> TaskRecord]
             /\ \A t \in Tasks : saved[t].id = tcb[t].id
             /\ \A t \in Tasks : t # sched.current => saved[t] = tcb[t]
             /\ sched.current # NoTask =>
                  saved[sched.current].native =
                    [frame EXCEPT !.mode = tcb[sched.current].native.mode]
<1> DEFINE saved == hal_update_current_state(frame)
           c == sched.current
           kept == [frame EXCEPT !.mode = tcb[c].native.mode]
<1>1. tcb \in [Tasks -> TaskRecord] /\ c \in Tasks \cup {NoTask}
  BY StateFields DEF Inv, TypeOK
<1>2. CASE c = NoTask
  BY <1>1, <1>2 DEF hal_update_current_state
<1>3. CASE c # NoTask
  <2>1. c \in Tasks /\ tcb[c] \in TaskRecord /\ tcb[c].native \in Context
    BY <1>1, <1>3 DEF TaskRecord
  <2>2. kept \in Context
    BY <2>1 DEF Context
  <2>3. saved = [tcb EXCEPT ![c].native = kept]
    BY <1>3 DEF hal_update_current_state
  <2> HIDE DEF saved, kept
  <2>4. /\ saved \in [Tasks -> TaskRecord]
        /\ saved[c].native = kept
        /\ \A t \in Tasks : saved[t].id = tcb[t].id
        /\ \A t \in Tasks : t # c => saved[t] = tcb[t]
    BY <1>1, <2>1, <2>2, <2>3 DEF TaskRecord
  <2> QED
    BY <2>4 DEF saved, kept
<1> QED
  BY <1>2, <1>3

(***************************************************************************)
(* A switch changes the life of no task.                                   *)
(***************************************************************************)
LEMMA SwitchLife ==
  ASSUME NEW s, NEW tasks, NEW node \in BOOLEAN,
         Consistent(s), SwitchFrom(s, tasks, node)
  PROVE  sched'.status = s.status /\ tcb' = tasks
<1>1. /\ s \in SchedulerState
      /\ IsInjective(s.queue)
      /\ s.current \notin InQueue(s)
  BY StateFields DEF Consistent
<1> QED
  BY <1>1, SwitchFacts DEF SwitchFrom

(***************************************************************************)
(* Destroying the current task before the switch (native_task_destroy,     *)
(* exit and a fault's handler) takes no task back to an earlier state.     *)
(***************************************************************************)
LEMMA KillLife ==
  ASSUME Inv, NEW tasks, NEW node \in BOOLEAN,
         \A t \in Tasks : tasks[t].id = tcb[t].id,
         KillCurrentAndSwitch(tasks, node)
  PROVE  LifeStep /\ (sched.current # NoTask => Destroys(sched.current))
<1> DEFINE c == sched.current
           n == scheduler_task_not_ready(sched, c, node)
<1>1. /\ Consistent(sched)
      /\ sched \in SchedulerState
      /\ IsInjective(sched.queue)
      /\ c \in Tasks \cup {NoTask}
  BY StateFields DEF Inv, Consistent
<1>2. CASE c = NoTask
  <2>1. SwitchFrom(sched, tasks, node) /\ mapper' = mapper
    BY <1>2 DEF KillCurrentAndSwitch
  <2>2. sched'.status = sched.status /\ tcb' = tasks
    BY <1>1, <2>1, SwitchLife
  <2> QED
    BY <1>2, <2>1, <2>2 DEF LifeStep, NoLifeChange, SameIds
<1>3. CASE c # NoTask
  <2>1. c \in Tasks /\ sched.status[c] = "READY"
    BY <1>1, <1>3 DEF Consistent
  <2>2. SwitchFrom(n, tasks, node) /\ mapper' = id_mapper_del(mapper, tcb[c].id)
    BY <1>3 DEF KillCurrentAndSwitch, release_scheduler, release_handle
  <2> HIDE DEF n
  <2>3. Consistent(n) /\ n.status = [sched.status EXCEPT ![c] = "NOT_READY"]
    BY <1>1, <2>1, NotReadyConsistent, NotReadyFacts DEF n
  <2>4. sched'.status = n.status /\ tcb' = tasks
    BY <2>2, <2>3, SwitchLife
  <2>5. Destroys(c)
    BY <2>1, <2>2, <2>3, <2>4 DEF Destroys, SameIds
  <2> QED
    BY <2>1, <2>5 DEF LifeStep
<1> QED
  BY <1>2, <1>3

(***************************************************************************)
(* Saving the interrupted context (hal_update_current_state) and switching *)
(* moves no task's life backwards.                                         *)
(***************************************************************************)
LEMMA SaveLife ==
  ASSUME Inv, NEW node \in BOOLEAN, SaveAndSwitch(node)
  PROVE  LifeStep
<1> DEFINE saved == hal_update_current_state(cpu)
<1>1. Consistent(sched) /\ cpu \in Context
  BY DEF Inv, TypeOK
<1>2. \A t \in Tasks : saved[t].id = tcb[t].id
  BY <1>1, SaveKeepsIds
<1>3. SwitchFrom(sched, saved, node) /\ mapper' = mapper
  BY DEF SaveAndSwitch
<1> HIDE DEF saved
<1>4. sched'.status = sched.status /\ tcb' = saved
  BY <1>1, <1>3, SwitchLife
<1> QED
  BY <1>2, <1>3, <1>4 DEF LifeStep, NoLifeChange, SameIds

(***************************************************************************)
(* Every step of the kernel is one of these.                               *)
(***************************************************************************)
LEMMA BootCallLife ==
  ASSUME Inv, NEW t \in Tasks, NEW node \in BOOLEAN, BootCall(t, node)
  PROVE  LifeStep
<1>1. /\ sched \in SchedulerState
      /\ IsInjective(sched.queue)
      /\ sched.status \in [Tasks -> Status]
      /\ tcb \in [Tasks -> TaskRecord]
  BY StateFields DEF Inv, TypeOK, Consistent
<1>2. CASE task_create(t, node)
  <2>1. CASE ~node
    <3>1. UNCHANGED <<sched, tcb>> /\ mapper' = id_mapper_add(mapper, t, FALSE)
      BY <1>2, <2>1 DEF task_create
    <3> QED
      BY <3>1 DEF LifeStep, CreationFails, SameIds
  <2>2. CASE node
    <3> DEFINE new == [id |-> mapper.next, kernel |-> FALSE, userdata |-> 0,
                       native |-> BlankContext]
    <3>1. /\ sched.status[t] = "NONE"
          /\ sched' = [sched EXCEPT !.status = [@ EXCEPT ![t] = "CREATED"]]
          /\ tcb' = [tcb EXCEPT ![t] = new]
          /\ mapper' = id_mapper_add(mapper, t, TRUE)
      BY <1>2, <2>2 DEF task_create
    <3>2. sched'.status = [sched.status EXCEPT ![t] = "CREATED"]
      BY <1>1, <3>1 DEF SchedulerState
    <3>3. new.id = mapper.next
      OBVIOUS
    <3> HIDE DEF new
    <3>4. tcb'[t] = new /\ \A u \in Tasks \ {t} : tcb'[u] = tcb[u]
      BY <1>1, <3>1
    <3> QED
      BY <3>1, <3>2, <3>3, <3>4 DEF LifeStep, Creates
  <2> QED
    BY <2>1, <2>2
<1>3. CASE task_set_kernel_mode(t)
  <2>1. /\ tcb' = [tcb EXCEPT ![t].kernel = TRUE]
        /\ sched' = sched /\ mapper' = mapper
    BY <1>3 DEF task_set_kernel_mode
  <2>2. SameIds
    BY <1>1, <2>1 DEF SameIds, TaskRecord
  <2> QED
    BY <2>1, <2>2 DEF LifeStep, NoLifeChange
<1>4. CASE task_set_arguments(t)
  <2>1. PICK address \in Registers : tcb' = [tcb EXCEPT ![t].userdata = address]
    BY <1>4 DEF task_set_arguments
  <2>2. sched' = sched /\ mapper' = mapper
    BY <1>4 DEF task_set_arguments
  <2>3. SameIds
    BY <1>1, <2>1 DEF SameIds, TaskRecord
  <2> QED
    BY <2>2, <2>3 DEF LifeStep, NoLifeChange
<1>5. CASE task_run(t, node)
  <2> DEFINE start == native_task_create(t)
  <2>1. /\ sched.status[t] = "CREATED"
        /\ tcb' = [tcb EXCEPT ![t].native = start]
        /\ sched' = scheduler_task_ready(sched, t, node)
        /\ mapper' = mapper
    BY <1>5 DEF task_run
  <2> HIDE DEF start
  <2>2. SameIds
    BY <1>1, <2>1 DEF SameIds, TaskRecord
  <2>3. sched'.status = [sched.status EXCEPT ![t] = "READY"]
    BY <1>1, <2>1, ReadyFacts
  <2> QED
    BY <2>1, <2>2, <2>3 DEF LifeStep, Runs
<1>6. CASE task_destroy(t, node)
  <2>1. /\ sched.status[t] # "NONE"
        /\ sched' = scheduler_task_not_ready(sched, t, node)
        /\ mapper' = id_mapper_del(mapper, tcb[t].id)
        /\ tcb' = tcb
    BY <1>6 DEF task_destroy, release_scheduler, release_handle
  <2>2. sched'.status = [sched.status EXCEPT ![t] = "NOT_READY"]
    BY <1>1, <2>1, NotReadyFacts
  <2> QED
    BY <2>1, <2>2 DEF LifeStep, Destroys, SameIds
<1> QED
  BY <1>2, <1>3, <1>4, <1>5, <1>6 DEF BootCall

(***************************************************************************)
(* No step of the kernel moves a task's life backwards.                    *)
(***************************************************************************)
LEMMA NextLife == Inv /\ [Next]_vars => LifeStep
<1> SUFFICES ASSUME Inv, [Next]_vars PROVE LifeStep
  OBVIOUS
<1>1. /\ Consistent(sched)
      /\ tcb \in [Tasks -> TaskRecord]
      /\ cpu \in Context
      /\ sched.current \in Tasks \cup {NoTask}
  BY StateFields DEF Inv, TypeOK
<1>2. ASSUME NEW t \in Tasks, NEW node \in BOOLEAN, BootCall(t, node)
      PROVE  LifeStep
  BY <1>2, BootCallLife
<1>3. ASSUME NEW node \in BOOLEAN, StartScheduling(node) PROVE LifeStep
  <2>1. SwitchFrom(sched, tcb, node) /\ mapper' = mapper
    BY <1>3 DEF StartScheduling
  <2>2. sched'.status = sched.status /\ tcb' = tcb
    BY <1>1, <2>1, SwitchLife
  <2> QED
    BY <2>1, <2>2 DEF LifeStep, NoLifeChange, SameIds
<1>4. CASE TaskStep
  BY <1>4 DEF TaskStep, LifeStep, NoLifeChange, SameIds
<1>5. ASSUME NEW node \in BOOLEAN, TimerInterrupt(node) PROVE LifeStep
  BY <1>5, SaveLife DEF TimerInterrupt
<1>6. ASSUME NEW line \in Devices, NEW node \in BOOLEAN,
             DeviceInterrupt(line, node)
      PROVE  LifeStep
  BY <1>6, SaveLife, KillLife DEF DeviceInterrupt
<1>7. ASSUME NEW node \in BOOLEAN, FaultingInstruction(node) PROVE LifeStep
  BY <1>7, KillLife DEF FaultingInstruction
<1>8. ASSUME NEW node \in BOOLEAN, UnmappedException(node) PROVE LifeStep
  BY <1>8, SaveLife DEF UnmappedException
<1>9. ASSUME NEW number \in SyscallNumbers, NEW node \in BOOLEAN,
             SyscallByInterrupt(number, node)
      PROVE  LifeStep
  <2>1. CASE number = SYSCALL_EXIT
    BY <1>9, <2>1, KillLife DEF SyscallByInterrupt
  <2>2. CASE number # SYSCALL_EXIT
    BY <1>9, <2>2 DEF SyscallByInterrupt, LifeStep, NoLifeChange, SameIds
  <2> QED
    BY <2>1, <2>2
<1>10. ASSUME NEW number \in SyscallNumbers, NEW node \in BOOLEAN,
              SyscallByJumper(number, node)
       PROVE  LifeStep
  <2> DEFINE c == sched.current
             pushed == [cpu EXCEPT !.mode = "user"]
             saved == hal_update_current_state(pushed)
             done == [saved EXCEPT ![c].native.rax = handle_syscall(number)]
  <2>1. pushed \in Context
    BY <1>1 DEF Context, Modes
  <2> HIDE DEF pushed
  <2>2. saved \in [Tasks -> TaskRecord] /\ \A t \in Tasks : saved[t].id = tcb[t].id
    BY <2>1, SaveKeepsIds
  <2>3. CASE number = SYSCALL_EXIT
    <3>1. KillCurrentAndSwitch(saved, node)
      BY <1>10, <2>3 DEF SyscallByJumper, pushed
    <3> HIDE DEF saved
    <3> QED
      BY <2>2, <3>1, KillLife
  <2>4. CASE number # SYSCALL_EXIT
    <3>1. tcb' = done /\ sched' = sched /\ mapper' = mapper
      BY <1>10, <2>4 DEF SyscallByJumper, pushed
    <3> HIDE DEF saved
    <3>2. \A t \in Tasks : done[t].id = saved[t].id
      BY <2>2 DEF TaskRecord
    <3> HIDE DEF done
    <3> QED
      BY <2>2, <3>1, <3>2 DEF LifeStep, NoLifeChange, SameIds
  <2> QED
    BY <2>3, <2>4
<1>11. CASE UNCHANGED vars
  BY <1>11 DEF vars, LifeStep, NoLifeChange, SameIds
<1> QED
  BY <1>2, <1>3, <1>4, <1>5, <1>6, <1>7, <1>8, <1>9, <1>10, <1>11,
     AllocationAssumption DEF Next
-----------------------------------------------------------------------------
(***************************************************************************)
(* At boot no task exists and the mapper has no handle to resolve.         *)
(***************************************************************************)
LEMMA HandleInit == Init => HandleInv
<1> SUFFICES ASSUME Init PROVE HandleInv
  OBVIOUS
<1>1. /\ sched.status = [t \in Tasks |-> "NONE"]
      /\ mapper.list = << >> /\ mapper.next = 1
      /\ \A t \in Tasks : tcb[t].id = 0
  BY DEF Init, scheduler_initialise, task_service_initialize, id_mapper_create
<1>2. IsInjective(mapper.list) /\ ToSet(mapper.list) = {}
  BY <1>1 DEF IsInjective, ToSet
<1>3. Live = {}
  BY <1>1 DEF Live
<1> QED
  BY <1>1, <1>2, <1>3 DEF HandleInv

(***************************************************************************)
(* A new entry takes the next number, which no task ever had; the entry of *)
(* a destroyed task is the only one with its number.                       *)
(***************************************************************************)
LEMMA HandleNext == Inv /\ HandleInv /\ LifeStep => HandleInv'
<1> SUFFICES ASSUME Inv, HandleInv, LifeStep PROVE HandleInv'
  OBVIOUS
<1>1. /\ sched.status \in [Tasks -> Status]
      /\ tcb \in [Tasks -> TaskRecord]
      /\ mapper \in Mappers
      /\ mapper.list \in Seq([id : Nat, val : Tasks])
      /\ mapper.next \in Nat
  BY StateFields DEF Inv, TypeOK, Mappers
<1>2. \A t \in Tasks : tcb[t].id \in Nat
  BY <1>1 DEF TaskRecord
<1>3. /\ IsInjective(mapper.list)
      /\ ToSet(mapper.list) = {EntryOf(t) : t \in Live}
      /\ ToSet(mapper.list) = {[id |-> tcb[t].id, val |-> t] : t \in Live}
      /\ \A t \in Tasks : IF sched.status[t] = "NONE"
                            THEN tcb[t].id = 0
                            ELSE 0 < tcb[t].id /\ tcb[t].id < mapper.next
      /\ \A t, u \in Tasks :
           sched.status[t] # "NONE" /\ tcb[t].id = tcb[u].id => t = u
  BY DEF HandleInv, EntryOf
<1>4. CASE NoLifeChange
  <2>1. Live' = Live
    BY <1>4 DEF NoLifeChange, Live
  <2>2. {EntryOf(t)' : t \in Live'} = {EntryOf(t) : t \in Live}
    BY <1>4, <2>1 DEF NoLifeChange, SameIds, EntryOf, Live
  <2> QED
    BY <1>4, <2>2 DEF HandleInv, NoLifeChange, SameIds
<1>5. CASE CreationFails
  <2>1. mapper'.list = mapper.list /\ mapper'.next = mapper.next + 1
    BY <1>5 DEF CreationFails, id_mapper_add
  <2>2. Live' = Live
    BY <1>5 DEF CreationFails, Live
  <2>3. {EntryOf(t)' : t \in Live'} = {EntryOf(t) : t \in Live}
    BY <1>5, <2>2 DEF CreationFails, SameIds, EntryOf, Live
  <2>4. \A t \in Tasks : IF sched'.status[t] = "NONE"
                           THEN tcb'[t].id = 0
                           ELSE 0 < tcb'[t].id /\ tcb'[t].id < mapper'.next
    <3> TAKE t \in Tasks
    <3>1. sched'.status[t] = sched.status[t] /\ tcb'[t].id = tcb[t].id
      BY <1>5 DEF CreationFails, SameIds
    <3> QED
      BY <1>1, <1>2, <1>3, <2>1, <3>1
  <2>5. \A t, u \in Tasks :
          sched'.status[t] # "NONE" /\ tcb'[t].id = tcb'[u].id => t = u
    BY <1>3, <1>5 DEF CreationFails, SameIds
  <2>6. 0 < mapper'.next
    BY <1>1, <2>1
  <2> QED
    BY <1>3, <2>1, <2>3, <2>4, <2>5, <2>6 DEF HandleInv
<1>6. ASSUME NEW t \in Tasks, Creates(t) PROVE HandleInv'
  <2> DEFINE e == [id |-> mapper.next, val |-> t]
  <2>1. mapper'.list = Append(mapper.list, e) /\ mapper'.next = mapper.next + 1
    BY <1>6 DEF Creates, id_mapper_add
  <2>2. e \in [id : Nat, val : Tasks] /\ e.id = mapper.next
    BY <1>1
  <2>3. e \notin ToSet(mapper.list)
    <3> SUFFICES ASSUME NEW u \in Live, e = [id |-> tcb[u].id, val |-> u]
                 PROVE  FALSE
      BY <1>3
    <3>1. tcb[u].id < mapper.next
      BY DEF Live, HandleInv
    <3> QED
      BY <1>1, <1>2, <3>1 DEF Live
  <2> HIDE DEF e
  <2>4. /\ IsInjective(mapper'.list)
        /\ ToSet(mapper'.list) = ToSet(mapper.list) \cup {e}
    <3> DEFINE E == [id : Nat, val : Tasks]
    <3>1. mapper.list \in Seq(E) /\ e \in E
      BY <1>1, <2>2
    <3> HIDE DEF E
    <3>2. /\ ToSet(Append(mapper.list, e)) = ToSet(mapper.list) \cup {e}
          /\ IsInjective(Append(mapper.list, e))
      BY <1>3, <2>3, <3>1, AppendElements
    <3> QED
      BY <2>1, <3>2
  <2>5. t \notin Live /\ Live' = Live \cup {t}
    BY <1>1, <1>6 DEF Creates, Live
  <2>6. {EntryOf(u)' : u \in Live'} = ToSet(mapper.list) \cup {e}
    <3>1. \A u \in Live : EntryOf(u)' = EntryOf(u)
      BY <1>6, <2>5 DEF Creates, EntryOf, Live
    <3>2. EntryOf(t)' = e
      BY <1>6 DEF Creates, EntryOf, e
    <3> QED
      BY <2>5, <3>1, <3>2 DEF HandleInv
  <2>7. /\ sched'.status[t] = "CREATED"
        /\ tcb'[t].id = mapper.next
        /\ \A u \in Tasks \ {t} : /\ tcb'[u].id = tcb[u].id
                                  /\ sched'.status[u] = sched.status[u]
    BY <1>1, <1>6 DEF Creates
  <2>8. \A u \in Tasks : IF sched'.status[u] = "NONE"
                           THEN tcb'[u].id = 0
                           ELSE 0 < tcb'[u].id /\ tcb'[u].id < mapper'.next
    BY <1>1, <1>2, <2>1, <2>7 DEF HandleInv
  <2>9. ASSUME NEW u \in Tasks, NEW w \in Tasks,
               sched'.status[u] # "NONE", tcb'[u].id = tcb'[w].id
        PROVE  u = w
    <3>1. \A x \in Tasks \ {t} : tcb'[x].id # mapper.next
      BY <1>1, <1>2, <2>7 DEF HandleInv
    <3> QED
      BY <2>7, <2>9, <3>1 DEF HandleInv
  <2>10. 0 < mapper'.next
    BY <1>1, <2>1
  <2> QED
    BY <2>4, <2>6, <2>8, <2>9, <2>10 DEF HandleInv
<1>7. ASSUME NEW t \in Tasks, Runs(t) PROVE HandleInv'
  <2>1. Live' = Live
    BY <1>1, <1>7 DEF Runs, Live
  <2>2. {EntryOf(u)' : u \in Live'} = {EntryOf(u) : u \in Live}
    BY <1>7, <2>1 DEF Runs, SameIds, EntryOf, Live
  <2>3. \A u \in Tasks : sched'.status[u] = "NONE" <=> sched.status[u] = "NONE"
    BY <1>1, <1>7 DEF Runs
  <2> QED
    BY <1>7, <2>2, <2>3 DEF HandleInv, Runs, SameIds
<1>8. ASSUME NEW t \in Tasks, Destroys(t) PROVE HandleInv'
  <2> DEFINE id == tcb[t].id
  <2>1. id \in Nat /\ id # 0
    BY <1>2, <1>8 DEF Destroys, HandleInv
  <2>2. \A f \in ToSet(mapper.list) : f.id = id => t \in Live /\ f = EntryOf(t)
    <3> SUFFICES ASSUME NEW u \in Live, tcb[u].id = tcb[t].id
                 PROVE  u = t
      BY <1>3 DEF EntryOf
    <3> QED
      BY <1>8 DEF HandleInv, Destroys, Live
  <2>3. /\ IsInjective(mapper'.list)
        /\ ToSet(mapper'.list) = ToSet(mapper.list) \ {EntryOf(t)}
        /\ mapper'.next = mapper.next
    <3>1. mapper' = id_mapper_del(mapper, id) /\ IsInjective(mapper.list)
      BY <1>8 DEF Destroys, HandleInv
    <3>2. CASE t \in Live
      <4>1. EntryOf(t) \in ToSet(mapper.list) /\ EntryOf(t).id = id
        BY <3>2 DEF HandleInv, EntryOf
      <4> DEFINE e == EntryOf(t)
      <4> HIDE DEF id, e
      <4>2. /\ e \in ToSet(mapper.list) /\ e.id = id
            /\ \A f \in ToSet(mapper.list) : f.id = id => f = e
        BY <2>2, <4>1 DEF e
      <4>3. /\ IsInjective(id_mapper_del(mapper, id).list)
            /\ ToSet(id_mapper_del(mapper, id).list) = ToSet(mapper.list) \ {e}
            /\ id_mapper_del(mapper, id).next = mapper.next
        <5>1. mapper \in Mappers /\ IsInjective(mapper.list) /\ id # 0
          BY <1>1, <2>1, <3>1
        <5>2. /\ \A g \in ToSet(mapper.list) :
                   g.id = id /\ (\A f \in ToSet(mapper.list) : f.id = id => f = g) =>
                     /\ IsInjective(id_mapper_del(mapper, id).list)
                     /\ ToSet(id_mapper_del(mapper, id).list) = ToSet(mapper.list) \ {g}
              /\ id_mapper_del(mapper, id).next = mapper.next
          BY <5>1, DelRemoves
        <5> QED
          BY <4>2, <5>2
      <4> QED
        BY <3>1, <4>3 DEF e
    <3>3. CASE t \notin Live
      <4>1. \A f \in ToSet(mapper.list) : f.id # id
        BY <2>2, <3>3
      <4>2. EntryOf(t) \notin ToSet(mapper.list)
        BY <4>1 DEF EntryOf
      <4> HIDE DEF id
      <4> QED
        BY <1>1, <2>1, <3>1, <4>1, <4>2, DelRemoves
    <3> QED
      BY <3>2, <3>3
  <2>4. Live' = Live \ {t}
    BY <1>1, <1>8 DEF Destroys, Live
  <2>5. {EntryOf(u)' : u \in Live'} = ToSet(mapper.list) \ {EntryOf(t)}
    <3>1. \A u \in Live' : EntryOf(u)' = EntryOf(u)
      BY <1>8, <2>4 DEF Destroys, SameIds, EntryOf, Live
    <3>2. \A u \in Tasks : EntryOf(u) = EntryOf(t) => u = t
      BY DEF EntryOf
    <3>3. {EntryOf(u)' : u \in Live'} = {EntryOf(u) : u \in Live'}
      BY <3>1
    <3>4. Live \subseteq Tasks
      BY DEF Live
    <3> QED
      BY <1>3, <2>4, <3>2, <3>3, <3>4
  <2>6. \A u \in Tasks : sched'.status[u] = "NONE" <=> sched.status[u] = "NONE"
    BY <1>1, <1>8 DEF Destroys
  <2> QED
    BY <1>8, <2>3, <2>5, <2>6 DEF HandleInv, Destroys, SameIds
<1> QED
  BY <1>4, <1>5, <1>6, <1>7, <1>8 DEF LifeStep

(***************************************************************************)
(* HandleInv holds in every reachable state.                               *)
(***************************************************************************)
THEOREM HandleInvariant == Spec => []HandleInv
<1>1. Inv /\ HandleInv /\ [Next]_vars => HandleInv'
  BY NextLife, HandleNext
<1> QED
  BY <1>1, HandleInit, KernelInvariant, PTL DEF Spec

(***************************************************************************)
(* task_get on the handle of a task returns that task from its creation    *)
(* until it is destroyed and NULL before and after, whatever other tasks   *)
(* were created, killed by a fault or refused for lack of memory.          *)
(***************************************************************************)
THEOREM HandlesAlwaysResolve == Spec => []HandlesResolve
<1>1. ASSUME Inv, HandleInv PROVE HandlesResolve
  <2> SUFFICES ASSUME NEW t \in Tasks
               PROVE  task_get(tcb[t].id) = IF t \in Live THEN t ELSE NoTask
    BY DEF HandlesResolve, Live
  <2> DEFINE id == tcb[t].id
  <2>1. mapper \in Mappers
    BY <1>1 DEF Inv, TypeOK, Mappers
  <2>2. task_get(id) = id_mapper_get(mapper, id, NoTask)
    BY DEF task_get
  <2>3. CASE sched.status[t] = "NONE"
    <3>1. id = 0 /\ t \notin Live
      BY <1>1, <2>3 DEF HandleInv, Live
    <3> QED
      BY <2>2, <3>1 DEF id_mapper_get
  <2>4. CASE sched.status[t] # "NONE"
    <3>1. id # 0
      BY <1>1, <2>4 DEF HandleInv
    <3>2. \A f \in ToSet(mapper.list) : f.id = id => t \in Live /\ f = EntryOf(t)
      <4> SUFFICES ASSUME NEW u \in Live, tcb[u].id = tcb[t].id
                   PROVE  u = t
        BY <1>1 DEF HandleInv, EntryOf
      <4> QED
        BY <1>1, <2>4 DEF HandleInv, Live
    <3>3. CASE t \in Live
      <4>1. /\ EntryOf(t) \in ToSet(mapper.list)
            /\ EntryOf(t).id = id /\ EntryOf(t).val = t
        BY <1>1, <3>3 DEF HandleInv, EntryOf
      <4> HIDE DEF id
      <4> QED
        BY <2>1, <2>2, <3>1, <3>2, <3>3, <4>1, GetFinds DEF id
    <3>4. CASE t \notin Live
      <4>1. \A f \in ToSet(mapper.list) : f.id # id
        BY <3>2, <3>4
      <4> HIDE DEF id
      <4> QED
        BY <2>1, <2>2, <3>1, <3>4, <4>1, GetFinds DEF id
    <3> QED
      BY <3>3, <3>4
  <2> QED
    BY <2>3, <2>4
<1> QED
  BY <1>1, KernelInvariant, HandleInvariant, PTL

(***************************************************************************)
(* Rank numbers the states of a task in the order of its life.             *)
(***************************************************************************)
RankOf(status) ==
  CASE status = "NONE" -> 1
    [] status = "CREATED" -> 2
    [] status = "READY" -> 3
    [] status = "NOT_READY" -> 4

(***************************************************************************)
(* The rank that LifeIsOneWay chooses, written case by case.               *)
(***************************************************************************)
LEMMA RankIsRankOf ==
  ASSUME NEW status \in Status
  PROVE  (CHOOSE i \in 1..4 :
            <<"NONE", "CREATED", "READY", "NOT_READY">>[i] = status)
           = RankOf(status)
<1> DEFINE names == <<"NONE", "CREATED", "READY", "NOT_READY">>
<1>1. \A i \in 1..4 : i = 1 \/ i = 2 \/ i = 3 \/ i = 4
  OBVIOUS
<1>2. /\ names[1] = "NONE" /\ names[2] = "CREATED"
      /\ names[3] = "READY" /\ names[4] = "NOT_READY"
  OBVIOUS
<1> HIDE DEF names
<1>3. RankOf(status) \in 1..4 /\ names[RankOf(status)] = status
  BY <1>2 DEF RankOf, Status
<1>4. \A i \in 1..4 : names[i] = status => i = RankOf(status)
  BY <1>1, <1>2 DEF RankOf
<1> QED
  BY <1>3, <1>4 DEF names

(***************************************************************************)
(* A task that was destroyed, by task_destroy, by exit or by a fault, is   *)
(* never started or scheduled again, and no step takes a task back.        *)
(***************************************************************************)
THEOREM LifeNeverReturns == Spec => LifeIsOneWay
<1>1. ASSUME Inv, Inv', [Next]_vars
      PROVE  \A t \in Tasks : Rank(t) <= Rank(t)'
  <2> TAKE t \in Tasks
  <2>1. /\ sched.status \in [Tasks -> Status]
        /\ sched'.status \in [Tasks -> Status]
    BY <1>1, StateFields DEF Inv, TypeOK
  <2>2. /\ Rank(t) = RankOf(sched.status[t])
        /\ Rank(t)' = RankOf(sched'.status[t])
    BY <2>1, RankIsRankOf DEF Rank
  <2>3. LifeStep
    BY <1>1, NextLife
  <2>4. \/ sched'.status[t] = sched.status[t]
        \/ sched.status[t] = "NONE" /\ sched'.status[t] = "CREATED"
        \/ sched.status[t] = "CREATED" /\ sched'.status[t] = "READY"
        \/ sched'.status[t] = "NOT_READY"
    BY <2>1, <2>3 DEF LifeStep, NoLifeChange, CreationFails, Creates, Runs,
                      Destroys
  <2> QED
    BY <2>1, <2>2, <2>4 DEF RankOf, Status
<1> QED
  BY <1>1, KernelInvariant, PTL DEF Spec, LifeIsOneWay
-----------------------------------------------------------------------------
(***************************************************************************)
(* After a switch every task has the registers of the records the switch   *)
(* was called with, in the processor or saved.                             *)
(***************************************************************************)
LEMMA SwitchRegisters ==
  ASSUME NEW s, NEW tasks, NEW node, NEW t \in Tasks, SwitchFrom(s, tasks, node)
  PROVE  RegistersOf(t)' = <<tasks[t].native.regs, tasks[t].native.rax>>
<1>1. /\ tcb' = tasks
      /\ cpu' = IF sched'.current = NoTask THEN SleepContext
                                           ELSE tasks[sched'.current].native
  BY DEF SwitchFrom, native_task_switch
<1>2. t # NoTask
  BY NoTaskAssumption
<1> QED
  BY <1>1, <1>2 DEF RegistersOf

(***************************************************************************)
(* What RegistersSurviveSwitches says of one step.                         *)
(***************************************************************************)
RegistersKept ==
  \A t \in Tasks :
    ReadyTask(t) /\ RegistersOf(t)' # RegistersOf(t) =>
      \/ sched'.status[t] = "NOT_READY"
      \/ sched.current = t /\ UNCHANGED <<sched, mapper, isr>>

(***************************************************************************)
(* Destroying the current task changes the registers of no other task that *)
(* is ready.                                                               *)
(***************************************************************************)
LEMMA KillRegisters ==
  ASSUME Inv, NEW tasks, NEW node \in BOOLEAN,
         \A t \in Tasks : tasks[t].id = tcb[t].id,
         \A t \in Tasks : t # sched.current => tasks[t] = tcb[t],
         KillCurrentAndSwitch(tasks, node)
  PROVE  RegistersKept
<1> SUFFICES ASSUME NEW t \in Tasks
             PROVE  \/ RegistersOf(t)' = RegistersOf(t)
                    \/ sched'.status[t] = "NOT_READY"
  BY DEF RegistersKept
<1>1. CASE t = sched.current
  <2>1. Destroys(t) /\ sched.status \in [Tasks -> Status]
    BY <1>1, KillLife, NoTaskAssumption, StateFields DEF Inv, TypeOK
  <2> QED
    BY <2>1 DEF Destroys
<1>2. CASE t # sched.current
  <2>1. \E s : SwitchFrom(s, tasks, node)
    BY DEF KillCurrentAndSwitch
  <2>2. RegistersOf(t)' = <<tasks[t].native.regs, tasks[t].native.rax>>
    BY <2>1, SwitchRegisters
  <2> QED
    BY <1>2, <2>2 DEF RegistersOf
<1> QED
  BY <1>1, <1>2

(***************************************************************************)
(* Saving the context and switching: the registers saved at the interrupt  *)
(* are those the task resumes with.                                        *)
(***************************************************************************)
LEMMA SaveRegisters ==
  ASSUME Inv, NEW node \in BOOLEAN, SaveAndSwitch(node)
  PROVE  RegistersKept
<1> SUFFICES ASSUME NEW t \in Tasks
             PROVE  RegistersOf(t)' = RegistersOf(t)
  BY DEF RegistersKept
<1> DEFINE saved == hal_update_current_state(cpu)
           kept == [cpu EXCEPT !.mode = tcb[sched.current].native.mode]
<1>1. cpu \in Context
  BY DEF Inv, TypeOK
<1>2. /\ \A u \in Tasks : u # sched.current => saved[u] = tcb[u]
      /\ sched.current # NoTask => saved[sched.current].native = kept
  BY <1>1, SaveKeepsIds
<1>3. kept.regs = cpu.regs /\ kept.rax = cpu.rax
  BY <1>1 DEF Context
<1>4. SwitchFrom(sched, saved, node)
  BY DEF SaveAndSwitch
<1> HIDE DEF saved, kept
<1>5. RegistersOf(t)' = <<saved[t].native.regs, saved[t].native.rax>>
  BY <1>4, SwitchRegisters
<1> QED
  BY <1>2, <1>3, <1>5, NoTaskAssumption DEF RegistersOf

(***************************************************************************)
(* A call made while the kernel boots changes no ready task's registers.   *)
(***************************************************************************)
LEMMA BootCallRegisters ==
  ASSUME Inv, NEW t \in Tasks, NEW node \in BOOLEAN, BootCall(t, node)
  PROVE  RegistersKept
<1> SUFFICES ASSUME NEW u \in Tasks, ReadyTask(u)
             PROVE  RegistersOf(u)' = RegistersOf(u)
  BY DEF RegistersKept
<1>1. /\ sched \in SchedulerState
      /\ IsInjective(sched.queue)
      /\ tcb \in [Tasks -> TaskRecord]
      /\ sched.current = NoTask
      /\ u # NoTask
  BY StateFields, NoTaskAssumption
     DEF Inv, TypeOK, Consistent, BootCall, BootHasNoCurrent
<1>2. SUFFICES sched'.current = NoTask /\ tcb'[u].native = tcb[u].native
  BY <1>1 DEF RegistersOf
<1>3. CASE task_create(t, node)
  <2> DEFINE new == [id |-> mapper.next, kernel |-> FALSE, userdata |-> 0,
                     native |-> BlankContext]
  <2>1. u # t
    BY <1>3 DEF task_create, ReadyTask
  <2>2. /\ tcb' = [tcb EXCEPT ![t] = new] \/ tcb' = tcb
        /\ \/ sched' = [sched EXCEPT !.status = [@ EXCEPT ![t] = "CREATED"]]
           \/ sched' = sched
    BY <1>3 DEF task_create
  <2> HIDE DEF new
  <2>3. sched'.current = sched.current
    BY <1>1, <2>2 DEF SchedulerState
  <2>4. tcb'[u] = tcb[u]
    BY <1>1, <2>1, <2>2
  <2> QED
    BY <1>1, <2>3, <2>4
<1>4. CASE task_set_kernel_mode(t)
  BY <1>1, <1>4 DEF task_set_kernel_mode, TaskRecord
<1>5. CASE task_set_arguments(t)
  BY <1>1, <1>5 DEF task_set_arguments, TaskRecord
<1>6. CASE task_run(t, node)
  <2>1. u # t
    BY <1>6 DEF task_run, ReadyTask
  <2>2. tcb'[u] = tcb[u]
    BY <1>1, <1>6, <2>1 DEF task_run
  <2>3. sched'.current = sched.current
    <3>1. sched' = scheduler_task_ready(sched, t, node) /\ sched \in SchedulerState
      BY <1>1, <1>6 DEF task_run
    <3>2. scheduler_task_ready(sched, t, node).current = sched.current
      BY <3>1, ReadyKeepsCurrent
    <3> QED
      BY <3>1, <3>2
  <2> QED
    BY <1>1, <2>2, <2>3
<1>7. CASE task_destroy(t, node)
  <2>1. tcb' = tcb /\ sched' = scheduler_task_not_ready(sched, t, node)
    BY <1>7 DEF task_destroy, release_scheduler
  <2>2. sched'.current = NoTask
    <3>1. sched'.current = IF sched.current = t THEN NoTask ELSE sched.current
      <4>1. sched \in SchedulerState /\ IsInjective(sched.queue)
        BY <1>1
      <4>2. scheduler_task_not_ready(sched, t, node).current
              = IF sched.current = t THEN NoTask ELSE sched.current
        BY <4>1, NotReadyCurrent
      <4> QED
        BY <2>1, <4>2
    <3> QED
      BY <1>1, <3>1
  <2> QED
    BY <2>1, <2>2
<1> QED
  BY <1>3, <1>4, <1>5, <1>6, <1>7 DEF BootCall

(***************************************************************************)
(* A task that is interrupted finds its registers as it left them, however *)
(* often it is preempted and whatever happens to the other tasks: what     *)
(* changes them is its own instructions and the results of its own calls.  *)
(***************************************************************************)
THEOREM RegistersAlwaysSurvive == Spec => RegistersSurviveSwitches
<1>1. ASSUME Inv, [Next]_vars PROVE RegistersKept
  <2>1. /\ tcb \in [Tasks -> TaskRecord]
        /\ cpu \in Context
        /\ sched.current \in Tasks \cup {NoTask}
    BY <1>1, StateFields DEF Inv, TypeOK
  <2>2. ASSUME NEW t \in Tasks, NEW node \in BOOLEAN, BootCall(t, node)
        PROVE  RegistersKept
    BY <1>1, <2>2, BootCallRegisters
  <2>3. ASSUME NEW node \in BOOLEAN, StartScheduling(node) PROVE RegistersKept
    <3> SUFFICES ASSUME NEW t \in Tasks PROVE RegistersOf(t)' = RegistersOf(t)
      BY DEF RegistersKept
    <3>1. SwitchFrom(sched, tcb, node) /\ sched.current = NoTask
      BY <1>1, <2>3 DEF StartScheduling, Inv, BootHasNoCurrent
    <3>2. RegistersOf(t)' = <<tcb[t].native.regs, tcb[t].native.rax>>
      BY <3>1, SwitchRegisters
    <3> QED
      BY <3>1, <3>2, NoTaskAssumption DEF RegistersOf
  <2>4. CASE TaskStep
    BY <2>4 DEF TaskStep, RegistersKept, RegistersOf
  <2>5. ASSUME NEW node \in BOOLEAN, TimerInterrupt(node) PROVE RegistersKept
    BY <1>1, <2>5, SaveRegisters DEF TimerInterrupt
  <2>6. ASSUME NEW line \in Devices, NEW node \in BOOLEAN,
               DeviceInterrupt(line, node)
        PROVE  RegistersKept
    BY <1>1, <2>6, SaveRegisters, KillRegisters DEF DeviceInterrupt
  <2>7. ASSUME NEW node \in BOOLEAN, FaultingInstruction(node) PROVE RegistersKept
    BY <1>1, <2>7, KillRegisters DEF FaultingInstruction
  <2>8. ASSUME NEW node \in BOOLEAN, UnmappedException(node) PROVE RegistersKept
    BY <1>1, <2>8, SaveRegisters DEF UnmappedException
  <2>9. ASSUME NEW number \in SyscallNumbers, NEW node \in BOOLEAN,
               SyscallByInterrupt(number, node)
        PROVE  RegistersKept
    <3>1. CASE number = SYSCALL_EXIT
      BY <1>1, <2>9, <3>1, KillRegisters DEF SyscallByInterrupt
    <3>2. CASE number # SYSCALL_EXIT
      BY <2>9, <3>2 DEF SyscallByInterrupt, RegistersKept, RegistersOf
    <3> QED
      BY <3>1, <3>2
  <2>10. ASSUME NEW number \in SyscallNumbers, NEW node \in BOOLEAN,
                SyscallByJumper(number, node)
         PROVE  RegistersKept
    <3> DEFINE c == sched.current
               pushed == [cpu EXCEPT !.mode = "user"]
               saved == hal_update_current_state(pushed)
               done == [saved EXCEPT ![c].native.rax = handle_syscall(number)]
    <3>1. pushed \in Context
      BY <2>1 DEF Context, Modes
    <3> HIDE DEF pushed
    <3>2. /\ saved \in [Tasks -> TaskRecord]
          /\ \A t \in Tasks : saved[t].id = tcb[t].id
          /\ \A t \in Tasks : t # c => saved[t] = tcb[t]
      BY <1>1, <3>1, SaveKeepsIds
    <3>3. CASE number = SYSCALL_EXIT
      <4>1. KillCurrentAndSwitch(saved, node)
        BY <2>10, <3>3 DEF SyscallByJumper, pushed
      <4> HIDE DEF saved
      <4> QED
        BY <1>1, <3>2, <4>1, KillRegisters
    <3>4. CASE number # SYSCALL_EXIT
      <4>1. tcb' = done /\ UNCHANGED <<sched, mapper, isr>>
        BY <2>10, <3>4 DEF SyscallByJumper, pushed
      <4> HIDE DEF saved
      <4>2. \A t \in Tasks : t # c => done[t] = saved[t]
        BY <3>2
      <4> HIDE DEF done
      <4> QED
        BY <3>2, <4>1, <4>2 DEF RegistersKept, RegistersOf
    <3> QED
      BY <3>3, <3>4
  <2>11. CASE UNCHANGED vars
    BY <2>11 DEF vars, RegistersKept, RegistersOf
  <2> QED
    BY <1>1, <2>2, <2>3, <2>4, <2>5, <2>6, <2>7, <2>8, <2>9, <2>10, <2>11,
       AllocationAssumption DEF Next
<1>2. Inv /\ [Next]_vars => RegistersKept
  BY <1>1
<1> QED
  BY <1>2, KernelInvariant, PTL DEF Spec, RegistersSurviveSwitches, RegistersKept
-----------------------------------------------------------------------------
(***************************************************************************)
(* scheduler_clear_current_task appends to the queue or leaves it.         *)
(***************************************************************************)
LEMMA ClearQueue ==
  ASSUME NEW s \in SchedulerState, NEW node \in BOOLEAN
  PROVE  \/ scheduler_clear_current_task(s, node).queue = s.queue
         \/ /\ s.current # NoTask
            /\ scheduler_clear_current_task(s, node).queue
                 = Append(s.queue, s.current)
<1> DEFINE e == enqueue(s, s.current, node)
<1>1. e.queue = s.queue \/ e.queue = Append(s.queue, s.current)
  BY DEF enqueue, SchedulerState
<1>2. e.status = s.status /\ DOMAIN e = DOMAIN s
  BY DEF enqueue, SchedulerState
<1>3. CASE s.current = NoTask
  BY <1>3 DEF scheduler_clear_current_task
<1>4. CASE s.current # NoTask
  <2>1. \/ scheduler_clear_current_task(s, node) = [e EXCEPT !.current = NoTask]
        \/ scheduler_clear_current_task(s, node) = [s EXCEPT !.current = NoTask]
    BY <1>4 DEF scheduler_clear_current_task
  <2>2. [s EXCEPT !.current = NoTask].queue = s.queue
    BY DEF SchedulerState
  <2>3. [e EXCEPT !.current = NoTask].queue = e.queue
    BY DEF enqueue, SchedulerState
  <2> HIDE DEF e
  <2> QED
    BY <1>1, <1>4, <2>1, <2>2, <2>3
<1> QED
  BY <1>3, <1>4

(***************************************************************************)
(* Whenever scheduler_switch_task gives the processor away, every task     *)
(* that waits and still waits moves up.                                    *)
(***************************************************************************)
LEMMA SwitchMovesUp ==
  ASSUME NEW s, Consistent(s), NEW node \in BOOLEAN
  PROVE  AllMoveUp(s.queue, scheduler_switch_task(s, node).queue)
<1> DEFINE w == scheduler_switch_task(s, node)
<1>1. /\ s \in SchedulerState
      /\ s.queue \in Seq(Tasks)
      /\ s.current \in Tasks \cup {NoTask}
      /\ IsInjective(s.queue)
      /\ s.current \notin InQueue(s)
  BY StateFields, NoTaskAssumption DEF Consistent
<1>2. CASE s.queue = << >>
  BY <1>2 DEF AllMoveUp
<1>3. CASE s.queue # << >>
  <2> DEFINE next == Head(s.queue)
             q == Tail(s.queue)
             rest == [s EXCEPT !.queue = Tail(@)]
             c == scheduler_clear_current_task(rest, node)
  <2>1. /\ next \in InQueue(s)
        /\ q \in Seq(Tasks)
        /\ ToSet(s.queue) = ToSet(q) \cup {next}
        /\ AllMoveUp(s.queue, q)
    BY <1>1, <1>3, TailElements DEF InQueue
  <2>2. w = [c EXCEPT !.current = next, !.cr3 = Memory[next]]
    BY <1>1, <1>3, <2>1 DEF scheduler_switch_task
  <2>3. /\ rest \in SchedulerState
        /\ rest.queue = q
        /\ rest.current = s.current
    BY <1>1, <2>1 DEF SchedulerState
  <2> HIDE DEF w, rest, q, next
  <2>4. \/ c.queue = q
        \/ s.current # NoTask /\ c.queue = Append(q, s.current)
    BY <2>3, ClearQueue
  <2>5. c \in SchedulerState
    BY <2>3, ClearCurrentFacts
  <2> HIDE DEF c
  <2>6. w.queue = c.queue
    BY <2>2, <2>5 DEF SchedulerState
  <2>7. CASE c.queue = q
    BY <2>1, <2>6, <2>7 DEF w
  <2>8. CASE s.current # NoTask /\ c.queue = Append(q, s.current)
    <3>1. s.current \in Tasks /\ s.current \notin ToSet(s.queue)
      BY <1>1, <2>8 DEF InQueue
    <3>2. /\ DOMAIN q = 1 .. Len(q)
          /\ Len(q) \in Nat
          /\ DOMAIN c.queue = 1 .. Len(q) + 1
          /\ \A i \in 1 .. Len(q) : c.queue[i] = q[i]
          /\ c.queue[Len(q) + 1] = s.current
      BY <2>1, <2>8, <3>1, AppendProperties, LenProperties
    <3>3. ASSUME NEW i \in DOMAIN s.queue, NEW j \in DOMAIN c.queue,
                 s.queue[i] = c.queue[j]
          PROVE  j < i
      <4>1. s.queue[i] # s.current
        BY <3>1 DEF ToSet
      <4>2. j \in DOMAIN q /\ s.queue[i] = q[j]
        BY <3>2, <3>3, <4>1
      <4> QED
        BY <2>1, <4>2 DEF AllMoveUp
    <3> QED
      BY <2>6, <3>3 DEF AllMoveUp, w
  <2> QED
    BY <2>4, <2>7, <2>8
<1> QED
  BY <1>2, <1>3

(***************************************************************************)
(* What a step may do to the order of the queue, whatever it appends.      *)
(***************************************************************************)
QueueOrder ==
  /\ NoneFallsBack(sched.queue, sched'.queue)
  /\ sched'.current \in {sched.current, NoTask} \/ AllMoveUp(sched.queue, sched'.queue)

(***************************************************************************)
(* Where every task moves up, none falls back.                             *)
(***************************************************************************)
LEMMA UpIsNotBack ==
  ASSUME NEW q, NEW r, q \in Seq(Tasks), r \in Seq(Tasks), AllMoveUp(q, r)
  PROVE  NoneFallsBack(q, r)
<1>1. \A i \in DOMAIN q, j \in DOMAIN r : i \in Nat /\ j \in Nat
  BY LenProperties
<1> QED
  BY <1>1 DEF AllMoveUp, NoneFallsBack

(***************************************************************************)
(* In a queue left alone none falls back.                                  *)
(***************************************************************************)
LEMMA SameIsNotBack ==
  ASSUME NEW q \in Seq(Tasks), IsInjective(q)
  PROVE  NoneFallsBack(q, q)
<1>1. DOMAIN q = 1 .. Len(q) /\ Len(q) \in Nat
  BY LenProperties
<1> SUFFICES ASSUME NEW i \in 1 .. Len(q), NEW j \in 1 .. Len(q), q[i] = q[j]
             PROVE  j = i
  BY <1>1 DEF NoneFallsBack
<1> QED
  BY <1>1 DEF IsInjective

(***************************************************************************)
(* scheduler_switch_task takes the head and moves the others up.           *)
(***************************************************************************)
LEMMA SwitchOrder ==
  ASSUME NEW s, NEW tasks, NEW node \in BOOLEAN,
         Consistent(sched), Consistent(s), s.queue = sched.queue,
         SwitchFrom(s, tasks, node)
  PROVE  QueueOrder
<1>1. sched' = scheduler_switch_task(s, node)
  BY DEF SwitchFrom
<1>2. AllMoveUp(sched.queue, sched'.queue)
  BY <1>1, SwitchMovesUp
<1>3. Consistent(sched')
  BY <1>1, SwitchConsistent
<1>4. sched.queue \in Seq(Tasks) /\ sched'.queue \in Seq(Tasks)
  BY <1>3, StateFields DEF Consistent
<1> QED
  BY <1>2, <1>4, UpIsNotBack DEF QueueOrder

(***************************************************************************)
(* A step that leaves the queue and the current task alone.                *)
(***************************************************************************)
LEMMA SameQueueOrder ==
  ASSUME Consistent(sched),
         sched'.queue = sched.queue, sched'.current = sched.current
  PROVE  QueueOrder
<1>1. sched.queue \in Seq(Tasks) /\ IsInjective(sched.queue)
  BY StateFields DEF Consistent
<1> QED
  BY <1>1, SameIsNotBack DEF QueueOrder

(***************************************************************************)
(* The current task is not in the queue: killing it does not move others.  *)
(***************************************************************************)
LEMMA KillOrder ==
  ASSUME Inv, NEW tasks, NEW node \in BOOLEAN, KillCurrentAndSwitch(tasks, node)
  PROVE  QueueOrder
<1> DEFINE c == sched.current
           n == scheduler_task_not_ready(sched, c, node)
           removed == [sched EXCEPT !.status = [@ EXCEPT ![c] = "NOT_READY"],
                                    !.queue  = RemoveFirst(@, c)]
<1>1. /\ Consistent(sched)
      /\ sched \in SchedulerState
      /\ sched.queue \in Seq(Tasks)
      /\ IsInjective(sched.queue)
      /\ c \in Tasks \cup {NoTask}
      /\ c \notin InQueue(sched)
      /\ sched.status \in [Tasks -> Status]
  BY StateFields, NoTaskAssumption DEF Inv, Consistent
<1>2. CASE c = NoTask
  <2>1. SwitchFrom(sched, tasks, node)
    BY <1>2 DEF KillCurrentAndSwitch
  <2> QED
    BY <1>1, <2>1, SwitchOrder
<1>3. CASE c # NoTask
  <2>1. c \in Tasks
    BY <1>1, <1>3
  <2>2. SwitchFrom(n, tasks, node)
    BY <1>3 DEF KillCurrentAndSwitch, release_scheduler
  <2>3. Consistent(n)
    BY <1>1, <2>1, NotReadyConsistent
  <2>4. RemoveFirst(sched.queue, c) = sched.queue
    <3>1. \A i \in 1 .. Len(sched.queue) : sched.queue[i] # c
      BY <1>1, LenProperties DEF InQueue, ToSet
    <3> QED
      BY <3>1 DEF RemoveFirst
  <2>5. n = scheduler_clear_current_task(removed, node)
    BY DEF scheduler_task_not_ready
  <2>6. /\ removed.queue = sched.queue
        /\ removed.current = c
        /\ removed.status[c] = "NOT_READY"
    BY <1>1, <2>1, <2>4 DEF SchedulerState
  <2>7. n = [removed EXCEPT !.current = NoTask]
    <3> HIDE DEF removed, n
    <3> QED
      BY <1>3, <2>5, <2>6 DEF scheduler_clear_current_task
  <2>8. n.queue = sched.queue
    <3>1. [removed EXCEPT !.current = NoTask].queue = removed.queue
      BY <1>1 DEF SchedulerState
    <3> HIDE DEF removed, n
    <3> QED
      BY <2>6, <2>7, <3>1
  <2> HIDE DEF n
  <2> QED
    BY <1>1, <2>2, <2>3, <2>8, SwitchOrder
<1> QED
  BY <1>2, <1>3

(***************************************************************************)
(* The timer's switch (save, then scheduler_switch_task) keeps the order.  *)
(***************************************************************************)
LEMMA SaveOrder ==
  ASSUME Inv, NEW node \in BOOLEAN, SaveAndSwitch(node)
  PROVE  QueueOrder
BY SwitchOrder DEF Inv, SaveAndSwitch

(***************************************************************************)
(* A call made while the kernel boots keeps the order:                     *)
(* scheduler_task_ready appends behind the tasks that wait.                *)
(***************************************************************************)
LEMMA BootCallOrder ==
  ASSUME Inv, NEW t \in Tasks, NEW node \in BOOLEAN, BootCall(t, node)
  PROVE  QueueOrder
<1>1. /\ Consistent(sched)
      /\ sched \in SchedulerState
      /\ sched.queue \in Seq(Tasks)
      /\ IsInjective(sched.queue)
      /\ sched.current = NoTask
  BY StateFields DEF Inv, TypeOK, Consistent, BootCall, BootHasNoCurrent
<1>2. CASE task_create(t, node)
  <2>1. \/ sched' = [sched EXCEPT !.status = [@ EXCEPT ![t] = "CREATED"]]
        \/ sched' = sched
    BY <1>2 DEF task_create
  <2>2. sched'.queue = sched.queue /\ sched'.current = sched.current
    BY <1>1, <2>1 DEF SchedulerState
  <2> QED
    BY <1>1, <2>2, SameQueueOrder
<1>3. CASE task_set_kernel_mode(t) \/ task_set_arguments(t)
  <2>1. sched' = sched
    BY <1>3 DEF task_set_kernel_mode, task_set_arguments
  <2> QED
    BY <1>1, <2>1, SameQueueOrder
<1>4. CASE task_run(t, node)
  <2> DEFINE m == [sched EXCEPT !.status = [@ EXCEPT ![t] = "READY"]]
  <2>1. /\ sched.status[t] = "CREATED"
        /\ sched' = enqueue(m, t, node)
    BY <1>4 DEF task_run, scheduler_task_ready
  <2>2. /\ sched'.current = sched.current
        /\ \/ sched'.queue = sched.queue
           \/ sched'.queue = Append(sched.queue, t)
    BY <1>1, <2>1 DEF enqueue, SchedulerState
  <2>3. t \notin ToSet(sched.queue)
    BY <1>1, <2>1 DEF Consistent, InQueue
  <2>4. NoneFallsBack(sched.queue, Append(sched.queue, t))
    BY <1>1, <2>3, AppendElements
  <2>5. NoneFallsBack(sched.queue, sched.queue)
    BY <1>1, SameIsNotBack
  <2> QED
    BY <2>2, <2>4, <2>5 DEF QueueOrder
<1>5. CASE task_destroy(t, node)
  <2> DEFINE removed == [sched EXCEPT !.status = [@ EXCEPT ![t] = "NOT_READY"],
                                      !.queue  = RemoveFirst(@, t)]
  <2>1. sched.current # t
    BY <1>1, NoTaskAssumption
  <2>2. sched' = removed
    BY <1>5, <2>1 DEF task_destroy, release_scheduler, scheduler_task_not_ready
  <2>3. /\ removed.queue = RemoveFirst(sched.queue, t)
        /\ removed.current = sched.current
    BY <1>1 DEF SchedulerState
  <2> HIDE DEF removed
  <2>4. NoneFallsBack(sched.queue, RemoveFirst(sched.queue, t))
    BY <1>1, RemoveFirstElements
  <2> QED
    BY <2>2, <2>3, <2>4 DEF QueueOrder
<1> QED
  BY <1>2, <1>3, <1>4, <1>5 DEF BootCall

(***************************************************************************)
(* No step of the kernel lets a task that waits fall back.                 *)
(***************************************************************************)
LEMMA NextOrder == Inv /\ [Next]_vars => QueueOrder
<1> SUFFICES ASSUME Inv, [Next]_vars PROVE QueueOrder
  OBVIOUS
<1>1. Consistent(sched)
  BY DEF Inv
<1>2. ASSUME NEW t \in Tasks, NEW node \in BOOLEAN, BootCall(t, node)
      PROVE  QueueOrder
  BY <1>2, BootCallOrder
<1>3. ASSUME NEW node \in BOOLEAN, StartScheduling(node) PROVE QueueOrder
  BY <1>1, <1>3, SwitchOrder DEF StartScheduling
<1>4. CASE TaskStep
  BY <1>1, <1>4, SameQueueOrder DEF TaskStep
<1>5. ASSUME NEW node \in BOOLEAN, TimerInterrupt(node) PROVE QueueOrder
  BY <1>5, SaveOrder DEF TimerInterrupt
<1>6. ASSUME NEW line \in Devices, NEW node \in BOOLEAN,
             DeviceInterrupt(line, node)
      PROVE  QueueOrder
  BY <1>6, SaveOrder, KillOrder DEF DeviceInterrupt
<1>7. ASSUME NEW node \in BOOLEAN, FaultingInstruction(node) PROVE QueueOrder
  BY <1>7, KillOrder DEF FaultingInstruction
<1>8. ASSUME NEW node \in BOOLEAN, UnmappedException(node) PROVE QueueOrder
  BY <1>8, SaveOrder DEF UnmappedException
<1>9. ASSUME NEW number \in SyscallNumbers, NEW node \in BOOLEAN,
             SyscallByInterrupt(number, node)
      PROVE  QueueOrder
  <2>1. CASE number = SYSCALL_EXIT
    BY <1>9, <2>1, KillOrder DEF SyscallByInterrupt
  <2>2. CASE number # SYSCALL_EXIT
    BY <1>1, <1>9, <2>2, SameQueueOrder DEF SyscallByInterrupt
  <2> QED
    BY <2>1, <2>2
<1>10. ASSUME NEW number \in SyscallNumbers, NEW node \in BOOLEAN,
              SyscallByJumper(number, node)
       PROVE  QueueOrder
  <2> DEFINE saved == hal_update_current_state([cpu EXCEPT !.mode = "user"])
  <2>1. KillCurrentAndSwitch(saved, node) \/ sched' = sched
    BY <1>10 DEF SyscallByJumper
  <2> HIDE DEF saved
  <2> QED
    BY <1>1, <2>1, KillOrder, SameQueueOrder
<1>11. CASE UNCHANGED vars
  BY <1>1, <1>11, SameQueueOrder DEF vars
<1> QED
  BY <1>2, <1>3, <1>4, <1>5, <1>6, <1>7, <1>8, <1>9, <1>10, <1>11,
     AllocationAssumption DEF Next

(***************************************************************************)
(* scheduled_tasks is a round robin: whoever is started, preempted or      *)
(* killed, no task that waits is overtaken, and each switch to another     *)
(* task brings it nearer to its turn.                                      *)
(***************************************************************************)
THEOREM NeverOvertaken == Spec => NoOvertaking
<1> DEFINE Ordered ==
      \A t \in Tasks :
        Queued(t) /\ Queued(t)' =>
          /\ Position(t)' <= Position(t)
          /\ sched'.current \notin {sched.current, NoTask} =>
               Position(t)' < Position(t)
<1>1. ASSUME QueueOrder PROVE Ordered
  <2> TAKE t \in Tasks
  <2> HAVE Queued(t) /\ Queued(t)'
  <2>1. /\ Position(t) \in DOMAIN sched.queue
        /\ sched.queue[Position(t)] = t
    BY DEF Queued, ToSet, Position
  <2>2. /\ Position(t)' \in DOMAIN sched'.queue
        /\ sched'.queue[Position(t)'] = t
    BY DEF Queued, ToSet, Position
  <2> QED
    BY <1>1, <2>1, <2>2 DEF QueueOrder, NoneFallsBack, AllMoveUp
<1>2. Inv /\ [Next]_vars => Ordered
  BY <1>1, NextOrder
<1> QED
  BY <1>2, KernelInvariant, PTL DEF Spec, NoOvertaking
=============================================================================
