---------------------------- MODULE ModuleLoader ----------------------------
(***************************************************************************)
(* Loading the modules the boot loader left in memory: module_loader.c and *)
(* elfparser.c in core/src/loader, with task_create and task_run of        *)
(* core/src/task/services.c as far as they use memory.  All memory is that *)
(* of KernelMemory: what the loader maps, the tables must show.            *)
(*                                                                         *)
(* A module is [addr, size, magic, version, machine, headers]: where its   *)
(* file is, whether the three tests of its first bytes succeed, and its    *)
(* program headers [load, vaddr, offset, file_size, mem_size].             *)
(***************************************************************************)
EXTENDS TaskMemory

CONSTANT Modules(_)    \* the lists of modules a machine may boot with

VARIABLES
  modules,   \* platform.modules
  next,      \* the module the loop of module_task_initialize is at
  tasks      \* the tasks put in the scheduler's queue: [module, space, stack]
lvars == <<vars, modules, next, tasks>>

(***************************************************************************)
(* elfparser.c                                                             *)
(***************************************************************************)
ELF_SUCCESS == 0
ELF_ERROR_NO_ELF == 1
ELF_ERROR_INVALID_ELF_VERSION == 2
ELF_ERROR_INCOMPATIBLE == 3

\* the tests in their order; on success the headers are put in a list, and
\* one for which there is no node is left out
elf_parser(m, module) ==
  LET code == CASE module.size < 50 \/ ~module.magic -> ELF_ERROR_NO_ELF
                [] module.size >= 50 /\ module.magic /\ ~module.version -> ELF_ERROR_INVALID_ELF_VERSION
                [] module.size >= 50 /\ module.magic /\ module.version /\ ~module.machine ->
                     ELF_ERROR_INCOMPATIBLE
                [] OTHER -> ELF_SUCCESS
      Put(acc, header) ==
        Then(Node(acc.m, acc.list), LAMBDA node :
          [acc EXCEPT !.m = node.m, !.headers = IF node.v THEN Append(@, header) ELSE @])
  IN IF code # ELF_SUCCESS THEN [m |-> m, v |-> code, headers |-> <<>>]
     ELSE Then(kalloc(m, LIST), LAMBDA list :
       Then(FoldLeft(Put, [m |-> list.m, list |-> list.v # 0, headers |-> <<>>], module.headers),
         LAMBDA all : [m |-> all.m, v |-> code, headers |-> all.headers]))

(***************************************************************************)
(* module_loader.c                                                         *)
(***************************************************************************)

\* the file's part mapped where the file is, the rest in new pages
AllocateFrom(m, base, header, v) ==
  LET Map(n, r) ==
        IF header.file_size = 0 THEN [m |-> n, v |-> TRUE]
        ELSE vmem_region_map_physical_address(n, r, vmem_get_physical_address(n, 1, base),
               ALIGN_NEXT(header.file_size))
  IN IF v = 0 THEN [m |-> m, v |-> FALSE]
     ELSE Then(vmem_region_create(m, v, header.vaddr, 0), LAMBDA region :
       IF region.v = 0 THEN [m |-> region.m, v |-> FALSE]
       ELSE Then(Map(region.m, region.v), LAMBDA mapped :
         IF mapped.v THEN vmem_region_resize(mapped.m, region.v, header.mem_size) ELSE mapped))

\* faulty: every segment is taken from the start of the file
allocate_program_header_Start(m, base, header, v) == AllocateFrom(m, base, header, v)

allocate_program_header(m, base, header, v) == AllocateFrom(m, base + header.offset, header, v)

\* How the body of the loop ends: the function returns ("abort"), goes on with
\* the next module ("skip"), or has run a task.  The stack is 0 when the task
\* is not in the scheduler's queue.
Ended(m, end) == [m |-> m, end |-> end, space |-> 0, stack |-> 0]

\* the segments of a file at base, in space v
LoadSegments(m, v, base, headers) ==
  LET Segment(acc, header) ==
        IF acc.v /\ header.load THEN allocate_program_header(acc.m, base, header, v) ELSE acc
  IN FoldLeft(Segment, [m |-> m, v |-> TRUE], headers)

\* the rest of the body: when the segments are allocated, the space is there,
\* the file is parsed
RunLoaded(segments, v) ==
  IF ~segments.v THEN Ended(segments.m, "abort")
  ELSE Then(task_create(segments.m), LAMBDA task :
    IF ~task.v THEN Ended(task.m, "run")
    ELSE Then(task_run(task.m, v), LAMBDA run :
      [m |-> run.m, end |-> "run", space |-> v, stack |-> IF run.queued THEN run.v ELSE 0]))

LoadInto(space, base, headers) == RunLoaded(LoadSegments(space.m, space.v, base, headers), space.v)

LoadParsed(elf, base) ==
  IF elf.v = ELF_SUCCESS THEN LoadInto(vmem_create(elf.m), base, elf.headers) ELSE Ended(elf.m, "skip")

LoadOne(m, module) ==
  Then(vmem_region_create(m, 1, 0, 0), LAMBDA region :
    Then(vmem_region_map_physical_address(region.m, region.v, module.addr, ALIGN_NEXT(module.size)),
      LAMBDA file :
        IF file.v THEN LoadParsed(elf_parser(file.m, module), file.m.region[region.v].start)
                  ELSE Ended(file.m, "abort")))

Loaded == Booted /\ next > Len(modules)

\* a round of the loop, which an abort makes go on at the module given; a
\* fault is the end of it
Round(aborted) ==
  /\ Up /\ ~Loaded
  /\ Then(LoadOne(mem, modules[next]), LAMBDA one :
       /\ mem' = one.m
       /\ next' = CASE one.m.fault -> next
                    [] ~one.m.fault /\ one.end = "abort" -> aborted
                    [] OTHER -> next + 1
       /\ tasks' = IF one.m.fault \/ one.stack = 0 THEN tasks
                   ELSE Append(tasks, [module |-> next, space |-> one.space, stack |-> one.stack]))
  /\ UNCHANGED <<blocks, calls, modules>>

\* faulty: a module that cannot be loaded is skipped
LoadModule_Skip == Round(next + 1)

\* one round of the loop of module_task_initialize
LoadModule == Round(Len(modules) + 1)

LoaderInit == Init /\ modules = <<>> /\ next = 1 /\ tasks = <<>>

\* the modules are chosen when they are about to be read
BootKernel == /\ KernelMain
              /\ modules' \in IF Booted' THEN Modules(mem.boot) ELSE {modules}
              /\ UNCHANGED <<next, tasks>>

LoaderNext == BootKernel \/ LoadModule

LoaderSpec == LoaderInit /\ [][LoaderNext]_lvars

(***************************************************************************)
(* Properties                                                              *)
(***************************************************************************)

\* allocate_program_header and task_run: in the space of a task that is in the
\* scheduler's queue the processor finds the segments of its file where they
\* were linked, the rest of each in a frame from beyond 64 MB, and the whole
\* stack, wherever the tables on the way are in place.
LoadedAsLinked ==
  LET view == View
  IN \A i \in DOMAIN tasks :
    LET module == modules[tasks[i].module]
        v == tasks[i].space
    IN /\ \A h \in Range(module.headers) : h.load =>
            \A k \in 0 .. (ALIGN_NEXT(h.mem_size) \div SYSTEM_PAGE_SIZE) - 1 :
              LET offset == k * SYSTEM_PAGE_SIZE
                  found == Walk(view, v, h.vaddr + offset)
              IN InPlace(view, v, h.vaddr + offset) =>
                   IF offset < h.file_size THEN found = module.addr + h.offset + offset
                   ELSE found >= FirstFrame * SYSTEM_PAGE_SIZE
       /\ Len(mem.region[tasks[i].stack].pages) * SYSTEM_PAGE_SIZE = TASK_DEFAULT_STACK_SIZE
       /\ Shows(view, v, tasks[i].stack)

\* the frames of the space that were allocated for it
OwnFrames(v) ==
  {f \in UNION {Range(mem.region[r].pages) : r \in Range(mem.vmem[v].regions) \ {mem.code, mem.data}} :
     f >= FirstFrame * SYSTEM_PAGE_SIZE}

\* vmem_region_resize and pmem_allocate: no frame that was allocated for a
\* task is in the space of another, or in the kernel's heap.
TasksApart ==
  \A i \in DOMAIN tasks :
    /\ OwnFrames(tasks[i].space) \cap Range(mem.region[mem.data].pages) = {}
    /\ \A j \in DOMAIN tasks : i # j => OwnFrames(tasks[i].space) \cap OwnFrames(tasks[j].space) = {}

\* what elf_parser and allocate_program_header ask of a file
Parses(module) == module.size >= 50 /\ module.magic /\ module.version /\ module.machine
Fits(module) == \A h \in Range(module.headers) :
  h.load => Aligned(h.vaddr) /\ (h.file_size > 0 => Aligned(h.offset))
\* an empty file cannot be mapped
Stops(module) == module.size = 0 \/ (Parses(module) /\ ~Fits(module))

\* module_task_initialize: in the end there is one task for each module that
\* parses, up to the first one that is empty or whose segments do not fit,
\* in their order; fewer only when memory ran out.
LoadsUpToFirstMisfit ==
  LET ready == [i \in DOMAIN tasks |-> tasks[i].module]
      fit == SelectSeq([i \in DOMAIN modules |-> i],
               LAMBDA i : Parses(modules[i]) /\ \A j \in 1 .. i : ~Stops(modules[j]))
  IN Loaded => IF mem.short THEN IsPrefix(ready, fit) ELSE ready = fit

=============================================================================
