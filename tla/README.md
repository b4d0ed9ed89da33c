# Verification of the BubackOS kernel

TLA+ specifications of the kernel under `src/kernel`, TLC configurations that
check them on small instances, and TLAPS proofs that hold for instances of any
size. Paths below are relative to `src/kernel` of the repository.

## The system

BubackOS is a small x86-64 kernel for one processor. It is made of

| part | source | modelled by |
|---|---|---|
| scheduler: round robin over a list of ready tasks | `core/src/scheduler` | `Scheduler` |
| task service: create, configure, run and destroy tasks | `core/src/task` | `TaskService` |
| id mapper: numeric handles for objects | `libutils/src/libutils/id_mapper.c` | `IdMapper` |
| linked list used by all of them | `libutils/src/algorithms/linkedlist.c` | `LinkedList`, `List` |
| interrupts, exceptions, hardware events | `hal/src/x86_64/lib/idt*`, `core/src/hw_events.c` | `Kernel` |
| context switch | `hal/src/x86_64/native_task.*` | `Kernel`, `TaskService` |
| system calls | `core/src/syscall`, `idt.S` | `Kernel` |
| boot: `native_boot`, `kernel_main`, jump to the scheduler | `hal/src/x86_64`, `core/src/init.c` | `Multiboot`, `KernelMemory`, `Kernel`, in this order of time |
| multiboot tags | `hal/src/common/multiboot2.c` | `Multiboot` |
| physical pages | `core/src/pmem` | `PhysMem` |
| kernel heap | `core/src/alloc.c` | `KernelMemory`; its promise is `Heap` |
| address spaces and regions | `core/src/vmem` | `KernelMemory` |
| page tables | `hal/src/x86_64/native_pagging.c` | `KernelMemory`, `PageTables`, `PageIndex`; the dump is `PageDump` |
| memory of tasks: stacks, arguments | `core/src/task` | `TaskMemory`, `TaskArguments` |
| module loader, ELF parser | `core/src/loader` | `ModuleLoader` |
| logging | `libutils/src/logging.c`, `core/src/logging` | `Logging` |
| formatting, strings | `libc/src` | `Formatting`, `Strings` |
| console module | `src/modules/console` | `Console`; not part of the default build |
| GDT, serial port, sample module | `hal/src`, `src/modules/hello` | no: fixed layouts and device I/O |

Nothing in the kernel runs concurrently with itself: all gates are interrupt
gates and SYSCALL masks IF, so a handler runs to its final task switch (which
does not return). The interleaving is between handlers: a tick, a device, a
fault or a system call can follow any other, in any state of the tasks. A
handler is therefore one action, and the services it calls are functions on the
state that the action composes.

## Modules

**Scheduler.** A record with `status` (`task_t.status`), `queue`
(`scheduled_tasks`), `current` (`current_task`), `cr3` and `lost`, a history of
the tasks whose `linkedlist_append` failed. Each service of
`scheduler/services.c` is a function with the source's name. `node` says
whether `kalloc` has memory for the one append a handler makes. Failure is a
free choice each time, because `vmem_region_resize` grows the heap as far as it
can before it fails, so that a later `kalloc` may succeed.

**IdMapper.** `list` and the atomic counter `next`, the four operations.

**TaskService.** The fields of `task_t` other than the status, and the calls
kernel code makes while booting, one action each. Calls that return without a
change are stuttering. `kalloc` clears memory, so the first context of a task
has zero registers but for its argument. `MaxTaskId` bounds the handles.

**Kernel.** `booted`, the context `cpu` executes, and the in-service register
`isr` of the interrupt controller. The actions are `BootCall`,
`StartScheduling`, `TaskStep` (an instruction of the current task),
`TimerInterrupt`, `DeviceInterrupt`, `FaultingInstruction`,
`UnmappedException`, `SyscallByInterrupt` and `SyscallByJumper`. The register
file is abstracted to one value, `rax`, and the mode for the selectors.
`Vector` and `Deliverable` model the 8259 controller from outside the
repository: it is not remapped by the code, so line *n* is vector 8+*n*, lines
5 and 6 arrive where #GP and #PF do, and a line in service blocks itself and
those after it. Only the timer handler acknowledges.

**List, LinkedList.** `List` is the promise of `linkedlist.h`: a sequence and
the result of each call, which carries the call and its argument so that a
call cannot pass for another one. `LinkedList` has the nodes, `first`, `size`, `next`,
`val`, which nodes are allocated, and every function of `linkedlist.c`. The
walk along the links (`Visited`, `Walk`), the removals of a pass and the
elements it keeps are recursive functions, which the proofs can reason about.
A callback of `linkedlist_iter_with_action` is a function from positions to
`ITER_*` answers, which covers callbacks that keep state. Freed nodes may be
handed out again, as with a real allocator; `kfree` never does. NULL lists and
NULL elements (which end `WHILE_LINKEDLIST_ITER`) are not in the model.

**PhysMem.** The page map after `pmem_initialize`, `holders` (how many callers
hold each page),
`reserved` (history of pages with a byte in a range set as system) and the last
`result`. Pages have their real size of 4096 bytes. The 64 MB from which pages
are searched is the constant `FirstAddr`. A caller releases a page it holds or
one nobody holds. `addr + total_in_bytes` does not wrap for ranges a memory map
can contain.

**KernelMemory.** The heap, the regions, the address spaces and the page tables
in one module, because their files call each other in a circle: `kalloc` grows
the region of the kernel's data, a region that grows adds pages to its list and
to the tables of every space it is attached to, and nodes, records and tables
come from `kalloc`. Each C function is an operator from a memory to the memory
after the call and what it returns, recursive where the code is. The variable
`mem` is the memory between two calls from outside; one action is one such call
with everything it sets off. `mem` has the fields of the allocator (`ptr`,
`start`, `size`, `end`, `ready`), the sequences `region` and `vmem` with the
fields of `vmem_region_t` and `vmem_t`, and `table`, from the address of a page
table to its present entries. Sizes and addresses are the real ones: whether a
growth falls in the middle of another operation depends on bytes. Loops over
pages are evaluated by halves, which only keeps TLC's evaluation shallow. `fault`
says that a table was looked for where there is none, or a list that does not
exist was walked; nothing happens after it. Boot is part of the module: the
blocks taken by `native_boot`, then the calls of `kernel_main`, whose results
the code does not look at.

The code follows its tables by the addresses the *kernel* has for them, and so
does `set_entry` here; the processor takes the same numbers, in entries and in
cr3, for physical addresses. The two differ for a table in a page by which the
heap has grown. `FrameOf` is the frame a table lies in, `InFrames` are the
tables by frame, and `WalkIn` is the walk of the processor through them.
`TablesShowRegions`, `KernelInEverySpace` and `LoadedAsLinked` speak of this walk,
for every page whose way down the tables is *in place* (each table lies in the
frame its address names); `TablesWhereEntriesSay` states where that is, and
`tables_in_grown_heap` shows what happens elsewhere. `StructureHoldsRecords` is
about the tables as the kernel builds them, in place or not.
Permissions are left out, as `fill_entry_value` writes the same ones for all
entries (its FIXME).

**Heap.** What the heap promises: a pointer and a limit that only move up,
blocks between the old pointer and the new one, and a reserve of mapped memory
behind the pointer. `KernelMemory` implements it (`HeapSpec`) with the end of the
kernel-data region as the limit.

**PageIndex, PageTables.** Rounding to pages and the index of an address in a
table; writing an entry and the walk down the tables, as functions of the
tables. `KernelMemory` is built on both.

**TaskMemory, TaskArguments.** What the task service takes from memory: records,
stack, and the copying of arguments, as the set of stores it sets out to make.
`Reached` is what a store reaches with the tables that are loaded then: those of
`boot.S` until the allocator is up, those of the kernel afterwards.

**ModuleLoader.** The loop of `module_task_initialize`, one round an action, over
`KernelMemory`. A module is where its file is, whether the three tests of its
first bytes succeed, and its program headers.

**Multiboot.** The walk over the tags of the boot loader, one tag a step, and the
platform record it fills. Sizes are those of the tags, so that the rounding to
eight matters; the 32-bit product of the memory size is modelled in KB.

**PageDump.** The recursive walk of `native_vmem_dump`, with large pages, that
joins pages into lines; the translation a processor makes is the reference.

**Formatting.** `vsnprintf` step by step. A format is given by the items the
caller means; the code sees the characters and the arguments, so that it may
take the one for the other. `va_arg` past the last argument, or of the wrong
type, gives any value. `buffer` records bytes written past the size too, and
`Room` is what is left of it as a `size_t`: less than nothing is more than
enough.

**Strings.** `string.c` over a memory of bytes, with the words it reads and how
far it looks. `memset`, `memcpy` and `strncmp` byte by byte.

**Logging.** Level, quiet, the last message and its count. The log is what a
reader makes of it: how often it shows each text.

**Console.** The screen as a buffer of cells and a cursor, against a roll of
paper without end. `inrow` records whether every text so far ended in its row;
see the hazard at `console.c:80` for the others.

Definitions with a comment `faulty: ...` are variants with a plausible
mistake. They are used by no specification; each shows that one property can
fail.

## Runs

| run | instance | shows |
|---|---|---|
| `kernel_safety` | 2 tasks, own address spaces, 3 handles, devices 1 and 5, calls 0 to 3, allocation may fail | `TypeOK`; `OnePlacePerTask`; `ReadyTaskLostOnlyWithoutMemory`; `CurrentAddressSpace`; `PrivilegeKept`; `HandlesResolve`; `RegistersSurviveSwitches`; `LifeIsOneWay` |
| `kernel_fairness` | 3 tasks, two share an address space, device 1, exit call, allocation may fail | `NoOvertaking`; `NoStarvation` |
| `linkedlist_refines_sequence` | 3 nodes, 2 values | `TypeOK`; `WellFormed`; `ImplementsList` (refinement of `List`) |
| `physical_pages` | 6 pages and a part, 5 ranges | `TypeOK`; `UserPagesAreHeld`; `ReservedIsSystem`; `SystemForever`; `AllocatedPageIsExclusive` |
| `kernel_memory` | boot and 5 calls on a machine with 100 MB and on two with 6 and 14 pages to hand out; on 62 others 3 module files of 8 kinds, 3 good ones with 1 to 60 free pages, 2 tasks with arguments | `TypeOK`; `TablesShowRegions`; `KernelInEverySpace`; `StructureHoldsRecords`; `AttachedBothWays`; `RegionsApart`; `TablesWhereEntriesSay`; `HeapSpec` (refinement of `Heap`); `LoadedAsLinked`; `TasksApart`; `LoadsUpToFirstMisfit`; `ArgumentsLaidOut` |
| `units` | formatting, strings, logging, console, multiboot and page dump, one instance each | `FormattingRight`; `OverrunBounded`; `StringsRight`; `LogComplete`; `StaysOnScreen`; `ShowsEndOfRoll`; `PlatformComplete`; `DumpRight`; `KernelStarts` |

Six runs are expected to fail; each shows a disagreement between the code and
what the repository says of it:

| run | statement | what the code does |
|---|---|---|
| `scheduled_tasks_incomplete` | `scheduled_tasks` "contains all tasks ready to execute, unless task already in execution" | the result of `linkedlist_append` is ignored: without memory the task is READY and nowhere |
| `linkedlist_adjacent_removal` | the test expects an element answered with `ITER_REMOVE_AND_NEXT` not to be found | with two in a row behind another element the second stays linked, and `size` is one short |
| `nested_growth` | `native_vmem_set`: "Add a new memory mapping to the native page structure" | a growth of the heap inside `set_entry` fills the entry that `set_entry` found empty and then overwrites: the mappings of the growth are lost |
| `boot_fits` | a page more is mapped "to ensure any allocation before the memory allocator module initialise still fits in the region mapped" | with 178 MB the records of the mapping itself need more than that: the allocator does not come up, and `kernel_main` does not look at its result |
| `tables_in_grown_heap` | "kernel pages are always attached to any virtual memory" | the tables of a space made after the heap has grown are linked by virtual addresses; the processor finds no kernel there |
| `log_prefix` | `should_write`: "Verify if the next message is equal to the lastest one" | compares up to the end of the new text, so one that begins the last one is counted for that and not shown |

Why the bounds are enough. Scheduling properties relate at most two tasks, and
a third one that runs in between: two tasks give every combination of current,
waiting, lost and destroyed, three give a queue whose order matters. Device 5
has a vector of a fault, device 1 has not. Call 0 and 3 are refused, 1 exits, 2
returns. Three list nodes give a first, a middle and a last one, which is all
that `linkedlist_remove_node` distinguishes; nodes and values are
interchangeable, so the run uses their symmetry. The page ranges lie inside a page,
across a boundary, on one, are empty, and exceed the memory; the memory is not
a whole number of pages.

`kernel_memory` takes real sizes. A request of 36800 bytes is a little less than
the reserve of the heap, so that a few of them make it grow, and on the machine
with 6 pages memory then runs out in the middle of attaching a region. A region
of 5000 bytes has two pages; a region starts at any address or at the last page
below 4 MB, where the next table begins; the mapped region has three pages, of
which resizing takes one away. Five calls are enough for a space, a region,
attaching, growing it and a growth of the heap in the middle of any of these. With
6 and with 14 pages memory runs out in the middle of a growth, earlier or later.
For the modules every number of free
pages up to 60 is tried, so that each allocation of each module is the one that
fails; the argument sizes fit, fit exactly and miss by one byte. In `units`
buffers end in every place of an item, strings lie at every alignment of a word,
messages pass the limit of the counting, rows are filled exactly and the screen
scrolls, tags have sizes that are and are not multiples of eight, and the dump
sees all tables of three levels with two entries.

The growth that `set_entry` does not survive has to begin while a table is made
for the entry the growth itself needs. `nested_growth` brings it about with
requests of 452500 bytes, which take the heap to the end of a table, and regions
across 512 MB and 1 GB, which need several new tables; the requests of
`kernel_memory` do not reach it, so `StructureHoldsRecords` holds there.
`boot_fits` has a machine with 178 MB, whose page map alone takes 44 KB of the
first heap; on the machines of the other runs the allocator comes up.

Fairness. `NoStarvation` assumes only that a tick which stays deliverable is
delivered (`WF_vars(Tick)`): the timer is periodic hardware. Tasks, devices and
system calls may stop or go on for ever. That the tick does stay deliverable is
a result: the timer has the highest priority and its handler acknowledges it
before the switch, so the lines no handler acknowledges cannot block it.
`KernelStarts` assumes that the boot code goes on (`WF_uvars(Multiboot)`): it
runs alone, with interrupts off.

## Proofs

The theorems hold for every value of the constants, not only for the instances
of the runs. The assumptions are the named `ASSUME`s of the modules, which TLC
evaluates in the runs, and the hypotheses each theorem states. All temporal
theorems have the same shape: an inductive invariant, one step per action, and
the property from the invariant.

**KernelProofs**: any set of tasks, any assignment of address spaces, any
registers, devices and system call numbers, and whichever allocations fail.
`TypesCorrect`, `EveryTaskOnePlace`, `NoTaskLostWithMemory`,
`AddressSpaceOfCurrent` and `PrivilegeNeverChanges` follow from `Inv`: `TypeOK`,
`Consistent(sched)`, `PrivilegeKept`, and that there is no current task before
the first switch. `Consistent` joins what TLC checks separately, because none of
it is inductive alone: that the task at the head of the queue may be switched to
needs the queue to hold ready tasks only, this needs a destroyed task to be
removed from it, which `linkedlist_remove_element` does only if the task is there
once, and that it is there once needs the current task, which is appended at each
switch, not to be in the queue. The first part of the module shows for each
scheduler service what it does to the elements of the queue and that it keeps
`Consistent`; the second composes these per handler.

**KernelStepProofs** adds what relates a state to earlier ones.
`HandlesAlwaysResolve` needs `HandleInv`: the mapper has one entry for each task
created and not destroyed, under the handle the task has, and every handle ever
given out went to one task and is below the counter. `HandlesResolve` alone is
not inductive, as `id_mapper_del` removes what it finds under a number: with two
entries under one handle the wrong task would be lost. `LifeNeverReturns` and `RegistersAlwaysSurvive` are action properties
proved per handler from `Inv`. `NeverOvertaken` is about the order of the queue:
`ListFacts` shows that an append, the removal of an element and taking the head
let no element fall behind another (`NoneFallsBack`) and that taking the head
moves all others up (`AllMoveUp`); every handler is composed of these.

**PhysMemProofs**: any memory size, search start and set of ranges. `PhysInv`
(types, `UserPagesAreHeld`, `ReservedIsSystem`, and that no page has two holders,
without which a release would free a page still held) gives `PageMapTypes`,
`HeldPagesAreMarked`, `ReservedPagesCovered`, `SystemPagesStay` and
`AllocationIsExclusive`. The last rests on two conjuncts: the page found is FREE,
hence neither held nor reserved.

**LinkedListProofs**: any nodes and values. `ListInvariant` says that the nodes
the walk visits are distinct and allocated, each linked to the next one, the last
to none, and as many as `size`. The last part is not in `WellFormed`, but
`linkedlist_append` hangs a node behind the last one and relies on it. From it
follow `ListTypes`, `ListAlwaysWellFormed` and `ListIsSequence`: every function
of `linkedlist.c` implements the call of the same name of `List`, with the same
result. Hypothesis: a callback does not answer `ITER_REMOVE_AND_NEXT` for two
neighbours in one pass; without it the statement is false, which
`linkedlist_adjacent_removal` shows. The callers in the kernel (`id_mapper.c:62`,
`linkedlist.c:185`) remove one element and end the pass. What the walk computes is
proved by induction on its length: the walk is a recursive function, `Recursion`
of `ListFacts` shows that such a function exists and `InductionUpTo` that a set
closed under successor contains its whole domain.

**MemoryProofs** has three parts.
*The heap* (`HeapInvariant`, `HeapBlocksMapped`, `HeapBlocksDisjoint`): blocks of
the specification `Heap` never share a byte and are followed by the mapped
reserve, for any reserve. `kernel_memory` checks that the allocator implements
`Heap`. *Addresses* (`AlignNextBounds`, `PathDetermines`, `IndexInTable`): two
pages of the 48-bit space whose indexes agree at all levels are equal.
*Page tables* (`LinkKeepsTranslations`, `MapChangesOnePage`): `set_entry` links at
most three new tables and then writes one entry. Linking an empty table where no
entry was present changes no translation of any space; writing the entry of a
page in the table its walk finds maps this page and changes nothing else. Both
assume that the tables form a forest (`IsForest`: each has one level and is
entered in one place), which both steps preserve (`LinkKeepsForest`,
`MapKeepsForest`) and `TypeOK` of `KernelMemory` includes. The condition that
the entry was not present is the one the code may break: `nested_growth` is a
behaviour in which it was tested before the heap grew and no longer holds.

**FormattingProofs**: any format, arguments of the types their conversions ask
for, any nonempty buffer. `OverrunAlwaysBounded` says how far `vsnprintf` writes
past its size. Inside the loop `p` is at most the size (`FormatInv`), and a
conversion that begins there ends within it, but for a single character, and for
a sign with all its digits; `DigitsAre` bounds the digits.

**ConsoleProofs**: any text and any screen whose rows end at a tab stop, as those
of `console.h` do. `AlwaysOnScreen` proves `StaysOnScreen`. Between two characters
the cursor may be *behind* its row, after a tab; that it is on the screen between
two calls rests on `terminal_writesequence` running its loop once for an empty
text.

Only model-checked:

* `NoStarvation` and `KernelStarts`: liveness is outside the prover's reach.
* The properties of `KernelMemory`, `TaskMemory`, `TaskArguments` and
  `ModuleLoader`: the functions of the memory services call each other in a
  circle, so they are recursive operators, and the prover cannot be used in a
  module that has one. What could be separated from the circle (heap, addresses,
  tables) is proved in `MemoryProofs`.
* `FormattingRight`, `ShowsEndOfRoll`, `StringsRight`, `LogComplete`,
  `PlatformComplete`, `DumpRight`: these compare a loop with a reference
  computed by a fold or a recursion over the input, some over bits.

## What the checks do not show

Limits of the code met while modelling, apart from the six runs above. Each is
in the model; the properties are stated so that they say what does hold.

* `vmem_region_assoc_physical_address` raises the size of a region before it
  appends to its list of pages. A heap that grows inside that append lists its
  pages before the one that is being appended, and a space attached later maps
  them in the order of the list, to the wrong frames. A single call has to grow
  the heap by about a hundred pages for this; the requests of `kernel_memory` are
  smaller.
* `vmem_get_physical_address` answers with the first record of a page, the tables
  have the last one (`StructureHoldsRecords`); they differ for a page mapped twice.
* `task_run` refuses every task that was started, although `task/services.h` calls
  it "Start (or restart) a task" (`LifeIsOneWay` relies on the refusal).
* `linkedlist_destroy` never frees the second node of a list, although
  `linkedlist.h` has it "releasing all node". `kfree` is empty, so nothing
  notices.
* `LoadedAsLinked` is about tasks that entered the scheduler's queue. A module
  that fails in the middle leaves its space and regions behind.
* The memory size wraps at 4 GB; the sizes of `units` end below that.
* Regions placed automatically overlap when one is larger than 1 MB
  (`RegionsApart`).
* A kernel region created after a space is not in it; the heap is, because its
  region grows (`KernelInEverySpace`).
* Without memory a region's list of pages may be shorter than its size, a released
  region may stay in the list of its space, and tables may be laid out at address
  0. Properties with `Enough` speak of the behaviours before that; `HeapSpec` and
  `AttachedBothWays` (of live spaces and regions) have no such condition.
* `task_set_arguments` stores through an address that no table maps
  (`ArgumentsLaidOut` is about the layout it sets out to make).
* `vsnprintf` may write a sign and its digits behind its buffer
  (`OverrunBounded`).
* `LogComplete` counts all messages together and, one by one, those whose text
  begins no other; `log_prefix` is about the rest. A console text that runs past its row is followed by
  characters that do not belong to it (`ShowsEndOfRoll`).

## Not modelled

The mode switches of `boot.S`, the bit layouts of GDT, IDT and multiboot tags,
and the serial port have no state a property could be about. Interrupt lines 2
to 4 arrive at vectors whose entry code assumes an error code on the stack
(`idt_fill.S`); what the misplaced frame does is below this level, so
`DevicesAssumption` leaves these lines out. The wording of log messages is left
out everywhere.
