----------------------------- MODULE KernelMemory -----------------------------
(***************************************************************************)
(* The kernel's memory: the heap (core/src/alloc.c), memory regions        *)
(* (vmem/region_services.c), address spaces (vmem/services.c) and x86-64   *)
(* page tables (hal/src/x86_64/native_pagging.c).                          *)
(*                                                                         *)
(* The four files call each other in a circle: kalloc grows the region of  *)
(* the kernel's data, growing a region adds pages to its list and to the   *)
(* page tables of every space it is attached to, and list nodes, map       *)
(* records and tables come from kalloc.  Each C function is therefore a    *)
(* recursive operator from a memory m to [m |-> the memory after the call, *)
(* v |-> what it returns]; a NULL or false is 0 or FALSE.  The variable    *)
(* mem holds the memory between two calls from outside.                    *)
(*                                                                         *)
(* Sizes and addresses are the real ones.  A list is a sequence; the bytes *)
(* its nodes take are counted.  Regions and spaces are numbered from 1 in  *)
(* the order of their NEW; nothing is ever given back, as kfree is empty.  *)
(***************************************************************************)
EXTENDS PageTables, Sequences, SequencesExt, FiniteSets, TLC

CONSTANTS
  Boots,        \* the machines: see BootType
  Requests,     \* arguments of kalloc
  Starts,       \* start addresses asked of vmem_region_create; 0: any
  NewSizes,     \* sizes of new regions
  Sizes,        \* sizes regions are resized to
  Physical,     \* physical ranges to map: <<address, bytes>>
  MaxSpaces, MaxRegions,   \* bounds on the spaces and the regions
  MaxCalls      \* bound on the calls from outside

\* the image of the kernel (first byte, bytes), the lengths of the modules'
\* command lines, the number of reserved segments, the pages of the machine
BootType == [start : Nat, size : Nat, params : Seq(Nat), segments : Nat, pages : Nat]

ASSUME KernelMemoryAssumption ==
  /\ \A b \in Boots : b \in BootType /\ Aligned(b.start) /\ b.start > 0 /\ b.size > 0
  /\ Requests \subseteq Nat \ {0} /\ NewSizes \cup Sizes \subseteq Nat /\ Starts \subseteq Nat

KERNEL_MEMORY_PAGE_RESERVE == 10 * SYSTEM_PAGE_SIZE
PAGE_TABLE_SIZE == PAGE_TABLE_NUMBER_OF_ENTRIES * 8
NATIVE_PAGETABLE_MEM_BUFFER_SIZE == 10 * PAGE_TABLE_SIZE
REGION_ADDRESS_INCREMENT == 1024 * 1024
FirstFrame == 16384    \* the page at 64 MB

\* sizeof of the records the services allocate
NODE == 16
LIST == 16
ID_ENTRY == 16
SEGMENT == 24
MODULE_INFO == 32
STACK_POINTER == 8
MAP == 24
PAGE_TABLE == 32
VMEM == 40
REGION == 64

VARIABLES
  mem,      \* the memory: see Blank
  blocks,   \* the blocks kalloc has handed to callers outside these files
  calls     \* the calls made so far
vars == <<mem, blocks, calls>>

\* the rest of a function, given what a call in it returned
Then(result, rest(_)) == rest(result)

RECURSIVE vmem_region_resize(_, _, _), set_entry(_, _, _, _, _, _),
          NotePages(_, _, _, _, _), AttachPages(_, _, _, _), GrowBy(_, _, _), MapPages(_, _, _, _)

(***************************************************************************)
(* pmem/services.c and algorithms/linkedlist.c, as these files use them    *)
(***************************************************************************)

\* faulty: the frame is not marked as used
pmem_allocate_Same(m) ==
  IF FirstFrame + m.frames < m.pages
  THEN [m |-> m, v |-> (FirstFrame + m.frames) * SYSTEM_PAGE_SIZE]
  ELSE [m |-> [m EXCEPT !.short = TRUE], v |-> 0]

\* Free frames start at 64 MB and none is given back, so the first free one
\* is the next one; 0 when there is no more memory, which is remembered.
pmem_allocate(m) ==
  IF FirstFrame + m.frames < m.pages
  THEN [m |-> [m EXCEPT !.frames = @ + 1], v |-> (FirstFrame + m.frames) * SYSTEM_PAGE_SIZE]
  ELSE [m |-> [m EXCEPT !.short = TRUE], v |-> 0]

(***************************************************************************)
(* core/src/alloc.c                                                        *)
(***************************************************************************)

\* faulty: the end of the heap is not moved with its size
Marked_NoEnd(m, new_size) == [m EXCEPT !.size = new_size]

\* the heap as it is to be
Marked(m, new_size) == [m EXCEPT !.size = new_size, !.end = m.start + new_size]

\* the memory needed is compared with what is mapped, and memory is marked as
\* grown before it is; before the allocator is ready it is only marked
ensure_free_memory(m, size) ==
  LET required == m.ptr + size + KERNEL_MEMORY_PAGE_RESERVE - m.start
      current == IF m.data # 0 THEN m.region[m.data].allocated ELSE m.size
      new_size == ALIGN_NEXT(required + KERNEL_MEMORY_PAGE_RESERVE)
  IN CASE required <= current -> [m |-> m, v |-> TRUE]
       [] required > current /\ ~m.ready -> [m |-> Marked(m, new_size), v |-> TRUE]
       [] OTHER -> vmem_region_resize(Marked(m, new_size), m.data, new_size)

\* faulty: a block is handed out although memory ran out
kalloc_Blind(m, size) ==
  Then(ensure_free_memory(m, size), LAMBDA e : [m |-> [e.m EXCEPT !.ptr = @ + size], v |-> e.m.ptr])

Block(e, size) ==
  IF e.v THEN [m |-> [e.m EXCEPT !.ptr = @ + size], v |-> e.m.ptr] ELSE [m |-> e.m, v |-> 0]

kalloc(m, size) == Block(ensure_free_memory(m, size), size)

\* the node of an append comes first: what kalloc does to the list on the way
\* is in the list before it
Node(m, exists) ==
  IF exists THEN Then(kalloc(m, NODE), LAMBDA block : [m |-> block.m, v |-> block.v # 0])
            ELSE [m |-> m, v |-> FALSE]

id_mapper_add(m) ==
  Then(kalloc(m, ID_ENTRY), LAMBDA entry :
    IF entry.v = 0 THEN [m |-> entry.m, v |-> FALSE] ELSE Node(entry.m, TRUE))

(***************************************************************************)
(* hal/src/x86_64/native_pagging.c                                         *)
(*                                                                         *)
(* m.table holds the tables by the kernel's address of them, as in         *)
(* PageTables.  An entry, and cr3, is given that address, which the kernel *)
(* follows to the table below; the processor takes it for a physical one.  *)
(***************************************************************************)

\* a new pool for the tables of space v; a block that could not be had is
\* not noticed
Pool(block, v) ==
  LET first == ALIGN_NEXT(block.v)
      pool == [addr |-> first, size |-> NATIVE_PAGETABLE_MEM_BUFFER_SIZE - (first - block.v)]
  IN [Node(block.m, TRUE).m EXCEPT !.vmem[v].pool = pool]

\* the next table of the pool of space v
Table(m, v, size) ==
  LET addr == m.vmem[v].pool.addr
  IN [m |-> [m EXCEPT !.vmem[v].pool = [addr |-> addr + size, size |-> @.size - size],
                      !.table = IF addr >= m.start THEN (addr :> <<>>) @@ @ ELSE @],
      v |-> addr]

\* space v with a pool that has room for size bytes more
Pooled(m, v, size) ==
  IF size <= m.vmem[v].pool.size THEN m ELSE Pool(kalloc(m, NATIVE_PAGETABLE_MEM_BUFFER_SIZE), v)


\* a table for space v from its pool, and a new pool when it has none left
create_entries(m, v) == Table(Pooled(m, v, PAGE_TABLE_SIZE), v, PAGE_TABLE_SIZE)

fill_entry_value(m, entries, index, addr) ==
  [m EXCEPT !.table = Filled(@, entries, index, addr)]

\* The entry is read before the table below it is created.
set_entry(m, v, level, entries, vaddr, paddr) ==
  LET index == index_for_level(level, vaddr)
      entry == m.table[entries]
  IN IF m.fault \/ entries \notin DOMAIN m.table THEN [m EXCEPT !.fault = TRUE]
     ELSE CASE level = 1 -> fill_entry_value(m, entries, index, paddr)
            [] level > 1 /\ index \in DOMAIN entry ->
                 set_entry(m, v, level - 1, entry[index], vaddr, paddr)
            [] OTHER -> Then(create_entries(m, v), LAMBDA below :
                 set_entry(fill_entry_value(below.m, entries, index, below.v),
                           v, level - 1, below.v, vaddr, paddr))

\* The frame a table lies in: boot.S leads the kernel's addresses to themselves;
\* once the allocator is up, the kernel's own space decides.
FrameOf(m, entries) ==
  IF m.ready THEN Translation(m.table, m.vmem[1].entries, entries) ELSE entries

\* the tables as the processor finds them, by the frames they lie in
InFrames(m) ==
  LET frame == [t \in DOMAIN m.table |-> FrameOf(m, t)]
  IN [f \in Range(frame) \ {0} |-> m.table[CHOOSE t \in DOMAIN frame : frame[t] = f]]

\* the walk of the processor in space v
WalkIn(m, v, vaddr) == Translation(InFrames(m), m.vmem[v].entries, vaddr)

\* whether the page-table record and its list could be allocated
native_vmem_create(m, v) ==
  Then(kalloc(m, PAGE_TABLE), LAMBDA pt :
    IF pt.v = 0 THEN [m |-> pt.m, v |-> FALSE]
    ELSE Then(kalloc(pt.m, LIST), LAMBDA list :
      IF list.v = 0 THEN [m |-> list.m, v |-> FALSE]
      ELSE Then(create_entries(list.m, v), LAMBDA root :
        [m |-> [root.m EXCEPT !.vmem[v].entries = root.v], v |-> TRUE])))

\* refuses an unaligned address; its callers ignore that
native_vmem_set(m, v, vaddr, paddr) ==
  IF Aligned(vaddr) /\ Aligned(paddr)
  THEN set_entry(m, v, 4, m.vmem[v].entries, vaddr, paddr)
  ELSE m

(***************************************************************************)
(* vmem/services.c                                                         *)
(***************************************************************************)

\* The list exists: spaces whose list could not be made have no region.
vmem_notify_change(m, v, r, paddr, vaddr) ==
  Then(kalloc(m, MAP), LAMBDA map :
    IF map.v = 0 THEN [m |-> map.m, v |-> FALSE]
    ELSE Then(Node(map.m, "map" \in map.m.vmem[v].lists), LAMBDA node :
      IF ~node.v THEN node
      ELSE LET noted == [node.m EXCEPT !.vmem[v].map = Append(@, <<vaddr, paddr>>)]
           IN [m |-> native_vmem_set(noted, v, vaddr, paddr), v |-> TRUE]))

\* the first record of the page decides; 0 when there is none
vmem_get_physical_address(m, v, vaddr) ==
  LET at == {i \in DOMAIN m.vmem[v].map : m.vmem[v].map[i][1] = ALIGN(vaddr)}
      first == CHOOSE i \in at : \A j \in at : i <= j
  IN IF at = {} THEN 0 ELSE m.vmem[v].map[first][2] + (vaddr % SYSTEM_PAGE_SIZE)

\* the body of vmem_attach's loop on pages i to j of the region, by halves
NotePages(m, v, r, i, j) ==
  LET mid == (i + j) \div 2
  IN CASE i > j -> [m |-> m, v |-> TRUE]
       [] i = j -> vmem_notify_change(m, v, r, m.region[r].pages[i],
                     m.region[r].start + ((i - 1) * SYSTEM_PAGE_SIZE))
       [] OTHER -> Then(NotePages(m, v, r, i, mid), LAMBDA first :
                     IF first.v THEN NotePages(first.m, v, r, mid + 1, j) ELSE first)

\* The loop of vmem_attach from page i on.  The iterator has fetched the next
\* node when the body runs: what the body appends to the list is visited,
\* unless it was running on the last page.
AttachPages(m, v, r, i) ==
  LET last == Len(m.region[r].pages)
  IN IF i > last THEN [m |-> m, v |-> TRUE]
     ELSE Then(NotePages(m, v, r, i, last - 1), LAMBDA before :
       IF ~before.v THEN before
       ELSE Then(NotePages(before.m, v, r, last, last), LAMBDA note :
         IF note.v /\ last < Len(before.m.region[r].pages)
         THEN AttachPages(note.m, v, r, last + 1) ELSE note))

\* faulty: the space stays in the list of the region
Detach_OneWay(m, v, r) == [m EXCEPT !.vmem[v].regions = Remove(@, r)]

Detach(m, v, r) ==
  [m EXCEPT !.vmem[v].regions = Remove(@, r), !.region[r].attached = Remove(@, v)]

vmem_attach(m, v, r) ==
  IF Contains(m.vmem[v].regions, r) THEN [m |-> m, v |-> TRUE]
  ELSE Then(Node(m, "regions" \in m.vmem[v].lists), LAMBDA n1 :
    IF ~n1.v THEN [m |-> Detach(n1.m, v, r), v |-> FALSE]
    ELSE Then(Node([n1.m EXCEPT !.vmem[v].regions = Append(@, r)],
                   "attached" \in m.region[r].lists), LAMBDA n2 :
      IF ~n2.v THEN [m |-> Detach(n2.m, v, r), v |-> FALSE]
      ELSE Then(AttachPages([n2.m EXCEPT !.region[r].attached = Append(@, v),
                                         !.fault = @ \/ "pages" \notin m.region[r].lists],
                            v, r, 1), LAMBDA mapped :
        IF mapped.v THEN mapped ELSE [m |-> Detach(mapped.m, v, r), v |-> FALSE])))

NewSpace == [regions |-> <<>>, map |-> <<>>, next |-> REGION_ADDRESS_INCREMENT,
             entries |-> 0, pool |-> [addr |-> 0, size |-> 0], lists |-> {}, live |-> TRUE]

\* the lists of a record that was just allocated: each one that could be
Lists(m, first, second) ==
  Then(kalloc(m, LIST), LAMBDA l1 : Then(kalloc(l1.m, LIST), LAMBDA l2 :
    [m |-> l2.m, v |-> {l \in {first, second} : IF l = first THEN l1.v # 0 ELSE l2.v # 0}]))

\* vmem_destroy leaves the space in the lists of its regions
vmem_destroy(m, v) == [m EXCEPT !.vmem[v].live = FALSE]

\* a space with the regions given; the two ways to fail after the NEW leave
\* through vmem_destroy
CreateWith(m, regions) ==
  LET v == Len(m.vmem) + 1
      AttachOne(acc, r) == IF acc.v THEN vmem_attach(acc.m, v, r) ELSE acc
  IN Then(kalloc(m, VMEM), LAMBDA new :
    IF new.v = 0 THEN new
    ELSE Then(Lists([new.m EXCEPT !.vmem = Append(@, NewSpace)], "regions", "map"), LAMBDA lists :
      Then(native_vmem_create([lists.m EXCEPT !.vmem[v].lists = lists.v], v), LAMBDA native :
        Then(IF native.v THEN FoldLeft(AttachOne, native, regions) ELSE native, LAMBDA attached :
          Then(IF attached.v THEN id_mapper_add(attached.m) ELSE attached, LAMBDA id :
            IF id.v THEN [m |-> id.m, v |-> v] ELSE [m |-> vmem_destroy(id.m, v), v |-> 0])))))

\* faulty: the last region of the kernel is not attached
vmem_create_Short(m) ==
  CreateWith(m, IF m.vmem = <<>> THEN <<>> ELSE Front(m.vmem[1].regions))

vmem_create(m) == CreateWith(m, IF m.vmem = <<>> THEN <<>> ELSE m.vmem[1].regions)

(***************************************************************************)
(* vmem/region_services.c                                                  *)
(***************************************************************************)

\* faulty: the first space the region is attached to is the only one told
Told_First(m, r) == SubSeq(m.region[r].attached, 1, 1)

\* the spaces to be told of a change of the region
Told(m, r) == m.region[r].attached

\* The region has its new size before the page is in its list; a node that
\* could not be had is not noticed.  0 when a space could not be told.
vmem_region_assoc_physical_address(m, r, paddr) ==
  LET vaddr == m.region[r].start + m.region[r].allocated
      Tell(acc, v) == IF acc.v THEN vmem_notify_change(acc.m, v, r, paddr, vaddr) ELSE acc
  IN Then(Node([m EXCEPT !.region[r].allocated = @ + SYSTEM_PAGE_SIZE], "pages" \in m.region[r].lists),
       LAMBDA node :
         Then(IF node.v THEN [node.m EXCEPT !.region[r].pages = Append(@, paddr)] ELSE node.m,
           LAMBDA listed :
             Then(FoldLeft(Tell, [m |-> listed, v |-> TRUE], Told(listed, r)),
               LAMBDA told : [m |-> told.m, v |-> IF told.v THEN vaddr ELSE 0])))

\* the loop of vmem_region_map_physical_address over n pages from paddr on,
\* by halves to keep the evaluation shallow; FALSE when a page failed
MapPages(m, r, paddr, n) ==
  LET half == n \div 2
  IN CASE n = 0 -> [m |-> m, v |-> TRUE]
       [] n = 1 -> Then(vmem_region_assoc_physical_address(m, r, paddr), LAMBDA one :
            IF one.v = 0 THEN [m |-> one.m, v |-> FALSE]
            ELSE [m |-> [one.m EXCEPT !.region[r].size = one.m.region[r].allocated], v |-> TRUE])
       [] OTHER -> Then(MapPages(m, r, paddr, half), LAMBDA first :
            IF first.v THEN MapPages(first.m, r, paddr + (half * SYSTEM_PAGE_SIZE), n - half)
                       ELSE first)

\* whether the range was mapped: the address returned is 0 for an empty one
vmem_region_map_physical_address(m, r, paddr, size) ==
  IF r = 0 \/ ~Aligned(paddr) \/ ~Aligned(size)
  THEN [m |-> m, v |-> FALSE]
  ELSE Then(MapPages(m, r, paddr, size \div SYSTEM_PAGE_SIZE), LAMBDA all :
         [m |-> all.m, v |-> all.v /\ size > 0])

\* the loop of vmem_region_resize over n pages, by halves: whether there was
\* a frame for every page; that a space could not be told is not noticed
GrowBy(m, r, n) ==
  LET half == n \div 2
  IN CASE n = 0 -> [m |-> m, v |-> TRUE]
       [] n = 1 -> Then(pmem_allocate(m), LAMBDA page :
            IF page.v = 0 THEN [m |-> page.m, v |-> FALSE]
            ELSE [m |-> vmem_region_assoc_physical_address(page.m, r, page.v).m, v |-> TRUE])
       [] OTHER -> Then(GrowBy(m, r, half), LAMBDA first :
            IF first.v THEN GrowBy(first.m, r, n - half) ELSE first)

\* a smaller region keeps its pages; a larger one that ran out of memory
\* keeps its size and the pages it got
vmem_region_resize(m, r, new_size) ==
  LET remain == ALIGN_NEXT(new_size) - m.region[r].allocated
  IN IF remain < 0 THEN [m |-> [m EXCEPT !.region[r].size = new_size], v |-> TRUE]
     ELSE Then(GrowBy(m, r, remain \div SYSTEM_PAGE_SIZE), LAMBDA grown :
       IF new_size <= grown.m.region[r].allocated
       THEN [m |-> [grown.m EXCEPT !.region[r].size = new_size], v |-> grown.v] ELSE grown)

NewRegion(start) == [start |-> start, size |-> 0, allocated |-> 0, pages |-> <<>>,
                     attached |-> <<>>, lists |-> {}, live |-> TRUE]

\* faulty: the next region gets the same address
find_next_memory_address_Same(m, v) == [m |-> m, v |-> m.vmem[v].next]

\* the next address of the space, which moves by a fixed step
find_next_memory_address(m, v) ==
  [m |-> [m EXCEPT !.vmem[v].next = @ + REGION_ADDRESS_INCREMENT], v |-> m.vmem[v].next]

\* the three ways to fail after the NEW leave the region in the lists of
\* the spaces it reached
vmem_region_create(m, v, start, size) ==
  LET r == Len(m.region) + 1
  IN Then(IF start = 0 THEN find_next_memory_address(m, v) ELSE [m |-> m, v |-> start], LAMBDA at :
    IF ~Aligned(at.v) THEN [m |-> at.m, v |-> 0]
    ELSE Then(kalloc(at.m, REGION), LAMBDA new :
      IF new.v = 0 THEN new
      ELSE Then(Lists([new.m EXCEPT !.region = Append(@, NewRegion(at.v))], "pages", "attached"),
        LAMBDA lists :
        Then(vmem_attach([lists.m EXCEPT !.region[r].lists = lists.v], v, r), LAMBDA attach :
          Then(IF attach.v THEN vmem_region_resize(attach.m, r, size) ELSE attach, LAMBDA resize :
            Then(IF resize.v THEN id_mapper_add(resize.m) ELSE resize, LAMBDA id :
              IF id.v THEN [m |-> id.m, v |-> r]
              ELSE [m |-> [id.m EXCEPT !.region[r].live = FALSE], v |-> 0]))))))

(***************************************************************************)
(* Boot: platform.c, multiboot2.c and kernel_main as far as they use memory *)
(***************************************************************************)

\* the blocks taken before kernel_main: two lists, a record, a command line
\* and a node for each module, a record and a node for each segment, and the
\* pointer to the kernel stack of the processor
EarlyBlocks(b) ==
  <<LIST, LIST>>
    \o FlattenSeq([i \in DOMAIN b.params |-> <<MODULE_INFO, b.params[i] + 1, NODE>>])
    \o FlattenSeq([i \in 1 .. b.segments |-> <<SEGMENT, NODE>>])
    \o <<STACK_POINTER>>

\* platform_initialize: the heap starts on the page after the kernel's end
Blank(b) ==
  LET data == ALIGN(b.start + b.size) + SYSTEM_PAGE_SIZE
  IN [ptr |-> data, start |-> data, size |-> 0, end |-> data,
      boot |-> b, pages |-> b.pages, boots |-> 0, ready |-> FALSE, code |-> 0, data |-> 0,
      frames |-> 0, region |-> <<>>, vmem |-> <<>>, table |-> <<>>, fault |-> FALSE, short |-> FALSE]

\* vmem_map_current_kernel_memory_address: the kernel's two regions, mapped
\* where they are; the size of the data region is fixed before it is mapped
MapCode(m) ==
  Then(vmem_region_create(m, 1, m.boot.start, 0), LAMBDA code :
    vmem_region_map_physical_address([code.m EXCEPT !.code = code.v], code.v,
      m.boot.start, ALIGN_NEXT(m.boot.size)))

MapFrom(m, paddr, reserve) ==
  Then(vmem_region_create(m, 1, m.start, 0), LAMBDA data :
    LET new_size == ALIGN_NEXT(data.m.size + reserve)
    IN Then(vmem_region_map_physical_address([data.m EXCEPT !.data = data.v], data.v, paddr, new_size),
         LAMBDA all : IF all.v THEN all ELSE [all EXCEPT !.m.size = new_size]))

\* faulty: from the last page of the kernel on
MapData_Early(m) == MapFrom(m, m.start - SYSTEM_PAGE_SIZE, KERNEL_MEMORY_PAGE_RESERVE)

MapData(m) == MapFrom(m, m.start, KERNEL_MEMORY_PAGE_RESERVE)

\* ready unless the heap has outgrown the region meanwhile
memory_allocator_initialize(m) ==
  Then(MapCode(m), LAMBDA code :
    IF ~code.v THEN code.m
    ELSE Then(MapData(code.m), LAMBDA data :
      IF ~data.v THEN data.m
      ELSE [data.m EXCEPT !.ready = data.m.size <= data.m.region[data.m.data].size]))

\* Booting: the early blocks one by one, then the calls of kernel_main up to
\* the modules; what the calls return is not looked at.
BootSteps(b) == Len(EarlyBlocks(b)) + 6

BootStep(m) ==
  LET early == EarlyBlocks(m.boot)
      left == BootSteps(m.boot) - m.boots
  IN CASE left > 6 -> kalloc(m, early[m.boots + 1]).m           \* native_boot
       [] left = 6 -> kalloc(m, m.pages).m                      \* pmem_initialize
       [] left = 5 -> vmem_create(kalloc(m, LIST).m).m          \* vmem_initialize
       [] left = 4 -> kalloc(m, LIST).m                         \* vmem_region_initialize
       [] left = 3 -> memory_allocator_initialize(m)
       [] left = 2 -> kalloc(m, LIST).m                         \* scheduler_initialise
       [] left = 1 -> kalloc(m, LIST).m                         \* task_service_initialize

(***************************************************************************)
(* The calls from outside                                                  *)
(***************************************************************************)
Init == /\ \E b \in Boots : mem = Blank(b)
        /\ blocks = {} /\ calls = 0

Booted == mem.boots = BootSteps(mem.boot)

KernelMain == /\ ~Booted
              /\ mem' = [BootStep(mem) EXCEPT !.boots = @ + 1]
              /\ UNCHANGED <<blocks, calls>>

\* the kernel runs and has not stopped on a fault
Up == Booted /\ ~mem.fault
Call == Up /\ calls < MaxCalls /\ calls' = calls + 1

LiveSpaces == {v \in DOMAIN mem.vmem : mem.vmem[v].live}
LiveRegions == {r \in DOMAIN mem.region : mem.region[r].live}
\* the regions callers hold: not the kernel's own two
OwnRegions == LiveRegions \ {mem.code, mem.data}

Kalloc(size) ==
  /\ Call
  /\ Then(kalloc(mem, size), LAMBDA block :
       /\ mem' = block.m
       /\ blocks' = IF block.v = 0 THEN blocks ELSE blocks \cup {[addr |-> block.v, size |-> size]})

CreateSpace == /\ Call
               /\ Len(mem.vmem) < MaxSpaces
               /\ mem' = vmem_create(mem).m
               /\ UNCHANGED blocks

CreateRegion(v, start, size) ==
  /\ Call
  /\ Len(mem.region) < MaxRegions
  /\ \A r \in DOMAIN mem.region : start # mem.region[r].start    \* bound: each address once
  /\ mem' = vmem_region_create(mem, v, start, size).m
  /\ UNCHANGED blocks

ResizeRegion(r, size) == /\ Call
                         /\ mem.region[r].size # size    \* the size it has changes nothing
                         /\ mem' = vmem_region_resize(mem, r, size).m
                         /\ UNCHANGED blocks

MapPhysical(r, range) ==
  /\ Call
  /\ mem.region[r].allocated = 0    \* bound: once for each region
  /\ mem' = vmem_region_map_physical_address(mem, r, range[1], range[2]).m
  /\ UNCHANGED blocks

AttachRegion(v, r) == /\ Call
                      /\ ~Contains(mem.vmem[v].regions, r)    \* a second time changes nothing
                      /\ mem' = vmem_attach(mem, v, r).m
                      /\ UNCHANGED blocks

Next ==
  \/ KernelMain
  \/ \E size \in Requests : Kalloc(size)
  \/ CreateSpace
  \/ \E v \in LiveSpaces, start \in Starts, size \in NewSizes : CreateRegion(v, start, size)
  \/ \E r \in OwnRegions, size \in Sizes : ResizeRegion(r, size)
  \/ \E r \in OwnRegions, range \in Physical : MapPhysical(r, range)
  \/ \E v \in LiveSpaces, r \in LiveRegions : AttachRegion(v, r)

Spec == Init /\ [][Next]_vars

(***************************************************************************)
(* Properties                                                              *)
(***************************************************************************)

\* What the processor finds, and the tables it finds at the address the kernel
\* has for them.
View ==
  [table |-> InFrames(mem), inPlace |-> {t \in DOMAIN mem.table : FrameOf(mem, t) = t}]

\* The kernel's way down the tables of space v leads through such tables only;
\* a way that breaks off counts as far as it goes.
InPlace(view, v, vaddr) ==
  WayTo(mem.table, mem.vmem[v].entries, vaddr) \ {0} \subseteq view.inPlace

\* What the processor makes of an address in space v.
Walk(view, v, vaddr) == Translation(view.table, mem.vmem[v].entries, vaddr)

PageAt(r, i) == mem.region[r].start + ((i - 1) * SYSTEM_PAGE_SIZE)

\* every page of the region is in its list
Listed(r) == Len(mem.region[r].pages) * SYSTEM_PAGE_SIZE = mem.region[r].allocated

\* The tables of space v lead every page of region r to the frame in its list,
\* where they are in place.
Shows(view, v, r) ==
  /\ Listed(r)
  /\ \A i \in DOMAIN mem.region[r].pages :
       InPlace(view, v, PageAt(r, i)) => Walk(view, v, PageAt(r, i)) = mem.region[r].pages[i]

End(r) == mem.region[r].start + mem.region[r].allocated
Overlap(r, q) == mem.region[r].start < End(q) /\ mem.region[q].start < End(r)

\* No other region of the space has been placed over the region.  Nothing keeps
\* a caller from that, and find_next_memory_address does not look at regions
\* the space has from elsewhere.
Uncovered(v, r) == \A q \in Range(mem.vmem[v].regions) : r # q => ~Overlap(r, q)

\* Memory has not run out.  Where it has, the services may leave lists, tables
\* and regions that do not fit together; the heap stays sound.
Enough == Up /\ ~mem.short

\* the level of each table, from the spaces down
LevelOf ==
  LET at[l \in Levels] == IF l = 4 THEN {mem.vmem[v].entries : v \in DOMAIN mem.vmem}
                          ELSE UNION {Range(mem.table[t]) : t \in at[l + 1]}
  IN [t \in DOMAIN mem.table |-> CHOOSE l \in Levels : t \in at[l]]

\* The types of the memory's parts, the numbers that index them, and, unless
\* memory ran out, the shape of the tables.
TypeOK ==
  /\ mem.ptr \in Nat /\ mem.size \in Nat /\ mem.end = mem.start + mem.size
  /\ {mem.code, mem.data} \subseteq 0 .. Len(mem.region)
  /\ \A v \in DOMAIN mem.vmem : Range(mem.vmem[v].regions) \subseteq DOMAIN mem.region
  /\ \A r \in DOMAIN mem.region :
       /\ Range(mem.region[r].attached) \subseteq DOMAIN mem.vmem
       /\ Aligned(mem.region[r].start) /\ Aligned(mem.region[r].allocated)
  /\ Enough => IsForest(mem.table, LevelOf)

\* memory_allocator_initialize: the heap is mapped with a reserve "to ensure any
\* allocation before the memory allocator module initialise still fits in the
\* region mapped" (alloc.c:54), so the allocator comes up on every machine.
BootFits == Booted => mem.ready

\* vmem_attach and vmem_region_assoc_physical_address: whatever the order in
\* which spaces are made, regions attached and grown, and the heap grown in
\* the middle of that, the processor finds in a space each of its regions,
\* page by page as the region lists them, wherever the tables on the way are
\* in place.
TablesShowRegions ==
  LET view == View
  IN Enough => \A v \in LiveSpaces : \A r \in Range(mem.vmem[v].regions) :
                 Uncovered(v, r) => Shows(view, v, r)

\* vmem_create and ensure_free_memory: the kernel's code and its heap, as
\* large as it is now, are in every space: the processor finds each of their
\* pages there, wherever the tables on the way are in place.
KernelInEverySpace ==
  LET view == View
  IN Enough => \A v \in LiveSpaces : Shows(view, v, mem.code) /\ Shows(view, v, mem.data)

\* vmem_create: "kernel pages are always attached to any virtual memory"
\* (vmem/services.c:42), so that a task may enter the kernel: the processor
\* finds them in every space.
KernelFoundInEverySpace ==
  LET view == View
  IN Enough => \A v \in LiveSpaces, r \in {mem.code, mem.data} :
       \A i \in DOMAIN mem.region[r].pages : Walk(view, v, PageAt(r, i)) = mem.region[r].pages[i]

\* vmem_notify_change and native_vmem_set ("Add a new memory mapping to the
\* native page structure", native_pagging.c:222): the tables the kernel has
\* built for a space hold every record of the space's map, the last one where
\* a page was recorded more than once, although building a table may grow the
\* heap and so record and enter other pages in the middle of it.
StructureHoldsRecords ==
  Enough => \A v \in LiveSpaces :
    LET map == mem.vmem[v].map
    IN \A i \in DOMAIN map :
         \/ Translation(mem.table, mem.vmem[v].entries, map[i][1]) = map[i][2]
         \/ \E j \in i + 1 .. Len(map) : map[j][1] = map[i][1]

\* vmem_attach and its three ways to fail, vmem_region_create, vmem_create: a
\* live space lists a live region exactly when the region lists the space, also
\* when memory ran out in the middle of attaching.
AttachedBothWays ==
  Up => \A v \in LiveSpaces, r \in LiveRegions :
          Contains(mem.vmem[v].regions, r) <=> Contains(mem.region[r].attached, v)

\* find_next_memory_address ("next memory address available",
\* region_services.c:124): the regions created in a space overlap neither each
\* other nor the kernel, as long as none is larger than the step from one
\* address to the next and the heap ends below the first one.
RegionsApart ==
  LET Own(v) == {r \in Range(mem.vmem[v].regions) :
                   r \in {mem.code, mem.data} \/ mem.region[r].attached[1] = v}
  IN /\ Enough
     /\ \A r \in LiveRegions : mem.region[r].allocated <= REGION_ADDRESS_INCREMENT
     /\ End(mem.data) <= REGION_ADDRESS_INCREMENT
     => \A v \in LiveSpaces : \A r, q \in Own(v) : r # q => ~Overlap(r, q)

\* create_entries and fill_entry_value: the address an entry, or cr3, holds is
\* the physical address of the table for every table in the part of the heap
\* that was mapped at boot.  (Tables in pages by which the heap has grown are
\* linked by their virtual address, where the processor does not find them.)
TablesWhereEntriesSay ==
  LET atBoot == {i \in DOMAIN mem.region[mem.data].pages :
                   mem.region[mem.data].pages[i] < FirstFrame * SYSTEM_PAGE_SIZE}
      end == mem.start + (Cardinality(atBoot) * SYSTEM_PAGE_SIZE)
  IN Enough => \A entries \in DOMAIN mem.table : entries < end => FrameOf(mem, entries) = entries

\* The heap of alloc.c keeps the promise of Heap, although its growth takes
\* memory itself, and also when memory runs out in the middle of a growth: its
\* limit is the end of the kernel-data region.
H == INSTANCE Heap WITH
  Reserve <- KERNEL_MEMORY_PAGE_RESERVE,
  ptr <- mem.ptr,
  limit <- IF Booted THEN mem.start + mem.region[mem.data].allocated
           ELSE mem.ptr + KERNEL_MEMORY_PAGE_RESERVE
HeapSpec == H!Spec

=============================================================================
