----------------------------- MODULE Multiboot ------------------------------
(***************************************************************************)
(* What the kernel learns from the boot loader (hal/src/common/multiboot2.c *)
(* and native_boot): a walk over tags of different sizes, each of which    *)
(* starts at the next multiple of eight after the one before it.  Memory   *)
(* sizes are in KB; the sum for the total is one of 32 bits.               *)
(*                                                                         *)
(* A tag is [type, size] with [start, end] for a module, [upper] for the   *)
(* memory and [entry_size, entries] for the map, an entry being            *)
(* [available, addr, len].                                                 *)
(***************************************************************************)
EXTENDS Integers, Sequences, SequencesExt, TLC

CONSTANTS
  Infos,      \* the tags before the end tag
  Magics,     \* BOOLEAN: whether the loader passes the magic number
  Addresses   \* of the information

TAG == 8
MMAP_HEADER == 16
END_TAG == [type |-> "end", size |-> TAG]

VARIABLES
  info, magic, addr,    \* what the boot loader passes
  tag,                  \* the address the walk is at
  platform,             \* [total_memory, modules, reserved_segments]
  pc                    \* "boot", "tags", "kernel_main", "stopped"
bvars == <<info, magic, addr, tag, platform, pc>>

\* the boot loader's layout
tags == Append(info, END_TAG)
RECURSIVE TagAddress(_)
TagAddress(k) ==
  IF k = 1 THEN addr + 8
  ELSE LET size == tags[k - 1].size IN TagAddress(k - 1) + size + ((8 - (size % 8)) % 8)
TagsAt(a) == {k \in DOMAIN tags : TagAddress(k) = a}

\* the first steps of native_boot
platform_initialize == [total_memory |-> 0, modules |-> <<>>, reserved_segments |-> <<>>]

native_boot ==
  /\ pc = "boot"
  /\ IF magic /\ addr % 8 = 0 THEN pc' = "tags" /\ tag' = addr + 8
                              ELSE pc' = "stopped" /\ UNCHANGED tag
  /\ platform' = platform_initialize
  /\ UNCHANGED <<info, magic, addr>>

\* faulty: a tag of a size that is no multiple of eight is not skipped whole
NextTag_Down(a, size) == a + (size - (size % 8))

NextTag(a, size) == a + ((size + 7) - ((size + 7) % 8))

AddModule(p, t) ==
  [p EXCEPT !.modules = Append(@, [addr_start |-> t.start, addr_end |-> t.end, size |-> t.end - t.start])]

SetMemory(p, t) == [p EXCEPT !.total_memory = (t.upper + 1024) % (2^22)]

\* faulty: the last entry is left out
AddSegments_Short(p, t) ==
  LET entries == {k \in DOMAIN t.entries : MMAP_HEADER + (k * t.entry_size) < t.size}
      Add(acc, k) ==
        IF k \notin entries \/ t.entries[k].available THEN acc
        ELSE [acc EXCEPT !.reserved_segments =
                Append(@, [addr_start |-> t.entries[k].addr, size |-> t.entries[k].len,
                           addr_end |-> t.entries[k].addr + t.entries[k].len])]
  IN FoldLeft(Add, p, [k \in DOMAIN t.entries |-> k])

\* the entries of the map that begin inside the tag
AddSegments(p, t) ==
  LET entries == {k \in DOMAIN t.entries : MMAP_HEADER + ((k - 1) * t.entry_size) < t.size}
      Add(acc, k) ==
        IF k \notin entries \/ t.entries[k].available THEN acc
        ELSE [acc EXCEPT !.reserved_segments =
                Append(@, [addr_start |-> t.entries[k].addr, size |-> t.entries[k].len,
                           addr_end |-> t.entries[k].addr + t.entries[k].len])]
  IN FoldLeft(Add, p, [k \in DOMAIN t.entries |-> k])

\* what a tag adds; the others are only logged
Parsed(p, t) ==
  CASE t.type = "module" -> AddModule(p, t)
    [] t.type = "meminfo" -> SetMemory(p, t)
    [] t.type = "mmap" -> AddSegments(p, t)
    [] OTHER -> p

\* A round of the loop.  At an address with no tag the walk would read what
\* happens to be there.
multiboot2_parser ==
  /\ pc = "tags"
  /\ IF TagsAt(tag) = {} THEN pc' = "lost" /\ UNCHANGED <<tag, platform>>
     ELSE LET t == tags[CHOOSE k \in TagsAt(tag) : TRUE]
          IN IF t.type = "end" THEN pc' = "kernel_main" /\ UNCHANGED <<tag, platform>>
             ELSE /\ platform' = Parsed(platform, t)
                  /\ tag' = NextTag(tag, t.size)
                  /\ UNCHANGED pc
  /\ UNCHANGED <<info, magic, addr>>

Init == /\ info \in Infos /\ magic \in Magics /\ addr \in Addresses
        /\ tag = 0 /\ platform = platform_initialize /\ pc = "boot"

Next == native_boot \/ multiboot2_parser

\* the boot code runs alone and runs on
Spec == Init /\ [][Next]_bvars /\ WF_bvars(Next)

(***************************************************************************)
(* Properties                                                              *)
(***************************************************************************)
OfType(type) == SelectSeq(info, LAMBDA t : t.type = type)
Starts(s) == [i \in DOMAIN s |-> s[i].addr_start]

\* multiboot2_parser: when the kernel starts it knows every module with its
\* place and size, every segment the maps reserve, in their order, and the
\* memory the loader announced.
PlatformComplete ==
  pc = "kernel_main" =>
    /\ Starts(platform.modules) = [i \in DOMAIN OfType("module") |-> OfType("module")[i].start]
    /\ \A i \in DOMAIN platform.modules :
         platform.modules[i].addr_start + platform.modules[i].size = OfType("module")[i].end
    /\ platform.reserved_segments =
         FlattenSeq([i \in DOMAIN OfType("mmap") |->
           LET held == SelectSeq(OfType("mmap")[i].entries, LAMBDA e : ~e.available)
           IN [j \in DOMAIN held |-> [addr_start |-> held[j].addr, size |-> held[j].len,
                                      addr_end |-> held[j].addr + held[j].len]]])
    /\ OfType("meminfo") # <<>> =>
         platform.total_memory = OfType("meminfo")[Len(OfType("meminfo"))].upper + 1024

\* the end of booting, for what the loader passed
BootEnds == pc = IF magic /\ addr % 8 = 0 THEN "kernel_main" ELSE "stopped"

\* native_boot, multiboot2_parser: the walk comes to the end tag, whatever
\* the sizes of the tags, and the kernel starts exactly when the loader was
\* one that can be understood.
KernelStarts == <>BootEnds
=============================================================================
