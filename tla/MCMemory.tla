------------------------------ MODULE MCMemory ------------------------------
(***************************************************************************)
(* Instances of the kernel's memory: machines as the boot loader describes *)
(* them, with the kernel at 8 KB, where its linker script places it.  The  *)
(* kernel and its first heap are mapped where they are, below the video    *)
(* memory at 640 KB.                                                       *)
(*                                                                         *)
(* On some machines (Driven) the memory services are called in any order;  *)
(* the others load modules, linked at 4 MB as module.ld has it, in files   *)
(* that parse or not and whose second segment is aligned or not, or have   *)
(* no modules and run tasks with arguments.                                *)
(***************************************************************************)
EXTENDS TaskArguments

CONSTANT Driven    \* the machines on which the memory services are driven

KB == 1024
MB == 1024 * 1024
Machine == [start |-> 8 * KB, size |-> 100 * KB, params |-> <<5>>, segments |-> 6, pages |-> 25600]
\* 100 MB of memory, of which 36 MB are handed out
Ample == {Machine}
\* 64 MB and a few pages: there is little to hand out
AmpleOrScarce == Ample \cup {[Machine EXCEPT !.pages = FirstFrame + n] : n \in {6, 14}}
\* 178 MB
Larger == {[Machine EXCEPT !.pages = 45568]}

Loading == [Machine EXCEPT !.params = <<5, 5, 5>>, !.pages = 24576]
Bare == [Loading EXCEPT !.params = <<>>]
\* from one free frame to enough for the three modules
Short == {[Loading EXCEPT !.pages = FirstFrame + n] : n \in 1 .. 60}
AllMachines == AmpleOrScarce \cup {Loading, Bare} \cup Short

\* any address, or the page before 4 MB, where the next table starts
Around == {0, (4 * MB) - (4 * KB)}
\* two pages across 1 GB and two pages across 512 MB: three new tables and two
Across == {(1024 * MB) - (4 * KB), (512 * MB) - (4 * KB)}
\* three pages: resizing to two shrinks it, and makes an empty region grow
PhysicalOne == {<<12 * MB, 12 * KB>>}

Text == [load |-> TRUE, vaddr |-> 4 * MB, offset |-> 4096, file_size |-> 5000, mem_size |-> 5000]
Data == [load |-> TRUE, vaddr |-> (4 * MB) + 8192, offset |-> 12288, file_size |-> 100, mem_size |-> 9000]
Zero == [load |-> TRUE, vaddr |-> 8 * MB, offset |-> 12388, file_size |-> 0, mem_size |-> 4096]
Note == [load |-> FALSE, vaddr |-> 4 * MB, offset |-> 0, file_size |-> 64, mem_size |-> 64]
\* the linker may start the data in the middle of a page
Inside == [Data EXCEPT !.vaddr = @ + 256, !.offset = @ + 256]

File == [addr |-> 0, size |-> 13000, magic |-> TRUE, version |-> TRUE, machine |-> TRUE,
         headers |-> <<Note, Text, Data, Zero>>]
Files == {File, [File EXCEPT !.headers = <<Text, Inside>>], [File EXCEPT !.headers = <<Zero>>],
          [File EXCEPT !.size = 40], [File EXCEPT !.size = 0], [File EXCEPT !.magic = FALSE],
          [File EXCEPT !.version = FALSE], [File EXCEPT !.machine = FALSE]}
\* the boot loader places the files one after the other
Placed(f) == [i \in 1 .. 3 |-> [f[i] EXCEPT !.addr = (12 + i) * MB]]
\* any three files where there is memory, good ones where there is little
FilesFor(b) == CASE b = Loading -> {Placed(f) : f \in [1 .. 3 -> Files]}
                 [] b \in Short -> {Placed(<<File, File, File>>)}
                 [] OTHER -> {<<>>}

\* arguments that fit, fit exactly (two words, 40928 bytes and the user data
\* are the ten pages), miss by a byte, or cross pages
ArgumentSizes == {<<>>, <<1>>, <<5000>>, <<40928>>, <<40929>>, <<3, 4000, 9>>, <<20000, 20920>>, <<20000, 20921>>}

MCNext == \/ mem.boot \in Driven /\ Next /\ UNCHANGED <<modules, next, tasks, task>>
          \/ mem.boot \notin Driven /\ TaskNext
MCSpec == TaskInit /\ [][MCNext]_tvars
=============================================================================
