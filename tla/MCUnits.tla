------------------------------- MODULE MCUnits -------------------------------
(***************************************************************************)
(* The parts of the kernel and the library that stand alone, each checked  *)
(* on an instance of its own.  A behaviour is one of one of the units; the *)
(* variables of the others are idle.                                       *)
(***************************************************************************)
EXTENDS Integers, Sequences

VARIABLES
  unit,    \* the one that runs
  items, buffer_size, traverse, p, fetched, buffer, pc,                \* Formatting
  memory, text, src, call,                                             \* Strings
  level, quiet, last_message, repetitions, logged, shown,              \* Logging
  con, history,                                                        \* Console
  info, magic, addr, tag, platform, boot_pc,                           \* Multiboot
  root, lines, dumped                                                  \* PageDump

fvars == <<items, buffer_size, traverse, p, fetched, buffer, pc>>
svars == <<memory, text, src, call>>
gvars == <<level, quiet, last_message, repetitions, logged, shown>>
cvars == <<con, history>>
bvars == <<info, magic, addr, tag, platform, boot_pc>>
dvars == <<root, lines, dumped>>
uvars == <<unit, fvars, svars, gvars, cvars, bvars, dvars>>

(***************************************************************************)
(* Formats of up to three items: text that is not, or looks like, the      *)
(* letter of a conversion, and every conversion with its edge cases.       *)
(***************************************************************************)
AllItems == {[char |-> c] : c \in {"a", "c", "d"}}
  \cup {[conv |-> "%"], [conv |-> "c", arg |-> "w"]}
  \cup {[conv |-> "d", arg |-> n] : n \in {0, -10, 345}}
  \cup {[conv |-> c, arg |-> 64] : c \in {"o", "x"}}
  \cup {[conv |-> "s", arg |-> s] : s \in {<<>>, <<"h", "i">>}}
  \cup {[conv |-> "p", arg |-> n] : n \in {0, 4079}}
F == INSTANCE Formatting WITH Items <- AllItems, MaxItems <- 3, BufferSizes <- {1, 2, 3, 5, 8, 40}

(***************************************************************************)
(* Bytes of three bits and words of four bytes; strings of up to five      *)
(* bytes, one of them with its highest bit set, at every alignment.        *)
(***************************************************************************)
UpToFive == UNION {[1 .. n -> {1, 4}] : n \in 0 .. 5}
S == INSTANCE Strings WITH BITS <- 3, ALIGN <- 4, Size <- 32, Texts <- UpToFive,
       Sources <- 0 .. 7, Targets <- {14, 15, 16, 17, 20}, Lengths <- {0, 1, 3, 4, 5, 9}

(***************************************************************************)
(* The kernel and a task with two messages, one of them the beginning of   *)
(* the other; enough of them to pass the limit.                            *)
(***************************************************************************)
L == INSTANCE Logging WITH Tasks <- {"console"}, Messages <- {<<"a">>, <<"a", "b">>},
       LOGGING_AGGREGATE_MESSAGES <- 4, MaxLogged <- 9

(***************************************************************************)
(* A screen of two rows and four columns, and up to seven characters in    *)
(* calls of up to five: rows filled exactly, tabs at the end of a row.     *)
(***************************************************************************)
Stretches == {<<"a">>, <<"b">>, <<"a", "b">>, <<"a", "b", "a">>, <<"a", "b", "a", "b">>,
              <<"a", "b", "b", "a", "b">>}
Controls == {"newline", "return", "tab"}
Calls == Stretches \cup {<<c>> : c \in Controls}
  \cup {<<"b", c>> : c \in Controls} \cup {<<c, "b">> : c \in Controls}
  \cup {<<"a", c, d, "b">> : c, d \in Controls} \cup {<<"a", "b", "a", c, "b">> : c \in Controls}
C == INSTANCE Console WITH console__width <- 4, console__height <- 2, TAB_SIZE <- 2,
       Data <- Calls, MaxWritten <- 7

(***************************************************************************)
(* Up to three tags of sizes that are and are not multiples of eight; the  *)
(* largest memory is that below the hole of a PC under 4 GB.               *)
(***************************************************************************)
MapOf(n) == [type |-> "mmap", size |-> 16 + (24 * n), entry_size |-> 24,
  entries |-> [k \in 1 .. n |-> [available |-> k % 2 = 1, addr |-> 640 * k, len |-> 384]]]
SomeTags == {[type |-> "module", size |-> 17 + n, start |-> 1024 * n, end |-> (1024 * n) + 13] : n \in 1 .. 3}
  \cup {[type |-> "meminfo", size |-> 16, upper |-> kb] : kb \in {31744, 4194304 - 2048}}
  \cup {MapOf(n) : n \in {0, 2, 3}}
  \cup {[type |-> "other", size |-> s] : s \in {9, 12, 16}}
UpToThree == UNION {[1 .. n -> SomeTags] : n \in 0 .. 3}
B == INSTANCE Multiboot WITH Infos <- UpToThree, Magics <- BOOLEAN, Addresses <- {64, 68}, pc <- boot_pc

(***************************************************************************)
(* All tables of three levels with two entries, whose pages are mapped     *)
(* where they are, in the first half also read-only, or one page further   *)
(* on; large pages at both upper levels.                                   *)
(***************************************************************************)
Page(paddr, writable) == [paddr |-> paddr, user |-> TRUE, writable |-> writable, exec |-> TRUE]

RECURSIVE Filled(_, _)
\* the entries a table of a level may hold for the pages from vaddr on
Filled(l, vaddr) ==
  {<<>>, Page(vaddr, TRUE)}
    \cup (IF l = 1 THEN {Page(vaddr + 1, TRUE)} \cup {Page(v, FALSE) : v \in {vaddr} \cap 0 .. 3}
          ELSE {[table |-> <<a, b>>] : a \in Filled(l - 1, vaddr), b \in Filled(l - 1, vaddr + 2^(l - 2))})
AllRoots == {<<a, b>> : a \in Filled(3, 0), b \in Filled(3, 4)}
D == INSTANCE PageDump WITH Entries <- 2, Levels <- 3, Roots <- AllRoots

(***************************************************************************)
(* The units side by side                                                  *)
(***************************************************************************)
Idle == "idle"
FormattingIdle == items = Idle /\ buffer_size = Idle /\ traverse = Idle /\ p = Idle /\ fetched = Idle
                  /\ buffer = Idle /\ pc = Idle
StringsIdle == memory = Idle /\ text = Idle /\ src = Idle /\ call = Idle
LoggingIdle == level = Idle /\ quiet = Idle /\ last_message = Idle /\ repetitions = Idle
               /\ logged = Idle /\ shown = Idle
ConsoleIdle == con = Idle /\ history = Idle
MultibootIdle == info = Idle /\ magic = Idle /\ addr = Idle /\ tag = Idle /\ platform = Idle /\ boot_pc = Idle
PageDumpIdle == root = Idle /\ lines = Idle /\ dumped = Idle

Init ==
  /\ unit \in {"formatting", "strings", "logging", "console", "multiboot", "page dump"}
  /\ IF unit = "formatting" THEN F!Init ELSE FormattingIdle
  /\ IF unit = "strings" THEN S!Init ELSE StringsIdle
  /\ IF unit = "logging" THEN L!Init ELSE LoggingIdle
  /\ IF unit = "console" THEN C!Init ELSE ConsoleIdle
  /\ IF unit = "multiboot" THEN B!Init ELSE MultibootIdle
  /\ IF unit = "page dump" THEN D!Init ELSE PageDumpIdle

Formatting == unit = "formatting" /\ F!Next /\ UNCHANGED <<unit, svars, gvars, cvars, bvars, dvars>>
Strings == unit = "strings" /\ S!Next /\ UNCHANGED <<unit, fvars, gvars, cvars, bvars, dvars>>
Logging == unit = "logging" /\ L!Next /\ UNCHANGED <<unit, fvars, svars, cvars, bvars, dvars>>
Console == unit = "console" /\ C!Next /\ UNCHANGED <<unit, fvars, svars, gvars, bvars, dvars>>
Multiboot == unit = "multiboot" /\ B!Next /\ UNCHANGED <<unit, fvars, svars, gvars, cvars, dvars>>
PageDump == unit = "page dump" /\ D!Next /\ UNCHANGED <<unit, fvars, svars, gvars, cvars, bvars>>

Next == Formatting \/ Strings \/ Logging \/ Console \/ Multiboot \/ PageDump

\* the boot code runs alone and runs on
Spec == Init /\ [][Next]_uvars /\ WF_uvars(Multiboot)

(***************************************************************************)
(* The properties of the units                                             *)
(***************************************************************************)

\* vsnprintf: a text that fits is written whole, ended, and its length returned;
\* of one that does not fit, all but the last byte of the buffer hold the
\* beginning.
FormattingRight == unit = "formatting" => F!FormattedWhole /\ F!CutIsBeginning
\* vsnprintf: past the size it is given go at most one character, or the sign
\* and the digits of a negative number, and the end of the string.
OverrunBounded == unit = "formatting" => F!OverrunBounded

\* strlen, strncpy, strncmp, memcpy: at every alignment what reading byte by
\* byte would give, without leaving the word, or the n bytes, with the end of
\* the string; memcpy also for areas that overlap, when it copies down.
StringsRight ==
  unit = "strings" => S!LengthRight /\ S!CopyRight /\ S!CompareRight /\ S!MoveDownRight

\* should_write: what the log shows and what is held back add up to what was
\* logged, no message is lost whose text is not the beginning of another, and
\* less than the limit is held back.
LogComplete == unit = "logging" => L!EveryMessageCounted /\ L!HeldBelowLimit

\* console_write: between two calls the cursor is on the screen and nothing
\* but the screen has been written to.
StaysOnScreen == unit = "console" => C!StaysOnScreen
\* console_write: the screen shows the end of what was written, as long as no
\* text between control characters runs past the end of its row.
ShowsEndOfRoll == unit = "console" => C!ShowsEndOfRoll

\* multiboot2_parser: the kernel starts with every module, reserved segment
\* and the memory the loader announced.
PlatformComplete == unit = "multiboot" => B!PlatformComplete
\* native_boot: the walk over the tags ends, and the kernel starts exactly when
\* the loader was one that can be understood.
KernelStarts == <>(unit = "multiboot" => B!BootEnds)

\* native_vmem_dump: each mapped page is in exactly one line, with its frame
\* and attributes, and no two lines could have been one.
DumpRight == unit = "page dump" => D!DumpIsTranslation /\ D!DumpIsShort
=============================================================================
