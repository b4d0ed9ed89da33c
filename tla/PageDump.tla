------------------------------ MODULE PageDump ------------------------------
(***************************************************************************)
(* The dump of the current page tables that handle_page_fault writes       *)
(* (native_pagging.c): a recursive walk that joins neighbouring pages of   *)
(* equal attributes into one line.  Addresses are page numbers.            *)
(*                                                                         *)
(* A table is a sequence of entries: NotPresent, a page [paddr, user,      *)
(* writable, exec], small at level 1 and large above it, or [table].       *)
(***************************************************************************)
EXTENDS Integers, Sequences, SequencesExt

CONSTANTS
  Entries,     \* of a table
  Levels,
  Roots        \* the tables in cr3

NotPresent == <<>>
IsTable(entry) == entry # NotPresent /\ "table" \in DOMAIN entry
Attributes(entry) == <<entry.user, entry.writable, entry.exec>>

VARIABLES
  root,
  lines,     \* what was logged
  dumped
dvars == <<root, lines, dumped>>

\* the pages below an entry of the level
Span(level) == Entries ^ (level - 1)

NoLine == [present |-> FALSE, paddr |-> 0, vaddr |-> 0, size |-> 0, permission |-> <<>>]

\* faulty: it is not asked whether the virtual addresses follow each other
Joins_Physical(acc, entry, vaddr) ==
  /\ acc.present /\ acc.paddr + acc.size = entry.paddr
  /\ acc.permission = Attributes(entry)

Joins(acc, entry, vaddr) ==
  /\ acc.present
  /\ acc.paddr + acc.size = entry.paddr
  /\ acc.vaddr + acc.size = vaddr
  /\ acc.permission = Attributes(entry)

\* d: [acc, lines], the line that is being put together and those logged
accumulate_entries(level, d, entry, vaddr) ==
  IF Joins(d.acc, entry, vaddr) THEN [d EXCEPT !.acc.size = @ + Span(level)]
  ELSE [lines |-> IF d.acc.present THEN Append(d.lines, d.acc) ELSE d.lines,
        acc |-> [present |-> TRUE, paddr |-> entry.paddr, vaddr |-> vaddr,
                 size |-> Span(level), permission |-> Attributes(entry)]]

RECURSIVE parse_entries(_, _, _, _)
parse_entries(level, entries, d, base) ==
  LET Parse(acc, index) ==
        LET entry == entries[index]
            vaddr == base + ((index - 1) * Span(level))
        IN CASE entry = NotPresent -> acc
             [] IsTable(entry) -> parse_entries(level - 1, entry.table, acc, vaddr)
             [] OTHER -> accumulate_entries(level, acc, entry, vaddr)
  IN FoldLeft(Parse, d, [i \in 1 .. Entries |-> i])

parse_intel_memory(entries) ==
  LET d == parse_entries(Levels, entries, [acc |-> NoLine, lines |-> <<>>], 0)
  IN IF d.acc.present THEN Append(d.lines, d.acc) ELSE d.lines

Init == root \in Roots /\ lines = <<>> /\ dumped = FALSE

native_vmem_dump == /\ ~dumped /\ dumped' = TRUE
                    /\ lines' = parse_intel_memory(root)
                    /\ UNCHANGED root

Next == native_vmem_dump

Spec == Init /\ [][Next]_dvars

(***************************************************************************)
(* Properties                                                              *)
(***************************************************************************)
RECURSIVE Translation(_, _, _)
\* what the processor makes of a page: <<paddr, attributes>>, or NotPresent.
\* The attributes are those of the entry that maps it: the entries of tables
\* grant everything, those of boot.S as those of fill_entry_value.
Translation(level, entries, page) ==
  LET entry == entries[(page \div Span(level)) + 1]
      rest == page % Span(level)
  IN CASE entry = NotPresent -> NotPresent
       [] IsTable(entry) -> Translation(level - 1, entry.table, rest)
       [] OTHER -> <<entry.paddr + rest, Attributes(entry)>>

Pages == 0 .. (Entries ^ Levels) - 1
Covers(line, page) == page \in line.vaddr .. line.vaddr + line.size - 1

\* parse_intel_memory: each page that is mapped, by a table or a large page,
\* is in exactly one line, which gives its frame and attributes, and no line
\* has another page.
DumpIsTranslation ==
  dumped => \A page \in Pages :
    LET in == {i \in DOMAIN lines : Covers(lines[i], page)}
        seen == Translation(Levels, root, page)
    IN IF seen = NotPresent THEN in = {}
       ELSE \E i \in in : /\ in = {i}
                          /\ seen = <<lines[i].paddr + (page - lines[i].vaddr), lines[i].permission>>

\* "merge if next segment have equal attributes" (accumulate_entries): no two
\* lines could have been one, also where a table ends or a large page follows.
DumpIsShort ==
  dumped => \A i \in 1 .. Len(lines) - 1 :
    LET a == lines[i]
        b == lines[i + 1]
    IN ~(/\ a.vaddr + a.size = b.vaddr /\ a.paddr + a.size = b.paddr
         /\ a.permission = b.permission)
=============================================================================
