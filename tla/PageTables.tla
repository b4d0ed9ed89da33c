----------------------------- MODULE PageTables -----------------------------
(***************************************************************************)
(* What the page tables of native_pagging.c hold and how they are read.    *)
(* Tables are given by address: the kernel's address of a table in its own *)
(* view of them, the physical one in that of the processor.  A table is    *)
(* the function from the indexes of its present entries to the address     *)
(* each one holds.                                                         *)
(***************************************************************************)
EXTENDS PageIndex

\* the tables after an entry was written
Filled(table, entries, index, addr) ==
  [table EXCEPT ![entries] =
     [i \in DOMAIN table[entries] \cup {index} |-> IF i = index THEN addr ELSE table[entries][i]]]

\* The entry of a table for an address, 0 when it is not present.
EntryIn(table, entries, level, vaddr) ==
  LET index == index_for_level(level, vaddr)
  IN IF entries \in DOMAIN table /\ index \in DOMAIN table[entries]
     THEN table[entries][index] ELSE 0

\* The table of the lowest level for an address.
LeafOf(table, root, vaddr) ==
  EntryIn(table, EntryIn(table, EntryIn(table, root, 4, vaddr), 3, vaddr), 2, vaddr)

\* The tables on the way to the page of an address; 0 where the way ends.
WayTo(table, root, vaddr) ==
  LET l3 == EntryIn(table, root, 4, vaddr)
      l2 == EntryIn(table, l3, 3, vaddr)
  IN {root, l3, l2, EntryIn(table, l2, 2, vaddr)}

\* the walk down the tables, from each entry to the table at the address it
\* holds, for the address of a page
Translation(table, root, vaddr) == EntryIn(table, LeafOf(table, root, vaddr), 1, vaddr)

\* Every table has one level, and is entered in one place of one table of the
\* level above, so that no two spaces and no two parts of a space share one.
IsForest(table, level) ==
  /\ 0 \notin DOMAIN table
  /\ level \in [DOMAIN table -> Levels]
  /\ \A t \in DOMAIN table : level[t] > 1 =>
       \A i \in DOMAIN table[t] : /\ table[t][i] \in DOMAIN table
                                  /\ level[table[t][i]] = level[t] - 1
  /\ \A s, t \in DOMAIN table : level[s] > 1 /\ level[t] > 1 =>
       \A i \in DOMAIN table[s], j \in DOMAIN table[t] :
         table[s][i] = table[t][j] => s = t /\ i = j

=============================================================================
