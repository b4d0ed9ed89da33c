---------------------------- MODULE MemoryProofs ----------------------------
(***************************************************************************)
(* The promise of the heap, for every reserve and any number of blocks;    *)
(* the address arithmetic of PageIndex, for every address the four levels  *)
(* can tell apart (48 bits, the canonical lower part); and what writing an *)
(* entry of a page table does to the translations of all other pages.      *)
(***************************************************************************)
EXTENDS Heap, PageTables, TLAPS

(***************************************************************************)
(* The heap                                                                *)
(***************************************************************************)


\* The strengthening: blocks end at the pointer, so the next one is above all.
HeapInv == /\ ptr \in Nat /\ limit \in Nat
           /\ ptr + Reserve <= limit
           /\ blocks \subseteq Block
           /\ \A b \in blocks : b.addr + b.size <= ptr
           /\ BlocksDisjoint

\* The strengthening holds of every state kalloc and the services reach.
THEOREM HeapInvariant == Spec => []HeapInv
<1>1. Init => HeapInv
  BY DEF Init, HeapInv, BlocksDisjoint
<1>2. HeapInv /\ [Next]_hvars => HeapInv'
  <2> SUFFICES ASSUME HeapInv, [Next]_hvars PROVE HeapInv'
    OBVIOUS
  <2>1. CASE Alloc
    <3>1. PICK b \in blocks' \ blocks : /\ b \in Block
                                        /\ blocks' = blocks \cup {b}
                                        /\ ptr <= b.addr /\ b.addr + b.size <= ptr'
      BY <2>1 DEF Alloc
    <3>2. /\ ptr \in Nat /\ ptr' \in Nat /\ limit' \in Nat
          /\ ptr <= ptr' /\ ptr' + Reserve <= limit'
      BY <2>1 DEF Alloc, Moves, HeapInv
    <3>3. blocks' \subseteq Block
      BY <3>1 DEF HeapInv
    <3>4. \A c \in blocks : c.addr + c.size <= ptr /\ c.addr \in Nat /\ c.size \in Nat
      BY DEF HeapInv, Block
    <3>5. b.addr \in Nat /\ b.size \in Nat
      BY <3>1 DEF Block
    <3>6. \A c \in blocks : c.addr + c.size <= b.addr
      BY <3>1, <3>2, <3>4, <3>5
    <3>7. \A c \in blocks' : c.addr + c.size <= ptr'
      BY <3>1, <3>2, <3>4
    <3>8. BlocksDisjoint'
      BY <3>1, <3>6 DEF HeapInv, BlocksDisjoint
    <3> QED
      BY <3>2, <3>3, <3>7, <3>8 DEF HeapInv
  <2>2. CASE Work
    <3>1. \A c \in blocks : c.addr \in Nat /\ c.size \in Nat
      BY DEF HeapInv, Block
    <3> QED
      BY <2>2, <3>1 DEF Work, Moves, HeapInv, BlocksDisjoint
  <2>3. CASE UNCHANGED hvars
    BY <2>3 DEF hvars, HeapInv, BlocksDisjoint
  <2> QED
    BY <2>1, <2>2, <2>3 DEF Next
<1> QED
  BY <1>1, <1>2, PTL DEF Spec

\* Every block lies in mapped memory with the reserve of ensure_free_memory
\* behind it, however many blocks there are.
THEOREM HeapBlocksMapped ==
  ASSUME Reserve \in Nat
  PROVE  Spec => []BlocksMapped
<1>1. HeapInv => BlocksMapped
  BY DEF HeapInv, BlocksMapped, Block
<1> QED
  BY <1>1, HeapInvariant, PTL

\* kalloc never hands out a byte twice.
THEOREM HeapBlocksDisjoint == Spec => []BlocksDisjoint
<1>1. HeapInv => BlocksDisjoint
  BY DEF HeapInv
<1> QED
  BY <1>1, HeapInvariant, PTL

(***************************************************************************)
(* Addresses                                                               *)
(***************************************************************************)


\* the pages below the four levels: 512 entries of the top one
Pages == {p \in Nat : p \div 134217728 < 512}

\* ALIGN_NEXT, by which regions grow: the next page boundary, less than a
\* page away, and the address itself when it is one.
THEOREM AlignNextBounds ==
  ASSUME NEW addr \in Nat
  PROVE  /\ ALIGN_NEXT(addr) \in Nat
         /\ addr <= ALIGN_NEXT(addr)
         /\ ALIGN_NEXT(addr) < addr + SYSTEM_PAGE_SIZE
         /\ Aligned(ALIGN_NEXT(addr))
         /\ Aligned(addr) => ALIGN_NEXT(addr) = addr
<1> DEFINE a == addr + 4096 - 1
           q == a \div 4096
<1>1. a \in Nat /\ q \in Nat
  OBVIOUS
<1>2. ALIGN_NEXT(addr) = 4096 * q
  BY <1>1 DEF ALIGN_NEXT, ALIGN, SYSTEM_PAGE_SIZE
<1>3. (4096 * q) % 4096 = 0
  BY <1>1
<1>4. Aligned(ALIGN_NEXT(addr))
  BY <1>2, <1>3 DEF Aligned, ALIGN, SYSTEM_PAGE_SIZE
<1>5. Aligned(addr) => addr % 4096 = 0
  BY DEF Aligned, ALIGN, SYSTEM_PAGE_SIZE
<1>6. addr % 4096 = 0 => 4096 * q = addr
  BY <1>1
<1> QED
  BY <1>1, <1>2, <1>4, <1>5, <1>6 DEF SYSTEM_PAGE_SIZE

\* A page number is its four digits in base 512, one for each level.
LEMMA PageFromIndexes ==
  ASSUME NEW p \in Pages
  PROVE  p = ((p \div 134217728) % 512) * 134217728
             + ((p \div 262144) % 512) * 262144
             + ((p \div 512) % 512) * 512
             + (p % 512)
<1> DEFINE a == p \div 512
           b == p \div 262144
           c == p \div 134217728
<1>1. p \in Nat /\ a \in Nat /\ b \in Nat /\ c \in Nat
  BY SMT DEF Pages
<1>2. c < 512
  BY SMT DEF Pages
<1>3. b = 512 * c + (b % 512)
  BY <1>1, SMT
<1>4. a = 512 * b + (a % 512)
  BY <1>1, SMT
<1>5. p = 512 * a + (p % 512)
  BY <1>1, SMT
<1>6. c % 512 = c
  BY <1>1, <1>2, SMT
<1> HIDE DEF a, b, c
<1>7. p = c * 134217728 + (b % 512) * 262144 + (a % 512) * 512 + (p % 512)
  BY <1>1, <1>3, <1>4, <1>5, SMT
<1> QED
  BY <1>6, <1>7, SMT DEF a, b, c

\* index_for_level, the path set_entry takes: two pages whose indexes agree
\* at all four levels are the same page, so no two pages share an entry of
\* the last level.
THEOREM PathDetermines ==
  ASSUME NEW p \in Pages, NEW q \in Pages,
         \A level \in Levels :
           index_for_level(level, p * SYSTEM_PAGE_SIZE) = index_for_level(level, q * SYSTEM_PAGE_SIZE)
  PROVE  p = q
<1>1. \A n \in Nat : (n * 4096) \div 4096 = n
  BY SMT
<1>2. p \in Nat /\ q \in Nat
  BY SMT DEF Pages
<1>3. \A level \in Levels : (p \div PagesPerEntry(level)) % 512 = (q \div PagesPerEntry(level)) % 512
  BY <1>1, <1>2, SMT DEF index_for_level, SYSTEM_PAGE_SIZE, PAGE_TABLE_NUMBER_OF_ENTRIES
<1>4. /\ PagesPerEntry(1) = 1
      /\ PagesPerEntry(2) = 512
      /\ PagesPerEntry(3) = 262144
      /\ PagesPerEntry(4) = 134217728
  BY SMT DEF PagesPerEntry
<1>5. (p \div 1) = p /\ (q \div 1) = q
  BY <1>2, SMT
<1>6. /\ (p \div 1) % 512 = (q \div 1) % 512
      /\ (p \div 512) % 512 = (q \div 512) % 512
      /\ (p \div 262144) % 512 = (q \div 262144) % 512
      /\ (p \div 134217728) % 512 = (q \div 134217728) % 512
  BY <1>3, <1>4, SMT DEF Levels
<1> QED
  BY <1>5, <1>6, PageFromIndexes, SMT

\* index_for_level: an index is always one of the table's 512 entries.
THEOREM IndexInTable ==
  ASSUME NEW level \in Levels, NEW vaddr \in Nat
  PROVE  index_for_level(level, vaddr) \in 0 .. PAGE_TABLE_NUMBER_OF_ENTRIES - 1
<1>1. PagesPerEntry(level) \in Nat \ {0}
  BY SMT DEF Levels, PagesPerEntry
<1>2. vaddr \div 4096 \in Nat
  BY SMT
<1>3. (vaddr \div 4096) \div PagesPerEntry(level) \in Nat
  BY <1>1, <1>2, SMT
<1> QED
  BY <1>3, SMT DEF index_for_level, SYSTEM_PAGE_SIZE, PAGE_TABLE_NUMBER_OF_ENTRIES

(***************************************************************************)
(* Page tables                                                             *)
(***************************************************************************)

\* Where a walk has come before it reads an entry of level k: a table of that
\* level, or nothing.
Reached(table, level, t, k) == t = 0 \/ (t \in DOMAIN table /\ level[t] = k)

\* A walk through tables that form a forest goes down one level at a time.
LEMMA WalkDescends ==
  ASSUME NEW table, NEW level, IsForest(table, level), NEW k \in 2 .. 4,
         NEW t, Reached(table, level, t, k), NEW vaddr
  PROVE  Reached(table, level, EntryIn(table, t, k, vaddr), k - 1)
<1> DEFINE index == index_for_level(k, vaddr)
<1>1. CASE t \in DOMAIN table /\ index \in DOMAIN table[t]
  <2>1. level[t] = k
    BY <1>1 DEF Reached, IsForest
  <2>2. table[t][index] \in DOMAIN table /\ level[table[t][index]] = k - 1
    BY <1>1, <2>1 DEF IsForest
  <2> QED
    BY <1>1, <2>2 DEF EntryIn, Reached
<1>2. CASE ~(t \in DOMAIN table /\ index \in DOMAIN table[t])
  BY <1>2 DEF EntryIn, Reached
<1> QED
  BY <1>1, <1>2

LEMMA WalkReaches ==
  ASSUME NEW table, NEW level, IsForest(table, level),
         NEW root, Reached(table, level, root, 4), NEW vaddr
  PROVE  LET e3 == EntryIn(table, root, 4, vaddr)
             e2 == EntryIn(table, e3, 3, vaddr)
             e1 == EntryIn(table, e2, 2, vaddr)
         IN /\ Reached(table, level, e3, 3)
            /\ Reached(table, level, e2, 2)
            /\ Reached(table, level, e1, 1)
<1> DEFINE e3 == EntryIn(table, root, 4, vaddr)
           e2 == EntryIn(table, e3, 3, vaddr)
           e1 == EntryIn(table, e2, 2, vaddr)
<1>1. Reached(table, level, e3, 4 - 1)
  BY WalkDescends
<1>2. Reached(table, level, e3, 3)
  BY <1>1
<1> HIDE DEF e3
<1>3. Reached(table, level, e2, 3 - 1)
  BY <1>2, WalkDescends
<1>4. Reached(table, level, e2, 2)
  BY <1>3
<1> HIDE DEF e2
<1>5. Reached(table, level, e1, 2 - 1)
  BY <1>4, WalkDescends
<1>6. Reached(table, level, e1, 1)
  BY <1>5
<1> QED
  BY <1>2, <1>4, <1>6 DEF e3, e2

\* Two walks that come to the same table have come from the same entry.
LEMMA SameEntry ==
  ASSUME NEW table, NEW level, IsForest(table, level), NEW k \in 2 .. 4,
         NEW s, Reached(table, level, s, k), NEW t, Reached(table, level, t, k),
         NEW vaddr, NEW waddr,
         EntryIn(table, s, k, vaddr) = EntryIn(table, t, k, waddr),
         EntryIn(table, s, k, vaddr) # 0
  PROVE  s = t /\ s # 0 /\ index_for_level(k, vaddr) = index_for_level(k, waddr)
<1> DEFINE i == index_for_level(k, vaddr)
           j == index_for_level(k, waddr)
<1>1. /\ s \in DOMAIN table /\ i \in DOMAIN table[s]
      /\ t \in DOMAIN table /\ j \in DOMAIN table[t]
      /\ table[s][i] = table[t][j]
  BY DEF EntryIn
<1>2. s # 0 /\ t # 0 /\ level[s] = k /\ level[t] = k
  BY <1>1 DEF Reached, IsForest
<1> HIDE DEF i, j
<1>3. s = t /\ i = j
  BY <1>1, <1>2 DEF IsForest
<1> QED
  BY <1>2, <1>3 DEF i, j
\* What fill_entry_value writes, and what it leaves.
LEMMA FilledIs ==
  ASSUME NEW table, NEW a \in DOMAIN table, NEW index, NEW addr
  PROVE  LET F == Filled(table, a, index, addr)
         IN /\ DOMAIN F = DOMAIN table
            /\ \A t \in DOMAIN table : t # a => F[t] = table[t]
            /\ DOMAIN F[a] = DOMAIN table[a] \cup {index}
            /\ F[a][index] = addr
            /\ \A i \in DOMAIN table[a] : i # index => F[a][i] = table[a][i]
<1> DEFINE row == [i \in DOMAIN table[a] \cup {index} |-> IF i = index THEN addr ELSE table[a][i]]
           F == Filled(table, a, index, addr)
<1>1. F = [table EXCEPT ![a] = row]
  BY DEF Filled
<1>2. /\ DOMAIN row = DOMAIN table[a] \cup {index}
      /\ row[index] = addr
      /\ \A i \in DOMAIN table[a] : i # index => row[i] = table[a][i]
  OBVIOUS
<1> HIDE DEF row
<1>3. DOMAIN F = DOMAIN table /\ F[a] = row /\ \A t \in DOMAIN table : t # a => F[t] = table[t]
  BY <1>1
<1> HIDE DEF F
<1>4. QED
  BY <1>2, <1>3 DEF F

\* set_entry, a level above the lowest: a new table, empty and entered nowhere
\* else, is linked where no entry was present.  The tables are a forest again.
LEMMA LinkKeepsForest ==
  ASSUME NEW table, NEW level, IsForest(table, level),
         NEW a \in DOMAIN table, level[a] > 1, NEW index, index \notin DOMAIN table[a],
         NEW b \in DOMAIN table, level[b] = level[a] - 1,
         \A t \in DOMAIN table : level[t] > 1 => \A i \in DOMAIN table[t] : table[t][i] # b
  PROVE  IsForest(Filled(table, a, index, b), level)
<1> DEFINE F == Filled(table, a, index, b)
<1>1. /\ DOMAIN F = DOMAIN table
      /\ \A t \in DOMAIN table : t # a => F[t] = table[t]
      /\ DOMAIN F[a] = DOMAIN table[a] \cup {index}
      /\ F[a][index] = b
      /\ \A i \in DOMAIN table[a] : i # index => F[a][i] = table[a][i]
  BY FilledIs
<1> HIDE DEF F
<1>2. \A t \in DOMAIN table : \A i \in DOMAIN F[t] :
        \/ t = a /\ i = index /\ F[t][i] = b
        \/ i \in DOMAIN table[t] /\ F[t][i] = table[t][i]
  BY <1>1
<1>3. \A t \in DOMAIN F : level[t] > 1 =>
        \A i \in DOMAIN F[t] : F[t][i] \in DOMAIN F /\ level[F[t][i]] = level[t] - 1
  BY <1>1, <1>2 DEF IsForest
<1>4. ASSUME NEW s \in DOMAIN F, NEW t \in DOMAIN F, level[s] > 1, level[t] > 1,
             NEW i \in DOMAIN F[s], NEW j \in DOMAIN F[t], F[s][i] = F[t][j]
      PROVE  s = t /\ i = j
  <2>1. s \in DOMAIN table /\ t \in DOMAIN table
    BY <1>1
  <2>2. CASE s = a /\ i = index /\ F[s][i] = b
    <3>1. ~(j \in DOMAIN table[t] /\ F[t][j] = table[t][j])
      BY <1>4, <2>1, <2>2
    <3> QED
      BY <1>2, <2>1, <2>2, <3>1
  <2>3. CASE t = a /\ j = index /\ F[t][j] = b
    <3>1. ~(i \in DOMAIN table[s] /\ F[s][i] = table[s][i])
      BY <1>4, <2>1, <2>3
    <3> QED
      BY <1>2, <2>1, <2>3, <3>1
  <2>4. CASE /\ i \in DOMAIN table[s] /\ F[s][i] = table[s][i]
             /\ j \in DOMAIN table[t] /\ F[t][j] = table[t][j]
    <3>1. table[s][i] = table[t][j]
      BY <1>4, <2>4
    <3>2. \A x, y \in DOMAIN table : level[x] > 1 /\ level[y] > 1 =>
            \A k \in DOMAIN table[x], l \in DOMAIN table[y] :
              table[x][k] = table[y][l] => x = y /\ k = l
      BY DEF IsForest
    <3> QED
      BY <1>4, <2>1, <2>4, <3>1, <3>2
  <2> QED
    BY <1>2, <2>1, <2>2, <2>3, <2>4
<1>5. 0 \notin DOMAIN F /\ level \in [DOMAIN F -> Levels]
  BY <1>1 DEF IsForest
<1>6. IsForest(F, level)
  BY <1>3, <1>4, <1>5 DEF IsForest
<1> QED
  BY <1>6 DEF F

\* Two walks for the same address, with and without the new table: they are at
\* the same place, or one has ended and the other has ended or is in the new
\* table.
Alongside(table, level, t, f, b, k) ==
  (t = f /\ t \in DOMAIN table /\ level[t] = k) \/ (t = 0 /\ f \in {0, b})

\* set_entry: linking an empty table where no entry was present changes the
\* translation of no address in any space.
THEOREM LinkKeepsTranslations ==
  ASSUME NEW table, NEW level, IsForest(table, level),
         NEW a \in DOMAIN table, level[a] > 1, NEW index, index \notin DOMAIN table[a],
         NEW b \in DOMAIN table, b # a, DOMAIN table[b] = {},
         NEW root \in DOMAIN table, level[root] = 4, NEW vaddr
  PROVE  Translation(Filled(table, a, index, b), root, vaddr) = Translation(table, root, vaddr)
<1> DEFINE F == Filled(table, a, index, b)
           At(t, f, k) == Alongside(table, level, t, f, b, k)
           T(t, k) == EntryIn(table, t, k, vaddr)
           U(f, k) == EntryIn(F, f, k, vaddr)
<1>1. /\ DOMAIN F = DOMAIN table
      /\ \A t \in DOMAIN table : t # a => F[t] = table[t]
      /\ DOMAIN F[a] = DOMAIN table[a] \cup {index}
      /\ F[a][index] = b
      /\ \A i \in DOMAIN table[a] : i # index => F[a][i] = table[a][i]
  BY FilledIs
<1>2. 0 \notin DOMAIN table /\ 0 \notin DOMAIN F /\ DOMAIN F[b] = {}
  BY <1>1 DEF IsForest
<1> HIDE DEF F
<1>3. \A k, f : f \in {0, b} => U(f, k) = 0
  BY <1>2 DEF EntryIn
<1>4. \A k : T(0, k) = 0
  BY <1>2 DEF EntryIn
<1>5. ASSUME NEW k \in 2 .. 4, NEW t, NEW f, At(t, f, k)
      PROVE  At(T(t, k), U(f, k), k - 1)
  <2> DEFINE i == index_for_level(k, vaddr)
  <2>1. CASE t = 0 /\ f \in {0, b}
    BY <1>3, <1>4, <2>1 DEF Alongside
  <2>2. CASE t = f /\ t \in DOMAIN table /\ level[t] = k
    <3>1. CASE i \in DOMAIN table[t]
      <4>1. i \in DOMAIN F[t] /\ F[t][i] = table[t][i]
        BY <1>1, <2>2, <3>1
      <4>2. T(t, k) = table[t][i] /\ U(f, k) = table[t][i]
        BY <1>1, <2>2, <3>1, <4>1 DEF EntryIn
      <4>3. table[t][i] \in DOMAIN table /\ level[table[t][i]] = k - 1
        BY <2>2, <3>1 DEF IsForest
      <4> QED
        BY <4>2, <4>3 DEF Alongside
    <3>2. CASE i \notin DOMAIN table[t]
      <4>1. T(t, k) = 0
        BY <3>2 DEF EntryIn
      <4>2. U(f, k) \in {0, b}
        BY <1>1, <2>2, <3>2 DEF EntryIn
      <4> QED
        BY <4>1, <4>2 DEF Alongside
    <3> QED
      BY <3>1, <3>2
  <2> QED
    BY <1>5, <2>1, <2>2 DEF Alongside
<1>6. ASSUME NEW t, NEW f, At(t, f, 1) PROVE T(t, 1) = U(f, 1)
  <2>1. CASE t = 0 /\ f \in {0, b}
    BY <1>3, <1>4, <2>1
  <2>2. CASE t = f /\ t \in DOMAIN table /\ level[t] = 1
    <3>1. F[t] = table[t] /\ t \in DOMAIN F
      BY <1>1, <2>2
    <3> QED
      BY <2>2, <3>1 DEF EntryIn
  <2> QED
    BY <1>6, <2>1, <2>2 DEF Alongside
<1>7. At(root, root, 4)
  BY DEF Alongside
<1> DEFINE t3 == T(root, 4)
           t2 == T(t3, 3)
           t1 == T(t2, 2)
           f3 == U(root, 4)
           f2 == U(f3, 3)
           f1 == U(f2, 2)
<1>8. Translation(table, root, vaddr) = T(t1, 1) /\ Translation(F, root, vaddr) = U(f1, 1)
  BY DEF Translation, LeafOf
<1> HIDE DEF At, T, U
<1>9. At(t3, f3, 4 - 1)
  BY <1>5, <1>7
<1>10. At(t3, f3, 3)
  BY <1>9
<1> HIDE DEF t3, f3
<1>11. At(t2, f2, 3 - 1)
  BY <1>5, <1>10
<1>12. At(t2, f2, 2)
  BY <1>11
<1> HIDE DEF t2, f2
<1>13. At(t1, f1, 2 - 1)
  BY <1>5, <1>12
<1>14. At(t1, f1, 1)
  BY <1>13
<1> HIDE DEF t1, f1
<1>15. T(t1, 1) = U(f1, 1)
  BY <1>6, <1>14
<1> QED
  BY <1>8, <1>15 DEF F
\* Writing an entry of a table of the lowest level leaves the forest as it is.
LEMMA MapKeepsForest ==
  ASSUME NEW table, NEW level, IsForest(table, level),
         NEW a \in DOMAIN table, level[a] = 1, NEW index, NEW paddr
  PROVE  IsForest(Filled(table, a, index, paddr), level)
<1> DEFINE F == Filled(table, a, index, paddr)
<1>1. /\ DOMAIN F = DOMAIN table
      /\ \A t \in DOMAIN table : t # a => F[t] = table[t]
  BY FilledIs
<1> HIDE DEF F
<1>2. \A t \in DOMAIN table : level[t] > 1 => F[t] = table[t]
  BY <1>1
<1>3. 0 \notin DOMAIN F /\ level \in [DOMAIN F -> Levels]
  BY <1>1 DEF IsForest
<1>4. \A t \in DOMAIN F : level[t] > 1 =>
        \A i \in DOMAIN F[t] : F[t][i] \in DOMAIN F /\ level[F[t][i]] = level[t] - 1
  BY <1>1, <1>2 DEF IsForest
<1>5. \A s, t \in DOMAIN F : level[s] > 1 /\ level[t] > 1 =>
        \A i \in DOMAIN F[s], j \in DOMAIN F[t] : F[s][i] = F[t][j] => s = t /\ i = j
  <2>1. \A x, y \in DOMAIN table : level[x] > 1 /\ level[y] > 1 =>
          \A k \in DOMAIN table[x], l \in DOMAIN table[y] :
            table[x][k] = table[y][l] => x = y /\ k = l
    BY DEF IsForest
  <2> QED
    BY <1>1, <1>2, <2>1
<1>6. IsForest(F, level)
  BY <1>3, <1>4, <1>5 DEF IsForest
<1> QED
  BY <1>6 DEF F

\* set_entry, the lowest level: writing the entry of page p in the table that
\* the walk from root finds for it maps p to paddr in that space, and changes
\* the translation of no other page and of no page of another space.
THEOREM MapChangesOnePage ==
  ASSUME NEW table, NEW level, IsForest(table, level),
         NEW root \in DOMAIN table, level[root] = 4, NEW p \in Pages, NEW paddr,
         LeafOf(table, root, p * SYSTEM_PAGE_SIZE) \in DOMAIN table,
         NEW other \in DOMAIN table, level[other] = 4, NEW q \in Pages
  PROVE  LET leaf == LeafOf(table, root, p * SYSTEM_PAGE_SIZE)
             index == index_for_level(1, p * SYSTEM_PAGE_SIZE)
         IN Translation(Filled(table, leaf, index, paddr), other, q * SYSTEM_PAGE_SIZE)
              = IF other = root /\ q = p THEN paddr
                ELSE Translation(table, other, q * SYSTEM_PAGE_SIZE)
<1> DEFINE v == p * SYSTEM_PAGE_SIZE
           w == q * SYSTEM_PAGE_SIZE
           a == LeafOf(table, root, v)
           index == index_for_level(1, v)
           F == Filled(table, a, index, paddr)
           v3 == EntryIn(table, root, 4, v)
           v2 == EntryIn(table, v3, 3, v)
           w3 == EntryIn(table, other, 4, w)
           w2 == EntryIn(table, w3, 3, w)
           w1 == EntryIn(table, w2, 2, w)
<1>1. a = EntryIn(table, v2, 2, v) /\ a \in DOMAIN table /\ LeafOf(table, other, w) = w1
  BY DEF LeafOf
<1>2. Reached(table, level, root, 4) /\ Reached(table, level, other, 4)
  BY DEF Reached
<1>3. /\ Reached(table, level, v3, 3)
      /\ Reached(table, level, v2, 2)
      /\ Reached(table, level, EntryIn(table, v2, 2, v), 1)
  BY <1>2, WalkReaches
<1>4. /\ Reached(table, level, w3, 3)
      /\ Reached(table, level, w2, 2)
      /\ Reached(table, level, w1, 1)
  BY <1>2, WalkReaches
<1>5. (w1 = a) <=> (other = root /\ \A k \in 2 .. 4 : index_for_level(k, v) = index_for_level(k, w))
  <2> HIDE DEF v, w, a
  <2>0. a # 0
    BY <1>1 DEF IsForest
  <2>1. ASSUME w1 = a
        PROVE  other = root /\ \A k \in 2 .. 4 : index_for_level(k, v) = index_for_level(k, w)
    <3>1. v2 = w2 /\ v2 # 0 /\ index_for_level(2, v) = index_for_level(2, w)
      <4> HIDE DEF v2, w2
      <4> QED
        BY <1>1, <1>3, <1>4, <2>0, <2>1, SameEntry DEF w1
    <3>2. v3 = w3 /\ v3 # 0 /\ index_for_level(3, v) = index_for_level(3, w)
      <4> HIDE DEF v3, w3
      <4> QED
        BY <1>3, <1>4, <3>1, SameEntry
    <3>3. root = other /\ index_for_level(4, v) = index_for_level(4, w)
      BY <1>2, <3>2, SameEntry
    <3> QED
      BY <3>1, <3>2, <3>3
  <2>2. ASSUME other = root, \A k \in 2 .. 4 : index_for_level(k, v) = index_for_level(k, w)
        PROVE  w1 = a
    <3>1. /\ index_for_level(4, v) = index_for_level(4, w)
          /\ index_for_level(3, v) = index_for_level(3, w)
          /\ index_for_level(2, v) = index_for_level(2, w)
      BY <2>2
    <3>2. w3 = v3
      BY <2>2, <3>1 DEF EntryIn
    <3>3. w2 = v2
      <4> HIDE DEF v3, w3
      <4> QED
        BY <3>1, <3>2 DEF EntryIn
    <3>4. w1 = EntryIn(table, v2, 2, v)
      <4> HIDE DEF v2, w2
      <4> QED
        BY <3>1, <3>3 DEF EntryIn
    <3> QED
      BY <1>1, <3>4
  <2> QED
    BY <2>1, <2>2
<1>6. a # 0 /\ level[a] = 1 /\ 0 \notin DOMAIN table
  BY <1>1, <1>3 DEF IsForest, Reached
<1>7. /\ DOMAIN F = DOMAIN table
      /\ \A t \in DOMAIN table : t # a => F[t] = table[t]
      /\ DOMAIN F[a] = DOMAIN table[a] \cup {index}
      /\ F[a][index] = paddr
      /\ \A i \in DOMAIN table[a] : i # index => F[a][i] = table[a][i]
  <2> HIDE DEF a, index
  <2> QED
    BY <1>1, FilledIs
<1> HIDE DEF F, a, index
<1>8. ASSUME NEW k \in 2 .. 4, NEW t, Reached(table, level, t, k)
      PROVE  EntryIn(F, t, k, w) = EntryIn(table, t, k, w)
  BY <1>6, <1>7, <1>8 DEF EntryIn, Reached
<1>9. LeafOf(F, other, w) = w1
  <2>1. EntryIn(F, other, 4, w) = w3
    BY <1>2, <1>8
  <2>2. EntryIn(F, w3, 3, w) = w2
    <3> HIDE DEF w3
    <3> QED
      BY <1>4, <1>8
  <2>3. EntryIn(F, w2, 2, w) = w1
    <3> HIDE DEF w2
    <3> QED
      BY <1>4, <1>8
  <2> QED
    BY <2>1, <2>2, <2>3 DEF LeafOf
<1>10. /\ Translation(F, other, w) = EntryIn(F, w1, 1, w)
       /\ Translation(table, other, w) = EntryIn(table, w1, 1, w)
  BY <1>1, <1>9 DEF Translation
<1> DEFINE same == other = root /\ q = p
<1>11. CASE w1 # a
  <2>1. ~same
    BY <1>5, <1>11
  <2>2. EntryIn(F, w1, 1, w) = EntryIn(table, w1, 1, w)
    <3> HIDE DEF w1
    <3> QED
      BY <1>7, <1>11 DEF EntryIn
  <2> QED
    BY <1>10, <2>1, <2>2 DEF F, a, index
<1>12. CASE w1 = a /\ index_for_level(1, w) # index
  <2>1. ~same
    BY <1>12 DEF index
  <2>2. EntryIn(F, w1, 1, w) = EntryIn(table, w1, 1, w)
    <3> HIDE DEF w1
    <3> QED
      BY <1>7, <1>12 DEF EntryIn
  <2> QED
    BY <1>10, <2>1, <2>2 DEF F, a, index
<1>13. CASE w1 = a /\ index_for_level(1, w) = index
  <2>1. other = root /\ \A k \in 2 .. 4 : index_for_level(k, v) = index_for_level(k, w)
    BY <1>5, <1>13
  <2>2. \A k \in Levels : index_for_level(k, v) = index_for_level(k, w)
    <3>1. \A k \in Levels : k = 1 \/ k \in 2 .. 4
      BY DEF Levels
    <3> HIDE DEF v, w
    <3> QED
      BY <1>13, <2>1, <3>1 DEF index
  <2>3. p = q
    BY <2>2, PathDetermines
  <2>4. EntryIn(F, w1, 1, w) = paddr
    <3> HIDE DEF w1
    <3> QED
      BY <1>1, <1>7, <1>13 DEF EntryIn
  <2> QED
    BY <1>10, <2>1, <2>3, <2>4 DEF F, a, index
<1> QED
  BY <1>11, <1>12, <1>13
=============================================================================
