---------------------------- MODULE PhysMemProofs ----------------------------
(***************************************************************************)
(* The properties of PhysMem for every amount of memory, every address the *)
(* search starts at and every sequence of ranges set as system.            *)
(***************************************************************************)
EXTENDS PhysMem, ListFacts

(***************************************************************************)
(* There is a whole number of pages, and the search starts after page 0.   *)
(***************************************************************************)
LEMMA PageNumbers ==
  /\ total_of_pages \in Nat
  /\ Pages \subseteq Nat
  /\ \A a \in Nat : ADDR_TO_PAGE(a) \in Nat
  /\ ADDR_TO_PAGE(FirstAddr) >= 1
BY MemorySizeAssumption
   DEF total_of_pages, Pages, ADDR_TO_PAGE, SYSTEM_PAGE_SIZE

(***************************************************************************)
(* A page with a byte in the range lies between the first and the last     *)
(* page that pmem_set_as_system marks.                                     *)
(***************************************************************************)
LEMMA RangeIsMarked ==
  ASSUME NEW addr \in Nat, NEW n \in Nat, NEW p \in PagesOfRange(addr, n)
  PROVE  ADDR_TO_PAGE(addr) <= p /\ p <= ADDR_TO_PAGE(addr + n)
BY PageNumbers DEF PagesOfRange, ADDR_TO_PAGE, PAGE_TO_ADDR, SYSTEM_PAGE_SIZE

(***************************************************************************)
(* A release marks its page FREE, so that UserPagesAreHeld is inductive    *)
(* only because a second holder cannot exist.                              *)
(***************************************************************************)
OneHolder == \A p \in Pages : holders[p] <= 1

PhysInv == TypeOK /\ UserPagesAreHeld /\ ReservedIsSystem /\ OneHolder

(***************************************************************************)
(* pmem_set_page touches one page that exists and is not of the system.    *)
(***************************************************************************)
LEMMA SetPageFacts ==
  ASSUME PhysInv, NEW n \in Nat, NEW type \in {"FREE", "USER"}
  PROVE  /\ pmem_set_page(n, type) \in [Pages -> {"FREE", "SYSTEM", "USER"}]
         /\ \A p \in Pages :
              pmem_set_page(n, type)[p] =
                IF p = n /\ pages[p] # "SYSTEM" THEN type ELSE pages[p]
<1>1. n \in Pages <=> n < total_of_pages
  BY PageNumbers DEF Pages
<1> QED
  BY <1>1, PageNumbers DEF PhysInv, TypeOK, pmem_set_page

(***************************************************************************)
(* pmem_allocate takes a page that is FREE, after page 0.                  *)
(***************************************************************************)
LEMMA AllocationFacts ==
  ASSUME PhysInv, pmem_next_page_available # {}
  PROVE  LET n == Min(pmem_next_page_available)
         IN  /\ n \in Pages /\ n \in Nat /\ n >= 1
             /\ pages[n] = "FREE"
             /\ holders[n] = 0 /\ n \notin reserved
<1> DEFINE n == Min(pmem_next_page_available)
<1>1. pmem_next_page_available \in SUBSET Nat
  BY PageNumbers DEF pmem_next_page_available
<1>2. n \in pmem_next_page_available
  BY <1>1, MinInSet
<1> HIDE DEF n
<1>3. n \in Pages /\ n >= ADDR_TO_PAGE(FirstAddr) /\ pages[n] = "FREE"
  BY <1>2 DEF pmem_next_page_available
<1>4. n \in Nat /\ n >= 1
  BY <1>3, PageNumbers, MemorySizeAssumption
<1>5. holders[n] = 0 /\ n \notin reserved
  BY <1>3 DEF PhysInv, TypeOK, UserPagesAreHeld, ReservedIsSystem
<1> QED
  BY <1>3, <1>4, <1>5 DEF n

(***************************************************************************)
(* pmem_initialize establishes the invariant, and each operation keeps it. *)
(***************************************************************************)
LEMMA PhysInit == pmem_initialize => PhysInv
BY DEF pmem_initialize, PhysInv, TypeOK, UserPagesAreHeld, ReservedIsSystem, OneHolder

(***************************************************************************)
(* pmem_allocate keeps the invariant: the page it marks was free.          *)
(***************************************************************************)
LEMMA AllocateKeeps ==
  ASSUME PhysInv, pmem_allocate
  PROVE  PhysInv'
<1>1. CASE pmem_next_page_available = {}
  BY <1>1 DEF pmem_allocate, PhysInv, TypeOK, UserPagesAreHeld, ReservedIsSystem,
              OneHolder
<1>2. CASE pmem_next_page_available # {}
  <2> DEFINE n == Min(pmem_next_page_available)
  <2>1. /\ n \in Pages /\ n \in Nat
        /\ pages[n] = "FREE"
        /\ holders[n] = 0 /\ n \notin reserved
    BY <1>2, AllocationFacts
  <2>2. /\ pages' = pmem_set_page(n, "USER")
        /\ holders' = [holders EXCEPT ![n] = @ + 1]
        /\ result' = PAGE_TO_ADDR(n)
        /\ reserved' = reserved
    BY <1>2 DEF pmem_allocate
  <2> HIDE DEF n
  <2>3. /\ pages' \in [Pages -> {"FREE", "SYSTEM", "USER"}]
        /\ \A p \in Pages : pages'[p] = IF p = n THEN "USER" ELSE pages[p]
    BY <2>1, <2>2, SetPageFacts
  <2>4. result' \in Nat
    BY <2>1, <2>2 DEF PAGE_TO_ADDR, SYSTEM_PAGE_SIZE
  <2>5. TypeOK'
    BY <2>1, <2>2, <2>3, <2>4 DEF PhysInv, TypeOK
  <2>6. UserPagesAreHeld'
    BY <2>1, <2>2, <2>3 DEF PhysInv, TypeOK, UserPagesAreHeld
  <2>7. ReservedIsSystem'
    BY <2>1, <2>2, <2>3 DEF PhysInv, TypeOK, ReservedIsSystem
  <2>8. OneHolder'
    BY <2>1, <2>2 DEF PhysInv, TypeOK, OneHolder
  <2> QED
    BY <2>5, <2>6, <2>7, <2>8 DEF PhysInv
<1> QED
  BY <1>1, <1>2

(***************************************************************************)
(* pmem_set_as_system keeps the invariant and every page already reserved. *)
(***************************************************************************)
LEMMA SetAsSystemKeeps ==
  ASSUME PhysInv, NEW r \in Ranges, pmem_set_as_system(r[1], r[2])
  PROVE  PhysInv' /\ \A p \in Pages : pages[p] = "SYSTEM" => pages'[p] = "SYSTEM"
<1>1. r[1] \in Nat /\ r[2] \in Nat
  BY MemorySizeAssumption
<1>2. \A p \in PagesOfRange(r[1], r[2]) : pages'[p] = "SYSTEM"
  BY <1>1, RangeIsMarked DEF pmem_set_as_system, PagesOfRange
<1>3. /\ pages' \in [Pages -> {"FREE", "SYSTEM", "USER"}]
      /\ \A p \in Pages : pages'[p] = "SYSTEM" \/ pages'[p] = pages[p]
  BY DEF PhysInv, TypeOK, pmem_set_as_system
<1>4. /\ holders' = holders /\ result' = result
      /\ reserved' = reserved \cup PagesOfRange(r[1], r[2])
      /\ PagesOfRange(r[1], r[2]) \subseteq Pages
  BY DEF pmem_set_as_system, PagesOfRange
<1> QED
  BY <1>2, <1>3, <1>4
     DEF PhysInv, TypeOK, UserPagesAreHeld, ReservedIsSystem, OneHolder

(***************************************************************************)
(* pmem_release keeps the invariant and gives back no reserved page.       *)
(***************************************************************************)
LEMMA ReleaseKeeps ==
  ASSUME PhysInv, NEW addr \in Nat, pmem_release(addr)
  PROVE  PhysInv' /\ \A p \in Pages : pages[p] = "SYSTEM" => pages'[p] = "SYSTEM"
<1>1. CASE UNCHANGED vars
  BY <1>1 DEF PhysInv, TypeOK, UserPagesAreHeld, ReservedIsSystem, OneHolder, vars
<1>2. CASE addr % SYSTEM_PAGE_SIZE = 0
  <2> DEFINE n == ADDR_TO_PAGE(addr)
  <2>1. n \in Nat
    BY PageNumbers
  <2>2. /\ pages' = pmem_set_page(n, "FREE")
        /\ holders' = [p \in Pages |-> IF p = n /\ holders[p] > 0
                                         THEN holders[p] - 1 ELSE holders[p]]
        /\ reserved' = reserved /\ result' = result
    BY <1>2 DEF pmem_release
  <2> HIDE DEF n
  <2>3. /\ pages' \in [Pages -> {"FREE", "SYSTEM", "USER"}]
        /\ \A p \in Pages : pages'[p] = IF p = n /\ pages[p] # "SYSTEM"
                                          THEN "FREE" ELSE pages[p]
    BY <2>1, <2>2, SetPageFacts
  <2>4. TypeOK' /\ OneHolder'
    BY <2>2, <2>3 DEF PhysInv, TypeOK, OneHolder
  <2>5. UserPagesAreHeld'
    BY <2>2, <2>3 DEF PhysInv, TypeOK, UserPagesAreHeld, OneHolder
  <2>6. ReservedIsSystem'
    BY <2>2, <2>3 DEF PhysInv, TypeOK, ReservedIsSystem
  <2> QED
    BY <2>3, <2>4, <2>5, <2>6 DEF PhysInv
<1> QED
  BY <1>1, <1>2 DEF pmem_release, vars

(***************************************************************************)
(* The addresses given back are natural numbers.                           *)
(***************************************************************************)
LEMMA ReleaseAddrsAreAddresses == ReleaseAddrs \subseteq Nat
BY PageNumbers, MemorySizeAssumption
   DEF ReleaseAddrs, PAGE_TO_ADDR, SYSTEM_PAGE_SIZE

(***************************************************************************)
(* Every step of the page map keeps the invariant.                         *)
(***************************************************************************)
LEMMA PhysNext == PhysInv /\ [Next]_vars => PhysInv'
<1> SUFFICES ASSUME PhysInv, [Next]_vars
             PROVE  PhysInv'
  OBVIOUS
<1>1. CASE UNCHANGED vars
  BY <1>1 DEF PhysInv, TypeOK, UserPagesAreHeld, ReservedIsSystem, OneHolder, vars
<1>2. CASE Next
  BY <1>2, AllocateKeeps, SetAsSystemKeeps, ReleaseKeeps, ReleaseAddrsAreAddresses
     DEF Next
<1> QED
  BY <1>1, <1>2

(***************************************************************************)
(* The page map stays well formed, agrees with what callers hold, and has  *)
(* every reserved page as SYSTEM, whatever is allocated, released or       *)
(* reserved.                                                               *)
(***************************************************************************)
THEOREM PhysInvariant == Spec => []PhysInv
BY PhysInit, PhysNext, PTL DEF Spec

(***************************************************************************)
(* The page map holds only FREE, USER and SYSTEM, and its counts stay      *)
(* within their types, whatever pmem_allocate, pmem_release and            *)
(* pmem_set_as_system are asked.                                           *)
(***************************************************************************)
THEOREM PageMapTypes == Spec => []TypeOK
<1>1. PhysInv => TypeOK
  BY DEF PhysInv
<1> QED
  BY <1>1, PhysInvariant, PTL

(***************************************************************************)
(* Nothing handed out is free for a second caller, and no page is lost.    *)
(***************************************************************************)
THEOREM HeldPagesAreMarked == Spec => []UserPagesAreHeld
<1>1. PhysInv => UserPagesAreHeld
  BY DEF PhysInv
<1> QED
  BY <1>1, PhysInvariant, PTL

(***************************************************************************)
(* pmem_set_as_system reaches every page with a byte in the range.         *)
(***************************************************************************)
THEOREM ReservedPagesCovered == Spec => []ReservedIsSystem
<1>1. PhysInv => ReservedIsSystem
  BY DEF PhysInv
<1> QED
  BY <1>1, PhysInvariant, PTL

(***************************************************************************)
(* No operation changes a page of the system.                              *)
(***************************************************************************)
THEOREM SystemPagesStay == Spec => SystemForever
<1> DEFINE Kept == \A p \in Pages : pages[p] = "SYSTEM" => pages'[p] = "SYSTEM"
<1>1. PhysInv /\ [Next]_vars => [Kept]_vars
  <2> SUFFICES ASSUME PhysInv, Next
               PROVE  Kept
    OBVIOUS
  <2>1. CASE pmem_allocate
    <3>1. CASE pmem_next_page_available = {}
      BY <2>1, <3>1 DEF pmem_allocate
    <3>2. CASE pmem_next_page_available # {}
      BY <2>1, <3>2, AllocationFacts, SetPageFacts DEF pmem_allocate
    <3> QED
      BY <3>1, <3>2
  <2>2. CASE ~pmem_allocate
    BY <2>2, SetAsSystemKeeps, ReleaseKeeps, ReleaseAddrsAreAddresses DEF Next
  <2> QED
    BY <2>1, <2>2
<1> QED
  BY <1>1, PhysInvariant, PTL DEF Spec, SystemForever

(***************************************************************************)
(* pmem_allocate never hands out a page somebody holds, nor a reserved one,*)
(* nor page 0.                                                             *)
(***************************************************************************)
THEOREM AllocationIsExclusive == Spec => AllocatedPageIsExclusive
<1> DEFINE Fresh == \A p \in Pages :
              holders'[p] > holders[p] =>
                /\ holders[p] = 0
                /\ p \notin reserved
                /\ result' = PAGE_TO_ADDR(p) /\ result' # 0
<1>1. PhysInv /\ [Next]_vars => [Fresh]_vars
  <2> SUFFICES ASSUME PhysInv, Next, NEW p \in Pages, holders'[p] > holders[p]
               PROVE  /\ holders[p] = 0
                      /\ p \notin reserved
                      /\ result' = PAGE_TO_ADDR(p) /\ result' # 0
    OBVIOUS
  <2>1. holders[p] \in Nat
    BY DEF PhysInv, TypeOK
  <2>2. ASSUME NEW r \in Ranges, pmem_set_as_system(r[1], r[2])
        PROVE  FALSE
    BY <2>1, <2>2 DEF pmem_set_as_system
  <2>3. ASSUME NEW addr \in ReleaseAddrs, pmem_release(addr)
        PROVE  FALSE
    BY <2>1, <2>3 DEF pmem_release
  <2>4. pmem_allocate
    BY <2>2, <2>3 DEF Next
  <2> DEFINE n == Min(pmem_next_page_available)
  <2>5. /\ pmem_next_page_available # {}
        /\ holders' = [holders EXCEPT ![n] = @ + 1]
        /\ result' = PAGE_TO_ADDR(n)
    BY <2>1, <2>4 DEF pmem_allocate
  <2>6. n \in Nat /\ n >= 1 /\ holders[n] = 0 /\ n \notin reserved
    BY <2>5, AllocationFacts
  <2> HIDE DEF n
  <2>7. p = n
    BY <2>1, <2>5 DEF PhysInv, TypeOK
  <2>8. PAGE_TO_ADDR(n) # 0
    BY <2>6 DEF PAGE_TO_ADDR, SYSTEM_PAGE_SIZE
  <2> QED
    BY <2>5, <2>6, <2>7, <2>8
<1> QED
  BY <1>1, PhysInvariant, PTL DEF Spec, AllocatedPageIsExclusive
=============================================================================
