------------------------------- MODULE PhysMem -------------------------------
(***************************************************************************)
(* core/src/pmem/services.c: which physical pages are free, which belong   *)
(* to the system for good, and which have been handed out.                 *)
(*                                                                         *)
(* The state is the one after pmem_initialize.  Pages have their real      *)
(* size; how much memory there is, and from which address on pages are     *)
(* handed out (64 MB in the code), are constants.                          *)
(***************************************************************************)
EXTENDS Integers, FiniteSetsExt

CONSTANTS
  total_memory,   \* bytes of memory, not necessarily whole pages
  FirstAddr,      \* pmem_next_page_available searches from here on
  Ranges          \* the calls of pmem_set_as_system: <<address, bytes>>

SYSTEM_PAGE_SIZE == 4096

ASSUME MemorySizeAssumption ==
  /\ total_memory \in Nat
  /\ FirstAddr \in Nat /\ FirstAddr >= SYSTEM_PAGE_SIZE
  /\ Ranges \subseteq Nat \X Nat

ADDR_TO_PAGE(a) == a \div SYSTEM_PAGE_SIZE
PAGE_TO_ADDR(p) == p * SYSTEM_PAGE_SIZE

total_of_pages == total_memory \div SYSTEM_PAGE_SIZE
Pages == 0 .. total_of_pages - 1

VARIABLES
  pages,      \* the type of each page
  holders,    \* how many callers were given each page and have not released it
  reserved,   \* history: the pages with a byte in a range set as system
  result      \* the address the last pmem_allocate returned

vars == <<pages, holders, reserved, result>>

pmem_initialize ==
  /\ pages = [p \in Pages |-> "FREE"]
  /\ holders = [p \in Pages |-> 0]
  /\ reserved = {}
  /\ result = 0

\* faulty: the page after the last one is accepted
pmem_set_page_Beyond(page_number, page_type) ==
  IF page_number > total_of_pages
       \/ (page_number \in Pages /\ pages[page_number] = "SYSTEM")
    THEN pages
    ELSE [p \in Pages \cup {page_number} |->
            IF p = page_number THEN page_type ELSE pages[p]]

\* faulty: a SYSTEM page can be changed
pmem_set_page_Mutable(page_number, page_type) ==
  IF page_number \in Pages THEN [pages EXCEPT ![page_number] = page_type] ELSE pages

pmem_set_page(page_number, page_type) ==
  IF page_number >= total_of_pages \/ pages[page_number] = "SYSTEM"
    THEN pages
    ELSE [pages EXCEPT ![page_number] = page_type]

\* faulty: an unused page is one that is not of the system
pmem_next_page_available_Any ==
  {p \in Pages : p >= ADDR_TO_PAGE(FirstAddr) /\ pages[p] # "SYSTEM"}

(***************************************************************************)
(* The pages pmem_next_page_available may choose from: it takes the first. *)
(***************************************************************************)
pmem_next_page_available ==
  {p \in Pages : p >= ADDR_TO_PAGE(FirstAddr) /\ pages[p] = "FREE"}

\* faulty: the page is not marked
pmem_allocate_Unmarked ==
  /\ pmem_next_page_available # {}
  /\ LET page_number == Min(pmem_next_page_available)
     IN  /\ pages' = pages
         /\ holders' = [holders EXCEPT ![page_number] = @ + 1]
         /\ result' = PAGE_TO_ADDR(page_number)
  /\ UNCHANGED reserved

pmem_allocate ==
  /\ IF pmem_next_page_available = {}
       THEN result' = 0 /\ UNCHANGED <<pages, holders>>
       ELSE LET page_number == Min(pmem_next_page_available)
            IN  /\ pages' = pmem_set_page(page_number, "USER")
                /\ holders' = [holders EXCEPT ![page_number] = @ + 1]
                /\ result' = PAGE_TO_ADDR(page_number)
  /\ UNCHANGED reserved

(***************************************************************************)
(* The pages that hold a byte of the range.                                *)
(***************************************************************************)
PagesOfRange(addr, total_in_bytes) ==
  {p \in Pages : /\ total_in_bytes > 0
                 /\ PAGE_TO_ADDR(p) < addr + total_in_bytes
                 /\ addr < PAGE_TO_ADDR(p + 1)}

\* faulty: counts whole pages from the first one
pmem_set_as_system_Count(addr, total_in_bytes) ==
  LET page == ADDR_TO_PAGE(addr)
  IN  /\ pages' = [p \in Pages |->
                     IF p >= page /\ p < page + ADDR_TO_PAGE(total_in_bytes)
                       THEN "SYSTEM" ELSE pages[p]]
      /\ reserved' = reserved \cup PagesOfRange(addr, total_in_bytes)
      /\ UNCHANGED <<holders, result>>

pmem_set_as_system(addr, total_in_bytes) ==
  LET page == ADDR_TO_PAGE(addr)
      page_end == ADDR_TO_PAGE(addr + total_in_bytes)
  IN  /\ pages' = [p \in Pages |->
                     IF page <= p /\ p <= page_end THEN "SYSTEM" ELSE pages[p]]
      /\ reserved' = reserved \cup PagesOfRange(addr, total_in_bytes)
      /\ UNCHANGED <<holders, result>>

(***************************************************************************)
(* The caller releases a page it holds, or one that nobody holds.          *)
(***************************************************************************)
pmem_release(addr) ==
  /\ IF addr % SYSTEM_PAGE_SIZE # 0
       THEN UNCHANGED <<pages, holders>>
       ELSE /\ pages' = pmem_set_page(ADDR_TO_PAGE(addr), "FREE")
            /\ holders' = [p \in Pages |->
                             IF p = ADDR_TO_PAGE(addr) /\ holders[p] > 0
                               THEN holders[p] - 1 ELSE holders[p]]
  /\ UNCHANGED <<reserved, result>>

\* page-aligned addresses up to the one after the memory, and one that is not
ReleaseAddrs == {PAGE_TO_ADDR(p) : p \in 0 .. total_of_pages} \cup {FirstAddr + 1}

Next ==
  \/ pmem_allocate
  \/ \E r \in Ranges : pmem_set_as_system(r[1], r[2])
  \/ \E addr \in ReleaseAddrs : pmem_release(addr)

Spec == pmem_initialize /\ [][Next]_vars
-----------------------------------------------------------------------------
TypeOK ==
  /\ pages \in [Pages -> {"FREE", "SYSTEM", "USER"}]
  /\ holders \in [Pages -> Nat]
  /\ reserved \subseteq Pages
  /\ result \in Nat

(***************************************************************************)
(* The page map and the callers agree: what is marked USER is what is      *)
(* handed out, but for pages that became SYSTEM while in use.  So nothing  *)
(* handed out is free for a second caller, and no page is lost.            *)
(***************************************************************************)
UserPagesAreHeld ==
  \A p \in Pages : /\ pages[p] = "USER" => holders[p] > 0
                   /\ holders[p] > 0 => pages[p] # "FREE"

(***************************************************************************)
(* pmem_set_as_system reaches every page with a byte in the range, however *)
(* the range lies over the page boundaries.                                *)
(***************************************************************************)
ReservedIsSystem == \A p \in reserved : pages[p] = "SYSTEM"

(***************************************************************************)
(* A page of the system "Will be SYSTEM forever" (pmem/services.h:23): no  *)
(* allocation and no release changes it.                                   *)
(***************************************************************************)
SystemForever ==
  [][\A p \in Pages : pages[p] = "SYSTEM" => pages'[p] = "SYSTEM"]_vars

(***************************************************************************)
(* pmem_allocate hands out a page that nobody holds, that is not reserved, *)
(* and whose address is not the 0 by which it reports a failure.           *)
(***************************************************************************)
AllocatedPageIsExclusive ==
  [][\A p \in Pages :
       holders'[p] > holders[p] =>
         /\ holders[p] = 0
         /\ p \notin reserved
         /\ result' = PAGE_TO_ADDR(p) /\ result' # 0]_vars
=============================================================================
