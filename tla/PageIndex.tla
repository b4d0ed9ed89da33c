------------------------------ MODULE PageIndex ------------------------------
(***************************************************************************)
(* The address arithmetic shared by the allocator, the address spaces and  *)
(* the page tables: rounding to pages (libutils/utils.h, vmem/services.h)  *)
(* and the index of an address in the table of a level (native_pagging.c). *)
(*                                                                         *)
(* The code computes (addr % 2^max) >> min with min = 9(level-1) + 12 and  *)
(* max = 9 level + 12.  The same number is written here with the quotient  *)
(* first, because TLC's integers end at 2^31.                              *)
(***************************************************************************)
EXTENDS Integers

SYSTEM_PAGE_SIZE == 4096
PAGE_TABLE_NUMBER_OF_ENTRIES == 512

ALIGN(addr) == addr - (addr % SYSTEM_PAGE_SIZE)
ALIGN_NEXT(addr) == ALIGN(addr + SYSTEM_PAGE_SIZE - 1)
Aligned(addr) == ALIGN(addr) = addr

Levels == 1 .. 4

\* the pages below one entry of a table of the level: 2^(9(level-1))
PagesPerEntry(level) ==
  CASE level = 1 -> 1
    [] level = 2 -> 512
    [] level = 3 -> 262144
    [] level = 4 -> 134217728

index_for_level(level, virtual_addr) ==
  ((virtual_addr \div SYSTEM_PAGE_SIZE) \div PagesPerEntry(level))
    % PAGE_TABLE_NUMBER_OF_ENTRIES

=============================================================================
