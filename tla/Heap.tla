-------------------------------- MODULE Heap --------------------------------
(***************************************************************************)
(* What the kernel heap promises (core/src/alloc.c): kalloc hands out      *)
(* blocks that never share a byte, all of them below a limit up to which   *)
(* memory is mapped, and after every call a reserve of mapped memory is    *)
(* left, because mapping more takes memory itself.  How memory is mapped,  *)
(* and what the services take from the heap for themselves, is left open.  *)
(***************************************************************************)
EXTENDS Integers

CONSTANT Reserve    \* KERNEL_MEMORY_PAGE_RESERVE

VARIABLES
  ptr,      \* current_mem_ptr
  limit,    \* the end of the mapped memory
  blocks    \* the blocks handed out: [addr, size]
hvars == <<ptr, limit, blocks>>

Block == [addr : Nat, size : Nat \ {0}]

\* before boot nothing has been handed out
Init == ptr \in Nat /\ limit \in Nat /\ ptr + Reserve <= limit /\ blocks = {}

\* the pointer and the limit only move up, and the reserve is there again
Moves == /\ ptr' \in Nat /\ limit' \in Nat
         /\ ptr <= ptr' /\ limit <= limit'
         /\ ptr' + Reserve <= limit'

\* a block between the old pointer and the new one
Alloc == /\ Moves
         /\ \E b \in blocks' \ blocks :
              /\ b \in Block
              /\ blocks' = blocks \cup {b}
              /\ ptr <= b.addr /\ b.addr + b.size <= ptr'

\* the services work with the heap, or a call that found no memory left
\* something behind
Work == Moves /\ UNCHANGED blocks

Next == Alloc \/ Work

Spec == Init /\ [][Next]_hvars

\* Blocks kalloc has handed out are in mapped memory, with the reserve of
\* ensure_free_memory behind them.
BlocksMapped == \A b \in blocks : b.addr + b.size + Reserve <= limit

\* No two blocks kalloc has handed out share a byte.
BlocksDisjoint ==
  \A b, c \in blocks : b # c => b.addr + b.size <= c.addr \/ c.addr + c.size <= b.addr

=============================================================================
