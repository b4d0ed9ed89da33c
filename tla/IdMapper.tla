------------------------------ MODULE IdMapper ------------------------------
(***************************************************************************)
(* libutils/id_mapper.c: numeric handles for kernel objects.  A mapper is  *)
(* a record: "list" holds the entries in the order they were added, "next" *)
(* is the atomic counter.  0 is never a handle; it reports a failure.      *)
(***************************************************************************)
EXTENDS Naturals, SequencesExt

id_mapper_create == [list |-> << >>, next |-> 1]

(***************************************************************************)
(* The first entry with this id, or none when the id is 0 or unknown.      *)
(***************************************************************************)
id_mapper_get(m, id, none) ==
  LET at == SelectInSeq(m.list, LAMBDA entry : entry.id = id)
  IN  IF id = 0 \/ at = 0 THEN none ELSE m.list[at].val

\* faulty: the counter stays
id_mapper_add_SameId(m, val, hasNode) ==
  [m EXCEPT !.list = IF hasNode THEN Append(@, [id |-> m.next, val |-> val])
                                ELSE @]

(***************************************************************************)
(* hasNode: whether linkedlist_append finds memory for its node.  When it  *)
(* does not, the entry is dropped and the call returns 0, but the counter  *)
(* has moved.                                                              *)
(***************************************************************************)
id_mapper_add(m, val, hasNode) ==
  [list |-> IF hasNode
              THEN Append(m.list, [id |-> m.next, val |-> val])
              ELSE m.list,
   next |-> m.next + 1]

id_mapper_del(m, id) ==
  IF id = 0
    THEN m
    ELSE [m EXCEPT !.list = RemoveFirstMatch(@, LAMBDA entry : entry.id = id)]
=============================================================================
