----------------------------- MODULE LinkedList -----------------------------
(***************************************************************************)
(* libutils/src/algorithms/linkedlist.c: a singly linked list of nodes     *)
(* taken from MEM_ALLOC and given back with MEM_FREE.                      *)
(*                                                                         *)
(* A freed node may be handed out again, as a hosted build does; kfree     *)
(* never does so, which is one of the behaviours.                          *)
(***************************************************************************)
EXTENDS Integers, SequencesExt

CONSTANTS
  Nodes,     \* the blocks MEM_ALLOC can supply
  Values,    \* the elements: pointers, none of them NULL
  NULL,      \* the NULL pointer
  Requests   \* what a callback may ask for: functions from positions to ITER_*

ASSUME NullAssumption == NULL \notin Nodes /\ NULL \notin Values

ASSUME NodesAssumption == IsFiniteSet(Nodes)

VARIABLES
  first,     \* ll->first
  size,      \* ll->size
  next,      \* node->next
  val,       \* node->val
  live,      \* the nodes allocated and not freed
  exists,    \* whether the list has been created and not destroyed
  result     \* the last call, its argument and what it returned

vars == <<first, size, next, val, live, exists, result>>

(***************************************************************************)
(* What linkedlist_iter_next_node returns at its k-th call, and the nodes  *)
(* it returns, in order.  The bound stops the walk over a list that would  *)
(* be cyclic.                                                              *)
(***************************************************************************)
Visited ==
  LET visit[k \in 0 .. Cardinality(Nodes)] ==
        IF k = 0 THEN first
                 ELSE IF visit[k - 1] = NULL THEN NULL ELSE next[visit[k - 1]]
  IN  visit

Walk ==
  [k \in {i \in 1 .. Cardinality(Nodes) + 1 : Visited[i - 1] # NULL} |-> Visited[k - 1]]

(***************************************************************************)
(* The fields that removals change, and linkedlist_remove_node on them.    *)
(***************************************************************************)
Links == [first |-> first, size |-> size, next |-> next, live |-> live]

\* faulty: the size is decremented twice
linkedlist_remove_node_Twice(l, previous, removed) ==
  [next  |-> IF previous = NULL THEN l.next
                                ELSE [l.next EXCEPT ![previous] = l.next[removed]],
   first |-> IF l.first = removed THEN l.next[removed] ELSE l.first,
   live  |-> l.live \ {removed},
   size  |-> l.size - 2]

\* faulty: the node before the removed one still points to it
linkedlist_remove_node_Linked(l, previous, removed) ==
  [next  |-> l.next,
   first |-> IF l.first = removed THEN l.next[removed] ELSE l.first,
   live  |-> l.live \ {removed},
   size  |-> l.size - 1]

linkedlist_remove_node(l, previous, removed) ==
  LET linked == IF previous = NULL
                  THEN l.next
                  ELSE [l.next EXCEPT ![previous] = l.next[removed]]
  IN  [next  |-> linked,
       first |-> IF l.first = removed THEN linked[removed] ELSE l.first,
       live  |-> l.live \ {removed},
       size  |-> l.size - 1]

SetLinks(l) ==
  /\ first' = l.first
  /\ size' = l.size
  /\ next' = l.next
  /\ live' = l.live

Before(i) == IF i = 1 THEN NULL ELSE Walk[i - 1]

Init ==
  /\ first = NULL /\ size = 0
  /\ next = [n \in Nodes |-> NULL]
  /\ val \in [Nodes -> Values]
  /\ live = {}
  /\ exists = TRUE
  /\ result = <<"create", NULL, TRUE>>

linkedlist_create ==
  /\ ~exists
  /\ exists' = TRUE
  /\ first' = NULL /\ size' = 0
  /\ result' = <<"create", NULL, TRUE>>
  /\ UNCHANGED <<next, val, live>>

(***************************************************************************)
(* node is NULL when MEM_ALLOC has none.                                   *)
(***************************************************************************)
linkedlist_append(v, node) ==
  /\ exists
  /\ IF node = NULL
       THEN result' = <<"append", v, FALSE>> /\ UNCHANGED <<first, size, next, val, live>>
       ELSE /\ val' = [val EXCEPT ![node] = v]
            /\ IF size = 0
                 THEN /\ first' = node
                      /\ next' = [next EXCEPT ![node] = NULL]
                 ELSE /\ first' = first
                      /\ next' = [next EXCEPT ![node] = NULL, ![Last(Walk)] = node]
            /\ size' = size + 1
            /\ live' = live \cup {node}
            /\ result' = <<"append", v, TRUE>>
  /\ UNCHANGED exists

linkedlist_remove_element(v) ==
  LET at == SelectInSeq(Walk, LAMBDA n : val[n] = v)
  IN  /\ exists
      /\ SetLinks(IF at = 0 THEN Links
                            ELSE linkedlist_remove_node(Links, Before(at), Walk[at]))
      /\ result' = <<"remove_element", v, at # 0>>
      /\ UNCHANGED <<val, exists>>

(***************************************************************************)
(* The next node is read before the callback is asked, so that the nodes   *)
(* visited are those of the list as it was; the removed node itself is the *)
(* "previous" of the one after it.  The links after each of the nodes.     *)
(***************************************************************************)
Removals(ask) ==
  LET after[i \in 0 .. Len(Walk)] ==
        IF i = 0 THEN Links
        ELSE IF ask[i] \in {"REMOVE_AND_RETURN", "REMOVE_AND_NEXT"}
          THEN linkedlist_remove_node(after[i - 1], Before(i), Walk[i])
          ELSE after[i - 1]
  IN  after

(***************************************************************************)
(* What a pass with these answers does to the links, how many it takes,    *)
(* and the element it returns.                                             *)
(***************************************************************************)
Pass(ask) ==
  LET ends == {i \in DOMAIN Walk : ask[i] \notin {"GO_NEXT", "REMOVE_AND_NEXT"}}
      end == IF ends = {} THEN Len(Walk) ELSE Min(ends)
  IN  [links |-> Removals(ask)[end],
       asked |-> end,
       found |-> IF ends # {} /\ ask[end] # "INVALID" THEN val[Walk[end]] ELSE NULL]

linkedlist_iter_with_action(ask) ==
  LET pass == Pass(ask)
  IN  /\ exists
      /\ SetLinks(pass.links)
      /\ result' = <<"iter_with_action", [i \in 1 .. pass.asked |-> ask[i]],
                     pass.found>>
      /\ UNCHANGED <<val, exists>>

\* faulty: counts the elements from 1
linkedlist_iter_remove_element_Early(index) ==
  [i \in 1 .. Cardinality(Nodes) |->
     IF i >= index THEN "REMOVE_AND_RETURN" ELSE "GO_NEXT"]

linkedlist_iter_remove_element(index) ==
  [i \in 1 .. Cardinality(Nodes) |->
     IF i = index + 1 THEN "REMOVE_AND_RETURN" ELSE "GO_NEXT"]

RemoveIndex(index) ==
  IF index >= size
    THEN [links |-> Links, found |-> NULL]
    ELSE Pass(linkedlist_iter_remove_element(index))

linkedlist_remove(index) ==
  /\ exists
  /\ SetLinks(RemoveIndex(index).links)
  /\ result' = <<"remove", index, RemoveIndex(index).found>>
  /\ UNCHANGED <<val, exists>>

linkedlist_pop ==
  LET popped == IF first = NULL THEN [links |-> Links, found |-> NULL]
                                ELSE RemoveIndex(size - 1)
  IN  /\ exists
      /\ SetLinks(popped.links)
      /\ result' = <<"pop", NULL, popped.found>>
      /\ UNCHANGED <<val, exists>>

linkedlist_get(index) ==
  /\ exists
  /\ result' = <<"get", index, IF index < size /\ index < Len(Walk)
                                  THEN val[Walk[index + 1]] ELSE NULL>>
  /\ UNCHANGED <<first, size, next, val, live, exists>>

linkedlist_find(v) ==
  /\ exists
  /\ result' = <<"find", v, SelectInSeq(Walk, LAMBDA n : val[n] = v) - 1>>
  /\ UNCHANGED <<first, size, next, val, live, exists>>

(***************************************************************************)
(* The walk takes two nodes before the loop and the loop takes a third, so *)
(* that the second is never freed.                                         *)
(***************************************************************************)
linkedlist_destroy ==
  /\ exists
  /\ exists' = FALSE
  /\ live' = live \ {Walk[i] : i \in DOMAIN Walk \ {2}}
  /\ result' = <<"destroy", NULL, TRUE>>
  /\ UNCHANGED <<first, size, next, val>>

\* every position, and the first that never exists
Indexes == 0 .. Cardinality(Nodes)

Next ==
  \/ \E v \in Values :
       \/ \E node \in (Nodes \ live) \cup {NULL} : linkedlist_append(v, node)
       \/ linkedlist_remove_element(v)
       \/ linkedlist_find(v)
  \/ \E i \in Indexes : linkedlist_remove(i) \/ linkedlist_get(i)
  \/ \E ask \in Requests : linkedlist_iter_with_action(ask)
  \/ linkedlist_pop
  \/ linkedlist_create
  \/ linkedlist_destroy

Spec == Init /\ [][Next]_vars
-----------------------------------------------------------------------------
TypeOK ==
  /\ first \in Nodes \cup {NULL}
  /\ size \in 0 .. Cardinality(Nodes)
  /\ next \in [Nodes -> Nodes \cup {NULL}]
  /\ val \in [Nodes -> Values]
  /\ live \subseteq Nodes
  /\ exists \in BOOLEAN

(***************************************************************************)
(* Whatever calls were made, the nodes of a list are linked without a      *)
(* cycle, none of them has been freed, and ll->size counts them: append    *)
(* trusts the size to tell an empty list, remove and get to tell a bound.  *)
(***************************************************************************)
WellFormed ==
  exists => /\ IsInjective(Walk)
            /\ ToSet(Walk) \subseteq live
            /\ size = Len(Walk)

(***************************************************************************)
(* The list implements the sequence of its elements: every call has the    *)
(* effect and the result that linkedlist.h promises.                       *)
(***************************************************************************)
Elements == IF exists THEN [i \in DOMAIN Walk |-> val[Walk[i]]] ELSE << >>

Abstract == INSTANCE List WITH seq <- Elements

ImplementsList == Abstract!ListSpec

(***************************************************************************)
(* linkedlist_iter_with_action as tested (test_linkedlist_iter_action.c:77,*)
(* an element for which the callback answered ITER_REMOVE_AND_NEXT is not  *)
(* found afterwards), for a list that holds the element any number of      *)
(* times.                                                                  *)
(***************************************************************************)
RemoveAndContinue(v) ==
  [i \in 1 .. Cardinality(Nodes) |->
     IF i <= Len(Walk) /\ val[Walk[i]] = v THEN "REMOVE_AND_NEXT" ELSE "GO_NEXT"]

RemovedIsNotFound ==
  [][\A v \in Values :
       linkedlist_iter_with_action(RemoveAndContinue(v)) => v \notin ToSet(Elements')]_vars
=============================================================================
