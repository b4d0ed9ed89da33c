---------------------------- MODULE MCLinkedList ----------------------------
(***************************************************************************)
(* Instances of LinkedList for TLC.                                        *)
(***************************************************************************)
EXTENDS LinkedList

CONSTANTS n1, n2, n3, a, b

ThreeNodes == {n1, n2, n3}
TwoValues == {a, b}

Symmetry == Permutations(Nodes) \cup Permutations(Values)

Answers ==
  [1 .. Cardinality(Nodes) -> {"GO_NEXT", "STOP_AND_RETURN", "REMOVE_AND_RETURN",
                               "REMOVE_AND_NEXT", "INVALID"}]

\* a callback is not asked again after an answer that ends the pass
AllRequests ==
  {ask \in Answers :
     \A i, j \in 1 .. Cardinality(Nodes) :
       i < j /\ ask[i] \notin {"GO_NEXT", "REMOVE_AND_NEXT"} => ask[j] = "GO_NEXT"}

\* callbacks that never ask to remove two neighbours in one pass
SparseRequests ==
  {ask \in AllRequests :
     \A i \in 1 .. Cardinality(Nodes) - 1 :
       ~(ask[i] = "REMOVE_AND_NEXT"
           /\ ask[i + 1] \in {"REMOVE_AND_NEXT", "REMOVE_AND_RETURN"})}
=============================================================================
