-------------------------- MODULE LinkedListProofs --------------------------
(***************************************************************************)
(* The linked list is well formed and implements the sequence of its       *)
(* elements, for any number of nodes and values and any callbacks that     *)
(* never ask to remove two neighbours in one pass.                         *)
(***************************************************************************)
EXTENDS LinkedList, ListFacts, FiniteSetTheorems

(***************************************************************************)
(* The states of the links, and the node at position i of a sequence of    *)
(* nodes, NULL after the last.                                             *)
(***************************************************************************)
LinkStates == [first : Nodes \cup {NULL}, size : Int,
               next : [Nodes -> Nodes \cup {NULL}], live : SUBSET Nodes]

At(c, i) == IF i <= Len(c) THEN c[i] ELSE NULL

(***************************************************************************)
(* In the links l, c is the list: distinct allocated nodes, each pointing  *)
(* to the one after it, the last to none, and as many as the size says.    *)
(***************************************************************************)
IsChain(l, c) ==
  /\ c \in Seq(Nodes)
  /\ IsInjective(c)
  /\ ToSet(c) \subseteq l.live
  /\ l.size = Len(c)
  /\ l.first = At(c, 1)
  /\ \A i \in 1 .. Len(c) : l.next[c[i]] = At(c, i + 1)

(***************************************************************************)
(* The inductive invariant: what linkedlist_iter_next_node visits is a     *)
(* chain.  WellFormed alone leaves open that the last node visited points  *)
(* to none, on which linkedlist_append relies.                             *)
(***************************************************************************)
ListInv == TypeOK /\ (exists => IsChain(Links, Walk))

(***************************************************************************)
(* Distinct nodes are at most as many as there are (linkedlist->size).     *)
(***************************************************************************)
LEMMA ChainLength ==
  ASSUME NEW c \in Seq(Nodes), IsInjective(c)
  PROVE  Len(c) \in Nat /\ Cardinality(Nodes) \in Nat /\ Len(c) <= Cardinality(Nodes)
<1>1. Len(c) \in Nat /\ c \in [1 .. Len(c) -> Nodes]
  BY LenProperties
<1>2. c \in Injection(1 .. Len(c), Nodes)
  BY <1>1 DEF Injection, IsInjective
<1>3. Cardinality(1 .. Len(c)) = Len(c)
  BY <1>1, FS_Interval
<1>4. Cardinality(1 .. Len(c)) <= Cardinality(Nodes)
  BY <1>2, FS_Injection, NodesAssumption
<1> QED
  BY <1>1, <1>3, <1>4, FS_CardinalityType, NodesAssumption

(***************************************************************************)
(* linkedlist_iter_next_node returns the first node, then the next of the  *)
(* one before, until there is none.                                        *)
(***************************************************************************)
LEMMA VisitedStep ==
  ASSUME TypeOK
  PROVE  Visited = [k \in 0 .. Cardinality(Nodes) |->
                      IF k = 0 THEN first
                      ELSE IF Visited[k - 1] = NULL THEN NULL ELSE next[Visited[k - 1]]]
<1> DEFINE n == Cardinality(Nodes)
           S == Nodes \cup {NULL}
           step == [k \in 1 .. n |-> [m \in S |-> IF m = NULL THEN NULL ELSE next[m]]]
<1>1. n \in Nat
  BY FS_CardinalityType, NodesAssumption
<1>2. step \in [1 .. n -> [S -> S]] /\ first \in S
  BY DEF TypeOK
<1>3. PICK f \in [0 .. n -> S] :
             f[0] = first /\ \A k \in 1 .. n : f[k] = step[k][f[k - 1]]
  <2> HIDE DEF n, S, step
  <2> QED
    BY <1>1, <1>2, Recursion
<1>4. f = [k \in 0 .. n |-> IF k = 0 THEN first
                            ELSE IF f[k - 1] = NULL THEN NULL ELSE next[f[k - 1]]]
  <2>1. \A k \in 0 .. n : k # 0 => k \in 1 .. n /\ k - 1 \in 0 .. n
    BY <1>1
  <2>2. \A k \in 1 .. n : step[k][f[k - 1]] =
                            IF f[k - 1] = NULL THEN NULL ELSE next[f[k - 1]]
    BY <1>1, <2>1
  <2> HIDE DEF step
  <2> QED
    BY <1>3, <2>1, <2>2
<1> QED
  BY <1>4 DEF Visited

(***************************************************************************)
(* The walk over a chain is the chain.                                     *)
(***************************************************************************)
LEMMA WalkIsChain ==
  \A c : TypeOK /\ IsChain(Links, c) => Walk = c
<1> SUFFICES ASSUME NEW c, TypeOK, IsChain(Links, c)
             PROVE  Walk = c
  OBVIOUS
<1> DEFINE n == Cardinality(Nodes)
<1>1. /\ c \in Seq(Nodes)
      /\ first = At(c, 1)
      /\ \A i \in 1 .. Len(c) : next[c[i]] = At(c, i + 1)
  BY DEF IsChain, Links
<1>2. n \in Nat /\ Len(c) \in Nat /\ Len(c) <= n
  BY <1>1, ChainLength DEF IsChain
<1>3. \A i \in 1 .. Len(c) : c[i] \in Nodes /\ c[i] # NULL
  BY <1>1, ElementOfSeq, NullAssumption
<1>4. /\ Visited[0] = first
      /\ \A k \in 0 .. n : k < n =>
           Visited[k + 1] = IF Visited[k] = NULL THEN NULL ELSE next[Visited[k]]
  BY <1>2, VisitedStep
<1>5. \A k \in 0 .. n : Visited[k] = At(c, k + 1)
  <2> DEFINE P == {k \in Nat : Visited[k] = At(c, k + 1)}
  <2>1. 0 \in P
    BY <1>1, <1>4
  <2>2. ASSUME NEW k \in 0 .. n, k < n, k \in P
        PROVE  k + 1 \in P
    <3>1. CASE k + 1 <= Len(c)
      <4>1. k + 1 \in 1 .. Len(c) /\ Visited[k] = c[k + 1]
        BY <1>2, <2>2, <3>1 DEF At
      <4>2. Visited[k + 1] = At(c, k + 1 + 1)
        BY <1>1, <1>3, <1>4, <2>2, <4>1
      <4> QED
        BY <4>2
    <3>2. CASE ~ (k + 1 <= Len(c))
      <4>1. Visited[k] = NULL /\ At(c, k + 1 + 1) = NULL
        BY <1>2, <2>2, <3>2 DEF At
      <4> QED
        BY <1>4, <2>2, <4>1
    <3> QED
      BY <3>1, <3>2
  <2>3. 0 .. n \subseteq P
    <3> HIDE DEF P, n
    <3> QED
      BY <1>2, <2>1, <2>2, InductionUpTo
  <2> QED
    BY <2>3
<1>6. {i \in 1 .. n + 1 : Visited[i - 1] # NULL} = 1 .. Len(c)
  <2>1. ASSUME NEW i \in 1 .. n + 1
        PROVE  Visited[i - 1] # NULL <=> i \in 1 .. Len(c)
    <3>1. i - 1 \in 0 .. n /\ i - 1 + 1 = i
      BY <1>2
    <3>2. Visited[i - 1] = At(c, i)
      BY <1>5, <3>1
    <3> QED
      BY <1>2, <1>3, <3>2 DEF At
  <2>2. 1 .. Len(c) \subseteq 1 .. n + 1
    BY <1>2
  <2> QED
    BY <2>1, <2>2
<1>7. \A k \in 1 .. Len(c) : Visited[k - 1] = c[k]
  <2> SUFFICES ASSUME NEW k \in 1 .. Len(c)
               PROVE  Visited[k - 1] = c[k]
    OBVIOUS
  <2>1. k - 1 \in 0 .. n /\ k - 1 + 1 = k /\ k <= Len(c)
    BY <1>2
  <2>2. Visited[k - 1] = At(c, k)
    BY <1>5, <2>1
  <2> QED
    BY <2>1, <2>2 DEF At
<1>8. Walk = [k \in 1 .. Len(c) |-> Visited[k - 1]]
  BY <1>6 DEF Walk
<1>9. c = [k \in 1 .. Len(c) |-> c[k]]
  BY <1>1, LenProperties
<1> QED
  BY <1>7, <1>8, <1>9

(***************************************************************************)
(* The same for the state after a step.                                    *)
(***************************************************************************)
LEMMA WalkIsChainAfter ==
  (\A c : TypeOK /\ IsChain(Links, c) => Walk = c)'
BY WalkIsChain, PTL

(***************************************************************************)
(* linkedlist_remove_node, given the node before the removed one, takes    *)
(* that node out of the chain and gives it back.                           *)
(***************************************************************************)
LEMMA RemoveNodeChain ==
  ASSUME NEW l \in LinkStates, NEW c, IsChain(l, c), NEW k \in 1 .. Len(c),
         NEW previous, previous = IF k = 1 THEN NULL ELSE c[k - 1]
  PROVE  /\ linkedlist_remove_node(l, previous, c[k]) \in LinkStates
         /\ IsChain(linkedlist_remove_node(l, previous, c[k]), RemoveAt(c, k))
<1> DEFINE m == linkedlist_remove_node(l, previous, c[k])
           d == RemoveAt(c, k)
           linked == IF previous = NULL THEN l.next
                                        ELSE [l.next EXCEPT ![previous] = l.next[c[k]]]
<1>1. /\ c \in Seq(Nodes) /\ IsInjective(c)
      /\ ToSet(c) \subseteq l.live
      /\ l.size = Len(c)
      /\ l.first = At(c, 1)
      /\ \A i \in 1 .. Len(c) : l.next[c[i]] = At(c, i + 1)
  BY DEF IsChain
<1>2. /\ Len(c) \in Nat
      /\ \A i \in 1 .. Len(c) : c[i] \in Nodes /\ c[i] # NULL
      /\ \A i, j \in 1 .. Len(c) : c[i] = c[j] => i = j
  BY <1>1, LenProperties, ElementOfSeq, NullAssumption DEF IsInjective
<1>3. /\ l.first \in Nodes \cup {NULL} /\ l.size \in Int
      /\ l.next \in [Nodes -> Nodes \cup {NULL}] /\ l.live \in SUBSET Nodes
  BY DEF LinkStates
<1>4. /\ m.next = linked
      /\ m.first = IF l.first = c[k] THEN linked[c[k]] ELSE l.first
      /\ m.live = l.live \ {c[k]}
      /\ m.size = l.size - 1
  BY DEF linkedlist_remove_node
<1>5. /\ d \in Seq(Nodes)
      /\ Len(d) = Len(c) - 1
      /\ \A i \in 1 .. Len(c) - 1 : d[i] = IF i < k THEN c[i] ELSE c[i + 1]
  BY <1>1, RemoveAtElements
<1>6. linked \in [Nodes -> Nodes \cup {NULL}]
  BY <1>2, <1>3
<1>7. m \in LinkStates
  <2>1. m.first \in Nodes \cup {NULL}
    BY <1>2, <1>3, <1>4, <1>6
  <2> QED
    BY <1>3, <1>4, <1>6, <2>1 DEF LinkStates, linkedlist_remove_node
<1> HIDE DEF m, d
<1>8. DOMAIN d = 1 .. Len(c) - 1
  BY <1>5, LenProperties
<1>9. IsInjective(d)
  <2> SUFFICES ASSUME NEW i \in 1 .. Len(c) - 1, NEW j \in 1 .. Len(c) - 1, d[i] = d[j]
               PROVE  i = j
    BY <1>8 DEF IsInjective
  <2> DEFINE x == IF i < k THEN i ELSE i + 1
             y == IF j < k THEN j ELSE j + 1
  <2>1. x \in 1 .. Len(c) /\ y \in 1 .. Len(c) /\ (x = y => i = j)
    BY <1>2
  <2>2. d[i] = c[x] /\ d[j] = c[y]
    BY <1>5
  <2> HIDE DEF x, y
  <2> QED
    BY <1>2, <2>1, <2>2
<1>10. ToSet(d) \subseteq m.live
  <2> SUFFICES ASSUME NEW i \in 1 .. Len(c) - 1
               PROVE  d[i] \in l.live /\ d[i] # c[k]
    BY <1>4, <1>8 DEF ToSet
  <2>1. PICK j \in 1 .. Len(c) : d[i] = c[j] /\ j # k
    BY <1>2, <1>5
  <2>2. c[j] \in ToSet(c)
    BY <1>1, LenProperties DEF ToSet
  <2> QED
    BY <1>1, <1>2, <2>1, <2>2
<1>11. m.first = At(d, 1)
  <2>1. CASE k = 1
    <3>1. m.first = At(c, 2)
      BY <1>1, <1>2, <1>4, <2>1 DEF At
    <3>2. At(d, 1) = At(c, 2)
      BY <1>2, <1>5, <2>1 DEF At
    <3> QED
      BY <3>1, <3>2
  <2>2. CASE k # 1
    <3>1. l.first = c[1] /\ c[1] # c[k]
      BY <1>1, <1>2, <2>2 DEF At
    <3>2. At(d, 1) = c[1]
      BY <1>2, <1>5, <2>2 DEF At
    <3> QED
      BY <1>4, <3>1, <3>2
  <2> QED
    BY <2>1, <2>2
<1>12. ASSUME NEW i \in 1 .. Len(d)
       PROVE  m.next[d[i]] = At(d, i + 1)
  <2>1. i \in 1 .. Len(c) - 1 /\ Len(d) = Len(c) - 1
    BY <1>5
  <2>2. CASE i + 1 < k
    <3>0. i \in 1 .. Len(c) /\ i + 1 \in 1 .. Len(c) - 1 /\ i < k /\ i + 1 <= Len(c)
      BY <1>2, <2>1, <2>2
    <3>1. d[i] = c[i] /\ At(d, i + 1) = c[i + 1] /\ i \in 1 .. Len(c)
      BY <1>5, <2>1, <2>2, <3>0 DEF At
    <3>2. l.next[c[i]] = c[i + 1]
      BY <1>1, <3>0 DEF At
    <3>3. k # 1 /\ previous = c[k - 1] /\ k - 1 \in 1 .. Len(c) /\ i # k - 1
      BY <1>2, <2>1, <2>2
    <3>4. previous # c[i] /\ c[i] \in Nodes
      BY <1>2, <3>1, <3>3
    <3> QED
      BY <1>3, <1>4, <3>1, <3>2, <3>4
  <2>3. CASE i + 1 = k
    <3>1. d[i] = c[i] /\ i \in 1 .. Len(c) /\ previous = c[i] /\ c[i] \in Nodes
      BY <1>2, <1>5, <2>1, <2>3
    <3>2. m.next[c[i]] = l.next[c[k]]
      BY <1>2, <1>3, <1>4, <3>1
    <3>3. l.next[c[k]] = At(c, k + 1)
      BY <1>1
    <3>4. At(d, i + 1) = At(c, k + 1)
      BY <1>2, <1>5, <2>1, <2>3 DEF At
    <3> QED
      BY <3>1, <3>2, <3>3, <3>4
  <2>4. CASE i + 1 > k
    <3>1. d[i] = c[i + 1] /\ i + 1 \in 1 .. Len(c)
      BY <1>2, <1>5, <2>1, <2>4
    <3>2. l.next[c[i + 1]] = At(c, i + 1 + 1)
      BY <1>1, <3>1
    <3>3. At(d, i + 1) = At(c, i + 1 + 1)
      BY <1>2, <1>5, <2>1, <2>4 DEF At
    <3>4. c[i + 1] # previous /\ c[i + 1] \in Nodes
      BY <1>2, <2>4, <3>1
    <3>5. m.next[c[i + 1]] = l.next[c[i + 1]]
      BY <1>3, <1>4, <3>4
    <3> QED
      BY <3>1, <3>2, <3>3, <3>5
  <2> QED
    BY <2>1, <2>2, <2>3, <2>4
<1>13. m.size = Len(d)
  BY <1>1, <1>4, <1>5
<1>14. IsChain(m, d)
  BY <1>5, <1>9, <1>10, <1>11, <1>12, <1>13 DEF IsChain
<1> QED
  BY <1>7, <1>14 DEF m, d

(***************************************************************************)
(* What is left of the first elements, one element at a time.              *)
(***************************************************************************)
LEMMA KeptStep ==
  ASSUME NEW S, NEW s \in Seq(S), NEW gone
  PROVE  /\ Abstract!Kept(s, gone) \in [0 .. Len(s) -> Seq(S)]
         /\ Abstract!Kept(s, gone)[0] = << >>
         /\ \A i \in 1 .. Len(s) :
              Abstract!Kept(s, gone)[i] =
                IF i \in gone THEN Abstract!Kept(s, gone)[i - 1]
                              ELSE Append(Abstract!Kept(s, gone)[i - 1], s[i])
<1> DEFINE n == Len(s)
           Q == Seq(S)
           none == << >>
           step == [i \in 1 .. n |-> [q \in Q |-> IF i \in gone THEN q ELSE Append(q, s[i])]]
<1>1. n \in Nat /\ none \in Q
  BY LenProperties
<1>2. \A i \in 1 .. n, q \in Q : Append(q, s[i]) \in Q
  BY ElementOfSeq, AppendProperties
<1> HIDE DEF Q
<1>3. step \in [1 .. n -> [Q -> Q]]
  BY <1>2
<1>4. PICK f \in [0 .. n -> Q] : f[0] = none /\ \A i \in 1 .. n : f[i] = step[i][f[i - 1]]
  <2> HIDE DEF n, none, step
  <2> QED
    BY <1>1, <1>3, Recursion
<1>5. \A i \in 0 .. n : i # 0 => i \in 1 .. n /\ i - 1 \in 0 .. n
  BY <1>1
<1>6. \A i \in 1 .. n : f[i] = IF i \in gone THEN f[i - 1] ELSE Append(f[i - 1], s[i])
  BY <1>1, <1>4, <1>5
<1>7. f = [i \in 0 .. n |-> IF i = 0 THEN << >>
                            ELSE IF i \in gone THEN f[i - 1] ELSE Append(f[i - 1], s[i])]
  <2> HIDE DEF step
  <2> QED
    BY <1>4, <1>5, <1>6
<1> DEFINE K == Abstract!Kept(s, gone)
<1>8. K = [i \in 0 .. n |-> IF i = 0 THEN << >>
                            ELSE IF i \in gone THEN K[i - 1] ELSE Append(K[i - 1], s[i])]
  BY <1>7 DEF Abstract!Kept
<1> HIDE DEF K
<1>9. K[0] = << >> /\ \A i \in 1 .. n :
        K[i] = IF i \in gone THEN K[i - 1] ELSE Append(K[i - 1], s[i])
  <2>1. K[0] = << >>
    BY <1>1, <1>8
  <2>2. ASSUME NEW i \in 1 .. n
        PROVE  K[i] = IF i \in gone THEN K[i - 1] ELSE Append(K[i - 1], s[i])
    <3>1. i \in 0 .. n /\ i # 0
      BY <1>1
    <3> HIDE DEF n
    <3> QED
      BY <1>8, <3>1
  <2> QED
    BY <2>1, <2>2
<1>10. \A i \in 0 .. n : K[i] \in Q
  <2> DEFINE P == {i \in Nat : K[i] \in Q}
  <2>1. 0 \in P
    BY <1>1, <1>9
  <2>2. ASSUME NEW i \in 0 .. n, i < n, i \in P PROVE i + 1 \in P
    <3>1. i + 1 \in 1 .. n /\ i + 1 - 1 = i /\ i + 1 \in Nat /\ K[i] \in Q
      BY <1>1, <2>2
    <3>2. K[i + 1] = IF i + 1 \in gone THEN K[i] ELSE Append(K[i], s[i + 1])
      BY <1>9, <3>1
    <3>3. Append(K[i], s[i + 1]) \in Q
      BY <1>2, <3>1
    <3> QED
      BY <3>1, <3>2, <3>3
  <2>3. 0 .. n \subseteq P
    <3> HIDE DEF P, n
    <3> QED
      BY <1>1, <2>1, <2>2, InductionUpTo
  <2> QED
    BY <2>3
<1>11. K \in [0 .. n -> Q]
  BY <1>8, <1>10
<1> QED
  BY <1>9, <1>11 DEF K, Q

(***************************************************************************)
(* The answers on which linkedlist_iter_with_action removes an element.    *)
(***************************************************************************)
Drops(ask, i) == ask[i] \in {"REMOVE_AND_RETURN", "REMOVE_AND_NEXT"}

(***************************************************************************)
(* linkedlist_remove_node keeps the fields' types.                         *)
(***************************************************************************)
LEMMA RemoveNodeType ==
  ASSUME NEW l \in LinkStates, NEW previous \in Nodes \cup {NULL}, NEW removed \in Nodes
  PROVE  linkedlist_remove_node(l, previous, removed) \in LinkStates
<1>1. /\ l.first \in Nodes \cup {NULL} /\ l.size \in Int
      /\ l.next \in [Nodes -> Nodes \cup {NULL}] /\ l.live \in SUBSET Nodes
  BY DEF LinkStates
<1> DEFINE linked == IF previous = NULL THEN l.next
                                        ELSE [l.next EXCEPT ![previous] = l.next[removed]]
<1>2. linked \in [Nodes -> Nodes \cup {NULL}]
  BY <1>1
<1>3. linkedlist_remove_node(l, previous, removed) =
        [next  |-> linked,
         first |-> IF l.first = removed THEN linked[removed] ELSE l.first,
         live  |-> l.live \ {removed},
         size  |-> l.size - 1]
  BY DEF linkedlist_remove_node
<1> HIDE DEF linked
<1> QED
  BY <1>1, <1>2, <1>3 DEF LinkStates

(***************************************************************************)
(* linkedlist_iter_with_action goes over the nodes one at a time.          *)
(***************************************************************************)
LEMMA RemovalsStep ==
  ASSUME TypeOK, IsChain(Links, Walk), NEW ask
  PROVE  /\ Removals(ask)[0] = Links
         /\ \A i \in 1 .. Len(Walk) :
              Removals(ask)[i] =
                IF Drops(ask, i)
                  THEN linkedlist_remove_node(Removals(ask)[i - 1], Before(i), Walk[i])
                  ELSE Removals(ask)[i - 1]
<1> DEFINE n == Len(Walk)
           removed(l, i) == linkedlist_remove_node(l, Before(i), Walk[i])
           step == [i \in 1 .. n |->
                      [l \in LinkStates |-> IF Drops(ask, i) THEN removed(l, i) ELSE l]]
<1>1. n \in Nat /\ \A i \in 1 .. n : Walk[i] \in Nodes
  BY LenProperties, ElementOfSeq DEF IsChain
<1>2. Links \in LinkStates
  BY FS_CardinalityType, NodesAssumption DEF Links, LinkStates, TypeOK
<1>3. \A i \in 1 .. n : Before(i) \in Nodes \cup {NULL}
  BY <1>1 DEF Before
<1>4. \A i \in 1 .. n, l \in LinkStates : removed(l, i) \in LinkStates
  BY <1>1, <1>3, RemoveNodeType
<1> HIDE DEF removed
<1>5. step \in [1 .. n -> [LinkStates -> LinkStates]]
  BY <1>4
<1>6. PICK f \in [0 .. n -> LinkStates] :
             f[0] = Links /\ \A i \in 1 .. n : f[i] = step[i][f[i - 1]]
  <2> HIDE DEF n, step
  <2> QED
    BY <1>1, <1>2, <1>5, Recursion
<1>7. \A i \in 0 .. n : i # 0 => i \in 1 .. n /\ i - 1 \in 0 .. n
  BY <1>1
<1>8. \A i \in 1 .. n : f[i] = IF Drops(ask, i) THEN removed(f[i - 1], i) ELSE f[i - 1]
  <2> SUFFICES ASSUME NEW i \in 1 .. n
               PROVE  f[i] = IF Drops(ask, i) THEN removed(f[i - 1], i) ELSE f[i - 1]
    OBVIOUS
  <2>1. f[i - 1] \in LinkStates
    <3>1. i - 1 \in 0 .. n
      BY <1>1
    <3> QED
      BY <3>1
  <2>2. f[i] = step[i][f[i - 1]]
    BY <1>6
  <2>3. \A l \in LinkStates : step[i][l] = IF Drops(ask, i) THEN removed(l, i) ELSE l
    OBVIOUS
  <2> HIDE DEF step
  <2> QED
    BY <2>1, <2>2, <2>3
<1>9. f = [i \in 0 .. n |-> IF i = 0 THEN Links
                            ELSE IF Drops(ask, i) THEN removed(f[i - 1], i) ELSE f[i - 1]]
  <2> HIDE DEF step
  <2> QED
    BY <1>6, <1>7, <1>8
<1> DEFINE R == Removals(ask)
<1>10. R = [i \in 0 .. n |-> IF i = 0 THEN Links
                             ELSE IF Drops(ask, i) THEN removed(R[i - 1], i) ELSE R[i - 1]]
  BY <1>9 DEF Removals, Drops, removed
<1> HIDE DEF R
<1>11. R[0] = Links
  BY <1>1, <1>10
<1>12. ASSUME NEW i \in 1 .. n
       PROVE  R[i] = IF Drops(ask, i) THEN removed(R[i - 1], i) ELSE R[i - 1]
  <2>1. i \in 0 .. n /\ i # 0
    BY <1>1
  <2> HIDE DEF n
  <2> QED
    BY <1>10, <2>1
<1> QED
  BY <1>11, <1>12 DEF R, removed

(***************************************************************************)
(* A pass that never removes two neighbours leaves the chain of the nodes  *)
(* it kept and of those it did not come to: when it removes a node, the    *)
(* one before it, which it gives to linkedlist_remove_node, is still in    *)
(* the list.                                                               *)
(***************************************************************************)
LEMMA PassChain ==
  ASSUME TypeOK, IsChain(Links, Walk), NEW ask, NEW end \in 0 .. Len(Walk), NEW gone,
         \A i \in 1 .. end : i \in gone <=> Drops(ask, i),
         \A i \in 1 .. end : i + 1 <= end => ~ (Drops(ask, i) /\ Drops(ask, i + 1))
  PROVE  /\ Removals(ask)[end] \in LinkStates
         /\ IsChain(Removals(ask)[end],
                    Abstract!Kept(Walk, gone)[end] \o SubSeq(Walk, end + 1, Len(Walk)))
<1> DEFINE n == Len(Walk)
           K == Abstract!Kept(Walk, gone)
           R == Removals(ask)
           Rest(i) == K[i] \o SubSeq(Walk, i + 1, n)
           Good(i) == /\ R[i] \in LinkStates
                      /\ IsChain(R[i], Rest(i))
                      /\ i = 0 => K[i] = << >>
                      /\ i # 0 /\ ~ Drops(ask, i) => Len(K[i]) # 0 /\ K[i][Len(K[i])] = Walk[i]
<1>1. Walk \in Seq(Nodes) /\ n \in Nat
  BY LenProperties DEF IsChain
<1>2. /\ K \in [0 .. n -> Seq(Nodes)]
      /\ K[0] = << >>
      /\ \A i \in 1 .. n : K[i] = IF i \in gone THEN K[i - 1] ELSE Append(K[i - 1], Walk[i])
  BY <1>1, KeptStep
<1>3. /\ R[0] = Links
      /\ \A i \in 1 .. n :
           R[i] = IF Drops(ask, i) THEN linkedlist_remove_node(R[i - 1], Before(i), Walk[i])
                                   ELSE R[i - 1]
  BY RemovalsStep
<1>4. Links \in LinkStates
  BY FS_CardinalityType, NodesAssumption DEF Links, LinkStates, TypeOK
<1> HIDE DEF K, R
<1>5. Good(0)
  <2>1. SubSeq(Walk, 0 + 1, n) = Walk
    BY <1>1, SubSeqFull
  <2>2. Rest(0) = Walk
    BY <1>1, <1>2, <2>1, ConcatEmptySeq
  <2> QED
    BY <1>2, <1>3, <1>4, <2>2
<1>6. ASSUME NEW i \in 0 .. end, i < end, Good(i)
      PROVE  Good(i + 1)
  <2> DEFINE j == i + 1
             q == K[i]
             w == q \o SubSeq(Walk, j, n)
  <2>1. j \in 1 .. n /\ j \in 1 .. end /\ j - 1 = i /\ j \in Int /\ j # 0
    BY <1>1, <1>6
  <2>2. q \in Seq(Nodes)
    BY <1>1, <1>2
  <2>3. /\ w = Append(q, Walk[j]) \o SubSeq(Walk, j + 1, n)
        /\ RemoveAt(w, Len(q) + 1) = q \o SubSeq(Walk, j + 1, n)
        /\ Len(q) + 1 \in 1 .. Len(w)
        /\ w[Len(q) + 1] = Walk[j]
        /\ \A k \in 1 .. Len(q) : w[k] = q[k]
    <3>1. j \in 1 .. Len(Walk)
      BY <2>1
    <3> HIDE DEF q, j, n
    <3>2. n = Len(Walk)
      BY DEF n
    <3>3. w = Append(q, Walk[j]) \o SubSeq(Walk, j + 1, n)
      BY <1>1, <2>2, <3>1, <3>2, PassKeeps
    <3>4. RemoveAt(w, Len(q) + 1) = q \o SubSeq(Walk, j + 1, n)
      BY <1>1, <2>2, <3>1, <3>2, PassRemoves
    <3>5. /\ Len(w) = Len(q) + 1 + (Len(Walk) - j)
          /\ w[Len(q) + 1] = Walk[j]
          /\ \A k \in 1 .. Len(q) : w[k] = q[k]
      BY <1>1, <2>2, <3>1, <3>2, PassAt
    <3>6. Len(q) + 1 \in 1 .. Len(w)
      <4>1. Len(q) \in Nat /\ Len(Walk) \in Nat
        BY <1>1, <2>2, LenProperties
      <4> HIDE DEF w
      <4> QED
        BY <3>1, <3>5, <4>1
    <3> QED
      BY <3>3, <3>4, <3>5, <3>6
  <2>4. R[i] \in LinkStates /\ IsChain(R[i], w)
    BY <1>6
  <2>5. CASE ~ Drops(ask, j)
    <3>1. j \notin gone
      BY <2>1, <2>5
    <3>2. K[j] = Append(q, Walk[j]) /\ R[j] = R[i]
      <4> HIDE DEF j
      <4> QED
        BY <1>2, <1>3, <2>1, <2>5, <3>1
    <3>3. Rest(j) = w
      BY <2>3, <3>2
    <3>4. Len(K[j]) # 0 /\ K[j][Len(K[j])] = Walk[j]
      <4>1. Walk[j] \in Nodes /\ Len(q) \in Nat
        BY <1>1, <2>1, <2>2, ElementOfSeq, LenProperties
      <4> HIDE DEF q, j
      <4> QED
        BY <2>2, <3>2, <4>1, AppendProperties
    <3> HIDE DEF w
    <3> QED
      BY <2>1, <2>4, <3>2, <3>3, <3>4
  <2>6. CASE Drops(ask, j)
    <3>1. j \in gone
      BY <2>1, <2>6
    <3>2. K[j] = q /\ R[j] = linkedlist_remove_node(R[i], Before(j), w[Len(q) + 1])
      <4> HIDE DEF j, w
      <4> QED
        BY <1>2, <1>3, <2>1, <2>3, <2>6, <3>1
    <3>3. Before(j) = IF Len(q) + 1 = 1 THEN NULL ELSE w[Len(q) + 1 - 1]
      <4>1. CASE i = 0
        <5>1. q = << >> /\ Len(q) = 0
          BY <1>2, <4>1
        <5> QED
          BY <4>1, <5>1 DEF Before
      <4>2. CASE i # 0
        <5>1. i \in 1 .. end /\ i + 1 <= end
          BY <1>6, <4>2
        <5>2. ~ Drops(ask, i)
          BY <2>6, <5>1
        <5>3. Len(q) # 0 /\ q[Len(q)] = Walk[i] /\ Len(q) \in Nat
          BY <1>6, <2>2, <4>2, <5>2, LenProperties
        <5>4. w[Len(q)] = Walk[i]
          <6>1. Len(q) \in 1 .. Len(q)
            BY <5>3
          <6> HIDE DEF w, q
          <6> QED
            BY <2>3, <5>3, <6>1
        <5>5. Before(j) = Walk[i]
          BY <2>1, <4>2 DEF Before
        <5> HIDE DEF w, q, j
        <5> QED
          BY <5>3, <5>4, <5>5
      <4> QED
        BY <4>1, <4>2
    <3>4. R[j] \in LinkStates /\ IsChain(R[j], RemoveAt(w, Len(q) + 1))
      <4> HIDE DEF w, q, j
      <4> DEFINE p == Len(q) + 1
                 l == R[i]
                 before == Before(j)
      <4>1. /\ l \in LinkStates /\ IsChain(l, w) /\ p \in 1 .. Len(w)
            /\ before = IF p = 1 THEN NULL ELSE w[p - 1]
        <5>1. l \in LinkStates /\ IsChain(l, w)
          BY <2>4
        <5>2. p \in 1 .. Len(w)
          BY <2>3
        <5>3. before = IF p = 1 THEN NULL ELSE w[p - 1]
          BY <3>3
        <5> HIDE DEF p, l, before
        <5> QED
          BY <5>1, <5>2, <5>3
      <4>2. R[j] = linkedlist_remove_node(l, before, w[p])
        BY <3>2
      <4> HIDE DEF p, l, before
      <4>3. linkedlist_remove_node(l, before, w[p]) \in LinkStates
        BY <4>1, RemoveNodeChain
      <4>4. IsChain(linkedlist_remove_node(l, before, w[p]), RemoveAt(w, p))
        BY <4>1, RemoveNodeChain
      <4> QED
        BY <4>2, <4>3, <4>4 DEF p
    <3>5. Rest(j) = RemoveAt(w, Len(q) + 1)
      BY <2>3, <3>2
    <3> HIDE DEF w
    <3> QED
      BY <2>1, <2>6, <3>4, <3>5
  <2> QED
    BY <2>5, <2>6
<1>7. Good(end)
  <2> DEFINE P == {i \in Nat : Good(i)}
  <2> HIDE DEF Good
  <2>1. 0 \in P
    BY <1>5
  <2>2. \A i \in 0 .. end : i < end /\ i \in P => i + 1 \in P
    BY <1>1, <1>6
  <2>3. 0 .. end \subseteq P
    <3> HIDE DEF P
    <3> QED
      BY <1>1, <2>1, <2>2, InductionUpTo
  <2> QED
    BY <1>1, <2>3
<1> QED
  BY <1>7 DEF K, R

(***************************************************************************)
(* The elements in the nodes of c.                                         *)
(***************************************************************************)
Vals(v, c) == [i \in DOMAIN c |-> v[c[i]]]

(***************************************************************************)
(* The elements in a sequence of nodes, position by position.              *)
(***************************************************************************)
LEMMA ValsAre ==
  ASSUME NEW v \in [Nodes -> Values], NEW c \in Seq(Nodes)
  PROVE  /\ Vals(v, c) \in Seq(Values)
         /\ Len(Vals(v, c)) = Len(c)
         /\ \A i \in 1 .. Len(c) : Vals(v, c)[i] = v[c[i]]
<1>1. Len(c) \in Nat /\ DOMAIN c = 1 .. Len(c) /\ \A i \in 1 .. Len(c) : c[i] \in Nodes
  BY LenProperties, ElementOfSeq
<1> DEFINE x == Vals(v, c)
<1>2. x = [i \in 1 .. Len(c) |-> v[c[i]]]
  BY <1>1 DEF Vals
<1>3. x \in [1 .. Len(c) -> Values]
  BY <1>1, <1>2
<1> HIDE DEF x
<1>4. x \in Seq(Values) /\ Len(x) = Len(c)
  BY <1>1, <1>3
<1> QED
  BY <1>2, <1>4 DEF x

(***************************************************************************)
(* The elements after a node is appended.                                  *)
(***************************************************************************)
LEMMA ValsAppend ==
  ASSUME NEW v \in [Nodes -> Values], NEW c \in Seq(Nodes), NEW n \in Nodes
  PROVE  Vals(v, Append(c, n)) = Append(Vals(v, c), v[n])
<1> DEFINE a == Append(c, n)
           x == Vals(v, a)
           y == Vals(v, c)
           z == Append(y, v[n])
           m == Len(c)
<1>1. /\ a \in Seq(Nodes) /\ Len(a) = m + 1
      /\ \A i \in 1 .. m : a[i] = c[i]
      /\ a[m + 1] = n
  BY AppendProperties
<1>2. m \in Nat /\ v[n] \in Values
  BY LenProperties
<1> HIDE DEF a
<1>3. x \in Seq(Values) /\ Len(x) = m + 1 /\ \A i \in 1 .. m + 1 : x[i] = v[a[i]]
  BY <1>1, ValsAre
<1>4. y \in Seq(Values) /\ Len(y) = m /\ \A i \in 1 .. m : y[i] = v[c[i]]
  BY ValsAre
<1> HIDE DEF x, y
<1>5. /\ z \in Seq(Values) /\ Len(z) = m + 1
      /\ \A i \in 1 .. m : z[i] = y[i]
      /\ z[m + 1] = v[n]
  BY <1>2, <1>4, AppendProperties
<1> HIDE DEF z, m
<1>6. ASSUME NEW i \in 1 .. m + 1 PROVE x[i] = z[i]
  <2>1. CASE i \in 1 .. m
    <3>1. i \in 1 .. m + 1 /\ x[i] = v[a[i]]
      BY <1>3
    <3>2. a[i] = c[i]
      BY <1>1, <2>1
    <3>3. y[i] = v[c[i]]
      BY <1>4, <2>1
    <3>4. z[i] = y[i]
      BY <1>5, <2>1
    <3> QED
      BY <3>1, <3>2, <3>3, <3>4
  <2>2. CASE i = m + 1
    <3>1. x[i] = v[a[i]]
      BY <1>3
    <3> QED
      BY <1>1, <1>5, <2>2, <3>1
  <2> QED
    BY <1>2, <2>1, <2>2
<1>7. x = z
  BY <1>3, <1>5, <1>6, SeqEqual
<1> QED
  BY <1>7 DEF a, x, y, z

(***************************************************************************)
(* The elements of two sequences of nodes, one after the other.            *)
(***************************************************************************)
LEMMA ValsJoin ==
  ASSUME NEW v \in [Nodes -> Values], NEW b \in Seq(Nodes), NEW c \in Seq(Nodes)
  PROVE  Vals(v, b \o c) = Vals(v, b) \o Vals(v, c)
<1> DEFINE a == b \o c
           m == Len(b)
           n == Len(c)
           x == Vals(v, a)
           y == Vals(v, b)
           z == Vals(v, c)
           w == y \o z
<1>1. /\ m \in Nat /\ n \in Nat
      /\ a \in Seq(Nodes) /\ Len(a) = m + n
      /\ \A i \in 1 .. m : a[i] = b[i]
      /\ \A i \in 1 .. n : a[m + i] = c[i]
  BY JoinElements
<1> HIDE DEF a
<1>2. x \in Seq(Values) /\ Len(x) = m + n /\ \A i \in 1 .. m + n : x[i] = v[a[i]]
  <2> HIDE DEF m, n
  <2>1. x \in Seq(Values) /\ Len(x) = Len(a) /\ \A i \in 1 .. Len(a) : x[i] = v[a[i]]
    BY <1>1, ValsAre
  <2> QED
    BY <1>1, <2>1
<1>3. /\ y \in Seq(Values) /\ Len(y) = m /\ \A i \in 1 .. m : y[i] = v[b[i]]
      /\ z \in Seq(Values) /\ Len(z) = n /\ \A i \in 1 .. n : z[i] = v[c[i]]
  BY ValsAre
<1> HIDE DEF x, y, z, m, n
<1>4. /\ w \in Seq(Values) /\ Len(w) = m + n
      /\ \A i \in 1 .. m : w[i] = y[i]
      /\ \A i \in 1 .. n : w[m + i] = z[i]
  BY <1>3, JoinElements
<1> HIDE DEF w
<1>5. ASSUME NEW i \in 1 .. m + n PROVE x[i] = w[i]
  <2>1. CASE i \in 1 .. m
    BY <1>1, <1>2, <1>3, <1>4, <2>1
  <2>2. CASE ~ (i \in 1 .. m)
    <3> DEFINE j == i - m
    <3>1. j \in 1 .. n /\ i = m + j
      BY <1>1, <2>2
    <3> HIDE DEF j
    <3>2. x[i] = v[c[j]]
      BY <1>1, <1>2, <3>1
    <3>3. w[i] = v[c[j]]
      BY <1>3, <1>4, <3>1
    <3> QED
      BY <3>2, <3>3
  <2> QED
    BY <2>1, <2>2
<1>6. x = w
  BY <1>2, <1>4, <1>5, SeqEqual
<1> QED
  BY <1>6 DEF a, x, y, z, w

(***************************************************************************)
(* The elements from a position on.                                        *)
(***************************************************************************)
LEMMA ValsRest ==
  ASSUME NEW v \in [Nodes -> Values], NEW c \in Seq(Nodes), NEW k \in 0 .. Len(c)
  PROVE  /\ SubSeq(c, k + 1, Len(c)) \in Seq(Nodes)
         /\ Vals(v, SubSeq(c, k + 1, Len(c))) = SubSeq(Vals(v, c), k + 1, Len(Vals(v, c)))
<1> DEFINE m == Len(c)
           a == SubSeq(c, k + 1, m)
           x == Vals(v, a)
           y == Vals(v, c)
           z == SubSeq(y, k + 1, m)
<1>1. m \in Nat /\ \A i \in 1 .. m : c[i] \in Nodes
  BY LenProperties, ElementOfSeq
<1>2. /\ a \in Seq(Nodes) /\ Len(a) = m - k
      /\ \A i \in 1 .. m - k : a[i] = c[k + i]
  <2>1. /\ a \in Seq(Nodes) /\ Len(a) = m - k
        /\ \A i \in 1 .. m - k : a[i] = c[k + 1 + i - 1]
    BY <1>1, SubSeqProperties
  <2> QED
    BY <1>1, <2>1
<1> HIDE DEF a
<1>3. y \in Seq(Values) /\ Len(y) = m /\ \A i \in 1 .. m : y[i] = v[c[i]]
  BY ValsAre
<1>4. x \in Seq(Values) /\ Len(x) = m - k /\ \A i \in 1 .. m - k : x[i] = v[a[i]]
  BY <1>2, ValsAre
<1> HIDE DEF x, y
<1>5. /\ z \in Seq(Values) /\ Len(z) = m - k
      /\ \A i \in 1 .. m - k : z[i] = y[k + i]
  <2>0. \A i \in k + 1 .. m : y[i] \in Values
    BY <1>1, <1>3, ElementOfSeq
  <2>1. /\ z \in Seq(Values) /\ Len(z) = m - k
        /\ \A i \in 1 .. m - k : z[i] = y[k + 1 + i - 1]
    BY <1>1, <2>0, SubSeqProperties
  <2> QED
    BY <1>1, <2>1
<1> HIDE DEF z
<1>6. ASSUME NEW i \in 1 .. m - k PROVE x[i] = z[i]
  <2>1. k + i \in 1 .. m
    BY <1>1
  <2> HIDE DEF m
  <2>2. x[i] = v[c[k + i]]
    BY <1>2, <1>4
  <2>3. z[i] = y[k + i] /\ y[k + i] = v[c[k + i]]
    BY <1>3, <1>5, <2>1
  <2> QED
    BY <2>2, <2>3
<1>7. x = z
  BY <1>4, <1>5, <1>6, SeqEqual
<1> QED
  BY <1>2, <1>3, <1>7 DEF a, x, y, z

(***************************************************************************)
(* Keeping some of the nodes keeps their elements.                         *)
(***************************************************************************)
LEMMA ValsKept ==
  ASSUME NEW v \in [Nodes -> Values], NEW c \in Seq(Nodes), NEW gone,
         NEW end \in 0 .. Len(c)
  PROVE  Vals(v, Abstract!Kept(c, gone)[end]) = Abstract!Kept(Vals(v, c), gone)[end]
<1> DEFINE n == Len(c)
           y == Vals(v, c)
           K == Abstract!Kept(c, gone)
           L == Abstract!Kept(y, gone)
<1>1. n \in Nat /\ \A i \in 1 .. n : c[i] \in Nodes
  BY LenProperties, ElementOfSeq
<1>2. y \in Seq(Values) /\ Len(y) = n /\ \A i \in 1 .. n : y[i] = v[c[i]]
  BY ValsAre
<1>3. /\ K \in [0 .. n -> Seq(Nodes)]
      /\ K[0] = << >>
      /\ \A i \in 1 .. n : K[i] = IF i \in gone THEN K[i - 1] ELSE Append(K[i - 1], c[i])
  BY KeptStep
<1> HIDE DEF K, y, n
<1>4. /\ L[0] = << >>
      /\ \A i \in 1 .. n : L[i] = IF i \in gone THEN L[i - 1] ELSE Append(L[i - 1], y[i])
  <2>1. /\ L[0] = << >>
        /\ \A i \in 1 .. Len(y) :
             L[i] = IF i \in gone THEN L[i - 1] ELSE Append(L[i - 1], y[i])
    BY <1>2, KeptStep
  <2> QED
    BY <1>2, <2>1
<1> HIDE DEF L
<1> DEFINE P == {i \in Nat : Vals(v, K[i]) = L[i]}
<1>5. 0 \in P
  BY <1>3, <1>4 DEF Vals
<1>6. ASSUME NEW i \in 0 .. end, i < end, i \in P PROVE i + 1 \in P
  <2> DEFINE j == i + 1
  <2>1. j \in 1 .. n /\ j - 1 = i /\ j \in Nat /\ i \in 0 .. n
    BY <1>1, <1>6 DEF n
  <2>2. K[i] \in Seq(Nodes) /\ Vals(v, K[i]) = L[i]
    BY <1>3, <1>6, <2>1
  <2> HIDE DEF j
  <2>3. ASSUME j \in gone PROVE Vals(v, K[j]) = L[j]
    BY <1>3, <1>4, <2>1, <2>2, <2>3
  <2>4. ASSUME j \notin gone PROVE Vals(v, K[j]) = L[j]
    <3>1. K[j] = Append(K[i], c[j]) /\ L[j] = Append(L[i], v[c[j]])
      BY <1>2, <1>3, <1>4, <2>1, <2>4
    <3>2. Vals(v, Append(K[i], c[j])) = Append(Vals(v, K[i]), v[c[j]])
      BY <1>1, <2>1, <2>2, ValsAppend
    <3> QED
      BY <2>2, <3>1, <3>2
  <2>5. j \in P
    BY <2>1, <2>3, <2>4
  <2> QED
    BY <2>5 DEF j
<1>7. 0 .. end \subseteq P
  <2>1. end \in Nat
    BY <1>1 DEF n
  <2> HIDE DEF P
  <2> QED
    BY <1>5, <1>6, <2>1, InductionUpTo
<1>8. end \in P
  BY <1>1, <1>7 DEF n
<1> QED
  BY <1>8 DEF K, L, y

(***************************************************************************)
(* After a step to links in which d is the list, the invariant holds and   *)
(* the elements are those in the nodes of d.                               *)
(***************************************************************************)
LEMMA ChainAfter ==
  ASSUME NEW d, IsChain(Links, d)', exists' = TRUE,
         first' \in Nodes \cup {NULL}, next' \in [Nodes -> Nodes \cup {NULL}],
         val' \in [Nodes -> Values], live' \in SUBSET Nodes
  PROVE  ListInv' /\ Elements' = Vals(val', d)
<1>1. d \in Seq(Nodes) /\ IsInjective(d) /\ size' = Len(d)
  BY DEF IsChain, Links
<1>2. size' \in 0 .. Cardinality(Nodes)
  BY <1>1, ChainLength
<1>3. TypeOK'
  BY <1>2 DEF TypeOK
<1>4. Walk' = d
  BY <1>3, WalkIsChainAfter
<1>5. IsChain(Links, Walk)'
  BY <1>4
<1>6. ListInv'
  BY <1>3, <1>5 DEF ListInv
<1>7. Elements' = Vals(val', d)
  BY <1>4 DEF Elements, Vals
<1> QED
  BY <1>6, <1>7

(***************************************************************************)
(* The same for a step that sets the links and leaves the values alone, as *)
(* every removal does.                                                     *)
(***************************************************************************)
LEMMA LinksAfter ==
  ASSUME ListInv, exists, NEW l \in LinkStates, NEW d, IsChain(l, d),
         SetLinks(l), UNCHANGED <<val, exists>>
  PROVE  ListInv' /\ Elements' = Vals(val, d)
<1>1. /\ first' = l.first /\ size' = l.size /\ next' = l.next /\ live' = l.live
      /\ val' = val /\ exists' = TRUE
  BY DEF SetLinks, ListInv, TypeOK
<1>2. /\ l.first \in Nodes \cup {NULL}
      /\ l.next \in [Nodes -> Nodes \cup {NULL}] /\ l.live \in SUBSET Nodes
  BY DEF LinkStates
<1>3. Links' = l
  BY <1>1 DEF Links, LinkStates
<1>4. IsChain(Links, d)'
  BY <1>3
<1>5. val' \in [Nodes -> Values]
  BY <1>1 DEF ListInv, TypeOK
<1> QED
  BY <1>1, <1>2, <1>4, <1>5, ChainAfter

(***************************************************************************)
(* The list, its links and its elements before a call.                     *)
(***************************************************************************)
LEMMA ListNow ==
  ASSUME ListInv, exists
  PROVE  \E c \in Seq(Nodes) :
           /\ Walk = c
           /\ IsChain(Links, c)
           /\ Links \in LinkStates
           /\ size = Len(c) /\ Len(c) \in Nat /\ Len(c) <= Cardinality(Nodes)
           /\ Elements = Vals(val, c)
           /\ val \in [Nodes -> Values]
           /\ Cardinality(Nodes) \in Nat
<1>1. IsChain(Links, Walk) /\ TypeOK
  BY DEF ListInv
<1>2. Walk \in Seq(Nodes) /\ IsInjective(Walk) /\ size = Len(Walk)
  BY <1>1 DEF IsChain, Links
<1>3. Len(Walk) \in Nat /\ Cardinality(Nodes) \in Nat /\ Len(Walk) <= Cardinality(Nodes)
  BY <1>2, ChainLength
<1>4. Links \in LinkStates
  BY <1>1, <1>3 DEF Links, LinkStates, TypeOK
<1>5. Elements = Vals(val, Walk) /\ val \in [Nodes -> Values]
  BY <1>1 DEF Elements, Vals, TypeOK
<1> QED
  BY <1>1, <1>2, <1>3, <1>4, <1>5

(***************************************************************************)
(* A call that leaves the list alone.                                      *)
(***************************************************************************)
LEMMA SameList ==
  ASSUME ListInv, UNCHANGED <<first, size, next, val, live, exists>>
  PROVE  ListInv' /\ Elements' = Elements
<1>1. TypeOK /\ exists \in BOOLEAN
  BY DEF ListInv, TypeOK
<1>2. CASE exists
  <2>1. PICK c \in Seq(Nodes) : IsChain(Links, c) /\ Elements = Vals(val, c)
    BY <1>2, ListNow
  <2>2. IsChain(Links, c)'
    BY <2>1 DEF Links
  <2>3. ListInv' /\ Elements' = Vals(val', c)
    BY <1>1, <1>2, <2>2, ChainAfter DEF TypeOK
  <2> QED
    BY <2>1, <2>3
<1>3. CASE ~exists
  BY <1>1, <1>3 DEF ListInv, TypeOK, Elements
<1> QED
  BY <1>1, <1>2, <1>3

(***************************************************************************)
(* linkedlist_append puts a node that is not in the list behind the last.  *)
(***************************************************************************)
LEMMA AppendStep ==
  ASSUME ListInv, NEW v \in Values, NEW node \in (Nodes \ live) \cup {NULL},
         linkedlist_append(v, node)
  PROVE  ListInv' /\ Abstract!linkedlist_append(v)
<1>1. CASE node = NULL
  <2>1. UNCHANGED <<first, size, next, val, live, exists>> /\ result' = <<"append", v, FALSE>>
    BY <1>1 DEF linkedlist_append
  <2>2. ListInv' /\ Elements' = Elements
    BY <2>1, SameList
  <2> QED
    BY <2>1, <2>2 DEF Abstract!linkedlist_append
<1>2. CASE node # NULL
  <2>1. exists /\ node \in Nodes /\ node \notin live
    BY <1>2 DEF linkedlist_append
  <2>2. PICK c \in Seq(Nodes) :
          /\ Walk = c /\ IsChain(Links, c)
          /\ size = Len(c) /\ Len(c) \in Nat
          /\ Elements = Vals(val, c) /\ val \in [Nodes -> Values]
    BY <2>1, ListNow
  <2>3. /\ IsInjective(c) /\ ToSet(c) \subseteq live
        /\ first = At(c, 1)
        /\ \A i \in 1 .. Len(c) : next[c[i]] = At(c, i + 1)
    BY <2>2 DEF IsChain, Links
  <2>4. /\ next \in [Nodes -> Nodes \cup {NULL}] /\ live \in SUBSET Nodes
        /\ first \in Nodes \cup {NULL}
    BY DEF ListInv, TypeOK
  <2>5. /\ val' = [val EXCEPT ![node] = v]
        /\ size' = size + 1 /\ live' = live \cup {node}
        /\ exists' = exists /\ result' = <<"append", v, TRUE>>
        /\ size = 0 => first' = node /\ next' = [next EXCEPT ![node] = NULL]
        /\ size # 0 => first' = first
                       /\ next' = [next EXCEPT ![node] = NULL, ![Last(c)] = node]
    BY <1>2, <2>2 DEF linkedlist_append
  <2> DEFINE d == Append(c, node)
             n == Len(c)
  <2>6. /\ d \in Seq(Nodes) /\ Len(d) = n + 1
        /\ \A i \in 1 .. n : d[i] = c[i]
        /\ d[n + 1] = node
    BY <2>1, AppendProperties
  <2>7. node \notin ToSet(c) /\ \A i \in 1 .. n : c[i] \in Nodes /\ c[i] # node
    BY <2>1, <2>3, ElementOfSeq, LenProperties DEF ToSet
  <2>8. IsInjective(d) /\ ToSet(d) = ToSet(c) \cup {node}
    BY <2>1, <2>3, <2>7, AppendElements
  <2> HIDE DEF d
  <2>9. first' = At(d, 1)
    <3>1. CASE n = 0
      BY <2>2, <2>5, <2>6, <3>1 DEF At
    <3>2. CASE n # 0
      <4>1. 1 \in 1 .. n /\ 1 <= n /\ 1 <= n + 1
        BY <2>2, <3>2
      <4>2. first = c[1]
        BY <2>3, <4>1 DEF At
      <4> QED
        BY <2>2, <2>5, <2>6, <3>2, <4>1, <4>2 DEF At
    <3> QED
      BY <3>1, <3>2
  <2>10. ASSUME NEW i \in 1 .. Len(d)
         PROVE  next'[d[i]] = At(d, i + 1)
    <3>1. CASE i = n + 1
      <4>1. d[i] = node /\ At(d, i + 1) = NULL
        BY <2>2, <2>6, <3>1 DEF At
      <4>2. n # 0 => Last(c) # node
        BY <2>2, <2>7 DEF Last
      <4> QED
        BY <2>1, <2>2, <2>4, <2>5, <4>1, <4>2
    <3>2. CASE i = n
      <4>1. n # 0 /\ i \in 1 .. n /\ d[i] = c[n] /\ At(d, i + 1) = node
        BY <2>2, <2>6, <3>2 DEF At
      <4>2. Last(c) = c[n] /\ c[n] \in Nodes
        BY <2>7, <3>2, <4>1 DEF Last
      <4> QED
        BY <2>1, <2>2, <2>4, <2>5, <4>1, <4>2
    <3>3. CASE i < n
      <4>1. i \in 1 .. n /\ i + 1 \in 1 .. n /\ n \in 1 .. n /\ n # 0 /\ i # n
        BY <2>2, <2>6, <3>3
      <4>2. d[i] = c[i] /\ At(d, i + 1) = c[i + 1] /\ next[c[i]] = c[i + 1]
        BY <2>2, <2>3, <2>6, <4>1 DEF At
      <4>3. Last(c) = c[n] /\ c[n] # c[i] /\ c[i] # node /\ c[i] \in Nodes
        BY <2>2, <2>3, <2>7, <4>1, LenProperties DEF Last, IsInjective
      <4> QED
        BY <2>1, <2>2, <2>4, <2>5, <4>1, <4>2, <4>3
    <3> QED
      BY <2>2, <2>6, <3>1, <3>2, <3>3
  <2>11. IsChain(Links, d)'
    BY <2>2, <2>3, <2>5, <2>6, <2>8, <2>9, <2>10 DEF IsChain, Links
  <2>12. /\ first' \in Nodes \cup {NULL} /\ next' \in [Nodes -> Nodes \cup {NULL}]
         /\ val' \in [Nodes -> Values] /\ live' \in SUBSET Nodes
    BY <2>1, <2>2, <2>4, <2>5
  <2>13. ListInv' /\ Elements' = Vals(val', d)
    BY <2>1, <2>5, <2>11, <2>12, ChainAfter
  <2>14. Vals(val', d) = Append(Elements, v)
    <3>1. Vals(val', d) = Append(Vals(val', c), val'[node])
      BY <2>1, <2>12, ValsAppend DEF d
    <3>2. val'[node] = v /\ \A i \in 1 .. n : val'[c[i]] = val[c[i]]
      BY <2>1, <2>2, <2>5, <2>7
    <3>3. Vals(val', c) = Vals(val, c)
      BY <3>2, LenProperties DEF Vals
    <3> QED
      BY <2>2, <3>1, <3>2, <3>3
  <2> QED
    BY <2>5, <2>13, <2>14 DEF Abstract!linkedlist_append
<1> QED
  BY <1>1, <1>2

(***************************************************************************)
(* The elements after the node at a position is removed.                   *)
(***************************************************************************)
LEMMA ValsRemoveAt ==
  ASSUME NEW v \in [Nodes -> Values], NEW c \in Seq(Nodes), NEW k \in 1 .. Len(c)
  PROVE  Vals(v, RemoveAt(c, k)) = RemoveAt(Vals(v, c), k)
<1> DEFINE m == Len(c)
           a == RemoveAt(c, k)
           x == Vals(v, a)
           y == Vals(v, c)
           z == RemoveAt(y, k)
<1>1. m \in Nat
  BY LenProperties
<1>2. /\ a \in Seq(Nodes) /\ Len(a) = m - 1
      /\ \A i \in 1 .. m - 1 : a[i] = IF i < k THEN c[i] ELSE c[i + 1]
  BY RemoveAtElements
<1> HIDE DEF a
<1>3. y \in Seq(Values) /\ Len(y) = m /\ \A i \in 1 .. m : y[i] = v[c[i]]
  BY ValsAre
<1>4. x \in Seq(Values) /\ Len(x) = m - 1 /\ \A i \in 1 .. m - 1 : x[i] = v[a[i]]
  BY <1>2, ValsAre
<1> HIDE DEF x, y
<1>5. /\ z \in Seq(Values) /\ Len(z) = m - 1
      /\ \A i \in 1 .. m - 1 : z[i] = IF i < k THEN y[i] ELSE y[i + 1]
  <2>1. k \in 1 .. Len(y)
    BY <1>3
  <2>2. /\ z \in Seq(Values) /\ Len(z) = Len(y) - 1
        /\ \A i \in 1 .. Len(y) - 1 : z[i] = IF i < k THEN y[i] ELSE y[i + 1]
    BY <1>3, <2>1, RemoveAtElements
  <2> HIDE DEF z, m
  <2> QED
    BY <1>3, <2>2
<1> HIDE DEF z, m
<1>6. ASSUME NEW i \in 1 .. m - 1 PROVE x[i] = z[i]
  <2>1. i \in 1 .. m /\ i + 1 \in 1 .. m
    BY <1>1
  <2>2. x[i] = v[IF i < k THEN c[i] ELSE c[i + 1]]
    BY <1>2, <1>4
  <2>3. z[i] = IF i < k THEN y[i] ELSE y[i + 1]
    BY <1>5
  <2> QED
    BY <1>3, <2>1, <2>2, <2>3
<1>7. x = z
  BY <1>4, <1>5, <1>6, SeqEqual
<1> QED
  BY <1>7 DEF a, x, y, z

(***************************************************************************)
(* The operators on sequences are those of the abstract specification.     *)
(***************************************************************************)
LEMMA SameOperators ==
  /\ \A i : Abstract!Without(i) = RemoveAt(Elements, i)
  /\ \A I : Abstract!First(I) = Min(I)
<1>1. \A i : Abstract!Without(i) = RemoveAt(Elements, i)
  BY DEF Abstract!Without, RemoveAt
<1>2. \A I : Abstract!First(I) = Min(I)
  BY DEF Abstract!First, Min
<1> QED
  BY <1>1, <1>2

(***************************************************************************)
(* The first node with an element is where the element is first found.     *)
(***************************************************************************)
FirstWith(v, c, e) ==
  LET I == {i \in 1 .. Len(c) : v[c[i]] = e}
  IN  IF I # {} THEN Min(I) ELSE 0

(***************************************************************************)
(* linkedlist_find and linkedlist_remove_element stop at the first node    *)
(* with the element, which is where the element is first in the sequence.  *)
(***************************************************************************)
LEMMA FoundAt ==
  ASSUME NEW v \in [Nodes -> Values], NEW c \in Seq(Nodes), NEW e, Elements = Vals(v, c)
  PROVE  LET at == FirstWith(v, c, e)
         IN  /\ at = Abstract!Position(e)
             /\ at # 0 => at \in 1 .. Len(c)
<1> DEFINE y == Vals(v, c)
           at == FirstWith(v, c, e)
           I == {i \in 1 .. Len(c) : v[c[i]] = e}
           J == {i \in 1 .. Len(y) : y[i] = e}
<1>1. y \in Seq(Values) /\ Len(y) = Len(c) /\ \A i \in 1 .. Len(c) : y[i] = v[c[i]]
  BY ValsAre
<1>2. Len(c) \in Nat
  BY LenProperties
<1>3. I = J
  BY <1>1
<1>4. at = IF I # {} THEN Min(I) ELSE 0
  BY DEF FirstWith
<1>5. Abstract!Position(e) = IF J # {} THEN Min(J) ELSE 0
  BY SameOperators DEF Abstract!Position
<1>6. I # {} => Min(I) \in I
  <2>1. I \in SUBSET Nat
    BY <1>2
  <2> HIDE DEF I
  <2> QED
    BY <2>1, MinInSet
<1> HIDE DEF at
<1>7. at # 0 => at \in 1 .. Len(c)
  BY <1>4, <1>6
<1> HIDE DEF I, J, y
<1>8. at = Abstract!Position(e)
  BY <1>3, <1>4, <1>5
<1> QED
  BY <1>7, <1>8 DEF at

(***************************************************************************)
(* linkedlist_remove_element takes out the first node with the element.    *)
(***************************************************************************)
LEMMA RemoveElementStep ==
  ASSUME ListInv, NEW v \in Values, linkedlist_remove_element(v)
  PROVE  ListInv' /\ Abstract!linkedlist_remove_element(v)
<1>1. exists
  BY DEF linkedlist_remove_element
<1>2. PICK c \in Seq(Nodes) :
        /\ Walk = c /\ IsChain(Links, c) /\ Links \in LinkStates
        /\ Elements = Vals(val, c) /\ val \in [Nodes -> Values]
  BY <1>1, ListNow
<1>3. PICK at : at = FirstWith(val, c, v)
  OBVIOUS
<1>4. /\ SetLinks(IF at = 0 THEN Links ELSE linkedlist_remove_node(Links, Before(at), c[at]))
      /\ result' = <<"remove_element", v, at # 0>>
      /\ UNCHANGED <<val, exists>>
  <2>1. SelectInSeq(Walk, LAMBDA n : val[n] = v) = at
    BY <1>2, <1>3 DEF SelectInSeq, FirstWith
  <2> QED
    BY <1>2, <2>1 DEF linkedlist_remove_element
<1>5. at = Abstract!Position(v) /\ (at # 0 => at \in 1 .. Len(c))
  BY <1>2, <1>3, FoundAt
<1>6. CASE at = 0
  <2>1. SetLinks(Links)
    BY <1>4, <1>6
  <2>2. ListInv' /\ Elements' = Vals(val, c)
    BY <1>1, <1>2, <1>4, <2>1, LinksAfter
  <2> QED
    BY <1>2, <1>4, <1>5, <1>6, <2>2 DEF Abstract!linkedlist_remove_element
<1>7. CASE at # 0
  <2> DEFINE l == linkedlist_remove_node(Links, Before(at), c[at])
             d == RemoveAt(c, at)
  <2>1. at \in 1 .. Len(c) /\ Before(at) = IF at = 1 THEN NULL ELSE c[at - 1]
    BY <1>2, <1>5, <1>7 DEF Before
  <2>2. l \in LinkStates
    BY <1>2, <2>1, RemoveNodeChain
  <2>3. IsChain(l, d)
    BY <1>2, <2>1, RemoveNodeChain
  <2>4. SetLinks(l)
    BY <1>4, <1>7
  <2> HIDE DEF l, d
  <2>5. ListInv' /\ Elements' = Vals(val, d)
    BY <1>1, <1>4, <2>2, <2>3, <2>4, LinksAfter
  <2>6. Vals(val, d) = RemoveAt(Vals(val, c), at)
    BY <1>2, <2>1, ValsRemoveAt DEF d
  <2>7. Elements' = Abstract!Without(at)
    BY <1>2, <2>5, <2>6, SameOperators
  <2> QED
    BY <1>4, <1>5, <1>7, <2>5, <2>7 DEF Abstract!linkedlist_remove_element
<1> QED
  BY <1>6, <1>7

(***************************************************************************)
(* What a pass that asks up to position end leaves of the elements.        *)
(***************************************************************************)
LEMMA PassEffect ==
  ASSUME ListInv, exists, NEW ask, NEW end \in 0 .. Len(Walk), NEW gone,
         gone = {i \in 1 .. end : Drops(ask, i)},
         \A i \in 1 .. end : i + 1 <= end => ~ (Drops(ask, i) /\ Drops(ask, i + 1)),
         SetLinks(Removals(ask)[end]), UNCHANGED <<val, exists>>
  PROVE  /\ ListInv'
         /\ Elements' = Abstract!Kept(Elements, gone)[end]
                          \o SubSeq(Elements, end + 1, Len(Elements))
<1>1. PICK c \in Seq(Nodes) :
        /\ Walk = c /\ IsChain(Links, c)
        /\ Elements = Vals(val, c) /\ val \in [Nodes -> Values] /\ Len(c) \in Nat
  BY ListNow
<1> DEFINE l == Removals(ask)[end]
           k == Abstract!Kept(c, gone)[end]
           r == SubSeq(c, end + 1, Len(c))
<1>2. l \in LinkStates /\ IsChain(l, k \o r)
  <2>1. TypeOK /\ IsChain(Links, Walk)
    BY <1>1 DEF ListInv
  <2>2. \A i \in 1 .. end : i \in gone <=> Drops(ask, i)
    OBVIOUS
  <2>3. l \in LinkStates
    BY <2>1, <2>2, PassChain
  <2>4. IsChain(l, Abstract!Kept(Walk, gone)[end] \o SubSeq(Walk, end + 1, Len(Walk)))
    BY <2>1, <2>2, PassChain
  <2> QED
    BY <1>1, <2>3, <2>4
<1>3. k \in Seq(Nodes)
  BY <1>1, KeptStep
<1>4. /\ r \in Seq(Nodes)
      /\ Vals(val, r) = SubSeq(Vals(val, c), end + 1, Len(Vals(val, c)))
  BY <1>1, ValsRest
<1>5. Vals(val, k) = Abstract!Kept(Vals(val, c), gone)[end]
  BY <1>1, ValsKept
<1> HIDE DEF l, k, r
<1>6. Vals(val, k \o r) = Vals(val, k) \o Vals(val, r)
  BY <1>1, <1>3, <1>4, ValsJoin
<1>7. ListInv' /\ Elements' = Vals(val, k \o r)
  BY <1>2, LinksAfter DEF l
<1>8. Elements' = Abstract!Kept(Vals(val, c), gone)[end]
                    \o SubSeq(Vals(val, c), end + 1, Len(Vals(val, c)))
  BY <1>4, <1>5, <1>6, <1>7
<1> QED
  BY <1>1, <1>7, <1>8

(***************************************************************************)
(* The callbacks never ask to remove two neighbours in one pass.  Those of *)
(* the kernel remove one element and return (id_mapper.c, linkedlist.c).   *)
(***************************************************************************)
NeverNeighbours ==
  \A ask \in Requests : \A i \in 1 .. Cardinality(Nodes) - 1 :
    ~ (ask[i] = "REMOVE_AND_NEXT" /\ Drops(ask, i + 1))

(***************************************************************************)
(* Where a pass over c with these answers ends.                            *)
(***************************************************************************)
Ends(ask, c) == {i \in DOMAIN c : ask[i] \notin {"GO_NEXT", "REMOVE_AND_NEXT"}}

End(ask, c) == IF Ends(ask, c) = {} THEN Len(c) ELSE Min(Ends(ask, c))

(***************************************************************************)
(* The pass ends at a position of the list, or at its end, and no answer   *)
(* before it ended the pass.                                               *)
(***************************************************************************)
LEMMA EndOfPass ==
  ASSUME NEW S, NEW c \in Seq(S), NEW ask
  PROVE  /\ End(ask, c) \in 0 .. Len(c)
         /\ Ends(ask, c) # {} => End(ask, c) \in Ends(ask, c)
         /\ \A i \in 1 .. Len(c) : i < End(ask, c) =>
              ask[i] \in {"GO_NEXT", "REMOVE_AND_NEXT"}
<1> DEFINE E == Ends(ask, c)
<1>1. Len(c) \in Nat /\ DOMAIN c = 1 .. Len(c)
  BY LenProperties
<1>2. E \in SUBSET Nat /\ E \subseteq 1 .. Len(c)
  BY <1>1 DEF Ends
<1>3. \A i \in 1 .. Len(c) : i \notin E => ask[i] \in {"GO_NEXT", "REMOVE_AND_NEXT"}
  BY <1>1 DEF Ends
<1>4. End(ask, c) = IF E = {} THEN Len(c) ELSE Min(E)
  BY DEF End
<1> HIDE DEF E
<1>5. CASE E = {}
  BY <1>1, <1>3, <1>4, <1>5 DEF E
<1>6. CASE E # {}
  <2>1. Min(E) \in E /\ \A j \in E : Min(E) <= j
    BY <1>2, <1>6, MinInSet
  <2>2. \A i \in 1 .. Len(c) : i < Min(E) => i \notin E
    <3>1. PICK m \in Nat : m = Min(E)
      BY <1>2, <2>1
    <3>2. \A i \in 1 .. Len(c) : i < m => ~ (m <= i)
      BY <1>1
    <3> QED
      BY <2>1, <3>1, <3>2
  <2> QED
    BY <1>1, <1>2, <1>3, <1>4, <1>6, <2>1, <2>2 DEF E
<1> QED
  BY <1>5, <1>6

(***************************************************************************)
(* A pass in terms of where it ends.                                       *)
(***************************************************************************)
LEMMA PassIs ==
  ASSUME NEW c, Walk = c, NEW ask
  PROVE  /\ Pass(ask).links = Removals(ask)[End(ask, c)]
         /\ Pass(ask).asked = End(ask, c)
         /\ Pass(ask).found = IF Ends(ask, c) # {} /\ ask[End(ask, c)] # "INVALID"
                                THEN val[c[End(ask, c)]] ELSE NULL
BY DEF Pass, Ends, End

(***************************************************************************)
(* linkedlist_iter_with_action.                                            *)
(***************************************************************************)
LEMMA IterStep ==
  ASSUME NeverNeighbours, ListInv, NEW ask \in Requests, linkedlist_iter_with_action(ask)
  PROVE  ListInv' /\ Abstract!linkedlist_iter_with_action(ask)
<1>1. exists
  BY DEF linkedlist_iter_with_action
<1>2. PICK c \in Seq(Nodes) :
        /\ Walk = c
        /\ Elements = Vals(val, c) /\ val \in [Nodes -> Values]
        /\ Len(c) \in Nat /\ Len(c) <= Cardinality(Nodes) /\ Cardinality(Nodes) \in Nat
  BY <1>1, ListNow
<1> DEFINE end == End(ask, c)
           ends == Ends(ask, c)
           gone == {i \in 1 .. end : Drops(ask, i)}
           y == Vals(val, c)
<1>3. /\ SetLinks(Removals(ask)[end]) /\ UNCHANGED <<val, exists>>
      /\ result' = <<"iter_with_action", [i \in 1 .. end |-> ask[i]],
                     IF ends # {} /\ ask[end] # "INVALID" THEN val[c[end]] ELSE NULL>>
  BY <1>2, PassIs DEF linkedlist_iter_with_action
<1>4. /\ end \in 0 .. Len(c)
      /\ ends # {} => end \in ends
      /\ \A i \in 1 .. Len(c) : i < end => ask[i] \in {"GO_NEXT", "REMOVE_AND_NEXT"}
  BY <1>2, EndOfPass
<1>5. ASSUME NEW i \in 1 .. end, i + 1 <= end
      PROVE  ~ (Drops(ask, i) /\ Drops(ask, i + 1))
  <2>1. i \in 1 .. Len(c) /\ i < end /\ i \in 1 .. Cardinality(Nodes) - 1
    BY <1>2, <1>4, <1>5
  <2>2. Drops(ask, i) => ask[i] = "REMOVE_AND_NEXT"
    BY <1>4, <2>1 DEF Drops
  <2> QED
    BY <2>1, <2>2 DEF NeverNeighbours
<1>6. /\ ListInv'
      /\ Elements' = Abstract!Kept(Elements, gone)[end]
                       \o SubSeq(Elements, end + 1, Len(Elements))
  BY <1>1, <1>2, <1>3, <1>4, <1>5, PassEffect
<1>7. y \in Seq(Values) /\ Len(y) = Len(c) /\ \A i \in 1 .. Len(c) : y[i] = val[c[i]]
  BY <1>2, ValsAre
<1>8. DOMAIN y = DOMAIN c /\ DOMAIN c = 1 .. Len(c)
  BY <1>2, <1>7, LenProperties
<1>9. Ends(ask, y) = ends /\ End(ask, y) = end
  BY <1>7, <1>8 DEF Ends, End
<1>10. result' = <<"iter_with_action", [i \in 1 .. end |-> ask[i]],
                   IF ends # {} /\ ask[end] # "INVALID" THEN Elements[end] ELSE NULL>>
  <2>1. ends # {} => Elements[end] = val[c[end]]
    BY <1>2, <1>4, <1>7, <1>8 DEF Ends
  <2> QED
    BY <1>3, <2>1
<1>11. /\ ends = {i \in DOMAIN Elements : ask[i] \notin {"GO_NEXT", "REMOVE_AND_NEXT"}}
       /\ end = IF ends = {} THEN Len(Elements) ELSE Abstract!First(ends)
       /\ gone = {i \in 1 .. end : ask[i] \in {"REMOVE_AND_RETURN", "REMOVE_AND_NEXT"}}
  BY <1>2, <1>9, SameOperators DEF Ends, End, Drops
<1> HIDE DEF end, ends, gone, y
<1> QED
  BY <1>6, <1>10, <1>11 DEF Abstract!linkedlist_iter_with_action

(***************************************************************************)
(* A pass that lets the elements before position k pass and removes the    *)
(* one at k has kept the front.                                            *)
(***************************************************************************)
LEMMA KeptFront ==
  ASSUME NEW S, NEW s \in Seq(S), NEW k \in 1 .. Len(s)
  PROVE  Abstract!Kept(s, {k})[k] = SubSeq(s, 1, k - 1)
<1> DEFINE n == Len(s)
           K == Abstract!Kept(s, {k})
           F(i) == SubSeq(s, 1, i)
           P == {i \in Nat : K[i] = F(i)}
<1>1. n \in Nat /\ \A i \in 1 .. n : s[i] \in S
  BY LenProperties, ElementOfSeq
<1>2. /\ K[0] = << >>
      /\ \A i \in 1 .. n : K[i] = IF i \in {k} THEN K[i - 1] ELSE Append(K[i - 1], s[i])
  BY KeptStep
<1> HIDE DEF K
<1>3. \A m \in 0 .. n : /\ F(m) \in Seq(S) /\ Len(F(m)) = m
                        /\ \A i \in 1 .. m : F(m)[i] = s[i]
  <2> TAKE m \in 0 .. n
  <2>1. /\ F(m) \in Seq(S) /\ Len(F(m)) = IF 1 <= m THEN m - 1 + 1 ELSE 0
        /\ \A i \in 1 .. m - 1 + 1 : F(m)[i] = s[1 + i - 1]
    BY <1>1, SubSeqProperties
  <2> QED
    BY <1>1, <2>1
<1>4. 0 \in P
  <2>1. F(0) = << >>
    BY SubSeqEmpty
  <2> QED
    BY <1>2, <2>1
<1>5. ASSUME NEW i \in 0 .. k - 1, i < k - 1, i \in P PROVE i + 1 \in P
  <2> DEFINE j == i + 1
             a == F(i)
             b == F(j)
             z == Append(a, s[j])
  <2>1. j \in 1 .. n /\ j - 1 = i /\ j # k /\ i \in 0 .. n /\ j \in 0 .. n /\ j \in Nat
    BY <1>1, <1>5
  <2>2. K[j] = z
    <3>1. K[i] = a
      BY <1>5
    <3> HIDE DEF j, a
    <3> QED
      BY <1>2, <2>1, <3>1
  <2>3. a \in Seq(S) /\ Len(a) = i /\ \A m \in 1 .. i : a[m] = s[m]
    BY <1>3, <2>1
  <2>4. b \in Seq(S) /\ Len(b) = j /\ \A m \in 1 .. j : b[m] = s[m]
    BY <1>3, <2>1
  <2> HIDE DEF a, b, F
  <2>5. /\ z \in Seq(S) /\ Len(z) = j
        /\ \A m \in 1 .. i : z[m] = a[m]
        /\ z[j] = s[j]
    BY <1>1, <2>1, <2>3, AppendProperties
  <2> HIDE DEF z
  <2>6. \A m \in 1 .. j : z[m] = b[m]
    <3> TAKE m \in 1 .. j
    <3>1. CASE m \in 1 .. i
      BY <2>3, <2>4, <2>5, <3>1
    <3>2. CASE m = j
      BY <2>4, <2>5, <3>2
    <3> QED
      BY <2>1, <3>1, <3>2
  <2>7. z = b
    BY <2>4, <2>5, <2>6, SeqEqual
  <2>8. K[j] = F(j)
    BY <2>2, <2>7 DEF b
  <2> QED
    BY <2>1, <2>8
<1>6. k - 1 \in P
  <2>1. k - 1 \in Nat /\ k - 1 \in 0 .. k - 1
    BY <1>1
  <2>2. 0 .. k - 1 \subseteq P
    <3> HIDE DEF P
    <3> QED
      BY <1>4, <1>5, <2>1, InductionUpTo
  <2> QED
    BY <2>1, <2>2
<1>7. K[k] = K[k - 1]
  BY <1>2
<1> QED
  BY <1>6, <1>7 DEF K

(***************************************************************************)
(* linkedlist_remove within bounds, as linkedlist_pop uses it too.         *)
(***************************************************************************)
LEMMA RemoveIndexEffect ==
  ASSUME ListInv, exists, NEW index \in Nat, index < size,
         SetLinks(RemoveIndex(index).links), UNCHANGED <<val, exists>>
  PROVE  /\ ListInv'
         /\ Elements' = RemoveAt(Elements, index + 1)
         /\ RemoveIndex(index).found = Elements[index + 1]
<1>1. PICK c \in Seq(Nodes) :
        /\ Walk = c /\ size = Len(c)
        /\ Elements = Vals(val, c) /\ val \in [Nodes -> Values]
        /\ Len(c) \in Nat /\ Len(c) <= Cardinality(Nodes) /\ Cardinality(Nodes) \in Nat
  BY ListNow
<1> DEFINE ask == linkedlist_iter_remove_element(index)
           k == index + 1
           y == Vals(val, c)
<1>2. k \in 1 .. Len(c) /\ k \in 0 .. Len(c) /\ k \in Nat
  BY <1>1
<1>3. \A i \in 1 .. Len(c) : ask[i] = IF i = k THEN "REMOVE_AND_RETURN" ELSE "GO_NEXT"
  BY <1>1 DEF linkedlist_iter_remove_element
<1>4. DOMAIN c = 1 .. Len(c)
  BY LenProperties
<1>5. RemoveIndex(index) = Pass(ask)
  BY <1>1 DEF RemoveIndex
<1> HIDE DEF ask
<1>6. Ends(ask, c) = {k}
  BY <1>2, <1>3, <1>4 DEF Ends
<1>7. End(ask, c) = k
  <2>1. End(ask, c) \in Ends(ask, c)
    BY <1>6, EndOfPass
  <2> QED
    BY <1>6, <2>1
<1>8. /\ Pass(ask).links = Removals(ask)[k]
      /\ Pass(ask).found = val[c[k]]
  <2>1. /\ Pass(ask).links = Removals(ask)[End(ask, c)]
        /\ Pass(ask).found = IF Ends(ask, c) # {} /\ ask[End(ask, c)] # "INVALID"
                               THEN val[c[End(ask, c)]] ELSE NULL
    BY <1>1, PassIs
  <2>2. ask[k] # "INVALID"
    BY <1>2, <1>3
  <2> HIDE DEF k
  <2> QED
    BY <1>6, <1>7, <2>1, <2>2
<1>9. {k} = {i \in 1 .. k : Drops(ask, i)}
  BY <1>1, <1>2, <1>3 DEF Drops
<1>10. \A i \in 1 .. k : i + 1 <= k => ~ (Drops(ask, i) /\ Drops(ask, i + 1))
  <2> SUFFICES ASSUME NEW i \in 1 .. k, i + 1 <= k PROVE ~ Drops(ask, i)
    OBVIOUS
  <2>1. i \in 1 .. Len(c) /\ i # k
    BY <1>1, <1>2
  <2> QED
    BY <1>3, <2>1 DEF Drops
<1>11. y \in Seq(Values) /\ Len(y) = Len(c) /\ \A i \in 1 .. Len(c) : y[i] = val[c[i]]
  BY <1>1, ValsAre
<1> HIDE DEF k, y
<1>12. k \in 0 .. Len(Walk)
  BY <1>1, <1>2
<1>13. SetLinks(Removals(ask)[k])
  BY <1>5, <1>8
<1>14. /\ ListInv'
       /\ Elements' = Abstract!Kept(Elements, {k})[k]
                        \o SubSeq(Elements, k + 1, Len(Elements))
  BY <1>9, <1>10, <1>12, <1>13, PassEffect
<1>15. Abstract!Kept(y, {k})[k] = SubSeq(y, 1, k - 1)
  BY <1>2, <1>11, KeptFront
<1>16. Elements' = RemoveAt(y, k)
  BY <1>1, <1>14, <1>15 DEF RemoveAt, y
<1>17. Pass(ask).found = y[k]
  BY <1>2, <1>8, <1>11
<1> QED
  BY <1>1, <1>5, <1>14, <1>16, <1>17 DEF k, y

(***************************************************************************)
(* linkedlist_remove, within the bounds and past the end.                  *)
(***************************************************************************)
LEMMA RemoveStep ==
  ASSUME ListInv, NEW index \in Indexes, linkedlist_remove(index)
  PROVE  ListInv' /\ Abstract!linkedlist_remove(index)
<1>1. /\ exists /\ SetLinks(RemoveIndex(index).links) /\ UNCHANGED <<val, exists>>
      /\ result' = <<"remove", index, RemoveIndex(index).found>>
  BY DEF linkedlist_remove
<1>2. PICK c \in Seq(Nodes) :
        /\ Walk = c /\ IsChain(Links, c) /\ Links \in LinkStates
        /\ size = Len(c) /\ Len(c) \in Nat /\ Cardinality(Nodes) \in Nat
        /\ Elements = Vals(val, c) /\ val \in [Nodes -> Values]
  BY <1>1, ListNow
<1>3. index \in Nat /\ Len(Elements) = size
  BY <1>2, ValsAre DEF Indexes
<1>4. CASE index < size
  <2>1. /\ ListInv' /\ Elements' = RemoveAt(Elements, index + 1)
        /\ RemoveIndex(index).found = Elements[index + 1]
    BY <1>1, <1>3, <1>4, RemoveIndexEffect
  <2> QED
    BY <1>1, <1>3, <1>4, <2>1, SameOperators DEF Abstract!linkedlist_remove
<1>5. CASE ~ (index < size)
  <2>1. index >= size
    BY <1>2, <1>3, <1>5
  <2>2. RemoveIndex(index).links = Links /\ RemoveIndex(index).found = NULL
    BY <2>1 DEF RemoveIndex
  <2>3. ListInv' /\ Elements' = Vals(val, c)
    BY <1>1, <1>2, <2>2, LinksAfter
  <2> QED
    BY <1>1, <1>2, <1>3, <1>5, <2>2, <2>3 DEF Abstract!linkedlist_remove
<1> QED
  BY <1>4, <1>5

(***************************************************************************)
(* linkedlist_pop removes the element at size - 1 of a list that has one.  *)
(***************************************************************************)
LEMMA PopStep ==
  ASSUME ListInv, linkedlist_pop
  PROVE  ListInv' /\ Abstract!linkedlist_pop
<1> DEFINE popped == IF first = NULL THEN [links |-> Links, found |-> NULL]
                                     ELSE RemoveIndex(size - 1)
<1>1. /\ exists /\ SetLinks(popped.links) /\ UNCHANGED <<val, exists>>
      /\ result' = <<"pop", NULL, popped.found>>
  BY DEF linkedlist_pop
<1>2. PICK c \in Seq(Nodes) :
        /\ Walk = c /\ IsChain(Links, c) /\ Links \in LinkStates
        /\ size = Len(c) /\ Len(c) \in Nat
        /\ Elements = Vals(val, c) /\ val \in [Nodes -> Values]
  BY <1>1, ListNow
<1>3. Elements \in Seq(Values) /\ Len(Elements) = size
  BY <1>2, ValsAre
<1>4. first = At(c, 1) /\ \A i \in 1 .. Len(c) : c[i] # NULL
  BY <1>2, ElementOfSeq, NullAssumption DEF IsChain, Links
<1>5. first = NULL <=> size = 0
  BY <1>2, <1>4 DEF At
<1>6. Elements = << >> <=> size = 0
  BY <1>3, EmptySeq
<1>7. CASE size = 0
  <2>1. popped.links = Links /\ popped.found = NULL
    BY <1>5, <1>7
  <2> HIDE DEF popped
  <2>2. ListInv' /\ Elements' = Vals(val, c)
    BY <1>1, <1>2, <2>1, LinksAfter
  <2> QED
    BY <1>1, <1>2, <1>6, <1>7, <2>1, <2>2 DEF Abstract!linkedlist_pop
<1>8. CASE size # 0
  <2> DEFINE index == size - 1
  <2>1. popped = RemoveIndex(index)
    BY <1>5, <1>8
  <2>2. index \in Nat /\ index < size /\ index + 1 = size
    BY <1>2, <1>8
  <2> HIDE DEF popped, index
  <2>3. /\ ListInv' /\ Elements' = RemoveAt(Elements, index + 1)
        /\ RemoveIndex(index).found = Elements[index + 1]
    BY <1>1, <2>1, <2>2, RemoveIndexEffect
  <2>4. RemoveAt(Elements, size) = SubSeq(Elements, 1, size - 1)
    <3> DEFINE f == SubSeq(Elements, 1, size - 1)
               r == SubSeq(Elements, size + 1, size)
    <3>1. f \in Seq(Values)
      <4>1. \A i \in 1 .. size - 1 : Elements[i] \in Values
        BY <1>2, <1>3, ElementOfSeq
      <4> QED
        BY <1>2, <1>8, <4>1, SubSeqProperties
    <3>2. r = << >>
      BY <1>2, SubSeqEmpty
    <3>3. RemoveAt(Elements, size) = f \o r
      BY <1>3 DEF RemoveAt
    <3>4. f \o r = f
      <4> HIDE DEF f, r
      <4> QED
        BY <3>1, <3>2, ConcatEmptySeq
    <3> QED
      BY <3>3, <3>4
  <2>5. Elements' = SubSeq(Elements, 1, Len(Elements) - 1)
    BY <1>3, <2>2, <2>3, <2>4
  <2>6. result' = <<"pop", NULL, Elements[Len(Elements)]>>
    BY <1>1, <1>3, <2>1, <2>2, <2>3
  <2> QED
    BY <1>6, <1>8, <2>3, <2>5, <2>6 DEF Abstract!linkedlist_pop
<1> QED
  BY <1>7, <1>8

(***************************************************************************)
(* linkedlist_get.                                                         *)
(***************************************************************************)
LEMMA GetStep ==
  ASSUME ListInv, NEW index \in Indexes, linkedlist_get(index)
  PROVE  ListInv' /\ Abstract!linkedlist_get(index)
<1>1. /\ exists /\ UNCHANGED <<first, size, next, val, live, exists>>
      /\ result' = <<"get", index, IF index < size /\ index < Len(Walk)
                                     THEN val[Walk[index + 1]] ELSE NULL>>
  BY DEF linkedlist_get
<1>2. ListInv' /\ Elements' = Elements
  BY <1>1, SameList
<1>3. PICK c \in Seq(Nodes) :
        /\ Walk = c /\ size = Len(c) /\ Len(c) \in Nat /\ Cardinality(Nodes) \in Nat
        /\ Elements = Vals(val, c) /\ val \in [Nodes -> Values]
  BY <1>1, ListNow
<1>4. index \in Nat
  BY <1>3 DEF Indexes
<1>5. Len(Elements) = Len(c) /\ \A i \in 1 .. Len(c) : Elements[i] = val[c[i]]
  BY <1>3, ValsAre
<1>6. index < Len(c) => Elements[index + 1] = val[c[index + 1]]
  BY <1>3, <1>4, <1>5
<1>7. result' = <<"get", index, IF index < Len(Elements) THEN Elements[index + 1] ELSE NULL>>
  BY <1>1, <1>3, <1>5, <1>6
<1> QED
  BY <1>2, <1>7 DEF Abstract!linkedlist_get

(***************************************************************************)
(* linkedlist_find.                                                        *)
(***************************************************************************)
LEMMA FindStep ==
  ASSUME ListInv, NEW v \in Values, linkedlist_find(v)
  PROVE  ListInv' /\ Abstract!linkedlist_find(v)
<1>1. /\ exists /\ UNCHANGED <<first, size, next, val, live, exists>>
      /\ result' = <<"find", v, SelectInSeq(Walk, LAMBDA n : val[n] = v) - 1>>
  BY DEF linkedlist_find
<1>2. ListInv' /\ Elements' = Elements
  BY <1>1, SameList
<1>3. PICK c \in Seq(Nodes) :
        Walk = c /\ Elements = Vals(val, c) /\ val \in [Nodes -> Values]
  BY <1>1, ListNow
<1>4. SelectInSeq(Walk, LAMBDA n : val[n] = v) = FirstWith(val, c, v)
  BY <1>3 DEF SelectInSeq, FirstWith
<1>5. FirstWith(val, c, v) = Abstract!Position(v)
  BY <1>3, FoundAt
<1> QED
  BY <1>1, <1>2, <1>4, <1>5 DEF Abstract!linkedlist_find

(***************************************************************************)
(* An empty list: no first node, size 0.                                   *)
(***************************************************************************)
LEMMA EmptyChain ==
  ASSUME NEW l, l.first = NULL, l.size = 0
  PROVE  IsChain(l, << >>)
<1>1. << >> \in Seq(Nodes) /\ Len(<< >>) = 0 /\ DOMAIN << >> = {}
  BY EmptySeq, LenProperties
<1>2. IsInjective(<< >>) /\ ToSet(<< >>) = {}
  BY <1>1 DEF IsInjective, ToSet
<1> QED
  BY <1>1, <1>2 DEF IsChain, At

(***************************************************************************)
(* linkedlist_create.                                                      *)
(***************************************************************************)
LEMMA CreateStep ==
  ASSUME ListInv, linkedlist_create
  PROVE  ListInv' /\ Abstract!linkedlist_create
<1>1. /\ ~exists /\ exists' = TRUE /\ first' = NULL /\ size' = 0
      /\ result' = <<"create", NULL, TRUE>> /\ UNCHANGED <<next, val, live>>
  BY DEF linkedlist_create
<1>2. IsChain(Links', << >>)
  BY <1>1, EmptyChain DEF Links
<1>3. IsChain(Links, << >>)'
  BY <1>2
<1>4. ListInv' /\ Elements' = Vals(val', << >>)
  BY <1>1, <1>3, ChainAfter DEF ListInv, TypeOK
<1>5. Vals(val', << >>) = << >> /\ Elements = << >>
  BY <1>1 DEF Vals, Elements
<1> QED
  BY <1>1, <1>4, <1>5 DEF Abstract!linkedlist_create

(***************************************************************************)
(* linkedlist_destroy.                                                     *)
(***************************************************************************)
LEMMA DestroyStep ==
  ASSUME ListInv, linkedlist_destroy
  PROVE  ListInv' /\ Abstract!linkedlist_destroy
<1>1. /\ exists' = FALSE /\ live' \subseteq live /\ UNCHANGED <<first, size, next, val>>
      /\ result' = <<"destroy", NULL, TRUE>>
  BY DEF linkedlist_destroy
<1>2. ListInv'
  BY <1>1 DEF ListInv, TypeOK
<1>3. Elements' = << >>
  BY <1>1 DEF Elements
<1> QED
  BY <1>1, <1>2, <1>3 DEF Abstract!linkedlist_destroy

(***************************************************************************)
(* A list just created is empty, as the sequence is.                       *)
(***************************************************************************)
LEMMA ListStart ==
  ASSUME Init
  PROVE  ListInv /\ Abstract!ListInit
<1>1. /\ exists = TRUE /\ first = NULL /\ size = 0 /\ live = {}
      /\ next = [n \in Nodes |-> NULL] /\ val \in [Nodes -> Values]
      /\ result = <<"create", NULL, TRUE>>
  BY DEF Init
<1>2. TypeOK
  BY <1>1, FS_CardinalityType, NodesAssumption DEF TypeOK
<1>3. IsChain(Links, << >>)
  BY <1>1, EmptyChain DEF Links
<1>4. Walk = << >>
  BY <1>2, <1>3, WalkIsChain
<1>5. ListInv
  BY <1>2, <1>3, <1>4 DEF ListInv
<1>6. Elements = << >>
  BY <1>1, <1>4 DEF Elements
<1> QED
  BY <1>1, <1>5, <1>6 DEF Abstract!ListInit

(***************************************************************************)
(* Every call keeps the list a chain and does to the elements what         *)
(* linkedlist.h promises of it.                                            *)
(***************************************************************************)
LEMMA ListStep ==
  ASSUME NeverNeighbours, ListInv, [Next]_vars
  PROVE  ListInv' /\ [Abstract!ListNext]_<<Elements, result>>
<1>1. ASSUME NEW v \in Values, NEW node \in (Nodes \ live) \cup {NULL},
             linkedlist_append(v, node)
      PROVE  ListInv' /\ Abstract!ListNext
  BY <1>1, AppendStep DEF Abstract!ListNext
<1>2. ASSUME NEW v \in Values, linkedlist_remove_element(v)
      PROVE  ListInv' /\ Abstract!ListNext
  BY <1>2, RemoveElementStep DEF Abstract!ListNext
<1>3. ASSUME NEW v \in Values, linkedlist_find(v)
      PROVE  ListInv' /\ Abstract!ListNext
  BY <1>3, FindStep DEF Abstract!ListNext
<1>4. ASSUME NEW i \in Indexes, linkedlist_remove(i)
      PROVE  ListInv' /\ Abstract!ListNext
  BY <1>4, RemoveStep DEF Abstract!ListNext
<1>5. ASSUME NEW i \in Indexes, linkedlist_get(i)
      PROVE  ListInv' /\ Abstract!ListNext
  BY <1>5, GetStep DEF Abstract!ListNext
<1>6. ASSUME NEW ask \in Requests, linkedlist_iter_with_action(ask)
      PROVE  ListInv' /\ Abstract!ListNext
  BY <1>6, IterStep DEF Abstract!ListNext
<1>7. CASE linkedlist_pop
  BY <1>7, PopStep DEF Abstract!ListNext
<1>8. CASE linkedlist_create
  BY <1>8, CreateStep DEF Abstract!ListNext
<1>9. CASE linkedlist_destroy
  BY <1>9, DestroyStep DEF Abstract!ListNext
<1>10. CASE UNCHANGED vars
  BY <1>10, SameList DEF vars
<1> QED
  BY <1>1, <1>2, <1>3, <1>4, <1>5, <1>6, <1>7, <1>8, <1>9, <1>10 DEF Next

(***************************************************************************)
(* The inductive invariant of linkedlist.c: what the list links is always  *)
(* a chain of distinct allocated nodes that ends in NULL.                  *)
(***************************************************************************)
THEOREM ListInvariant ==
  ASSUME NeverNeighbours
  PROVE  Spec => []ListInv
<1>1. Init => ListInv
  BY ListStart
<1>2. ListInv /\ [Next]_vars => ListInv'
  BY ListStep
<1> QED
  BY <1>1, <1>2, PTL DEF Spec

(***************************************************************************)
(* The fields of linkedlist.c keep their types; ll->size never goes below  *)
(* zero, where it would wrap, nor above the number of nodes.               *)
(***************************************************************************)
THEOREM ListTypes ==
  ASSUME NeverNeighbours
  PROVE  Spec => []TypeOK
<1>1. ListInv => TypeOK
  BY DEF ListInv
<1> QED
  BY <1>1, ListInvariant, PTL

(***************************************************************************)
(* Whatever calls were made, the nodes of a list are linked without a      *)
(* cycle, none of them has been freed by linkedlist_remove_node, and       *)
(* ll->size counts them.                                                   *)
(***************************************************************************)
THEOREM ListAlwaysWellFormed ==
  ASSUME NeverNeighbours
  PROVE  Spec => []WellFormed
<1>1. ListInv => WellFormed
  BY DEF ListInv, WellFormed, IsChain, Links
<1> QED
  BY <1>1, ListInvariant, PTL

(***************************************************************************)
(* linkedlist.c implements the sequence that linkedlist.h promises: every  *)
(* step of the nodes and links is a step of the sequence of elements, with *)
(* the same result, or leaves both alone.                                  *)
(***************************************************************************)
THEOREM ListIsSequence ==
  ASSUME NeverNeighbours
  PROVE  Spec => ImplementsList
<1>1. Init => Abstract!ListInit
  BY ListStart
<1>2. ListInv /\ [Next]_vars => [Abstract!ListNext]_<<Elements, result>>
  BY ListStep
<1> QED
  BY <1>1, <1>2, ListInvariant, PTL DEF Spec, ImplementsList, Abstract!ListSpec
=============================================================================
