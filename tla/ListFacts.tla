------------------------------ MODULE ListFacts ------------------------------
(***************************************************************************)
(* What the operations of a kernel list do to its elements: facts about    *)
(* sequences without repetition, used by the proofs about the services     *)
(* that keep their objects in such lists.                                  *)
(***************************************************************************)
EXTENDS SequencesExt, SequenceTheorems, WellFoundedInduction, TLAPS

(***************************************************************************)
(* A nonempty set of naturals contains its minimum.                        *)
(***************************************************************************)
LEMMA MinInSet ==
  ASSUME NEW I \in SUBSET Nat, I # {}
  PROVE  Min(I) \in I /\ \A j \in I : Min(I) <= j
<1>1. PICK m \in I : \A y \in I : ~ (<<y, m>> \in OpToRel(<, Nat))
  BY WFMin, NatLessThanWellFounded
<1>2. \A y \in I : m <= y
  <2> TAKE y \in I
  <2>1. ~ (y < m)
    BY <1>1 DEF OpToRel
  <2> QED
    BY <2>1
<1> QED
  BY <1>2 DEF Min

(***************************************************************************)
(* From list q to list r no element falls back, and every one that is in   *)
(* both moves up.                                                          *)
(***************************************************************************)
NoneFallsBack(q, r) ==
  \A i \in DOMAIN q, j \in DOMAIN r : q[i] = r[j] => j <= i

AllMoveUp(q, r) ==
  \A i \in DOMAIN q, j \in DOMAIN r : q[i] = r[j] => j < i

(***************************************************************************)
(* Appending an element the list does not hold keeps it free of            *)
(* repetitions and adds that element (linkedlist_append).                  *)
(***************************************************************************)
LEMMA AppendElements ==
  ASSUME NEW S, NEW q \in Seq(S), NEW e \in S
  PROVE  /\ Append(q, e) \in Seq(S)
         /\ ToSet(Append(q, e)) = ToSet(q) \cup {e}
         /\ IsInjective(q) /\ e \notin ToSet(q) =>
              IsInjective(Append(q, e)) /\ NoneFallsBack(q, Append(q, e))
<1> DEFINE r == Append(q, e)
<1>1. /\ r \in Seq(S)
      /\ DOMAIN r = 1 .. Len(q) + 1
      /\ DOMAIN q = 1 .. Len(q)
      /\ Len(q) \in Nat
      /\ \A i \in 1 .. Len(q) : r[i] = q[i]
      /\ r[Len(q) + 1] = e
  BY AppendProperties, LenProperties
<1> HIDE DEF r
<1>2. ToSet(r) = ToSet(q) \cup {e}
  BY <1>1 DEF ToSet
<1>3. IsInjective(q) /\ e \notin ToSet(q) => IsInjective(r)
  BY <1>1 DEF IsInjective, ToSet
<1>4. ASSUME IsInjective(q), e \notin ToSet(q)
      PROVE  NoneFallsBack(q, r)
  <2> SUFFICES ASSUME NEW i \in 1 .. Len(q), NEW j \in 1 .. Len(q) + 1, q[i] = r[j]
               PROVE  j = i
    BY <1>1 DEF NoneFallsBack
  <2>1. q[i] # e
    BY <1>1, <1>4 DEF ToSet
  <2>2. j \in 1 .. Len(q) /\ q[i] = q[j]
    BY <1>1, <2>1
  <2> QED
    BY <1>1, <1>4, <2>2 DEF IsInjective
<1> QED
  BY <1>1, <1>2, <1>3, <1>4 DEF r

(***************************************************************************)
(* Removing the head of a list without repetitions (linkedlist_remove at   *)
(* index 0) removes that element and no other.                             *)
(***************************************************************************)
LEMMA TailElements ==
  ASSUME NEW S, NEW q \in Seq(S), q # << >>
  PROVE  /\ Head(q) \in S /\ Head(q) \in ToSet(q)
         /\ Tail(q) \in Seq(S)
         /\ ToSet(q) = ToSet(Tail(q)) \cup {Head(q)}
         /\ IsInjective(q) => /\ IsInjective(Tail(q))
                              /\ Head(q) \notin ToSet(Tail(q))
                              /\ AllMoveUp(q, Tail(q))
<1> DEFINE r == Tail(q)
           h == Head(q)
<1>1. /\ r \in Seq(S)
      /\ h \in S
      /\ h = q[1]
      /\ Len(q) \in Nat \ {0}
      /\ DOMAIN r = 1 .. Len(q) - 1
      /\ DOMAIN q = 1 .. Len(q)
      /\ \A i \in 1 .. Len(q) - 1 : r[i] = q[i + 1]
  BY HeadTailProperties, LenProperties, EmptySeq
<1> HIDE DEF r, h
<1>2. h \in ToSet(q)
  BY <1>1 DEF ToSet
<1>3. ToSet(r) \subseteq ToSet(q)
  BY <1>1 DEF ToSet
<1>4. ToSet(q) \subseteq ToSet(r) \cup {h}
  <2> SUFFICES ASSUME NEW i \in 1 .. Len(q), i # 1
               PROVE  q[i] \in ToSet(r)
    BY <1>1 DEF ToSet
  <2>1. i - 1 \in 1 .. Len(q) - 1 /\ r[i - 1] = q[i]
    BY <1>1
  <2> QED
    BY <1>1, <2>1 DEF ToSet
<1>5. ASSUME IsInjective(q)
      PROVE  IsInjective(r) /\ h \notin ToSet(r)
  <2>1. ASSUME NEW a \in 1 .. Len(q) - 1, NEW b \in 1 .. Len(q) - 1,
               r[a] = r[b]
        PROVE  a = b
    <3>1. a + 1 \in 1 .. Len(q) /\ b + 1 \in 1 .. Len(q)
      BY <1>1
    <3>2. q[a + 1] = q[b + 1]
      BY <1>1, <2>1
    <3>3. a + 1 = b + 1
      BY <1>1, <1>5, <3>1, <3>2 DEF IsInjective
    <3> QED
      BY <3>3
  <2>2. ASSUME NEW a \in 1 .. Len(q) - 1
        PROVE  r[a] # h
    <3>1. a + 1 \in 1 .. Len(q) /\ 1 \in 1 .. Len(q) /\ a + 1 # 1
      BY <1>1
    <3>2. q[a + 1] # q[1]
      BY <1>1, <1>5, <3>1 DEF IsInjective
    <3> QED
      BY <1>1, <3>2
  <2> QED
    BY <1>1, <2>1, <2>2 DEF IsInjective, ToSet
<1>6. ASSUME IsInjective(q) PROVE AllMoveUp(q, r)
  <2> SUFFICES ASSUME NEW i \in 1 .. Len(q), NEW j \in 1 .. Len(q) - 1, q[i] = r[j]
               PROVE  j < i
    BY <1>1 DEF AllMoveUp
  <2>1. j + 1 \in 1 .. Len(q) /\ q[i] = q[j + 1]
    BY <1>1
  <2>2. i = j + 1
    BY <1>1, <1>6, <2>1 DEF IsInjective
  <2> QED
    BY <2>2
<1> QED
  BY <1>1, <1>2, <1>3, <1>4, <1>5, <1>6 DEF r, h

(***************************************************************************)
(* linkedlist_remove_element on a list without repetitions removes the     *)
(* element, wherever it is, and no other.                                  *)
(***************************************************************************)
LEMMA RemoveFirstElements ==
  ASSUME NEW S, NEW q \in Seq(S), NEW e, IsInjective(q)
  PROVE  /\ RemoveFirst(q, e) \in Seq(S)
         /\ IsInjective(RemoveFirst(q, e))
         /\ ToSet(RemoveFirst(q, e)) = ToSet(q) \ {e}
         /\ NoneFallsBack(q, RemoveFirst(q, e))
<1>0. Len(q) \in Nat /\ DOMAIN q = 1 .. Len(q) /\ q \in [1 .. Len(q) -> S]
  BY LenProperties
<1>1. CASE ~ \E i \in 1 .. Len(q) : q[i] = e
  <2>1. RemoveFirst(q, e) = q
    BY <1>1 DEF RemoveFirst
  <2>2. ToSet(q) = ToSet(q) \ {e}
    BY <1>0, <1>1 DEF ToSet
  <2>3. NoneFallsBack(q, q)
    <3> SUFFICES ASSUME NEW i \in 1 .. Len(q), NEW j \in 1 .. Len(q), q[i] = q[j]
                 PROVE  j = i
      BY <1>0 DEF NoneFallsBack
    <3> QED
      BY <1>0 DEF IsInjective
  <2> QED
    BY <2>1, <2>2, <2>3
<1>2. CASE \E i \in 1 .. Len(q) : q[i] = e
  <2> DEFINE I == {i \in 1 .. Len(q) : q[i] = e}
             n == Min(I)
             r == RemoveFirst(q, e)
  <2>1. n \in 1 .. Len(q) /\ q[n] = e
    <3>1. I \in SUBSET Nat /\ I # {}
      BY <1>0, <1>2
    <3> QED
      BY <3>1, MinInSet
  <2>2. r = SubSeq(q, 1, n - 1) \o SubSeq(q, n + 1, Len(q))
    BY <1>2 DEF RemoveFirst, RemoveAt, SelectInSeq
  <2> HIDE DEF I, n, r
  <2> DEFINE front == SubSeq(q, 1, n - 1)
             back == SubSeq(q, n + 1, Len(q))
  <2>3. /\ front \in Seq(S) /\ Len(front) = n - 1
        /\ \A i \in 1 .. n - 1 : front[i] = q[i]
    BY <1>0, <2>1, SubSeqProperties
  <2>4. /\ back \in Seq(S) /\ Len(back) = Len(q) - n
        /\ \A i \in 1 .. Len(q) - n : back[i] = q[n + i]
    <3>1. \A i \in n + 1 .. Len(q) : q[i] \in S
      BY <1>0, <2>1
    <3>2. /\ back \in Seq(S)
          /\ Len(back) = IF n + 1 <= Len(q) THEN Len(q) - (n + 1) + 1 ELSE 0
          /\ \A i \in 1 .. Len(q) - (n + 1) + 1 : back[i] = q[(n + 1) + i - 1]
      BY <1>0, <2>1, <3>1, SubSeqProperties
    <3>3. \A i \in 1 .. Len(q) - n :
            i \in 1 .. Len(q) - (n + 1) + 1 /\ (n + 1) + i - 1 = n + i
      BY <1>0, <2>1
    <3> HIDE DEF back
    <3>4. Len(back) = Len(q) - n
      <4>1. Len(back) = IF n + 1 <= Len(q) THEN Len(q) - (n + 1) + 1 ELSE 0
        BY <3>2
      <4>2. n \in Nat /\ Len(q) \in Nat /\ n <= Len(q)
        BY <1>0, <2>1
      <4>3. CASE n + 1 <= Len(q)
        <5>1. Len(back) = Len(q) - (n + 1) + 1
          BY <4>1, <4>3
        <5>2. Len(q) - (n + 1) + 1 = Len(q) - n
          BY <1>0, <4>2
        <5> QED
          BY <5>1, <5>2
      <4>4. CASE n = Len(q)
        <5>1. ~(n + 1 <= Len(q)) /\ Len(q) - n = 0
          BY <1>0, <4>4
        <5> QED
          BY <4>1, <5>1
      <4>5. n + 1 <= Len(q) \/ n = Len(q)
        BY <4>2
      <4> QED
        BY <4>3, <4>4, <4>5
    <3>5. \A i \in 1 .. Len(q) - n : back[i] = q[n + i]
      BY <3>2, <3>3
    <3> QED
      BY <3>2, <3>4, <3>5
  <2> HIDE DEF front, back
  <2>5. /\ r \in Seq(S)
        /\ DOMAIN r = 1 .. Len(q) - 1
        /\ \A i \in 1 .. Len(q) - 1 :
             r[i] = IF i < n THEN q[i] ELSE q[i + 1]
    <3>1. r = front \o back
      BY <2>2 DEF front, back
    <3>2. /\ r \in Seq(S) /\ Len(r) = Len(front) + Len(back)
          /\ \A i \in 1 .. Len(front) + Len(back) :
               r[i] = IF i <= Len(front) THEN front[i] ELSE back[i - Len(front)]
      BY <2>3, <2>4, <3>1, ConcatProperties
    <3>3. ASSUME NEW i \in 1 .. Len(q) - 1
          PROVE  r[i] = IF i < n THEN q[i] ELSE q[i + 1]
      <4>1. CASE i < n
        BY <1>0, <2>1, <2>3, <2>4, <3>2, <4>1
      <4>2. CASE ~(i < n)
        <5>1. i - (n - 1) \in 1 .. Len(q) - n
          BY <1>0, <2>1, <4>2
        <5>2. r[i] = back[i - (n - 1)]
          <6>1. i \in 1 .. Len(front) + Len(back) /\ ~(i <= Len(front))
            BY <1>0, <2>1, <2>3, <2>4, <4>2
          <6> QED
            BY <2>3, <3>2, <6>1
        <5>3. n + (i - (n - 1)) = i + 1
          BY <1>0, <2>1
        <5> QED
          BY <2>4, <4>2, <5>1, <5>2, <5>3
      <4> QED
        BY <4>1, <4>2
    <3>4. DOMAIN r = 1 .. Len(q) - 1
      BY <1>0, <2>1, <2>3, <2>4, <3>2, LenProperties
    <3> QED
      BY <3>2, <3>3, <3>4
  <2>6. IsInjective(r)
    <3> SUFFICES ASSUME NEW a \in 1 .. Len(q) - 1, NEW b \in 1 .. Len(q) - 1,
                        r[a] = r[b]
                 PROVE  a = b
      BY <2>5 DEF IsInjective
    <3> DEFINE place(i) == IF i < n THEN i ELSE i + 1
    <3>1. /\ place(a) \in 1 .. Len(q) /\ place(b) \in 1 .. Len(q)
          /\ place(a) = place(b) => a = b
      BY <1>0, <2>1
    <3>2. q[place(a)] = r[a] /\ q[place(b)] = r[b]
      BY <2>5
    <3> HIDE DEF place
    <3> QED
      BY <1>0, <3>1, <3>2 DEF IsInjective
  <2>7. ToSet(r) \subseteq ToSet(q) \ {e}
    BY <1>0, <2>1, <2>5 DEF ToSet, IsInjective
  <2>8. ToSet(q) \ {e} \subseteq ToSet(r)
    <3> SUFFICES ASSUME NEW i \in 1 .. Len(q), q[i] # e
                 PROVE  q[i] \in ToSet(r)
      BY <1>0 DEF ToSet
    <3>1. CASE i < n
      BY <1>0, <2>1, <2>5, <3>1 DEF ToSet
    <3>2. CASE i > n
      <4>1. i - 1 \in 1 .. Len(q) - 1 /\ r[i - 1] = q[i]
        BY <1>0, <2>1, <2>5, <3>2
      <4> QED
        BY <2>5, <4>1 DEF ToSet
    <3> QED
      BY <1>0, <2>1, <3>1, <3>2
  <2>9. NoneFallsBack(q, r)
    <3> SUFFICES ASSUME NEW i \in 1 .. Len(q), NEW j \in 1 .. Len(q) - 1,
                        q[i] = r[j]
                 PROVE  j <= i
      BY <1>0, <2>5 DEF NoneFallsBack
    <3>1. CASE j < n
      <4>1. j \in 1 .. Len(q) /\ q[i] = q[j]
        BY <1>0, <2>5, <3>1
      <4> QED
        BY <1>0, <4>1 DEF IsInjective
    <3>2. CASE ~(j < n)
      <4>1. j + 1 \in 1 .. Len(q) /\ q[i] = q[j + 1]
        BY <1>0, <2>5, <3>2
      <4>2. i = j + 1
        BY <1>0, <4>1 DEF IsInjective
      <4> QED
        BY <4>2
    <3> QED
      BY <3>1, <3>2
  <2> QED
    BY <2>5, <2>6, <2>7, <2>8, <2>9 DEF r
<1> QED
  BY <1>1, <1>2
(***************************************************************************)
(* Induction up to a bound, for the set of the numbers with a property.    *)
(***************************************************************************)
LEMMA InductionUpTo ==
  ASSUME NEW n \in Nat, NEW P, 0 \in P,
         \A k \in 0 .. n : k < n /\ k \in P => k + 1 \in P
  PROVE  0 .. n \subseteq P
<1> DEFINE I == {k \in 0 .. n : k \notin P}
<1> SUFFICES ASSUME I # {} PROVE FALSE
  OBVIOUS
<1>1. I \in SUBSET Nat
  OBVIOUS
<1>2. Min(I) \in I /\ \A j \in I : Min(I) <= j
  BY <1>1, MinInSet, Zenon
<1>3. PICK m \in I : \A j \in I : m <= j
  BY <1>2
<1>4. m - 1 \in 0 .. n /\ m - 1 < n /\ m - 1 \notin I
  BY <1>3
<1> QED
  BY <1>4

(***************************************************************************)
(* A loop that starts from a and whose i-th round turns the state x into   *)
(* step[i][x] goes through a sequence of states.                           *)
(***************************************************************************)
LEMMA Recursion ==
  ASSUME NEW S, NEW a \in S, NEW n \in Nat, NEW step \in [1 .. n -> [S -> S]]
  PROVE  \E f \in [0 .. n -> S] :
           f[0] = a /\ \A i \in 1 .. n : f[i] = step[i][f[i - 1]]
<1> DEFINE Runs(k) == \E f \in [0 .. k -> S] :
                        f[0] = a /\ \A i \in 1 .. k : f[i] = step[i][f[i - 1]]
           P == {k \in Nat : Runs(k)}
<1>1. Runs(0)
  <2> WITNESS [i \in 0 .. 0 |-> a] \in [0 .. 0 -> S]
  <2> QED
    OBVIOUS
<1>2. ASSUME NEW k \in 0 .. n, k < n, Runs(k)
      PROVE  Runs(k + 1)
  <2>1. PICK f \in [0 .. k -> S] :
               f[0] = a /\ \A i \in 1 .. k : f[i] = step[i][f[i - 1]]
    BY <1>2
  <2> DEFINE h == [i \in 0 .. k + 1 |-> IF i = k + 1 THEN step[k + 1][f[k]] ELSE f[i]]
  <2>2. h \in [0 .. k + 1 -> S]
    <3>1. step[k + 1] \in [S -> S] /\ f[k] \in S
      <4>1. k + 1 \in 1 .. n /\ k \in 0 .. k
        BY <1>2
      <4> QED
        BY <4>1
    <3>2. \A i \in 0 .. k + 1 : i # k + 1 => i \in 0 .. k
      OBVIOUS
    <3> QED
      BY <3>1, <3>2
  <2>3. h[0] = a /\ \A i \in 1 .. k + 1 : h[i] = step[i][h[i - 1]]
    BY <2>1
  <2> QED
    BY <2>2, <2>3
<1>3. Runs(n)
  <2>1. 0 \in P
    BY <1>1
  <2>2. \A k \in 0 .. n : k < n /\ k \in P => k + 1 \in P
    <3> SUFFICES ASSUME NEW k \in 0 .. n, k < n, k \in P
                 PROVE  k + 1 \in P
      OBVIOUS
    <3>1. Runs(k + 1)
      <4>1. Runs(k)
        OBVIOUS
      <4> HIDE DEF Runs
      <4> QED
        BY <1>2, <4>1
    <3> HIDE DEF Runs
    <3> QED
      BY <3>1
  <2>3. 0 .. n \subseteq P
    <3> HIDE DEF P
    <3> QED
      BY <2>1, <2>2, InductionUpTo
  <2> QED
    BY <2>3
<1> QED
  BY <1>3

(***************************************************************************)
(* RemoveAt takes one element out and closes the gap (linkedlist_remove).  *)
(***************************************************************************)
LEMMA RemoveAtElements ==
  ASSUME NEW S, NEW q \in Seq(S), NEW k \in 1 .. Len(q)
  PROVE  /\ RemoveAt(q, k) \in Seq(S)
         /\ Len(RemoveAt(q, k)) = Len(q) - 1
         /\ \A i \in 1 .. Len(q) - 1 :
              RemoveAt(q, k)[i] = IF i < k THEN q[i] ELSE q[i + 1]
<1> DEFINE u == SubSeq(q, 1, k - 1)
           v == SubSeq(q, k + 1, Len(q))
<1>1. Len(q) \in Nat
  BY LenProperties
<1>2. /\ u \in Seq(S)
      /\ Len(u) = k - 1
      /\ \A i \in 1 .. k - 1 : u[i] = q[i]
  BY <1>1, SubSeqProperties
<1>3. /\ v \in Seq(S)
      /\ Len(v) = Len(q) - k
      /\ \A i \in 1 .. Len(q) - k : v[i] = q[k + i]
  BY <1>1, SubSeqProperties
<1>4. RemoveAt(q, k) = u \o v
  BY DEF RemoveAt
<1> HIDE DEF u, v
<1>5. /\ u \o v \in Seq(S)
      /\ Len(u \o v) = Len(u) + Len(v)
      /\ \A i \in 1 .. Len(u) + Len(v) :
           (u \o v)[i] = IF i <= Len(u) THEN u[i] ELSE v[i - Len(u)]
  BY <1>2, <1>3, ConcatProperties
<1>6. ASSUME NEW i \in 1 .. Len(q) - 1
      PROVE  (u \o v)[i] = IF i < k THEN q[i] ELSE q[i + 1]
  <2>1. CASE i < k
    <3>1. i \in 1 .. k - 1 /\ i <= Len(u) /\ i \in 1 .. Len(u) + Len(v)
      BY <1>1, <1>2, <1>3, <2>1
    <3> QED
      BY <1>2, <1>5, <2>1, <3>1
  <2>2. CASE ~ (i < k)
    <3>1. /\ i - Len(u) \in 1 .. Len(q) - k
          /\ k + (i - Len(u)) = i + 1
          /\ ~ (i <= Len(u)) /\ i \in 1 .. Len(u) + Len(v)
      BY <1>1, <1>2, <1>3, <2>2
    <3> QED
      BY <1>3, <1>5, <2>2, <3>1
  <2> QED
    BY <2>1, <2>2
<1>7. Len(u \o v) = Len(q) - 1
  BY <1>1, <1>2, <1>3, <1>5
<1> QED
  BY <1>4, <1>5, <1>6, <1>7

(***************************************************************************)
(* The elements of two sequences, one after the other.                     *)
(***************************************************************************)
LEMMA JoinElements ==
  ASSUME NEW S, NEW x \in Seq(S), NEW y \in Seq(S), NEW m, NEW n,
         Len(x) = m, Len(y) = n
  PROVE  /\ m \in Nat /\ n \in Nat
         /\ x \o y \in Seq(S)
         /\ Len(x \o y) = m + n
         /\ \A i \in 1 .. m : (x \o y)[i] = x[i]
         /\ \A i \in 1 .. n : (x \o y)[m + i] = y[i]
<1>1. m \in Nat /\ n \in Nat
  BY LenProperties
<1>2. /\ x \o y \in Seq(S)
      /\ Len(x \o y) = Len(x) + Len(y)
      /\ \A i \in 1 .. Len(x) + Len(y) :
           (x \o y)[i] = IF i <= Len(x) THEN x[i] ELSE y[i - Len(x)]
  BY ConcatProperties
<1>3. \A i \in 1 .. m + n : (x \o y)[i] = IF i <= m THEN x[i] ELSE y[i - m]
  BY <1>2
<1>4. ASSUME NEW i \in 1 .. m PROVE (x \o y)[i] = x[i]
  <2>1. i \in 1 .. m + n /\ i <= m
    BY <1>1
  <2> QED
    BY <1>3, <2>1
<1>5. ASSUME NEW i \in 1 .. n PROVE (x \o y)[m + i] = y[i]
  <2>1. m + i \in 1 .. m + n /\ ~ (m + i <= m) /\ m + i - m = i
    BY <1>1
  <2> QED
    BY <1>3, <2>1
<1> QED
  BY <1>1, <1>2, <1>4, <1>5

(***************************************************************************)
(* A pass over c that has kept q of the elements before i and goes on with *)
(* element i: what it has before it.                                       *)
(***************************************************************************)
LEMMA PassAt ==
  ASSUME NEW S, NEW q \in Seq(S), NEW c \in Seq(S), NEW i \in 1 .. Len(c)
  PROVE  LET w == q \o SubSeq(c, i, Len(c))
         IN  /\ w \in Seq(S)
             /\ Len(w) = Len(q) + 1 + (Len(c) - i)
             /\ \A k \in 1 .. Len(q) : w[k] = q[k]
             /\ w[Len(q) + 1] = c[i]
             /\ \A k \in 1 .. Len(c) - i : w[Len(q) + 1 + k] = c[i + k]
<1> DEFINE u == SubSeq(c, i, Len(c))
           m == Len(c) - i
           n == Len(q)
           w == q \o u
<1>1. m \in Nat /\ n \in Nat /\ c[i] \in S /\ Len(c) \in Nat
  BY LenProperties, ElementOfSeq
<1>2. /\ u \in Seq(S) /\ Len(u) = m + 1
      /\ u[1] = c[i]
      /\ \A k \in 1 .. m : u[k + 1] = c[i + k]
  <2>1. /\ u \in Seq(S) /\ Len(u) = Len(c) - i + 1
        /\ \A k \in 1 .. Len(c) - i + 1 : u[k] = c[i + k - 1]
    BY <1>1, SubSeqProperties
  <2> QED
    BY <1>1, <2>1
<1> DEFINE l == m + 1
<1>7. Len(q) = n /\ Len(u) = l
  BY <1>2
<1> HIDE DEF u, m, n, l
<1>3. /\ w \in Seq(S) /\ Len(w) = n + l
      /\ \A k \in 1 .. n : w[k] = q[k]
      /\ \A k \in 1 .. l : w[n + k] = u[k]
  BY <1>2, <1>7, JoinElements
<1> USE DEF l
<1> HIDE DEF w
<1>4. w[n + 1] = c[i]
  BY <1>1, <1>2, <1>3
<1>5. ASSUME NEW k \in 1 .. m PROVE w[n + 1 + k] = c[i + k]
  <2>1. k + 1 \in 1 .. m + 1 /\ n + 1 + k = n + (k + 1)
    BY <1>1
  <2> QED
    BY <1>2, <1>3, <2>1
<1>6. n + (m + 1) = n + 1 + m
  BY <1>1
<1> QED
  BY <1>3, <1>4, <1>5, <1>6 DEF u, m, n, w

(***************************************************************************)
(* What it has not come to yet.                                            *)
(***************************************************************************)
LEMMA PassAhead ==
  ASSUME NEW S, NEW c \in Seq(S), NEW i \in 1 .. Len(c)
  PROVE  LET v == SubSeq(c, i + 1, Len(c))
         IN  /\ v \in Seq(S)
             /\ Len(v) = Len(c) - i
             /\ \A k \in 1 .. Len(c) - i : v[k] = c[i + k]
<1> DEFINE v == SubSeq(c, i + 1, Len(c))
<1>1. Len(c) \in Nat
  BY LenProperties
<1>2. /\ v \in Seq(S) /\ Len(v) = Len(c) - i
      /\ \A k \in 1 .. Len(c) - i : v[k] = c[i + 1 + k - 1]
  BY <1>1, SubSeqProperties
<1> QED
  BY <1>1, <1>2

(***************************************************************************)
(* It keeps the element.                                                   *)
(***************************************************************************)
LEMMA PassKeeps ==
  ASSUME NEW S, NEW q \in Seq(S), NEW c \in Seq(S), NEW i \in 1 .. Len(c)
  PROVE  q \o SubSeq(c, i, Len(c)) = Append(q, c[i]) \o SubSeq(c, i + 1, Len(c))
<1> DEFINE w == q \o SubSeq(c, i, Len(c))
           v == SubSeq(c, i + 1, Len(c))
           a == Append(q, c[i])
           m == Len(c) - i
           n == Len(q)
           t == a \o v
<1>1. m \in Nat /\ n \in Nat /\ c[i] \in S
  BY LenProperties, ElementOfSeq
<1>2. /\ w \in Seq(S) /\ Len(w) = n + 1 + m
      /\ \A k \in 1 .. n : w[k] = q[k]
      /\ w[n + 1] = c[i]
      /\ \A k \in 1 .. m : w[n + 1 + k] = c[i + k]
  BY PassAt
<1>3. v \in Seq(S) /\ Len(v) = m /\ \A k \in 1 .. m : v[k] = c[i + k]
  BY PassAhead
<1>4. /\ a \in Seq(S) /\ Len(a) = n + 1
      /\ \A k \in 1 .. n : a[k] = q[k]
      /\ a[n + 1] = c[i]
  BY <1>1, AppendProperties
<1> HIDE DEF w, v, a, m
<1>5. /\ t \in Seq(S) /\ Len(t) = (n + 1) + m
      /\ \A k \in 1 .. n + 1 : t[k] = a[k]
      /\ \A k \in 1 .. m : t[n + 1 + k] = v[k]
  BY <1>3, <1>4, JoinElements
<1> HIDE DEF n, t
<1>6. ASSUME NEW k \in 1 .. n + 1 + m
      PROVE  \/ k \in 1 .. n
             \/ k = n + 1
             \/ \E j \in 1 .. m : k = n + 1 + j
  <2>1. CASE k > n + 1
    <3>1. k - (n + 1) \in 1 .. m /\ k = n + 1 + (k - (n + 1))
      BY <1>1, <2>1
    <3> QED
      BY <3>1
  <2> QED
    BY <1>1, <2>1
<1>7. \A k \in 1 .. n : w[k] = t[k]
  BY <1>1, <1>2, <1>4, <1>5
<1>8. w[n + 1] = t[n + 1]
  BY <1>1, <1>2, <1>4, <1>5
<1>9. \A k \in 1 .. m : w[n + 1 + k] = t[n + 1 + k]
  BY <1>2, <1>3, <1>5
<1>10. \A k \in 1 .. n + 1 + m : w[k] = t[k]
  BY <1>6, <1>7, <1>8, <1>9
<1>11. w = t
  BY <1>2, <1>5, <1>10, SeqEqual
<1> QED
  BY <1>11 DEF w, v, a, t

(***************************************************************************)
(* It takes the element out of what it has before it.                      *)
(***************************************************************************)
LEMMA PassRemoves ==
  ASSUME NEW S, NEW q \in Seq(S), NEW c \in Seq(S), NEW i \in 1 .. Len(c)
  PROVE  RemoveAt(q \o SubSeq(c, i, Len(c)), Len(q) + 1) = q \o SubSeq(c, i + 1, Len(c))
<1> DEFINE w == q \o SubSeq(c, i, Len(c))
           v == SubSeq(c, i + 1, Len(c))
           m == Len(c) - i
           n == Len(q)
           r == RemoveAt(w, n + 1)
           t == q \o v
<1>1. m \in Nat /\ n \in Nat
  BY LenProperties
<1>2. /\ w \in Seq(S) /\ Len(w) = n + 1 + m
      /\ \A k \in 1 .. n : w[k] = q[k]
      /\ w[n + 1] = c[i]
      /\ \A k \in 1 .. m : w[n + 1 + k] = c[i + k]
  BY PassAt
<1>3. v \in Seq(S) /\ Len(v) = m /\ \A k \in 1 .. m : v[k] = c[i + k]
  BY PassAhead
<1> HIDE DEF w, v, m
<1>4. /\ t \in Seq(S) /\ Len(t) = n + m
      /\ \A k \in 1 .. n : t[k] = q[k]
      /\ \A k \in 1 .. m : t[n + k] = v[k]
  BY <1>3, JoinElements
<1> HIDE DEF n, t
<1>5. /\ r \in Seq(S) /\ Len(r) = n + m
      /\ \A k \in 1 .. n + m : r[k] = IF k < n + 1 THEN w[k] ELSE w[k + 1]
  <2>1. n + 1 \in 1 .. Len(w) /\ Len(w) - 1 = n + m
    BY <1>1, <1>2
  <2>2. /\ r \in Seq(S) /\ Len(r) = Len(w) - 1
        /\ \A k \in 1 .. Len(w) - 1 : r[k] = IF k < n + 1 THEN w[k] ELSE w[k + 1]
    BY <1>2, <2>1, RemoveAtElements
  <2> QED
    BY <2>1, <2>2
<1> HIDE DEF r
<1>6. ASSUME NEW k \in 1 .. n + m
      PROVE  r[k] = t[k]
  <2>1. CASE k < n + 1
    <3>1. k \in 1 .. n
      BY <1>1, <2>1
    <3> QED
      BY <1>2, <1>4, <1>5, <2>1, <3>1
  <2>2. CASE ~ (k < n + 1)
    <3> DEFINE j == k - n
    <3>1. j \in 1 .. m /\ k + 1 = n + 1 + j /\ k = n + j
      BY <1>1, <2>2
    <3> HIDE DEF j
    <3>2. r[k] = w[n + 1 + j]
      BY <1>5, <2>2, <3>1
    <3> QED
      BY <1>2, <1>3, <1>4, <3>1, <3>2
  <2> QED
    BY <2>1, <2>2
<1>7. r = t
  BY <1>4, <1>5, <1>6, SeqEqual
<1> QED
  BY <1>7 DEF w, v, n, r, t
=============================================================================
