-------------------------------- MODULE List --------------------------------
(***************************************************************************)
(* What libutils/include/algorithms/linkedlist.h promises: a list is a     *)
(* sequence, and each function reports what it found in it.  The other     *)
(* modules use lists in this form; LinkedList is shown to implement it.    *)
(***************************************************************************)
EXTENDS Integers, Sequences

CONSTANTS
  Values,    \* the elements: pointers, none of them NULL
  NULL,      \* the NULL pointer
  Indexes,   \* the indexes callers use
  Requests   \* what a callback may ask for: functions from positions to ITER_*

VARIABLES
  seq,       \* the elements
  result     \* the last call, its argument and what it returned

First(I) == CHOOSE i \in I : \A j \in I : i <= j

\* the position of the first element that is v, 0 when there is none
Position(v) ==
  LET I == {i \in 1 .. Len(seq) : seq[i] = v} IN IF I # {} THEN First(I) ELSE 0

Without(i) == SubSeq(seq, 1, i - 1) \o SubSeq(seq, i + 1, Len(seq))

ListInit == seq = << >> /\ result = <<"create", NULL, TRUE>>

linkedlist_create == seq' = seq /\ result' = <<"create", NULL, TRUE>>

linkedlist_append(v) ==
  \/ seq' = Append(seq, v) /\ result' = <<"append", v, TRUE>>
  \/ seq' = seq /\ result' = <<"append", v, FALSE>>

linkedlist_remove_element(v) ==
  /\ seq' = IF Position(v) = 0 THEN seq ELSE Without(Position(v))
  /\ result' = <<"remove_element", v, Position(v) # 0>>

linkedlist_remove(index) ==
  IF index < Len(seq)
    THEN /\ seq' = Without(index + 1)
         /\ result' = <<"remove", index, seq[index + 1]>>
    ELSE seq' = seq /\ result' = <<"remove", index, NULL>>

linkedlist_pop ==
  IF seq = << >>
    THEN seq' = seq /\ result' = <<"pop", NULL, NULL>>
    ELSE /\ seq' = SubSeq(seq, 1, Len(seq) - 1)
         /\ result' = <<"pop", NULL, seq[Len(seq)]>>

linkedlist_get(index) ==
  /\ result' = <<"get", index, IF index < Len(seq) THEN seq[index + 1] ELSE NULL>>
  /\ seq' = seq

linkedlist_find(v) ==
  /\ result' = <<"find", v, Position(v) - 1>>
  /\ seq' = seq

\* what is left of the first i elements of s, without those at the positions in gone
Kept(s, gone) ==
  LET kept[i \in 0 .. Len(s)] ==
        IF i = 0 THEN << >>
                 ELSE IF i \in gone THEN kept[i - 1] ELSE Append(kept[i - 1], s[i])
  IN  kept

(***************************************************************************)
(* The callback is asked for one element after the other, up to the first  *)
(* that it does not let pass; the elements it asked to remove are gone.    *)
(***************************************************************************)
linkedlist_iter_with_action(ask) ==
  LET ends == {i \in DOMAIN seq : ask[i] \notin {"GO_NEXT", "REMOVE_AND_NEXT"}}
      end == IF ends = {} THEN Len(seq) ELSE First(ends)
      gone == {i \in 1 .. end : ask[i] \in {"REMOVE_AND_RETURN", "REMOVE_AND_NEXT"}}
  IN  /\ seq' = Kept(seq, gone)[end] \o SubSeq(seq, end + 1, Len(seq))
      /\ result' = <<"iter_with_action", [i \in 1 .. end |-> ask[i]],
                     IF ends # {} /\ ask[end] # "INVALID" THEN seq[end] ELSE NULL>>

linkedlist_destroy ==
  seq' = << >> /\ result' = <<"destroy", NULL, TRUE>>

ListNext ==
  \/ \E v \in Values : \/ linkedlist_append(v)
                       \/ linkedlist_remove_element(v)
                       \/ linkedlist_find(v)
  \/ \E i \in Indexes : linkedlist_remove(i) \/ linkedlist_get(i)
  \/ \E ask \in Requests : linkedlist_iter_with_action(ask)
  \/ linkedlist_pop
  \/ linkedlist_create
  \/ linkedlist_destroy

ListSpec == ListInit /\ [][ListNext]_<<seq, result>>
=============================================================================
