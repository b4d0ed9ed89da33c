-------------------------- MODULE FormattingProofs --------------------------
(***************************************************************************)
(* How far vsnprintf writes past its buffer, for every format, every       *)
(* argument and every size.                                                *)
(***************************************************************************)
EXTENDS Formatting, ListFacts

(***************************************************************************)
(* The types of the arguments, and buffers that are not empty.             *)
(***************************************************************************)
FormatTypes ==
  /\ BufferSizes \subseteq Nat \ {0}
  /\ \A item \in Items : IsArgument(item) =>
       /\ item.conv = "d" => item.arg \in Int
       /\ item.conv \in {"o", "x", "p"} => item.arg \in Nat
       /\ item.conv = "s" => item.arg \in Seq(STRING)

(***************************************************************************)
(* A nonempty set of numbers up to n contains its maximum.                 *)
(***************************************************************************)
LEMMA MaxInSet ==
  ASSUME NEW n \in Nat, NEW X \in SUBSET (0 .. n), X # {}
  PROVE  Max(X) \in X /\ \A y \in X : y <= Max(X)
<1> DEFINE I == {n - x : x \in X}
<1>1. I \in SUBSET Nat /\ I # {}
  <2>1. \A x \in X : x \in 0 .. n /\ n - x \in Nat
    OBVIOUS
  <2> QED
    BY <2>1
<1>2. Min(I) \in I /\ \A j \in I : Min(I) <= j
  <2> HIDE DEF I
  <2> QED
    BY <1>1, MinInSet
<1>3. PICK x \in X : Min(I) = n - x
  BY <1>2
<1>4. \A y \in X : x >= y
  <2> TAKE y \in X
  <2>1. n - y \in I
    OBVIOUS
  <2>2. n - x <= n - y
    BY <1>2, <1>3, <2>1
  <2> QED
    BY <2>2
<1>5. \A y \in X : Max(X) >= y
  BY <1>4 DEF Max
<1> QED
  BY <1>4, <1>5 DEF Max

(***************************************************************************)
(* The loop of convert divides by the base until nothing is left.          *)
(***************************************************************************)
LEMMA RestStep ==
  ASSUME NEW num \in Nat, NEW base \in Nat \ {0}
  PROVE  /\ Rest(num, base) \in [0 .. BITS -> Nat]
         /\ \A k \in 1 .. BITS : Rest(num, base)[k] = Rest(num, base)[k - 1] \div base
<1> DEFINE n == BITS
           S == Nat
           a == num
           step == [k \in 1 .. n |-> [x \in Nat |-> x \div base]]
           G(f) == [k \in 0 .. n |-> IF k = 0 THEN num ELSE f[k - 1] \div base]
<1>1. step \in [1 .. n -> [S -> S]] /\ n \in Nat /\ a \in S
  BY DEF BITS
<1>2. PICK f \in [0 .. n -> S] :
        f[0] = a /\ \A k \in 1 .. n : f[k] = step[k][f[k - 1]]
  <2> HIDE DEF n, S, a, step
  <2> QED
    BY <1>1, Recursion
<1>3. \A k \in 1 .. n : k - 1 \in 0 .. n /\ f[k] = f[k - 1] \div base
  <2> TAKE k \in 1 .. n
  <2>1. k - 1 \in 0 .. n
    BY <1>1
  <2>2. f[k - 1] \in Nat
    BY <2>1
  <2>3. step[k][f[k - 1]] = f[k - 1] \div base
    BY <2>2
  <2> QED
    BY <1>2, <2>1, <2>3
<1>4. f = G(f)
  BY <1>1, <1>2, <1>3
<1>5. Rest(num, base) = CHOOSE g : g = G(g)
  BY DEF Rest
<1>6. Rest(num, base) = G(Rest(num, base))
  BY <1>4, <1>5
<1> DEFINE r == Rest(num, base)
           P == {k \in 0 .. n : r[k] = f[k]}
<1>7. \A k \in 0 .. n : r[k] = IF k = 0 THEN num ELSE r[k - 1] \div base
  BY <1>6
<1>8. DOMAIN r = 0 .. n /\ r = [k \in 0 .. n |-> r[k]]
  BY <1>6
<1> HIDE DEF r, G
<1>9. 0 .. n \subseteq P
  <2>1. 0 \in P
    BY <1>1, <1>2, <1>7
  <2>2. ASSUME NEW k \in 0 .. n, k < n, k \in P PROVE k + 1 \in P
    <3>1. k + 1 \in 0 .. n /\ k + 1 \in 1 .. n /\ (k + 1) - 1 = k /\ k + 1 # 0
      BY <1>1, <2>2
    <3>2. r[k + 1] = r[k] \div base /\ f[k + 1] = f[k] \div base
      BY <1>3, <1>7, <3>1
    <3> QED
      BY <2>2, <3>1, <3>2
  <2> HIDE DEF P
  <2> QED
    BY <1>1, <2>1, <2>2, InductionUpTo
<1>10. r \in [0 .. n -> Nat]
  BY <1>2, <1>8, <1>9
<1> QED
  BY <1>1, <1>7, <1>10 DEF r

(***************************************************************************)
(* What numbers are written with.                                          *)
(***************************************************************************)
Chars == {representation[k] : k \in 1 .. 16} \cup {"-", "0", "x"}

(***************************************************************************)
(* The digits convert finds are as many as there are rounds with something *)
(* left, and no more than buf has places.                                  *)
(***************************************************************************)
LEMMA DigitsAre ==
  ASSUME NEW num \in Nat, NEW base \in {8, 10, 16}
  PROVE  /\ Digits(num, base) \in Seq(Chars)
         /\ Len(Digits(num, base)) \in 0 .. BITS
<1> DEFINE rest == Rest(num, base)
           D == {k \in 1 .. BITS : \A j \in 1 .. k - 1 : rest[j] # 0}
           I == {k \in 1 .. BITS : k \notin D}
           digit == [i \in D |-> representation[(rest[i - 1] % base) + 1]]
<1>1. rest \in [0 .. BITS -> Nat] /\ \A k \in 1 .. BITS : rest[k] = rest[k - 1] \div base
  BY RestStep
<1>2. BITS \in Nat /\ BITS > 0
  BY DEF BITS
<1> HIDE DEF rest
<1>3. PICK n \in 0 .. BITS : D = 1 .. n
  <2>1. CASE I = {}
    <3>1. D = 1 .. BITS
      BY <2>1
    <3> QED
      BY <1>2, <3>1
  <2>2. CASE I # {}
    <3>1. PICK m \in I : \A j \in I : m <= j
      <4>1. I \in SUBSET Nat
        OBVIOUS
      <4> HIDE DEF I
      <4> QED
        BY <2>2, <4>1, MinInSet
    <3>2. m \in 1 .. BITS /\ \E j \in 1 .. m - 1 : rest[j] = 0
      BY <3>1
    <3>3. \A k \in 1 .. m - 1 : k \in D
      <4> TAKE k \in 1 .. m - 1
      <4>1. k \in 1 .. BITS /\ ~ (m <= k)
        BY <1>2, <3>2
      <4> QED
        BY <3>1, <4>1
    <3>4. m .. BITS \cap D = {}
      <4>1. PICK j \in 1 .. m - 1 : rest[j] = 0
        BY <3>2
      <4>2. \A k \in m .. BITS : j \in 1 .. k - 1
        BY <1>2, <3>2
      <4> QED
        BY <4>1, <4>2
    <3>5. D = 1 .. m - 1
      BY <1>2, <3>2, <3>3, <3>4
    <3>6. m - 1 \in 0 .. BITS
      BY <1>2, <3>2
    <3> QED
      BY <3>5, <3>6
  <2> QED
    BY <2>1, <2>2
<1>4. \A r \in Nat : representation[(r % base) + 1] \in Chars
  <2> TAKE r \in Nat
  <2>1. (r % base) + 1 \in 1 .. 16
    OBVIOUS
  <2> QED
    BY <2>1 DEF Chars
<1>5. \A i \in 1 .. n : rest[i - 1] \in Nat
  BY <1>1, <1>2
<1>6. digit = [i \in 1 .. n |-> representation[(rest[i - 1] % base) + 1]]
  BY <1>3
<1>7. digit \in [1 .. n -> Chars]
  BY <1>4, <1>5, <1>6
<1>8. Digits(num, base) = digit
  BY DEF Digits, rest
<1> HIDE DEF digit, D, I
<1>9. digit \in Seq(Chars) /\ Len(digit) = n
  BY <1>2, <1>7
<1> QED
  BY <1>8, <1>9

(***************************************************************************)
(* WRITE_NUMBER fills the room there is, or, past the end of the buffer,   *)
(* writes all digits.                                                      *)
(***************************************************************************)
LEMMA NumberFits ==
  ASSUME buffer_size \in Nat, p \in Nat,
         NEW num \in Nat, NEW base \in {8, 10, 16}, NEW n \in Nat
  PROVE  /\ Number(num, base, n) \in Seq(Chars)
         /\ Len(Number(num, base, n)) \in Nat
         /\ Len(Number(num, base, n)) <= Len(Digits(num, base))
         /\ p + n <= buffer_size => p + n + Len(Number(num, base, n)) <= buffer_size
<1> DEFINE d == Digits(num, base)
           r == Reverse(d)
           l == IF Room(n) < Len(r) THEN Room(n) ELSE Len(r)
<1>1. d \in Seq(Chars) /\ Len(d) \in Nat
  <2>1. d \in Seq(Chars)
    BY DigitsAre
  <2> HIDE DEF d
  <2> QED
    BY <2>1, LenProperties
<1>2. r \in Seq(Chars) /\ Len(r) = Len(d)
  <2> HIDE DEF d
  <2>1. r = [i \in 1 .. Len(d) |-> d[(Len(d) - i) + 1]]
    BY DEF Reverse
  <2>2. \A i \in 1 .. Len(d) : d[(Len(d) - i) + 1] \in Chars
    BY <1>1, ElementOfSeq
  <2> HIDE DEF r
  <2> QED
    BY <1>1, <2>1, <2>2
<1>3. Room(n) \in Nat /\ (p + n <= buffer_size => Room(n) = buffer_size - p - n)
  BY DEF Room, SIZE_MAX
<1>4. l \in 0 .. Len(r) /\ l <= Room(n)
  BY <1>1, <1>2, <1>3
<1>5. Number(num, base, n) = SubSeq(r, 1, l)
  BY DEF Number, convert
<1> HIDE DEF d, r, l
<1>6. SubSeq(r, 1, l) \in Seq(Chars) /\ Len(SubSeq(r, 1, l)) = l
  <2>1. \A i \in 1 .. l : r[i] \in Chars
    BY <1>1, <1>2, <1>4, ElementOfSeq
  <2> QED
    BY <1>1, <1>2, <1>4, <2>1, SubSeqProperties
<1> QED
  BY <1>1, <1>2, <1>3, <1>4, <1>5, <1>6 DEF d

LEMMA NumberInside ==
  ASSUME buffer_size \in Nat, p \in Nat, p <= buffer_size,
         NEW num \in Nat, NEW base \in {8, 10, 16}
  PROVE  /\ Len(Number(num, base, 0)) \in Nat
         /\ p + Len(Number(num, base, 0)) <= buffer_size
<1> DEFINE n == 0
<1>1. n \in Nat /\ p + n <= buffer_size
  OBVIOUS
<1>2. n = 0
  OBVIOUS
<1> HIDE DEF n
<1>3. Len(Number(num, base, n)) \in Nat /\ p + n + Len(Number(num, base, n)) <= buffer_size
  BY <1>1, NumberFits
<1> QED
  BY <1>2, <1>3

(***************************************************************************)
(* WRITE_SEQUENCE fills the room there is.                                 *)
(***************************************************************************)
LEMMA CutFits ==
  ASSUME buffer_size \in Nat, p \in Nat, p <= buffer_size, NEW S, NEW s \in Seq(S)
  PROVE  Cut(s) \in Seq(S) /\ Len(Cut(s)) \in Nat /\ p + Len(Cut(s)) <= buffer_size
<1> DEFINE l == IF Room(0) < Len(s) THEN Room(0) ELSE Len(s)
<1>1. Len(s) \in Nat
  BY LenProperties
<1>2. Room(0) = buffer_size - p
  BY DEF Room
<1>3. l \in 0 .. Len(s) /\ p + l <= buffer_size
  BY <1>1, <1>2
<1>4. Cut(s) = SubSeq(s, 1, l)
  BY DEF Cut
<1> HIDE DEF l
<1>5. SubSeq(s, 1, l) \in Seq(S) /\ Len(SubSeq(s, 1, l)) = l
  <2>1. \A i \in 1 .. l : s[i] \in S
    BY <1>1, <1>3, ElementOfSeq
  <2> QED
    BY <1>1, <1>3, <2>1, SubSeqProperties
<1> QED
  BY <1>1, <1>3, <1>4, <1>5

(***************************************************************************)
(* No negative argument has more digits than MostDigits.                   *)
(***************************************************************************)
LEMMA MostDigitsBound ==
  ASSUME FormatTypes
  PROVE  /\ MostDigits \in Nat
         /\ \A item \in Items : IsArgument(item) /\ item.conv = "d" /\ item.arg < 0 =>
              Len(Digits(-item.arg, 10)) <= MostDigits
<1> DEFINE Negative == {i \in Items : IsArgument(i) /\ i.conv = "d" /\ i.arg < 0}
           X == {Len(Digits(-item.arg, 10)) : item \in Negative} \cup {0}
<1>1. \A item \in Negative : Len(Digits(-item.arg, 10)) \in 0 .. BITS
  <2> TAKE item \in Negative
  <2>1. -item.arg \in Nat
    BY DEF FormatTypes
  <2> QED
    BY <2>1, DigitsAre
<1>2. BITS \in Nat
  BY DEF BITS
<1>3. X \in SUBSET (0 .. BITS) /\ X # {}
  BY <1>1, <1>2
<1>4. MostDigits = Max(X)
  BY DEF MostDigits
<1>5. Max(X) \in X /\ \A y \in X : y <= Max(X)
  <2> HIDE DEF X
  <2> QED
    BY <1>2, <1>3, MaxInSet
<1>6. \A item \in Negative : Len(Digits(-item.arg, 10)) \in X
  OBVIOUS
<1>7. MostDigits \in Nat
  BY <1>2, <1>3, <1>4, <1>5
<1> HIDE DEF X
<1> QED
  BY <1>4, <1>5, <1>6, <1>7
(***************************************************************************)
(* va_arg returns an argument of the type it is asked for.                 *)
(***************************************************************************)
LEMMA ArgumentTypes ==
  ASSUME NEW n \in Nat, items \in [1 .. n -> Items], NEW conv, NEW arg \in va_arg(conv)
  PROVE  \E item \in Items : IsArgument(item) /\ item.conv = conv /\ item.arg = arg
<1> DEFINE next == {items[i] : i \in Passed(fetched + 1)}
           fits == {item \in next : item.conv = conv}
           all == {i \in Items : IsArgument(i) /\ i.conv = conv}
<1>1. PICK item \in IF fits # {} THEN fits ELSE all : item.arg = arg
  BY DEF va_arg
<1>2. \A i \in Passed(fetched + 1) : i \in 1 .. n /\ IsArgument(items[i])
  BY DEF Passed
<1>3. \A x \in next : x \in Items /\ IsArgument(x)
  BY <1>2
<1> HIDE DEF next
<1>4. item \in Items /\ IsArgument(item) /\ item.conv = conv
  BY <1>1, <1>3
<1> QED
  BY <1>1, <1>4

(***************************************************************************)
(* A conversion that begins inside the buffer ends at most one character   *)
(* and the digits of a negative number past its end.                       *)
(***************************************************************************)
LEMMA ConvertedFits ==
  ASSUME FormatTypes, buffer_size \in Nat, p \in Nat, p <= buffer_size,
         NEW item \in Items, IsArgument(item),
         item.conv \in {"c", "d", "o", "s", "p", "x"}
  PROVE  /\ Len(Converted(item.conv, item.arg)) \in Nat
         /\ p + Len(Converted(item.conv, item.arg)) <= buffer_size + 1 + MostDigits
<1> DEFINE conv == item.conv
           arg == item.arg
           text == Converted(conv, arg)
<1>1. MostDigits \in Nat
  BY MostDigitsBound
<1>2. SUFFICES Len(text) \in Nat /\ (p + Len(text) <= buffer_size \/ Len(text) <= 1 + MostDigits)
  BY <1>1
<1>3. CASE conv = "c"
  <2>1. text = <<arg>>
    BY <1>3 DEF Converted
  <2> QED
    BY <1>1, <2>1
<1>4. CASE conv = "d" /\ arg < 0
  <2>1. text = <<"-">> \o Number(-arg, 10, 1)
    BY <1>4 DEF Converted
  <2>2. -arg \in Nat
    BY <1>4 DEF FormatTypes
  <2>3. /\ Number(-arg, 10, 1) \in Seq(Chars)
        /\ Len(Number(-arg, 10, 1)) \in Nat
        /\ Len(Number(-arg, 10, 1)) <= Len(Digits(-arg, 10))
    BY <2>2, NumberFits
  <2>4. Len(Digits(-arg, 10)) <= MostDigits
    BY <1>4, MostDigitsBound
  <2>5. Len(Digits(-arg, 10)) \in Nat
    <3>1. Digits(-arg, 10) \in Seq(Chars)
      BY <2>2, DigitsAre
    <3> QED
      BY <3>1, LenProperties
  <2>6. <<"-">> \in Seq(Chars) /\ Len(<<"-">>) = 1
    BY DEF Chars
  <2>7. Len(<<"-">> \o Number(-arg, 10, 1)) = 1 + Len(Number(-arg, 10, 1))
    BY <2>3, <2>6, ConcatProperties
  <2> HIDE DEF text, arg
  <2> QED
    BY <1>1, <2>1, <2>3, <2>4, <2>5, <2>7
<1>5. CASE conv = "d" /\ ~(arg < 0)
  <2>1. text = Number(arg, 10, 0)
    BY <1>5 DEF Converted
  <2>2. arg \in Nat
    BY <1>5 DEF FormatTypes
  <2>3. Len(Number(arg, 10, 0)) \in Nat /\ p + Len(Number(arg, 10, 0)) <= buffer_size
    BY <2>2, NumberInside
  <2> HIDE DEF text
  <2> QED
    BY <2>1, <2>3
<1>6. CASE conv = "o"
  <2>1. text = Number(arg, 8, 0)
    BY <1>6 DEF Converted
  <2>2. arg \in Nat
    BY <1>6 DEF FormatTypes
  <2>3. Len(Number(arg, 8, 0)) \in Nat /\ p + Len(Number(arg, 8, 0)) <= buffer_size
    BY <2>2, NumberInside
  <2> HIDE DEF text
  <2> QED
    BY <2>1, <2>3
<1>7. CASE conv = "x"
  <2>1. text = Number(arg, 16, 0)
    BY <1>7 DEF Converted
  <2>2. arg \in Nat
    BY <1>7 DEF FormatTypes
  <2>3. Len(Number(arg, 16, 0)) \in Nat /\ p + Len(Number(arg, 16, 0)) <= buffer_size
    BY <2>2, NumberInside
  <2> HIDE DEF text
  <2> QED
    BY <2>1, <2>3
<1>8. \A s : s = NULL_PTR => Len(Cut(s)) \in Nat /\ p + Len(Cut(s)) <= buffer_size
  <2>1. NULL_PTR \in Seq({"(", "n", "u", "l", ")"})
    BY DEF NULL_PTR
  <2> HIDE DEF NULL_PTR
  <2> QED
    BY <2>1, CutFits
<1>9. CASE conv = "s"
  <2>1. text = Cut(IF arg = NULL THEN NULL_PTR ELSE arg)
    BY <1>9 DEF Converted
  <2>2. arg \in Seq(STRING)
    BY <1>9 DEF FormatTypes
  <2>3. Len(Cut(arg)) \in Nat /\ p + Len(Cut(arg)) <= buffer_size
    BY <2>2, CutFits
  <2>4. CASE arg = NULL
    BY <1>8, <2>1, <2>4
  <2>5. CASE arg # NULL
    BY <2>1, <2>3, <2>5
  <2> QED
    BY <2>4, <2>5
<1>10. CASE conv = "p" /\ arg = 0
  <2>1. text = Cut(NULL_PTR)
    BY <1>10 DEF Converted
  <2> QED
    BY <1>8, <2>1
<1>11. CASE conv = "p" /\ arg # 0
  <2> DEFINE ox == Cut(<<"0", "x">>)
  <2>1. text = ox \o Number(arg, 16, Len(ox))
    BY <1>11 DEF Converted
  <2>2. arg \in Nat
    BY <1>11 DEF FormatTypes
  <2>3. <<"0", "x">> \in Seq(Chars)
    BY DEF Chars
  <2>4. ox \in Seq(Chars) /\ Len(ox) \in Nat /\ p + Len(ox) <= buffer_size
    BY <2>3, CutFits
  <2> HIDE DEF ox
  <2>5. /\ Number(arg, 16, Len(ox)) \in Seq(Chars)
        /\ Len(Number(arg, 16, Len(ox))) \in Nat
        /\ p + Len(ox) + Len(Number(arg, 16, Len(ox))) <= buffer_size
    BY <2>2, <2>4, NumberFits
  <2>6. Len(ox \o Number(arg, 16, Len(ox))) = Len(ox) + Len(Number(arg, 16, Len(ox)))
    BY <2>4, <2>5, ConcatProperties
  <2> HIDE DEF text
  <2> QED
    BY <2>1, <2>4, <2>5, <2>6
<1> QED
  BY <1>3, <1>4, <1>5, <1>6, <1>7, <1>9, <1>10, <1>11
(***************************************************************************)
(* Writing a text moves p by its length and fills no other place.          *)
(***************************************************************************)
LEMMA PutExtends ==
  ASSUME p \in Nat, DOMAIN buffer \subseteq 0 .. p - 1, NEW s, Len(s) \in Nat, Put(s)
  PROVE  p' = p + Len(s) /\ DOMAIN buffer' \subseteq 0 .. p' - 1
<1>1. p' = p + Len(s) /\ buffer' = Written(s, p)
  BY DEF Put
<1>2. DOMAIN Written(s, p) = DOMAIN buffer \cup (p .. p + Len(s) - 1)
  BY DEF Written
<1> QED
  BY <1>1, <1>2

(***************************************************************************)
(* The inductive invariant.  Inside the loop p is not past the end of the  *)
(* buffer; the last conversion may have moved it there.                    *)
(***************************************************************************)
FormatInv ==
  /\ \E n \in Nat : items \in [1 .. n -> Items]
  /\ buffer_size \in Nat \ {0}
  /\ p \in Nat
  /\ pc \in {"text", "switch", "end", "done"}
  /\ pc \in {"text", "switch"} => p <= buffer_size
  /\ pc = "end" => p <= buffer_size + 1 + MostDigits
  /\ pc # "done" => DOMAIN buffer \subseteq 0 .. p - 1
  /\ OverrunBounded
(***************************************************************************)
(* OverrunBounded, for every format, every argument and every buffer:      *)
(* vsnprintf writes past the size it is given at most one character, or    *)
(* the sign and the digits of a negative number, and the end of the        *)
(* string.                                                                 *)
(***************************************************************************)
THEOREM OverrunAlwaysBounded ==
  ASSUME FormatTypes, MaxItems \in Nat
  PROVE  Spec => []OverrunBounded
<1> USE DEF FormatInv
<1>0. MostDigits \in Nat
  BY MostDigitsBound
<1>1. Init => FormatInv
  <2> SUFFICES ASSUME Init PROVE FormatInv
    OBVIOUS
  <2>1. \E n \in Nat : items \in [1 .. n -> Items]
    BY DEF Init
  <2>2. buffer_size \in Nat \ {0} /\ p = 0 /\ pc = "text"
    BY DEF Init, FormatTypes
  <2>3. DOMAIN buffer = {}
    BY DEF Init
  <2> QED
    BY <1>0, <2>1, <2>2, <2>3 DEF OverrunBounded
<1>2. FormatInv /\ [Next]_fvars => FormatInv'
  <2> SUFFICES ASSUME FormatInv, [Next]_fvars PROVE FormatInv'
    OBVIOUS
  <2>0. MostDigits' = MostDigits
    BY DEF MostDigits, IsArgument, IsText, Digits, Rest
  <2>1. CASE Text
    <3>1. UNCHANGED <<items, buffer_size>> /\ pc = "text"
      BY <2>1 DEF Text
    <3>2. p' \in Nat /\ p' <= buffer_size /\ DOMAIN buffer' \subseteq 0 .. p' - 1
      <4>1. CASE CharAt(traverse) \notin {"%", NUL} /\ p < buffer_size
        <5>1. Put(<<CharAt(traverse)>>)
          BY <2>1, <4>1 DEF Text
        <5>2. Len(<<CharAt(traverse)>>) = 1
          OBVIOUS
        <5>3. p' = p + 1 /\ DOMAIN buffer' \subseteq 0 .. p' - 1
          BY <3>1, <5>1, <5>2, PutExtends
        <5> QED
          BY <4>1, <5>3
      <4>2. CASE ~(CharAt(traverse) \notin {"%", NUL} /\ p < buffer_size)
        BY <2>1, <3>1, <4>2 DEF Text
      <4> QED
        BY <4>1, <4>2
    <3>3. pc' \in {"text", "switch", "end"}
      BY <2>1, <3>1 DEF Text
    <3> QED
      BY <1>0, <2>0, <3>1, <3>2, <3>3 DEF OverrunBounded
  <2>2. CASE Switch
    <3> DEFINE conv == CharAt(traverse)
    <3>1. UNCHANGED <<items, buffer_size>> /\ pc = "switch"
      BY <2>2 DEF Switch
    <3>2. /\ p' \in Nat
          /\ p' <= buffer_size + 1 + MostDigits
          /\ DOMAIN buffer' \subseteq 0 .. p' - 1
      <4>1. CASE conv = "%"
        <5>1. Put(<<"%">>)
          BY <2>2, <4>1 DEF Switch
        <5>2. Len(<<"%">>) = 1
          OBVIOUS
        <5>3. p' = p + 1 /\ DOMAIN buffer' \subseteq 0 .. p' - 1
          BY <3>1, <5>1, <5>2, PutExtends
        <5> QED
          BY <1>0, <3>1, <5>3
      <4>2. CASE conv \in {"c", "d", "o", "s", "p", "x"}
        <5>1. PICK arg \in va_arg(conv) : Put(Converted(conv, arg))
          BY <2>2, <4>2 DEF Switch
        <5>2. PICK item \in Items : IsArgument(item) /\ item.conv = conv /\ item.arg = arg
          BY ArgumentTypes
        <5>3. /\ Len(Converted(conv, arg)) \in Nat
              /\ p + Len(Converted(conv, arg)) <= buffer_size + 1 + MostDigits
          BY <3>1, <4>2, <5>2, ConvertedFits
        <5>4. p' = p + Len(Converted(conv, arg)) /\ DOMAIN buffer' \subseteq 0 .. p' - 1
          BY <3>1, <5>1, <5>3, PutExtends
        <5> QED
          BY <5>3, <5>4
      <4>3. CASE conv \notin {"%", "c", "d", "o", "s", "p", "x"}
        <5>1. UNCHANGED <<buffer, p>>
          BY <2>2, <4>3 DEF Switch
        <5> QED
          BY <1>0, <3>1, <5>1
      <4> QED
        BY <4>1, <4>2, <4>3
    <3>3. pc' \in {"text", "end"} /\ (pc' = "text" => p' < buffer_size)
      BY <2>2 DEF Switch
    <3> QED
      BY <1>0, <2>0, <3>1, <3>2, <3>3 DEF OverrunBounded
  <2>3. CASE Finish
    <3>1. UNCHANGED <<items, buffer_size>> /\ pc = "end" /\ pc' = "done"
      BY <2>3 DEF Finish
    <3>2. p' \in Nat /\ p' <= buffer_size + 1 + MostDigits
      BY <1>0, <2>3, <3>1 DEF Finish
    <3>3. buffer' = Written(<<NUL>>, p')
      BY <2>3 DEF Finish
    <3>4. DOMAIN Written(<<NUL>>, p') = DOMAIN buffer \cup {p'}
      BY <3>2 DEF Written
    <3>5. OverrunBounded'
      BY <1>0, <2>0, <3>1, <3>2, <3>3, <3>4 DEF OverrunBounded
    <3> QED
      BY <3>1, <3>2, <3>5
  <2>4. CASE UNCHANGED fvars
    BY <2>0, <2>4 DEF fvars, OverrunBounded
  <2> QED
    BY <2>1, <2>2, <2>3, <2>4 DEF Next
<1>3. FormatInv => OverrunBounded
  OBVIOUS
<1> QED
  BY <1>1, <1>2, <1>3, PTL DEF Spec
=============================================================================
