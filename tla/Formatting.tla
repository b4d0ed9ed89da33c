----------------------------- MODULE Formatting -----------------------------
(***************************************************************************)
(* vsnprintf and convert (libc/src/formatting.c), which every log line     *)
(* goes through.  A format is given as the items it was written from: a    *)
(* character of text, or a conversion with the argument the caller passes  *)
(* for it.  The code sees the characters and the arguments only.           *)
(***************************************************************************)
EXTENDS Integers, Sequences, SequencesExt, TLC

CONSTANTS
  Items,     \* [char] or [conv, arg]
  MaxItems,  \* bound: the items of a format
  BufferSizes

NUL == "NUL"
NULL == <<>>    \* a null pointer where a string or an address is expected
NULL_PTR == <<"(", "n", "u", "l", "l", ")">>
representation == <<"0", "1", "2", "3", "4", "5", "6", "7", "8", "9", "A", "B", "C", "D", "E", "F">>

VARIABLES
  items,          \* what the caller means
  buffer_size,
  traverse, p,    \* the positions in the format and in the buffer
  fetched,        \* how many arguments va_arg has returned
  buffer,         \* the bytes written: by index from 0, also past the end
  pc              \* "text", "switch", "end", "done"
fvars == <<items, buffer_size, traverse, p, fetched, buffer, pc>>

IsText(item) == "char" \in DOMAIN item
format == FlattenSeq([i \in DOMAIN items |-> IF IsText(items[i]) THEN <<items[i].char>>
                                             ELSE <<"%", items[i].conv>>])
CharAt(i) == IF i > Len(format) THEN NUL ELSE format[i]

\* va_arg: the next of the arguments passed; one of another type, or none,
\* gives anything
IsArgument(item) == ~IsText(item) /\ item.conv # "%"
Passed(n) == {i \in DOMAIN items : /\ IsArgument(items[i])
                                  /\ Cardinality({j \in 1 .. i : IsArgument(items[j])}) = n}
va_arg(conv) ==
  LET next == {items[i] : i \in Passed(fetched + 1)}
      fits == {item \in next : item.conv = conv}
  IN {item.arg : item \in IF fits # {} THEN fits ELSE {i \in Items : IsArgument(i) /\ i.conv = conv}}

\* the buffer after some characters, whatever its size
Written(s, at) ==
  LET places == at .. at + Len(s) - 1
  IN [i \in DOMAIN buffer \cup places |-> IF i \in places THEN s[i - at + 1] ELSE buffer[i]]

\* num after k rounds of the loop of convert; buf has a place for every bit
BITS == 64
Rest(num, base) ==
  LET rest[k \in 0 .. BITS] == IF k = 0 THEN num ELSE rest[k - 1] \div base IN rest

\* the digits as the loop finds them, the last one first
Digits(num, base) ==
  LET rest == Rest(num, base)
      rounds == {k \in 1 .. BITS : \A j \in 1 .. k - 1 : rest[j] # 0}
  IN [i \in rounds |-> representation[(rest[i - 1] % base) + 1]]

\* faulty: the digits are left in the order in which they were found
convert_Reversed(num, base, size) ==
  LET digits == Digits(num, base) IN SubSeq(digits, 1, IF size < Len(digits) THEN size ELSE Len(digits))

convert(num, base, size) ==
  LET digits == Reverse(Digits(num, base))
  IN SubSeq(digits, 1, IF size < Len(digits) THEN size ELSE Len(digits))

\* buffer_size - p after n characters, of type size_t: less than nothing is
\* more than any text has
SIZE_MAX == 2147483647
Room(n) == IF buffer_size - p - n < 0 THEN SIZE_MAX ELSE buffer_size - p - n

\* what WRITE_SEQUENCE and WRITE_NUMBER find room for
Cut(s) == SubSeq(s, 1, IF Room(0) < Len(s) THEN Room(0) ELSE Len(s))
Number(num, base, n) == convert(num, base, Room(n))

\* The text a conversion writes: a single character is not held back.
Converted(conv, arg) ==
  CASE conv = "c" -> <<arg>>
    [] conv = "d" -> IF arg < 0 THEN <<"-">> \o Number(-arg, 10, 1) ELSE Number(arg, 10, 0)
    [] conv = "o" -> Number(arg, 8, 0)
    [] conv = "x" -> Number(arg, 16, 0)
    [] conv = "s" -> Cut(IF arg = NULL THEN NULL_PTR ELSE arg)
    [] conv = "p" -> IF arg = 0 THEN Cut(NULL_PTR)
                     ELSE LET ox == Cut(<<"0", "x">>) IN ox \o Number(arg, 16, Len(ox))

Init == /\ items \in UNION {[1 .. n -> Items] : n \in 0 .. MaxItems}
        /\ buffer_size \in BufferSizes
        /\ traverse = 1 /\ p = 0 /\ fetched = 0 /\ buffer = <<>> /\ pc = "text"

Put(s) == buffer' = Written(s, p) /\ p' = p + Len(s)

\* faulty: the inner loop does not look at the size of the buffer
Text_NoBound ==
  /\ pc = "text"
  /\ IF CharAt(traverse) \notin {"%", NUL}
     THEN Put(<<CharAt(traverse)>>) /\ UNCHANGED pc
     ELSE /\ pc' = IF CharAt(traverse) = NUL THEN "end" ELSE "switch"
          /\ UNCHANGED <<buffer, p>>
  /\ traverse' = traverse + 1
  /\ UNCHANGED <<items, buffer_size, fetched>>

\* A step of the inner loop, or what comes after it: the end of the format,
\* or the switch.  When the buffer is full the character that is passed over
\* need not be a "%".
Text ==
  /\ pc = "text"
  /\ IF CharAt(traverse) \notin {"%", NUL} /\ p < buffer_size
     THEN Put(<<CharAt(traverse)>>) /\ UNCHANGED pc
     ELSE /\ pc' = IF CharAt(traverse) = NUL THEN "end" ELSE "switch"
          /\ UNCHANGED <<buffer, p>>
  /\ traverse' = traverse + 1
  /\ UNCHANGED <<items, buffer_size, fetched>>

\* the switch, and the test of the outer loop
Switch ==
  /\ pc = "switch"
  /\ LET conv == CharAt(traverse)
     IN CASE conv = "%" -> Put(<<"%">>) /\ UNCHANGED fetched
          [] conv \in {"c", "d", "o", "s", "p", "x"} ->
               /\ \E arg \in va_arg(conv) : Put(Converted(conv, arg))
               /\ fetched' = fetched + 1
          [] OTHER -> UNCHANGED <<buffer, p, fetched>>
  /\ traverse' = traverse + 1
  /\ pc' = IF p' < buffer_size /\ CharAt(traverse') # NUL THEN "text" ELSE "end"
  /\ UNCHANGED <<items, buffer_size>>

Finish ==
  /\ pc = "end"
  /\ p' = IF p = buffer_size THEN p - 1 ELSE p
  /\ buffer' = Written(<<NUL>>, p')
  /\ pc' = "done"
  /\ UNCHANGED <<items, buffer_size, traverse, fetched>>

Next == Text \/ Switch \/ Finish

Spec == Init /\ [][Next]_fvars

(***************************************************************************)
(* The text the caller means                                               *)
(***************************************************************************)
Numeral(num, base) ==
  LET k == CHOOSE n \in 1 .. 31 : num < base ^ n /\ (n = 1 \/ num >= base ^ (n - 1))
  IN [i \in 1 .. k |-> representation[((num \div (base ^ (k - i))) % base) + 1]]

Meant(item) ==
  CASE IsText(item) -> <<item.char>>
    [] ~IsText(item) /\ item.conv = "%" -> <<"%">>
    [] ~IsText(item) /\ item.conv = "c" -> <<item.arg>>
    [] ~IsText(item) /\ item.conv = "d" ->
         IF item.arg < 0 THEN <<"-">> \o Numeral(-item.arg, 10) ELSE Numeral(item.arg, 10)
    [] ~IsText(item) /\ item.conv = "o" -> Numeral(item.arg, 8)
    [] ~IsText(item) /\ item.conv = "x" -> Numeral(item.arg, 16)
    [] ~IsText(item) /\ item.conv = "s" -> IF item.arg = NULL THEN NULL_PTR ELSE item.arg
    [] ~IsText(item) /\ item.conv = "p" ->
         IF item.arg = 0 THEN NULL_PTR ELSE <<"0", "x">> \o Numeral(item.arg, 16)

meant == FlattenSeq([i \in DOMAIN items |-> Meant(items[i])])

(***************************************************************************)
(* Properties                                                              *)
(***************************************************************************)

\* vsnprintf: a text that fits is written whole, with the end of the string
\* behind it, and its length returned.
FormattedWhole ==
  pc = "done" /\ Len(meant) < buffer_size =>
    p = Len(meant) /\ buffer = [i \in 0 .. p |-> IF i = p THEN NUL ELSE meant[i + 1]]

\* vsnprintf, a text that does not fit: all but the last byte of the buffer
\* hold its beginning, conversions cut in the middle included.
CutIsBeginning ==
  pc = "done" /\ Len(meant) >= buffer_size =>
    \A i \in 0 .. buffer_size - 2 : buffer[i] = meant[i + 1]

\* vsnprintf: all that is written past the size it is given is one character,
\* or the sign and the digits of a negative number, and the end of the string.
\* (The sign is not held back, and behind it there is room without end.)
MostDigits == Max({Len(Digits(-item.arg, 10)) :
                     item \in {i \in Items : IsArgument(i) /\ i.conv = "d" /\ i.arg < 0}} \cup {0})
OverrunBounded == DOMAIN buffer \subseteq 0 .. buffer_size + 1 + MostDigits
=============================================================================
