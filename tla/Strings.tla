------------------------------ MODULE Strings -------------------------------
(***************************************************************************)
(* libc/src/string.c over a memory of bytes.  Strings are read a word at a *)
(* time, so the functions look at bytes that are not part of the string.   *)
(* The size of a byte and of a word are constants: the code has 8 bits and *)
(* 8 bytes, and uses nothing but that a word is a power of two of bytes.   *)
(***************************************************************************)
EXTENDS Integers, Sequences, SequencesExt, Bitwise

CONSTANTS
  BITS,        \* of a byte
  ALIGN,       \* sizeof(size_t)
  Size,        \* of the memory
  Texts,       \* the strings callers have
  Sources, Targets, Lengths    \* the arguments callers pass

VARIABLES
  memory,
  text, src,   \* a string and where it is
  call         \* the call just made: [op, args, before, value, read]
svars == <<memory, text, src, call>>

UCHAR_MAX == 2^BITS - 1
SIZE_MAX == 2^(BITS * ALIGN) - 1
ONES == SIZE_MAX \div UCHAR_MAX
HIGHS == ONES * ((UCHAR_MAX \div 2) + 1)

HASZERO(x) == ((((x - ONES) % (SIZE_MAX + 1)) & (SIZE_MAX - x)) & HIGHS) # 0

WordAt(m, a) == FoldLeft(LAMBDA sum, i : sum + (m[a + i] * (2^(BITS * i))), 0, [i \in 1 .. ALIGN |-> i - 1])

\* where a loop from a on, by steps of some size, stops
Until(Stop(_), a, step) ==
  a + (step * (CHOOSE k \in 0 .. Size : Stop(a + (k * step)) /\ \A j \in 0 .. k - 1 : ~Stop(a + (j * step))))

\* the length, and the last byte looked at
strlen(m, s) ==
  LET a == Until(LAMBDA i : i % ALIGN = 0 \/ m[i] = 0, s, 1)
      w == Until(LAMBDA i : HASZERO(WordAt(m, i)), a, ALIGN)
      e == Until(LAMBDA i : m[i] = 0, w, 1)
  IN IF a % ALIGN # 0 THEN [v |-> a - s, read |-> a] ELSE [v |-> e - s, read |-> w + ALIGN - 1]

\* faulty: a word with a zero in it is copied whole
strncpy_Word(m, d, s, n) ==
  LET k == Until(LAMBDA k : n - k < ALIGN \/ \E i \in 0 .. k : m[s + i] = 0, 0, ALIGN)
  IN [m |-> [i \in DOMAIN m |-> IF i \in d .. d + k - 1 THEN m[s + (i - d)]
                                ELSE IF i \in d + k .. d + n - 1 THEN 0 ELSE m[i]],
      v |-> d + k, read |-> s + k]

\* The memory after the copy, the address returned, which is that of the first
\* zero it filled in, and the last byte looked at.  The two addresses
\* agree when their bit of the size of a word does; from there on words are
\* copied, whether they are aligned or not.
strncpy(m, d, s, n) ==
  LET Bit(a) == (a \div ALIGN) % 2
      agree == Bit(s) = Bit(d)
      k1 == IF agree THEN Until(LAMBDA k : Bit(s + k) = 0 \/ k = n \/ m[s + k] = 0, 0, 1) ELSE 0
      words == agree /\ k1 < n /\ m[s + k1] # 0
      k2 == IF words THEN Until(LAMBDA k : n - k < ALIGN \/ HASZERO(WordAt(m, s + k)), k1, ALIGN) ELSE k1
      k3 == Until(LAMBDA k : k = n \/ m[s + k] = 0, k2, 1)
  IN [m |-> [i \in DOMAIN m |-> IF i \in d .. d + k3 - 1 THEN m[s + (i - d)]
                                ELSE IF i \in d + k3 .. d + n - 1 THEN 0 ELSE m[i]],
      v |-> d + k3,
      read |-> IF words /\ n - k2 >= ALIGN THEN s + k2 + ALIGN - 1
               ELSE IF k3 = n THEN s + n - 1 ELSE s + k3]

strncmp(m, l, r, n) ==
  LET k == Until(LAMBDA k : m[l + k] = 0 \/ m[r + k] = 0 \/ k = n - 1 \/ m[l + k] # m[r + k], 0, 1)
  IN IF n = 0 THEN 0 ELSE m[l + k] - m[r + k]

\* byte by byte from the first one: the two areas may overlap
memcpy(m, dest, from, len) ==
  FoldLeft(LAMBDA acc, i : [acc EXCEPT ![dest + i - 1] = acc[from + i - 1]], m, [i \in 1 .. len |-> i])

memset(m, dest, val, len) == [i \in DOMAIN m |-> IF i \in dest .. dest + len - 1 THEN val ELSE m[i]]

(***************************************************************************)
(* Calls                                                                   *)
(***************************************************************************)
Dirty == UCHAR_MAX

Init == /\ text \in Texts /\ src \in Sources
        /\ memory = [i \in 0 .. Size - 1 |->
                       IF i \in src .. src + Len(text) - 1 THEN text[i - src + 1]
                       ELSE IF i = src + Len(text) \/ i >= Size - ALIGN THEN 0 ELSE Dirty]
        /\ call = [op |-> "none"]

Called(op, a, b, n, value, read) ==
  call' = [op |-> op, a |-> a, b |-> b, n |-> n, before |-> memory, value |-> value, read |-> read]

Ready == call.op = "none" /\ UNCHANGED <<text, src>>

Strlen == LET r == strlen(memory, src)
          IN Ready /\ Called("strlen", src, 0, 0, r.v, r.read) /\ UNCHANGED memory
Strncpy(d, n) == LET r == strncpy(memory, d, src, n)
                 IN Ready /\ memory' = r.m /\ Called("strncpy", d, src, n, r.v, r.read)
Strncmp(r, n) == /\ Ready /\ UNCHANGED memory
                 /\ Called("strncmp", src, r, n, strncmp(memory, src, r, n), 0)
Memcpy(dest, from, n) == /\ Ready /\ memory' = memcpy(memory, dest, from, n)
                         /\ Called("memcpy", dest, from, n, 0, 0)
Memset(dest, n) == /\ Ready /\ memory' = memset(memory, dest, 0, n)
                   /\ Called("memset", dest, 0, n, 0, 0)

\* strings are copied to targets after their end
Next == \/ Strlen
        \/ \E d \in Targets, n \in Lengths : Strncpy(d, n)
        \/ \E r \in Sources, n \in Lengths : Strncmp(r, n)
        \/ \E n \in Lengths, a, b \in Sources : Memcpy(a, b, n)
        \/ \E d \in Targets, n \in Lengths : Memset(d, n)

Spec == Init /\ [][Next]_svars

(***************************************************************************)
(* Properties                                                              *)
(***************************************************************************)

\* strlen, HASZERO: the length of every string at every alignment, and no
\* byte beyond the word with its end is looked at, so no other page.
LengthRight ==
  call.op = "strlen" =>
    call.value = Len(text) /\ call.read \div ALIGN <= (src + Len(text)) \div ALIGN

\* strncpy: n bytes of the target are the string, cut or filled with zeros,
\* nothing else changes, what is returned is the end of the string in the
\* target, and it is less than a word that is looked at beyond the end of the
\* string.
CopyRight ==
  call.op = "strncpy" =>
    /\ memory = [i \in DOMAIN memory |->
                   IF i \in call.a .. call.a + call.n - 1
                   THEN IF i - call.a < Len(text) THEN text[(i - call.a) + 1] ELSE 0
                   ELSE call.before[i]]
    /\ call.value = call.a + (IF Len(text) < call.n THEN Len(text) ELSE call.n)
    /\ call.read < src + Len(text) + ALIGN

\* the first n characters of the string at a
CString(m, a, n) ==
  LET k == Until(LAMBDA k : k = n \/ m[a + k] = 0, 0, 1) IN [i \in 1 .. k |-> m[a + i - 1]]

\* strncmp: zero for strings that agree in the first n characters, and
\* otherwise of the sign of the order of the strings.
CompareRight ==
  call.op = "strncmp" =>
    LET l == CString(memory, call.a, call.n)
        r == CString(memory, call.b, call.n)
        Before(x, y) == \/ x # y /\ IsPrefix(x, y)
                        \/ \E i \in DOMAIN x \cap DOMAIN y :
                             x[i] < y[i] /\ SubSeq(x, 1, i - 1) = SubSeq(y, 1, i - 1)
    IN (call.value = 0 <=> l = r) /\ (call.value < 0 <=> Before(l, r))

\* memcpy, as console_scroll_up uses it: a copy to a lower address is right
\* although the two areas overlap.
MoveDownRight ==
  call.op = "memcpy" /\ call.a <= call.b =>
    \A i \in 0 .. call.n - 1 : memory[call.a + i] = call.before[call.b + i]
=============================================================================
