---------------------------- MODULE ConsoleProofs ----------------------------
(***************************************************************************)
(* The console stays on its screen, for every size of the screen and every *)
(* text.                                                                   *)
(***************************************************************************)
EXTENDS Console, ListFacts

\* A screen with at least one cell, whose rows end at a tab stop (console.h
\* and console.c: 80 columns, 24 rows, a tab stop every 4 columns).
ScreenTypes ==
  /\ console__width \in Nat \ {0} /\ console__height \in Nat \ {0} /\ TAB_SIZE \in Nat \ {0}
  /\ \E stops \in Nat : console__width = stops * TAB_SIZE

\* The states of a console that shows characters of V, the cursor at most in
\* the given column: after a tab it may be behind the last one of its row.
Consoles(V, last) ==
  [row : 0 .. console__height - 1, column : 0 .. last, buffer : [Cells -> V], inrow : BOOLEAN]

(***************************************************************************)
(* Any number of steps can be taken from a member of a set, when each step *)
(* leads from the set to the set.                                          *)
(***************************************************************************)
RunsFor(S, a, n) ==
  \A step \in [1 .. n -> [S -> S]] :
    \E f \in [0 .. n -> S] : f[0] = a /\ \A i \in 1 .. n : f[i] = step[i][f[i - 1]]
Runs(S, a) == \A n \in Nat : RunsFor(S, a, n)

LEMMA RunsIn ==
  ASSUME NEW S
  PROVE  \A a \in S : Runs(S, a)
<1> SUFFICES ASSUME NEW a \in S, NEW n \in Nat, NEW step \in [1 .. n -> [S -> S]]
             PROVE  \E f \in [0 .. n -> S] : f[0] = a /\ \A i \in 1 .. n : f[i] = step[i][f[i - 1]]
  BY DEF Runs, RunsFor
<1> QED
  BY Recursion

(***************************************************************************)
(* A row lies within the screen.                                           *)
(***************************************************************************)
LEMMA RowOnScreen ==
  ASSUME NEW W \in Nat, NEW H \in Nat, NEW row \in 0 .. H - 1
  PROVE  row * W \in Nat /\ (row * W) + W <= W * H
<1> DEFINE d == H - 1 - row
<1>1. d \in Nat /\ H = row + 1 + d
  OBVIOUS
<1>2. row * W \in Nat /\ d * W \in Nat
  BY <1>1
<1>3. W * H = (row * W) + W + (d * W)
  BY <1>1
<1> QED
  BY <1>2, <1>3

(***************************************************************************)
(* console_raw_write: a text that ends in the row of the cursor is written *)
(* to the screen and nowhere else.                                         *)
(***************************************************************************)
LEMMA RawWriteOnScreen ==
  ASSUME ScreenTypes, NEW V, NEW c \in Consoles(V, console__width), NEW s \in Seq(V),
         c.column + Len(s) <= console__width
  PROVE  LET r == console_raw_write(c, s)
         IN r \in Consoles(V, console__width) /\ r.column = c.column /\ r.row = c.row
<1> DEFINE r == console_raw_write(c, s)
           W == console__width
           H == console__height
           before == c.row * W
           area == W * H
           index == before + c.column
           places == index .. index + Len(s) - 1
           new == [i \in DOMAIN c.buffer \cup places |->
                     IF i \in places THEN s[i - index + 1] ELSE c.buffer[i]]
<1>1. /\ c.row \in 0 .. H - 1 /\ c.column \in 0 .. W /\ c.buffer \in [Cells -> V]
      /\ W \in Nat /\ H \in Nat /\ Len(s) \in Nat
  BY DEF Consoles, ScreenTypes
<1>2. before \in Nat /\ before + W <= area /\ area \in Nat
  <2>1. area \in Nat
    BY <1>1
  <2> HIDE DEF W, H
  <2>2. before \in Nat /\ before + W <= W * H
    BY <1>1, RowOnScreen
  <2> QED
    BY <2>1, <2>2
<1>3. Cells = 0 .. area - 1
  BY DEF Cells
<1>4. r = [c EXCEPT !.buffer = new]
  BY DEF console_raw_write
<1> HIDE DEF before, area
<1>5. index \in Nat /\ places \subseteq Cells
  <2>1. index \in Nat /\ index + Len(s) <= area
    BY <1>1, <1>2
  <2> HIDE DEF index
  <2> QED
    BY <1>1, <1>2, <1>3, <2>1
<1> HIDE DEF index
<1>6. \A i \in places : s[i - index + 1] \in V
  <2> TAKE i \in places
  <2>1. i - index + 1 \in 1 .. Len(s)
    BY <1>1, <1>5
  <2> QED
    BY <2>1, ElementOfSeq
<1> HIDE DEF places
<1>7. new \in [Cells -> V]
  BY <1>1, <1>5, <1>6
<1> HIDE DEF new, r
<1>8. r \in Consoles(V, W) /\ r.column = c.column /\ r.row = c.row
  BY <1>4, <1>7 DEF Consoles
<1> QED
  BY <1>8 DEF r

(***************************************************************************)
(* newline, with the scrolling, ends in the first column of a row of the   *)
(* screen.                                                                 *)
(***************************************************************************)
LEMMA NewlineOnScreen ==
  ASSUME ScreenTypes, NEW V, NUL \in V, NEW c \in Consoles(V, console__width)
  PROVE  newline(c) \in Consoles(V, 0)
<1> DEFINE d == [c EXCEPT !.column = 0, !.row = @ + 1]
           H == console__height
<1>1. H \in Nat \ {0}
  BY DEF ScreenTypes
<1>2. d \in [row : 1 .. H, column : 0 .. 0, buffer : [Cells -> V], inrow : BOOLEAN]
  <2> DEFINE e == [c EXCEPT !.column = 0]
  <2>1. e \in [row : 0 .. H - 1, column : 0 .. 0, buffer : [Cells -> V], inrow : BOOLEAN]
    BY DEF Consoles
  <2>2. d = [e EXCEPT !.row = @ + 1]
    BY DEF Consoles
  <2> HIDE DEF e, d
  <2>3. e.row + 1 \in 1 .. H
    BY <1>1, <2>1
  <2> QED
    BY <2>1, <2>2, <2>3
<1>3. newline(c) = need_scroll(d)
  BY DEF newline
<1> HIDE DEF d
<1>4. CASE d.row >= H
  <2> DEFINE n == 1 * console__width
             new == [i \in DOMAIN d.buffer |->
                       IF i \notin Cells THEN d.buffer[i]
                       ELSE IF i + n \in Cells THEN d.buffer[i + n] ELSE NUL]
             u == console_scroll_up(d, 1)
  <2>1. u = [d EXCEPT !.buffer = new]
    BY DEF console_scroll_up
  <2>2. new \in [Cells -> V]
    <3> HIDE DEF n
    <3> QED
      BY <1>2
  <2>3. need_scroll(d) = [u EXCEPT !.row = H - 1]
    BY <1>4 DEF need_scroll
  <2> HIDE DEF new, u
  <2>4. u \in [row : 1 .. H, column : 0 .. 0, buffer : [Cells -> V], inrow : BOOLEAN]
    BY <1>2, <2>1, <2>2
  <2> QED
    BY <1>1, <1>3, <2>3, <2>4 DEF Consoles
<1>5. CASE ~(d.row >= H)
  <2>1. need_scroll(d) = d
    BY <1>5 DEF need_scroll
  <2> QED
    BY <1>1, <1>2, <1>3, <1>5, <2>1 DEF Consoles
<1> QED
  BY <1>4, <1>5

(***************************************************************************)
(* A round of terminal_writesequence, also one that begins behind the last *)
(* column, ends with the cursor on the screen.                             *)
(***************************************************************************)
LEMMA RoundOnScreen ==
  ASSUME ScreenTypes, NEW V, NUL \in V, Junk \in V,
         NEW text \in Seq(V), NEW length \in Nat,
         NEW at \in [c : Consoles(V, console__width), written : Nat]
  PROVE  Round(at, text, length) \in [c : Consoles(V, console__width - 1), written : Nat]
<1> DEFINE W == console__width
           c == at.c
           room == W - c.column
           n == IF room < length THEN room ELSE length
           s == [i \in 1 .. n |-> CharAt(text, at.written + i)]
           raw == console_raw_write(c, s)
           put == [raw EXCEPT !.column = @ + n]
           next == IF put.column >= W THEN newline(put) ELSE put
<1>1. W \in Nat \ {0} /\ c \in Consoles(V, W) /\ c.column \in 0 .. W /\ at.written \in Nat
  BY DEF ScreenTypes, Consoles
<1>2. n \in Nat /\ c.column + n <= W
  BY <1>1
<1>3. Round(at, text, length) = [c |-> next, written |-> at.written + n]
  BY DEF Round
<1> HIDE DEF n
<1>4. s \in Seq(V) /\ Len(s) = n
  <2>1. \A i \in 1 .. n : CharAt(text, at.written + i) \in V
    <3> TAKE i \in 1 .. n
    <3>1. at.written + i \in Nat \ {0} /\ Len(text) \in Nat
      BY <1>1, <1>2
    <3>2. CASE at.written + i <= Len(text)
      <4>1. at.written + i \in 1 .. Len(text)
        BY <3>1, <3>2
      <4> QED
        BY <3>2, <4>1, ElementOfSeq DEF CharAt
    <3>3. CASE ~(at.written + i <= Len(text))
      BY <3>3 DEF CharAt
    <3> QED
      BY <3>2, <3>3
  <2> QED
    BY <1>2, <2>1
<1> HIDE DEF s
<1>5. raw \in Consoles(V, W) /\ raw.column = c.column
  <2> HIDE DEF c
  <2> QED
    BY <1>1, <1>2, <1>4, RawWriteOnScreen
<1> HIDE DEF raw
<1>6. put \in Consoles(V, W)
  BY <1>1, <1>2, <1>5 DEF Consoles
<1> HIDE DEF put
<1>7. CASE put.column >= W
  <2>1. newline(put) \in Consoles(V, 0)
    BY <1>6, NewlineOnScreen
  <2>2. Consoles(V, 0) \subseteq Consoles(V, W - 1)
    BY <1>1 DEF Consoles
  <2>3. next \in Consoles(V, W - 1)
    BY <1>7, <2>1, <2>2
  <2> HIDE DEF next
  <2> QED
    BY <1>1, <1>2, <1>3, <2>3
<1>8. CASE ~(put.column >= W)
  <2>1. put \in Consoles(V, W - 1)
    BY <1>1, <1>6, <1>8 DEF Consoles
  <2>2. next \in Consoles(V, W - 1)
    BY <1>8, <2>1
  <2> HIDE DEF next
  <2> QED
    BY <1>1, <1>2, <1>3, <2>2
<1> QED
  BY <1>7, <1>8

(***************************************************************************)
(* terminal_writesequence, wherever in its row the cursor is, also behind  *)
(* its last column, ends with the cursor on the screen.                    *)
(***************************************************************************)
LEMMA WriteLoopOnScreen ==
  ASSUME ScreenTypes, NEW V, NUL \in V, Junk \in V,
         NEW text \in Seq(V), NEW length \in Nat, NEW c \in Consoles(V, console__width)
  PROVE  WriteLoop(c, text, length) \in Consoles(V, console__width - 1)
<1> DEFINE n == length + 1
           S == [c : Consoles(V, console__width), written : Nat]
           T == [c : Consoles(V, console__width - 1), written : Nat]
           a == [c |-> c, written |-> 0]
           Go(k, at) == IF k = 1 \/ at.written < length THEN Round(at, text, length) ELSE at
           G(f) == [k \in 0 .. n |-> IF k = 0 THEN a ELSE Go(k, f[k - 1])]
           step == [k \in 1 .. n |-> [at \in S |-> Go(k, at)]]
           r == CHOOSE g : g = G(g)
<1>1. WriteLoop(c, text, length) = r[n].c
  BY DEF WriteLoop
<1>2. n \in Nat /\ 1 \in 1 .. n /\ n \in 0 .. n /\ a \in S
  OBVIOUS
<1>3. T \subseteq S
  BY DEF Consoles, ScreenTypes
<1>4. \A at \in S : Round(at, text, length) \in T
  BY RoundOnScreen
<1> HIDE DEF S, T, a, n
<1>5. \A k, at : at \in S => Go(k, at) \in S /\ Go(1, at) \in T /\ (at \in T => Go(k, at) \in T)
  BY <1>3, <1>4
<1> HIDE DEF Go
<1>6. step \in [1 .. n -> [S -> S]]
  BY <1>5
<1>7. PICK f \in [0 .. n -> S] :
        f[0] = a /\ \A k \in 1 .. n : f[k] = step[k][f[k - 1]]
  <2> HIDE DEF step
  <2>1. \A x \in S : Runs(S, x)
    BY RunsIn
  <2>2. Runs(S, a)
    BY <1>2, <2>1
  <2>3. \A m \in Nat : RunsFor(S, a, m)
    BY <2>2 DEF Runs
  <2>4. RunsFor(S, a, n)
    BY <1>2, <2>3
  <2> QED
    BY <1>6, <2>4 DEF RunsFor
<1>8. \A k \in 1 .. n : f[k] = Go(k, f[k - 1])
  <2> TAKE k \in 1 .. n
  <2>1. k - 1 \in 0 .. n
    BY <1>2
  <2>2. f[k - 1] \in S
    BY <2>1
  <2> QED
    BY <1>7, <2>2
<1>9. f = G(f)
  <2>1. \A k \in 0 .. n : k # 0 => k \in 1 .. n
    BY <1>2
  <2> QED
    BY <1>7, <1>8, <2>1
<1>10. r = G(r)
  BY <1>9
<1>11. r[0] = a /\ \A k \in 0 .. n : k # 0 => r[k] = Go(k, r[k - 1])
  <2> HIDE DEF r
  <2> QED
    BY <1>2, <1>10
<1> HIDE DEF r, G, step
<1> DEFINE P == {k \in 0 .. n : r[k] \in S /\ (k # 0 => r[k] \in T)}
<1>12. 0 \in P
  BY <1>2, <1>11
<1>13. ASSUME NEW k \in 0 .. n, k < n, k \in P PROVE k + 1 \in P
  <2>1. k + 1 \in 0 .. n /\ k + 1 # 0 /\ (k + 1) - 1 = k
    BY <1>2, <1>13
  <2>2. r[k + 1] = Go(k + 1, r[k])
    BY <1>11, <2>1
  <2>3. CASE k = 0
    <3>1. r[k + 1] = Go(1, r[k]) /\ r[k] \in S
      BY <1>13, <2>2, <2>3
    <3> QED
      BY <1>3, <1>5, <2>1, <3>1
  <2>4. CASE k # 0
    <3>1. r[k] \in T /\ r[k] \in S
      BY <1>13, <2>4
    <3>2. Go(k + 1, r[k]) \in T
      BY <1>5, <3>1
    <3> QED
      BY <1>3, <2>1, <2>2, <3>2
  <2> QED
    BY <2>3, <2>4
<1>14. 0 .. n \subseteq P
  <2> HIDE DEF P
  <2> QED
    BY <1>2, <1>12, <1>13, InductionUpTo
<1>15. n # 0
  BY DEF n
<1>16. r[n] \in T
  BY <1>2, <1>14, <1>15
<1> QED
  BY <1>1, <1>16 DEF T

LEMMA SequenceOnScreen ==
  ASSUME ScreenTypes, NEW V, NUL \in V, Junk \in V,
         NEW text \in Seq(V), NEW length \in Nat, NEW c \in Consoles(V, console__width)
  PROVE  terminal_writesequence(c, text, length) \in Consoles(V, console__width - 1)
<1> DEFINE w == WriteLoop(c, text, length)
<1>1. w \in Consoles(V, console__width - 1)
  BY WriteLoopOnScreen
<1>2. terminal_writesequence(c, text, length) = [w EXCEPT !.inrow = @ /\ InRow(c, length)]
  BY DEF terminal_writesequence
<1>3. InRow(c, length) \in BOOLEAN
  BY DEF InRow
<1> HIDE DEF w
<1>4. w.inrow \in BOOLEAN
  BY <1>1 DEF Consoles
<1>5. (w.inrow /\ InRow(c, length)) \in BOOLEAN
  BY <1>3, <1>4
<1> QED
  BY <1>1, <1>2, <1>5 DEF Consoles

(***************************************************************************)
(* The control characters: a tab may leave the cursor behind the last      *)
(* column, as a row ends at a tab stop, but not further.                   *)
(***************************************************************************)
LEMMA TabStop ==
  ASSUME NEW x \in Nat, NEW t \in Nat \ {0}, NEW stops \in Nat, x < stops * t
  PROVE  ((x \div t) + 1) * t \in 0 .. stops * t
<1> DEFINE q == x \div t
<1>1. q \in Nat /\ q * t <= x
  OBVIOUS
<1> HIDE DEF q
<1>2. q < stops
  <2>1. SUFFICES ASSUME q >= stops PROVE FALSE
    BY <1>1
  <2> DEFINE d == q - stops
  <2>2. d \in Nat /\ q = stops + d
    BY <1>1, <2>1
  <2>3. d * t \in Nat /\ stops * t \in Nat
    BY <2>2
  <2> HIDE DEF d
  <2>4. q * t = stops * t + d * t
    BY <2>2
  <2> QED
    BY <1>1, <2>3, <2>4
<1> DEFINE e == stops - (q + 1)
<1>3. e \in Nat /\ stops = (q + 1) + e
  BY <1>1, <1>2
<1> HIDE DEF e
<1>4. e * t \in Nat /\ (q + 1) * t \in Nat
  BY <1>1, <1>3
<1>5. stops * t = (q + 1) * t + e * t
  BY <1>1, <1>3
<1> QED
  BY <1>4, <1>5 DEF q

LEMMA ControlOnScreen ==
  ASSUME ScreenTypes, NEW V, NUL \in V, NEW char \in {Newline, Return, Tab},
         NEW c \in Consoles(V, console__width - 1)
  PROVE  Control(c, char) \in Consoles(V, console__width)
<1> DEFINE W == console__width
<1>1. W \in Nat \ {0} /\ c \in Consoles(V, W)
  BY DEF ScreenTypes, Consoles
<1>2. Newline # Return /\ Newline # Tab /\ Return # Tab
  BY DEF Newline, Return, Tab
<1>3. CASE char = Newline
  <2>1. Control(c, char) = newline(c)
    BY <1>2, <1>3 DEF Control
  <2>2. newline(c) \in Consoles(V, 0)
    BY <1>1, NewlineOnScreen
  <2>3. Consoles(V, 0) \subseteq Consoles(V, W)
    BY <1>1 DEF Consoles
  <2> QED
    BY <2>1, <2>2, <2>3
<1>4. CASE char = Return
  <2>1. Control(c, char) = [c EXCEPT !.column = 0]
    BY <1>2, <1>4 DEF Control
  <2> QED
    BY <1>1, <2>1 DEF Consoles
<1>5. CASE char = Tab
  <2> DEFINE x == c.column
             stop == ((x \div TAB_SIZE) + 1) * TAB_SIZE
  <2>1. Control(c, char) = [c EXCEPT !.column = stop]
    BY <1>2, <1>5 DEF Control, Consoles
  <2>2. PICK stops \in Nat : W = stops * TAB_SIZE
    BY DEF ScreenTypes
  <2>3. x \in Nat /\ x < stops * TAB_SIZE /\ TAB_SIZE \in Nat \ {0}
    BY <1>1, <2>2 DEF Consoles, ScreenTypes
  <2>4. stop \in 0 .. stops * TAB_SIZE
    <3> HIDE DEF x
    <3> QED
      BY <2>3, TabStop
  <2>5. stop \in 0 .. W
    BY <2>2, <2>4
  <2> HIDE DEF stop
  <2> QED
    BY <1>1, <2>1, <2>5 DEF Consoles
<1> QED
  BY <1>3, <1>4, <1>5
(***************************************************************************)
(* console_write, whatever text it is given, ends with the cursor on the   *)
(* screen; a tab at the end is followed by an empty text.                  *)
(***************************************************************************)
LEMMA ConsoleWriteOnScreen ==
  ASSUME ScreenTypes, NEW V, NUL \in V, Junk \in V,
         NEW data \in Seq(V), NEW c \in Consoles(V, console__width - 1)
  PROVE  console_write(c, data) \in Consoles(V, console__width - 1)
<1> DEFINE n == Len(data)
           S == [start : 1 .. n + 1, c : Consoles(V, console__width)]
           Ok(i) == {at \in S : at.start <= i + 1}
           a == [start |-> 1, c |-> c]
           step == [k \in 1 .. n |-> [at \in S |-> IF at \in Ok(k - 1) THEN Char(at, data, k) ELSE at]]
           G(f) == [k \in 0 .. n |-> IF k = 0 THEN a ELSE Char(f[k - 1], data, k)]
           r == CHOOSE g : g = G(g)
<1>1. n \in Nat /\ console__width \in Nat \ {0}
  BY DEF ScreenTypes
<1>2. CASE data = << >>
  BY <1>2 DEF console_write
<1>3. CASE data # << >>
  <2>1. console_write(c, data) = terminal_writesequence(r[n].c, From(data, r[n].start), n + 1 - r[n].start)
    BY <1>3 DEF console_write
  <2>2. a \in S /\ a \in Ok(0)
    <3>1. c \in Consoles(V, console__width)
      BY <1>1 DEF Consoles
    <3> QED
      BY <1>1, <3>1
  <2>3. \A x \in 1 .. n + 1 : From(data, x) \in Seq(V)
    <3> TAKE x \in 1 .. n + 1
    <3>1. \A i \in x .. n : data[i] \in V
      BY <1>1, ElementOfSeq
    <3> QED
      BY <1>1, <3>1, SubSeqProperties DEF From
  <2>4. ASSUME NEW k \in 1 .. n, NEW at \in Ok(k - 1) PROVE Char(at, data, k) \in Ok(k)
    <3>1. /\ at \in S /\ at.start \in 1 .. n + 1 /\ at.start <= k
          /\ at.c \in Consoles(V, console__width) /\ k + 1 \in 1 .. n + 1
      BY <1>1
    <3> HIDE DEF S
    <3>2. CASE data[k] \in {Newline, Return, Tab}
      <4> DEFINE t == terminal_writesequence(at.c, From(data, at.start), k - at.start)
                 e == Control(t, data[k])
      <4>1. k - at.start \in Nat /\ From(data, at.start) \in Seq(V)
        BY <1>1, <2>3, <3>1
      <4>2. t \in Consoles(V, console__width - 1)
        BY <3>1, <4>1, SequenceOnScreen
      <4> HIDE DEF t
      <4>3. e \in Consoles(V, console__width)
        BY <3>2, <4>2, ControlOnScreen
      <4>4. Char(at, data, k) = [start |-> k + 1, c |-> e]
        BY <3>2 DEF Char, t
      <4> HIDE DEF e
      <4> QED
        BY <1>1, <3>1, <4>3, <4>4 DEF S
    <3>3. CASE data[k] \notin {Newline, Return, Tab}
      <4>1. Char(at, data, k) = at
        BY <3>3 DEF Char
      <4> QED
        BY <1>1, <3>1, <4>1
    <3> QED
      BY <3>2, <3>3
  <2> HIDE DEF a
  <2>5. \A k \in 1 .. n : Ok(k) \subseteq S
    OBVIOUS
  <2>6. \A i \in 0 .. n : Ok(i) = {at \in S : at.start <= i + 1}
    OBVIOUS
  <2> HIDE DEF Ok, S
  <2>7. step \in [1 .. n -> [S -> S]]
    BY <2>4, <2>5
  <2>8. PICK f \in [0 .. n -> S] :
          f[0] = a /\ \A k \in 1 .. n : f[k] = step[k][f[k - 1]]
    <3> HIDE DEF step, n
    <3>1. \A x \in S : Runs(S, x)
      BY RunsIn
    <3>2. Runs(S, a)
      BY <2>2, <3>1
    <3>3. \A m \in Nat : RunsFor(S, a, m)
      BY <3>2 DEF Runs
    <3>4. RunsFor(S, a, n)
      BY <1>1, <3>3
    <3> QED
      BY <2>7, <3>4 DEF RunsFor
  <2> HIDE DEF n
  <2>9. \A k \in 1 .. n : k - 1 \in 0 .. n /\ f[k - 1] \in S /\ (k - 1) + 1 = k
    BY <1>1
  <2> DEFINE Q == {k \in 0 .. n : f[k] \in Ok(k) /\ (k # 0 => f[k] = Char(f[k - 1], data, k))}
  <2>10. 0 \in Q
    BY <1>1, <2>2, <2>8
  <2>11. ASSUME NEW k \in 0 .. n, k < n, k \in Q PROVE k + 1 \in Q
    <3>1. k + 1 \in 1 .. n /\ k + 1 \in 0 .. n /\ (k + 1) - 1 = k
      BY <1>1, <2>11
    <3>2. f[k] \in S /\ f[k] \in Ok(k)
      BY <2>11
    <3>3. step[k + 1][f[k]] = Char(f[k], data, k + 1)
      BY <3>1, <3>2
    <3>4. f[k + 1] = Char(f[k], data, k + 1)
      BY <2>8, <3>1, <3>3
    <3>5. Char(f[k], data, k + 1) \in Ok(k + 1)
      BY <2>4, <3>1, <3>2
    <3> QED
      BY <3>1, <3>4, <3>5
  <2>12. 0 .. n \subseteq Q
    <3> HIDE DEF Q
    <3> QED
      BY <1>1, <2>10, <2>11, InductionUpTo
  <2>13. f = G(f)
    BY <2>8, <2>12
  <2>14. r = G(r)
    BY <2>13
  <2>15. r[0] = a /\ \A k \in 0 .. n : k # 0 => r[k] = Char(r[k - 1], data, k)
    <3> HIDE DEF r
    <3> QED
      BY <1>1, <2>14
  <2> HIDE DEF r, G, step
  <2> DEFINE P == {k \in 0 .. n : r[k] \in Ok(k)}
  <2>16. 0 \in P
    BY <1>1, <2>2, <2>15
  <2>17. ASSUME NEW k \in 0 .. n, k < n, k \in P PROVE k + 1 \in P
    <3>1. k + 1 \in 1 .. n /\ k + 1 \in 0 .. n /\ (k + 1) - 1 = k /\ k + 1 # 0
      BY <1>1, <2>17
    <3>2. r[k + 1] = Char(r[k], data, k + 1) /\ r[k] \in Ok(k)
      BY <2>15, <2>17, <3>1
    <3> QED
      BY <2>4, <3>1, <3>2
  <2>18. 0 .. n \subseteq P
    <3> HIDE DEF P
    <3> QED
      BY <1>1, <2>16, <2>17, InductionUpTo
  <2>19. r[n] \in Ok(n)
    BY <1>1, <2>18
  <2>20. r[n].start \in 1 .. n + 1 /\ r[n].c \in Consoles(V, console__width)
    BY <1>1, <2>6, <2>19 DEF S
  <2> HIDE DEF P, Q
  <2>21. n + 1 - r[n].start \in Nat
    BY <1>1, <2>20
  <2>22. From(data, r[n].start) \in Seq(V)
    BY <2>3, <2>20
  <2> QED
    BY <2>1, <2>20, <2>21, <2>22, SequenceOnScreen
<1> QED
  BY <1>2, <1>3

(***************************************************************************)
(* StaysOnScreen, for every size of the screen and every text:             *)
(* console_write leaves the cursor on the screen, and writes to no cell    *)
(* but those of the screen.                                                *)
(***************************************************************************)
THEOREM AlwaysOnScreen ==
  ASSUME ScreenTypes, NEW CONSTANT Glyphs, Data \subseteq Seq(Glyphs)
  PROVE  Spec => []StaysOnScreen
<1> DEFINE V == Glyphs \cup {NUL, Junk}
           W == console__width
           OnScreen == con \in Consoles(V, W - 1)
<1>1. W \in Nat \ {0} /\ console__height \in Nat \ {0}
  BY DEF ScreenTypes
<1>2. Init => OnScreen
  BY <1>1 DEF Init, console_initialize, Consoles
<1>3. OnScreen /\ [Next]_cvars => OnScreen'
  <2> SUFFICES ASSUME OnScreen, [Next]_cvars PROVE OnScreen'
    OBVIOUS
  <2>1. CASE Next
    <3>1. PICK data \in Data : con' = console_write(con, data)
      BY <2>1 DEF Next, Write
    <3>2. data \in Seq(V)
      BY <3>1
    <3>3. NUL \in V /\ Junk \in V
      OBVIOUS
    <3> HIDE DEF V
    <3>4. console_write(con, data) \in Consoles(V, W - 1)
      BY <3>2, <3>3, ConsoleWriteOnScreen
    <3> QED
      BY <3>1, <3>4 DEF Consoles, Cells
  <2>2. CASE UNCHANGED cvars
    BY <2>2 DEF cvars, Consoles, Cells
  <2> QED
    BY <2>1, <2>2
<1>4. OnScreen => StaysOnScreen
  BY <1>1 DEF Consoles, StaysOnScreen
<1> QED
  BY <1>2, <1>3, <1>4, PTL DEF Spec
=============================================================================
