------------------------------ MODULE Console -------------------------------
(***************************************************************************)
(* The text console (src/modules/console/console.c): a screen of cells, in *)
(* a buffer that holds its rows one after the other, and a cursor.  Text   *)
(* is written in stretches between the control characters, cut at the end  *)
(* of the row; the screen scrolls when the cursor leaves its last row.     *)
(***************************************************************************)
EXTENDS Integers, Sequences, SequencesExt, TLC

CONSTANTS
  console__width, console__height, TAB_SIZE,    \* TAB_SIZE divides the width
  Data,         \* what is written at once
  MaxWritten    \* bound: characters written

NUL == "NUL"
Newline == "newline"
Return == "return"
Tab == "tab"
Junk == "junk"

VARIABLES
  con,     \* [row, column, buffer, inrow]: terminal_row, terminal_column, console_buffer
  history  \* everything written so far
cvars == <<con, history>>

Cells == 0 .. (console__width * console__height) - 1

console_initialize == [row |-> 0, column |-> 0, buffer |-> [i \in Cells |-> NUL],
                       inrow |-> TRUE]

\* characters from the cursor on, wherever that leads
console_raw_write(c, s) ==
  LET index == (c.row * console__width) + c.column
      places == index .. index + Len(s) - 1
  IN [c EXCEPT !.buffer = [i \in DOMAIN c.buffer \cup places |->
                             IF i \in places THEN s[i - index + 1] ELSE c.buffer[i]]]

\* faulty: the last row is not cleared
console_scroll_up_Dirty(c, rows) ==
  [c EXCEPT !.buffer =
     [i \in DOMAIN @ |-> IF i + (rows * console__width) \in Cells THEN @[i + (rows * console__width)] ELSE @[i]]]

console_scroll_up(c, rows) ==
  [c EXCEPT !.buffer =
     [i \in DOMAIN @ |->
        IF i \notin Cells THEN @[i]
        ELSE IF i + (rows * console__width) \in Cells THEN @[i + (rows * console__width)] ELSE NUL]]

\* faulty: the cursor may be in the row after the last one
need_scroll_Late(c) ==
  IF c.row > console__height THEN [console_scroll_up(c, 1) EXCEPT !.row = console__height - 1] ELSE c

need_scroll(c) ==
  IF c.row >= console__height THEN [console_scroll_up(c, 1) EXCEPT !.row = console__height - 1] ELSE c

newline(c) == need_scroll([c EXCEPT !.column = 0, !.row = @ + 1])

\* what the loop reads: beyond the data there is whatever is in memory
CharAt(text, i) == IF i <= Len(text) THEN text[i] ELSE Junk

\* A round of the loop.  What it writes is bounded by the length of the whole
\* text, not of what is left.
Round(at, text, length) ==
  LET room == console__width - at.c.column
      n == IF room < length THEN room ELSE length
      put == [console_raw_write(at.c, [i \in 1 .. n |-> CharAt(text, at.written + i)]) EXCEPT !.column = @ + n]
  IN [c |-> IF put.column >= console__width THEN newline(put) ELSE put, written |-> at.written + n]

\* The loop: a round for an empty text too, and every round but the first one
\* writes something.
WriteLoop(c, text, length) ==
  LET after[k \in 0 .. length + 1] ==
        IF k = 0 THEN [c |-> c, written |-> 0]
        ELSE LET at == after[k - 1]
             IN IF k = 1 \/ at.written < length THEN Round(at, text, length) ELSE at
  IN after[length + 1].c

\* history: whether all texts so far ended in the row in which they began
InRow(c, length) == c.column + length <= console__width \/ (c.column = console__width /\ length <= console__width)

\* length characters of a text that goes on behind them
terminal_writesequence(c, text, length) ==
  [WriteLoop(c, text, length) EXCEPT !.inrow = @ /\ InRow(c, length)]

\* a control character, after the text before it
Control(c, char) ==
  CASE char = Newline -> newline(c)
    [] char = Return -> [c EXCEPT !.column = 0]
    [] char = Tab -> [c EXCEPT !.column = ((@ \div TAB_SIZE) + 1) * TAB_SIZE]

\* the text from a place on
From(data, start) == SubSeq(data, start, Len(data))

\* a character of the data; start is where the text before it begins
Char(at, data, i) ==
  IF data[i] \in {Newline, Return, Tab}
  THEN [start |-> i + 1,
        c |-> Control(terminal_writesequence(at.c, From(data, at.start), i - at.start), data[i])]
  ELSE at

console_write(c, data) ==
  LET after[i \in 0 .. Len(data)] ==
        IF i = 0 THEN [start |-> 1, c |-> c] ELSE Char(after[i - 1], data, i)
      all == after[Len(data)]
  IN IF data = <<>> THEN c
     ELSE terminal_writesequence(all.c, From(data, all.start), Len(data) + 1 - all.start)

Init == con = console_initialize /\ history = <<>>

Write(data) == /\ Len(history) + Len(data) <= MaxWritten
               /\ con' = console_write(con, data)
               /\ history' = history \o data

Next == \E data \in Data : Write(data)

Spec == Init /\ [][Next]_cvars

(***************************************************************************)
(* The same text on an endless roll of paper, a character at a time: a     *)
(* character, or a tab, that reaches the end of a row goes on to the next. *)
(***************************************************************************)
Blank == [x \in 0 .. console__width - 1 |-> NUL]
Wrapped(roll) == IF roll.x < console__width THEN roll
                 ELSE [rows |-> Append(roll.rows, Blank), x |-> 0]
Type(roll, char) ==
  CASE char = Newline -> [rows |-> Append(roll.rows, Blank), x |-> 0]
    [] char = Return -> [roll EXCEPT !.x = 0]
    [] char = Tab -> Wrapped([roll EXCEPT !.x = @ + (TAB_SIZE - (@ % TAB_SIZE))])
    [] OTHER -> Wrapped([roll EXCEPT !.rows[Len(roll.rows)][roll.x] = char, !.x = @ + 1])
Roll == FoldLeft(Type, [rows |-> <<Blank>>, x |-> 0], history)

(***************************************************************************)
(* Properties                                                              *)
(***************************************************************************)

\* newline, the tab of console_write: between two calls the cursor is on the
\* screen, and nothing but the screen has been written to: the row of the
\* status bar behind it is left alone.
StaysOnScreen ==
  con.row < console__height /\ con.column < console__width /\ DOMAIN con.buffer = Cells

\* console_write: as long as no text between control characters runs past the
\* end of its row, the screen shows the last rows of the roll, and the cursor
\* is where the roll's is, however the text is divided into calls.  (A text
\* that runs on is followed by characters that do not belong to it.)
ShowsEndOfRoll ==
  con.inrow =>
  LET rows == Len(Roll.rows)
      above == IF rows > console__height THEN rows - console__height ELSE 0
  IN /\ con.row = rows - above - 1 /\ con.column = Roll.x
     /\ \A y \in 0 .. console__height - 1, x \in 0 .. console__width - 1 :
          con.buffer[(y * console__width) + x] =
            IF above + y + 1 <= rows THEN Roll.rows[above + y + 1][x] ELSE NUL
=============================================================================
