------------------------------ MODULE Console ------------------------------
(***************************************************************************)
(* What the kernel's text screen promises, with no addresses and no copy   *)
(* loops: lines of cells and a cursor that is always on one of them.  Text *)
(* wraps at the right margin, and a new line below the last one pushes the *)
(* first line out.                                                         *)
(***************************************************************************)
EXTENDS Integers, Sequences

CONSTANTS
  Width, Height,   \* cells of a line, lines of the screen
  TabStop,         \* columns between tab stops
  Chars,           \* characters that take a cell
  Blank            \* the one that empties a cell

VARIABLES
  window,   \* the lines, first at the top
  cursor    \* [x, y] of the next character, from 0

vars == <<window, cursor>>

BlankLine == [i \in 1 .. Width |-> Blank]

Init ==
  /\ window = [j \in 1 .. Height |-> BlankLine]
  /\ cursor = [x |-> 0, y |-> 0]

\* The screen w with the cursor at the start of the line below y.
LineBelow(w, y) ==
  IF y + 1 < Height
  THEN window' = w /\ cursor' = [x |-> 0, y |-> y + 1]
  ELSE window' = Append(Tail(w), BlankLine) /\ cursor' = [x |-> 0, y |-> y]

\* The n cells from the cursor on hold c; they are all on the cursor's line.
Filled(n, c) ==
  [window EXCEPT ![cursor.y + 1] =
     [i \in 1 .. Width |->
        IF cursor.x < i /\ i <= cursor.x + n THEN c ELSE @[i]]]

Advance(n, c) ==
  IF cursor.x + n < Width
  THEN window' = Filled(n, c) /\ cursor' = [cursor EXCEPT !.x = @ + n]
  ELSE LineBelow(Filled(n, c), cursor.y)

Put(c) == Advance(1, c)

NewLine == LineBelow(window, cursor.y)

\* Blanks up to the next tab stop, or a new line if that is not on this one.
Tab ==
  LET n == TabStop - (cursor.x % TabStop)
  IN  IF cursor.x + n < Width THEN Advance(n, Blank) ELSE NewLine

Next == (\E c \in Chars : Put(c)) \/ NewLine \/ Tab

Spec == Init /\ [][Next]_vars
=============================================================================
