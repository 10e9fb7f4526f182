---------------------------- MODULE TerminalProofs ----------------------------
(***************************************************************************)
(* Proofs about Terminal, for every size of screen, page and tab, all      *)
(* characters, and any number of handlers' prints.                         *)
(*                                                                         *)
(* CursorInvariant says where the cursor may be at each access of a print, *)
(* and what the copies of it are worth that the print has read before a    *)
(* handler moved it.  Untorn follows a print that no handler interrupts:   *)
(* it has put so many cells, this much is left to do, and the cursor is    *)
(* where that takes it.  The rest relates the page, cell by cell, to the   *)
(* lines of the console.                                                   *)
(***************************************************************************)
EXTENDS Terminal, SequenceTheorems, TLAPS

-----------------------------------------------------------------------------
(* The cursor *)

(* The line and the place in it are on the screen.                          *)
OnScreen(i, j) == i \in 0 .. ROW_MAX - 1 /\ j \in 0 .. COL_MAX - 1

Types ==
  /\ buffer \in [Cells -> Text]
  /\ {row, col, x, y, counter, tears} \subseteq Nat
  /\ pc \in {"idle", "tab", "put", "put_row", "put_store", "row_load",
             "row_store", "newline", "col_load", "col_store", "return", "off"}
            \cup Windows
  /\ char \in Text
  /\ spaces \in 0 .. tab_space_num - 1
  /\ escaped \in BOOLEAN

(* What the next access of a print finds, whatever handlers did: the line   *)
(* that a decrement takes back is not the first one.                        *)
LineToTakeBack ==
  /\ pc \in {"scroll", "dec_load"} => col > 0
  /\ pc = "dec_store" => counter > 0

(* Where the cursor may be at each access while no handler has printed in   *)
(* one of the windows.                                                      *)
CursorInBounds ==
  /\ pc # "off"
  /\ pc \notin Windows => OnScreen(row, col)
  /\ pc \in {"row_test", "row_reset"} => row <= ROW_MAX /\ col < COL_MAX
  /\ pc = "row_reset" => row = ROW_MAX
  /\ pc = "col_test" => row < ROW_MAX /\ col <= COL_MAX
  /\ pc \in {"scroll", "dec_load", "dec_store"} =>
       row < ROW_MAX /\ col = COL_MAX
  /\ pc \in {"put_row", "put_store"} => y < COL_MAX
  /\ pc = "put_store" => x < ROW_MAX
  /\ pc = "row_store" => counter < ROW_MAX
  /\ pc = "col_store" => counter < COL_MAX
  /\ pc = "dec_store" => counter = COL_MAX

(* The inductive invariant of the cursor.                                   *)
CursorInvariant ==
  /\ Types
  /\ LineToTakeBack
  /\ ~escaped => CursorInBounds

-----------------------------------------------------------------------------
(* A print that no handler interrupts *)

\* Screens with the cursor on them.
Screens == [buffer : [Cells -> Text], row : 0 .. ROW_MAX - 1,
            col : 0 .. COL_MAX - 1]

\* The cells of b, n of them from i on holding c.
WithCells(b, i, n, c) ==
  [k \in Cells |-> IF i <= k /\ k < i + n THEN c ELSE b[k]]

\* The page of screen s when n cells from its cursor on hold c.
Put(s, n, c) == WithCells(s.buffer, CellAt(s.row, s.col), n, c)

\* What kernel_main prints on screen s is n cells of one line that hold c: a
\* character, or the blanks of a tab.
PutsInAll(s, n, c) ==
  \/ n = 1 /\ c \in MainChars
  \/ /\ c = Space
     /\ n = SpacesNeeded(s.row)
     /\ s.row + n < ROW_MAX

\* A new line comes after n cells: after none, or after the last of the line.
EndsLine(s, n, c) ==
  \/ n = 0
  \/ n = 1 /\ c \in MainChars /\ s.row + 1 = ROW_MAX

CursorAt(i, j) == row = i /\ col = j

(* The print has put c into n cells: what is left to do at each access, and *)
(* where the cursor is.                                                     *)
Stage(n, c) ==
  /\ pc = "tab" =>
       spaces = 0 /\ buffer = before.buffer /\ CursorAt(before.row, before.col)
  /\ pc \in {"put", "put_row", "put_store"} =>
       /\ buffer = Put(before, n, c) /\ char = c
       /\ CursorAt(before.row + n, before.col)
       /\ PutsInAll(before, n + 1 + spaces, c)
  /\ pc \in {"put_row", "put_store"} => y = col
  /\ pc = "put_store" => x = row
  /\ pc \in {"row_load", "row_store"} =>
       /\ buffer = Put(before, n, c) /\ char = c
       /\ CursorAt(before.row + n - 1, before.col)
       /\ PutsInAll(before, n + spaces, c)
  /\ pc = "row_store" => counter = row
  /\ pc \in {"row_test", "row_reset"} =>
       /\ buffer = Put(before, n, c) /\ char = c
       /\ CursorAt(before.row + n, before.col)
       /\ PutsInAll(before, n + spaces, c)
  /\ pc \in {"newline", "col_load", "col_store", "col_test", "scroll",
             "dec_load", "dec_store"} => spaces = 0 /\ EndsLine(before, n, c)
  /\ pc \in {"newline", "col_load", "col_store", "col_test", "scroll"} =>
       buffer = Put(before, n, c)
  /\ pc \in {"newline", "col_load", "col_store"} => col = before.col
  /\ pc \in {"col_load", "col_store", "col_test", "scroll", "dec_load",
             "dec_store"} => row = 0
  /\ pc = "col_store" => counter = col
  /\ pc \in {"col_test", "scroll", "dec_load", "dec_store"} =>
       col = before.col + 1
  /\ pc \in {"dec_load", "dec_store"} => buffer = Scrolled(Put(before, n, c))
  /\ pc = "return" =>
       \/ /\ buffer = Put(before, n, c) /\ char = c
          /\ CursorAt(before.row + n, before.col)
          /\ PutsInAll(before, n + spaces, c)
       \/ /\ spaces = 0 /\ EndsLine(before, n, c)
          /\ buffer = Put(before, n, c)
          /\ CursorAt(0, before.col + 1)
       \/ /\ spaces = 0 /\ EndsLine(before, n, c)
          /\ buffer = Scrolled(Put(before, n, c))
          /\ CursorAt(0, before.col)
          /\ before.col + 1 = COL_MAX

(* The print in progress began on a proper screen and is at some stage.     *)
InPrint ==
  /\ before \in Screens
  /\ \E n \in Nat, c \in Text : Stage(n, c)

(* Until a handler prints in the middle of a print.                         *)
Untorn ==
  tears = 0 =>
    /\ ~escaped
    /\ pc = "idle" => before = NoScreen /\ spaces = 0
    /\ pc # "idle" => InPrint

-----------------------------------------------------------------------------
(* Cells *)

(* A line's cells come before those of the lines below it.                  *)
LEMMA LinesApart ==
  ASSUME NEW i \in 0 .. ROW_MAX - 1, NEW j \in Nat, NEW k \in Nat, j < k
  PROVE  CellAt(i, j) < k * ROW_MAX
<1>1. ROW_MAX \in Nat /\ j + 1 <= k
  BY TerminalAssumption
<1>2. (j + 1) * ROW_MAX <= k * ROW_MAX
  BY <1>1, SMT
<1>3. (j + 1) * ROW_MAX = j * ROW_MAX + ROW_MAX
  BY <1>1, SMT
<1> QED
  BY <1>1, <1>2, <1>3 DEF CellAt

(* The screen's cells lie on its page.                                      *)
LEMMA CellOnPage ==
  ASSUME NEW i, NEW j, OnScreen(i, j)
  PROVE  CellAt(i, j) \in Cells /\ CellAt(i, j) < COL_MAX * ROW_MAX
<1>1. /\ ROW_MAX \in Nat /\ COL_MAX \in Nat /\ PageCells \in Nat
      /\ COL_MAX * ROW_MAX <= PageCells
  BY TerminalAssumption, SMT
<1>2. i \in 0 .. ROW_MAX - 1 /\ j \in Nat /\ j < COL_MAX
  BY <1>1 DEF OnScreen
<1>3. CellAt(i, j) < COL_MAX * ROW_MAX
  BY <1>1, <1>2, LinesApart
<1>4. CellAt(i, j) \in Nat
  <2>1. j * ROW_MAX \in Nat
    BY <1>1, <1>2
  <2> QED
    BY <1>1, <1>2, <2>1 DEF CellAt
<1> QED
  BY <1>1, <1>3, <1>4 DEF Cells

(* A tab puts as many blanks as its width, or fewer, and one at least.      *)
LEMMA SpacesBounded ==
  ASSUME NEW r \in Nat
  PROVE  SpacesNeeded(r) \in 1 .. tab_space_num
BY TerminalAssumption, SMT DEF SpacesNeeded

(* Scrolling keeps a page a page.                                           *)
LEMMA ScrolledPage ==
  ASSUME NEW b \in [Cells -> Text]
  PROVE  Scrolled(b) \in [Cells -> Text]
<1>1. /\ ROW_MAX \in Nat /\ COL_MAX \in Nat \ {0} /\ PageCells \in Nat
      /\ ROW_MAX * COL_MAX <= PageCells
  BY TerminalAssumption
<1>2. ASSUME NEW i \in Cells, i < CellAt(0, COL_MAX - 1)
      PROVE  i + ROW_MAX \in Cells
  <2>1. (COL_MAX - 1) * ROW_MAX + ROW_MAX = ROW_MAX * COL_MAX
    BY <1>1, SMT
  <2>2. (COL_MAX - 1) * ROW_MAX \in Nat
    BY <1>1, SMT
  <2> QED
    BY <1>1, <1>2, <2>1, <2>2 DEF CellAt, Cells
<1>3. Space \in Text
  BY DEF Text
<1>4. \A i \in Cells : Scrolled(b)[i] \in Text
  BY <1>2, <1>3 DEF Scrolled
<1>5. Scrolled(b) = [i \in Cells |-> Scrolled(b)[i]]
  BY DEF Scrolled
<1> QED
  BY <1>4, <1>5

-----------------------------------------------------------------------------
(* CursorInvariant is inductive *)

(* A handler's new line keeps the cursor on the screen, and never moves it  *)
(* up.                                                                      *)
LEMMA NewlineByHandler ==
  ASSUME NEW s,
         s \in [buffer : [Cells -> Text], row : Nat, col : Nat]
  PROVE  /\ NewlineOn(s).buffer \in [Cells -> Text]
         /\ NewlineOn(s).row = 0
         /\ NewlineOn(s).col \in Nat /\ NewlineOn(s).col >= s.col
         /\ s.col < COL_MAX => NewlineOn(s).col < COL_MAX
BY ScrolledPage, TerminalAssumption DEF NewlineOn

(* What a character does to a screen before the margin is looked at.        *)
LEMMA CharPut ==
  ASSUME NEW s, NEW c,
         s \in [buffer : [Cells -> Text], row : Nat, col : Nat]
  PROVE  LET put == [buffer |-> [s.buffer EXCEPT ![CellAt(s.row, s.col)] = c],
                     row |-> s.row + 1, col |-> s.col]
         IN  CharOn(s, c) = IF put.row = ROW_MAX THEN NewlineOn(put) ELSE put
<1> DEFINE b == [s.buffer EXCEPT ![CellAt(s.row, s.col)] = c]
           moved == [s EXCEPT !.row = @ + 1]
           put == [s EXCEPT !.buffer[CellAt(s.row, s.col)] = c, !.row = @ + 1]
<1>1. put = [moved EXCEPT !.buffer = b]
  OBVIOUS
<1>2. /\ moved \in [buffer : [Cells -> Text], row : Nat, col : Nat]
      /\ moved.col = s.col /\ moved.row = s.row + 1
  OBVIOUS
<1>3. CharOn(s, c) = IF put.row = ROW_MAX THEN NewlineOn(put) ELSE put
  BY DEF CharOn
<1> HIDE DEF b, put, moved
<1>4. put = [buffer |-> b, row |-> s.row + 1, col |-> s.col]
  BY <1>1, <1>2
<1> QED
  BY <1>3, <1>4 DEF b

(* A handler's character stays on the screen, where there is a cell for it.  *)
LEMMA CharByHandler ==
  ASSUME NEW s, NEW c \in Text,
         s \in [buffer : [Cells -> Text], row : Nat, col : Nat],
         CellAt(s.row, s.col) \in Cells
  PROVE  /\ CharOn(s, c).buffer \in [Cells -> Text]
         /\ CharOn(s, c).row \in Nat
         /\ CharOn(s, c).col \in Nat /\ CharOn(s, c).col >= s.col
         /\ OnScreen(s.row, s.col)
              => OnScreen(CharOn(s, c).row, CharOn(s, c).col)
<1> DEFINE b == [s.buffer EXCEPT ![CellAt(s.row, s.col)] = c]
           put == [buffer |-> b, row |-> s.row + 1, col |-> s.col]
<1>1. b \in [Cells -> Text]
  OBVIOUS
<1>2. CharOn(s, c) = IF put.row = ROW_MAX THEN NewlineOn(put) ELSE put
  BY CharPut
<1> HIDE DEF b
<1>3. /\ put \in [buffer : [Cells -> Text], row : Nat, col : Nat]
      /\ put.col = s.col /\ put.row = s.row + 1
  BY <1>1
<1> HIDE DEF put
<1>4. CASE put.row = ROW_MAX
  BY <1>2, <1>3, <1>4, NewlineByHandler, TerminalAssumption DEF OnScreen
<1>5. CASE put.row # ROW_MAX
  BY <1>2, <1>3, <1>5, TerminalAssumption DEF OnScreen
<1> QED
  BY <1>4, <1>5

(* Handlers print in between, on the screen or not.                         *)
LEMMA CursorHandlerPrints ==
  ASSUME CursorInvariant, NEW c \in HandlerChars \cup {Newline},
         HandlerPrints(c)
  PROVE  CursorInvariant'
<1>1. Screen \in [buffer : [Cells -> Text], row : Nat, col : Nat]
  BY DEF Screen, CursorInvariant, Types
<1>2. /\ Screen.row = row /\ Screen.col = col
  BY DEF Screen
<1>3. c # Newline => c \in Text
  BY DEF Text
<1>0. /\ tears' \in Nat /\ escaped' \in BOOLEAN
      /\ ~escaped' => ~escaped /\ pc \notin Windows
  <2>1. escaped' = (escaped \/ pc \in Windows)
    BY DEF HandlerPrints
  <2>2. tears' \in Nat
    BY DEF HandlerPrints, CursorInvariant, Types
  <2> QED
    BY <2>1, <2>2
<1>4. CASE c = Newline
  <2>1. /\ buffer' = NewlineOn(Screen).buffer
        /\ row' = NewlineOn(Screen).row /\ col' = NewlineOn(Screen).col
        /\ UNCHANGED pc /\ UNCHANGED locals
    BY <1>4 DEF HandlerPrints
  <2>2. /\ buffer' \in [Cells -> Text] /\ row' = 0 /\ col' \in Nat
        /\ col' >= col
        /\ col < COL_MAX => col' < COL_MAX
    BY <1>1, <1>2, <2>1, NewlineByHandler
  <2>3. Types' /\ LineToTakeBack'
    BY <1>0, <2>1, <2>2 DEF CursorInvariant, Types, LineToTakeBack, locals
  <2>4. ~escaped' => CursorInBounds'
    BY <1>0, <2>1, <2>2, TerminalAssumption
       DEF CursorInvariant, Types, CursorInBounds, OnScreen, Windows, locals
  <2> QED
    BY <2>3, <2>4 DEF CursorInvariant
<1>5. CASE c # Newline /\ CellAt(row, col) \in Cells
  <2>1. /\ buffer' = CharOn(Screen, c).buffer
        /\ row' = CharOn(Screen, c).row /\ col' = CharOn(Screen, c).col
        /\ UNCHANGED pc /\ UNCHANGED locals
    BY <1>5 DEF HandlerPrints
  <2>2. /\ buffer' \in [Cells -> Text] /\ row' \in Nat /\ col' \in Nat
        /\ col' >= col
        /\ OnScreen(row, col) => OnScreen(row', col')
    BY <1>1, <1>2, <1>3, <1>5, <2>1, CharByHandler
  <2>3. Types' /\ LineToTakeBack'
    BY <1>0, <2>1, <2>2 DEF CursorInvariant, Types, LineToTakeBack, locals
  <2>4. ~escaped' => CursorInBounds'
    BY <1>0, <2>1, <2>2 DEF CursorInvariant, CursorInBounds, Windows, locals
  <2> QED
    BY <2>3, <2>4 DEF CursorInvariant
<1>6. CASE c # Newline /\ CellAt(row, col) \notin Cells
  <2>1. pc' = "off" /\ UNCHANGED <<buffer, cursor>> /\ UNCHANGED locals
    BY <1>6 DEF HandlerPrints
  <2>2. escaped'
    <3>1. ~escaped /\ pc \notin Windows => OnScreen(row, col)
      BY DEF CursorInvariant, CursorInBounds
    <3> QED
      BY <1>0, <1>6, <3>1, CellOnPage
  <2> QED
    BY <1>0, <2>1, <2>2
       DEF CursorInvariant, Types, LineToTakeBack, cursor, locals
<1> QED
  BY <1>4, <1>5, <1>6

(* Every step of kernel_main's print keeps the cursor's invariant.          *)
LEMMA CursorPrints ==
  ASSUME CursorInvariant, [Next]_vars,
         ~ \E c \in HandlerChars \cup {Newline} : HandlerPrints(c)
  PROVE  CursorInvariant'
<1> USE TerminalAssumption
        DEF CursorInvariant, Types, LineToTakeBack, CursorInBounds, OnScreen,
            Windows, cursor, locals, history, At, Begin
<1>1. CASE \E c \in MainChars : PrintChar(c)
  BY <1>1 DEF PrintChar, Text
<1>2. CASE PrintNewline
  BY <1>2 DEF PrintNewline
<1>3. CASE PrintTab
  BY <1>3 DEF PrintTab
<1>4. CASE print_tab
  BY <1>4, SpacesBounded DEF print_tab, Text
<1>5. CASE ReadLine
  BY <1>5 DEF ReadLine
<1>6. CASE ReadRow
  BY <1>6 DEF ReadRow
<1>7. CASE terminal_put_char_at
  BY <1>7 DEF terminal_put_char_at
<1>8. CASE StoreOffPage
  BY <1>8, CellOnPage DEF StoreOffPage
<1>9. CASE LoadRow
  BY <1>9 DEF LoadRow
<1>10. CASE StoreRow
  BY <1>10 DEF StoreRow
<1>11. CASE TestRow
  BY <1>11 DEF TestRow, AtMargin
<1>12. CASE ResetRow
  BY <1>12 DEF ResetRow
<1>13. CASE print_newline
  BY <1>13 DEF print_newline
<1>14. CASE LoadCol
  BY <1>14 DEF LoadCol
<1>15. CASE StoreCol
  BY <1>15 DEF StoreCol
<1>16. CASE TestCol
  BY <1>16 DEF TestCol
<1>17. CASE scroll_terminal
  BY <1>17, ScrolledPage DEF scroll_terminal
<1>18. CASE LoadColAgain
  BY <1>18 DEF LoadColAgain
<1>19. CASE StoreColBack
  BY <1>19 DEF StoreColBack
<1>20. CASE Return
  BY <1>20 DEF Return, Text
<1>21. CASE Off
  BY <1>21 DEF Off, vars
<1>22. CASE UNCHANGED vars
  BY <1>22 DEF vars
<1> HIDE DEF CursorInvariant, Types, LineToTakeBack, CursorInBounds, OnScreen,
            Windows, cursor, locals, history, At, Begin
<1> QED
  BY <1>1, <1>2, <1>3, <1>4, <1>5, <1>6, <1>7, <1>8, <1>9, <1>10, <1>11,
     <1>12, <1>13, <1>14, <1>15, <1>16, <1>17, <1>18, <1>19, <1>20, <1>21, <1>22
     DEF Next, terminal_put_char, Newlines

(* The cursor's invariant holds before the first print.                     *)
LEMMA CursorInit == Init => CursorInvariant
<1> SUFFICES ASSUME Init PROVE CursorInvariant
  OBVIOUS
<1>1. buffer \in [Cells -> Text] /\ char \in Text
  BY DEF Init, Text
<1>2. escaped \in BOOLEAN
  BY DEF Init
<1>3. Types
  BY <1>1, <1>2, TerminalAssumption DEF Init, Types, Windows
<1> QED
  BY <1>3, TerminalAssumption
     DEF Init, CursorInvariant, LineToTakeBack, CursorInBounds, OnScreen,
         Windows

(* The cursor's invariant holds at every access, for any screen and any     *)
(* prints in between: what is known of the cursor and of the copies of it   *)
(* that kernel_main holds.                                                  *)
THEOREM CursorCorrect == Spec => []CursorInvariant
<1>1. CursorInvariant /\ [Next]_vars => CursorInvariant'
  BY CursorPrints, CursorHandlerPrints
<1> QED
  BY CursorInit, <1>1, PTL DEF Spec

(* Between prints the cursor is on the screen and no print misses the page, *)
(* unless a handler printed in one of the windows; no decrement of the line *)
(* goes below zero; a tab puts fewer blanks than its width.                 *)
THEOREM CursorStaysOnScreen == Spec => []CursorOnScreen
<1>1. CursorInvariant => CursorOnScreen
  BY TerminalAssumption
     DEF CursorInvariant, Types, CursorInBounds, CursorOnScreen, OnScreen,
         Windows
<1> QED
  BY CursorCorrect, <1>1, PTL


-----------------------------------------------------------------------------
(* A print in progress *)

(* No cell put, one more cell put.                                          *)
LEMMA CellsPut ==
  ASSUME NEW s \in Screens, NEW n \in Nat, NEW c \in Text
  PROVE  /\ Put(s, 0, c) = s.buffer
         /\ CellAt(s.row + n, s.col) \in Cells
              => Put(s, n + 1, c) =
                   [Put(s, n, c) EXCEPT ![CellAt(s.row + n, s.col)] = c]
<1>0. /\ s.buffer \in [Cells -> Text] /\ s.row \in Nat /\ s.col \in Nat
      /\ ROW_MAX \in Nat
  BY TerminalAssumption DEF Screens
<1>1. CellAt(s.row, s.col) \in Nat
  <2>1. s.col * ROW_MAX \in Nat
    BY <1>0
  <2> QED
    BY <1>0, <2>1 DEF CellAt
<1>2. CellAt(s.row + n, s.col) = CellAt(s.row, s.col) + n
  <2>1. s.col * ROW_MAX \in Nat
    BY <1>0
  <2> QED
    BY <1>0, <2>1 DEF CellAt
<1> DEFINE i == CellAt(s.row, s.col)
<1>3. Put(s, 0, c) = s.buffer
  <2>1. Put(s, 0, c) = [k \in Cells |-> s.buffer[k]]
    BY <1>1 DEF Put, WithCells, Cells
  <2> QED
    BY <1>0, <2>1
<1>4. ASSUME i + n \in Cells
      PROVE  Put(s, n + 1, c) = [Put(s, n, c) EXCEPT ![i + n] = c]
  <2> HIDE DEF i
  <2>1. \A k \in Cells :
          (i <= k /\ k < i + (n + 1)) <=> (k = i + n \/ (i <= k /\ k < i + n))
    BY <1>1 DEF Cells, i
  <2> QED
    BY <1>4, <2>1 DEF Put, WithCells, i
<1> QED
  BY <1>2, <1>3, <1>4

(* A print begins on the screen as it is.                                   *)
LEMMA StageBegins ==
  ASSUME CursorInvariant, Untorn, tears = 0,
         \/ \E c \in MainChars : PrintChar(c)
         \/ PrintNewline \/ PrintTab
  PROVE  InPrint'
<1>1. /\ pc = "idle" /\ before' = Screen
      /\ UNCHANGED <<buffer, row, col, spaces>>
      /\ spaces = 0
  BY DEF PrintChar, PrintNewline, PrintTab, Begin, At, Untorn, torn, cursor
<1>2. /\ Screen \in Screens
      /\ Screen.buffer = buffer /\ Screen.row = row /\ Screen.col = col
  BY <1>1
     DEF CursorInvariant, CursorInBounds, Untorn, Types, OnScreen, Screen,
         Screens, Windows
<1>3. \A c \in Text : Put(Screen, 0, c) = buffer
  BY <1>2, CellsPut
<1>4. CASE \E c \in MainChars : PrintChar(c)
  <2>1. PICK c \in MainChars : PrintChar(c)
    BY <1>4
  <2>2. c \in Text /\ pc' = "put" /\ char' = c
    BY <2>1 DEF Text, PrintChar, Begin, At
  <2>3. Stage(0, c)'
    BY <1>1, <1>2, <1>3, <2>2
       DEF Stage, CursorAt, PutsInAll, CursorInvariant, Types
  <2> QED
    BY <1>1, <1>2, <2>2, <2>3 DEF InPrint
<1>5. CASE PrintNewline \/ PrintTab
  <2>1. pc' \in {"newline", "tab"}
    BY <1>5 DEF PrintNewline, PrintTab, Begin, At
  <2>2. Space \in Text
    BY DEF Text
  <2>3. Stage(0, Space)'
    BY <1>1, <1>2, <1>3, <2>1, <2>2 DEF Stage, CursorAt, EndsLine
  <2> QED
    BY <1>1, <1>2, <2>2, <2>3 DEF InPrint
<1> QED
  BY <1>4, <1>5

(* Each access of a print takes it to its next stage, until it ends.        *)
LEMMA StageStep ==
  ASSUME CursorInvariant, ~escaped, InPrint, UNCHANGED before, pc' # "idle",
         print_tab \/ terminal_put_char \/ Newlines \/ Return
  PROVE  InPrint'
<1>1. PICK n \in Nat, c \in Text : Stage(n, c)
  BY DEF InPrint
<1>2. /\ before \in Screens /\ before' = before
      /\ before.row \in 0 .. ROW_MAX - 1 /\ before.col \in 0 .. COL_MAX - 1
  BY DEF InPrint, Screens
<1>3. /\ CursorInBounds /\ Types
      /\ ROW_MAX \in Nat \ {0} /\ COL_MAX \in Nat \ {0}
      /\ tab_space_num \in Nat \ {0}
  BY TerminalAssumption DEF CursorInvariant
<1>4. Space \in Text /\ \A d \in Text : Put(before, 0, d) = before.buffer
  BY <1>2, CellsPut DEF Text
<1>5. print_tab => Stage(0, Space)'
  <2> SUFFICES ASSUME print_tab PROVE Stage(0, Space)'
    OBVIOUS
  <2>1. /\ pc = "tab" /\ UNCHANGED <<buffer, row, col>>
        /\ buffer = before.buffer /\ CursorAt(before.row, before.col)
        /\ spaces = 0
    BY <1>1 DEF print_tab, cursor, Stage
  <2>2. SpacesNeeded(row) \in 1 .. tab_space_num
    BY <1>3, SpacesBounded DEF Types
  <2> QED
    BY <1>2, <1>3, <1>4, <2>1, <2>2
       DEF print_tab, Stage, CursorAt, PutsInAll, EndsLine
<1>6. ReadLine => Stage(n, c)'
  BY <1>1, <1>2, <1>3 DEF ReadLine, At, Stage, CursorAt, CursorInBounds,
     OnScreen, Types, Windows, cursor, locals, history
<1>7. ReadRow => Stage(n, c)'
  BY <1>1, <1>2, <1>3 DEF ReadRow, At, Stage, CursorAt, CursorInBounds,
     OnScreen, Types, Windows, cursor, locals, history
<1>8. terminal_put_char_at => Stage(n + 1, c)'
  <2> SUFFICES ASSUME terminal_put_char_at PROVE Stage(n + 1, c)'
    OBVIOUS
  <2>1. /\ pc = "put_store" /\ pc' = "row_load"
        /\ buffer' = [buffer EXCEPT ![CellAt(x, y)] = char]
        /\ UNCHANGED <<row, col, char, spaces, counter>>
        /\ CellAt(x, y) \in Cells
    BY DEF terminal_put_char_at, At, cursor
  <2>2. /\ buffer = Put(before, n, c) /\ char = c
        /\ x = before.row + n /\ y = before.col
        /\ CursorAt(before.row + n, before.col)
        /\ PutsInAll(before, n + 1 + spaces, c)
    BY <1>1, <2>1 DEF Stage, CursorAt
  <2>3. buffer' = Put(before, n + 1, c)
    BY <1>2, <2>1, <2>2, CellsPut
  <2>4. CursorAt(before.row + (n + 1) - 1, before.col)'
    BY <1>1, <1>2, <2>1, <2>2 DEF CursorAt
  <2>5. PutsInAll(before, (n + 1) + spaces, c)'
    BY <1>2, <2>1, <2>2
  <2>6. buffer' = Put(before', n + 1, c) /\ char' = c /\ pc' = "row_load"
    BY <1>2, <2>1, <2>2, <2>3
  <2> QED
    BY <2>4, <2>5, <2>6 DEF Stage
<1>9. ~ StoreOffPage
  BY <1>3, CellOnPage
     DEF StoreOffPage, At, CursorInBounds, OnScreen, Types, Windows
<1>10. LoadRow => Stage(n, c)'
  BY <1>1, <1>2, <1>3 DEF LoadRow, At, Stage, CursorAt, CursorInBounds,
     OnScreen, Types, Windows, cursor, locals, history
<1>11. StoreRow => Stage(n, c)'
  BY <1>1, <1>2, <1>3 DEF StoreRow, At, Stage, CursorAt, CursorInBounds,
     OnScreen, Types, Windows, cursor, locals, history
<1>12. TestRow => Stage(n, c)'
  BY <1>1, <1>2, <1>3 DEF TestRow, At, Stage, CursorAt, CursorInBounds,
     OnScreen, Types, Windows, cursor, locals, history, AtMargin
<1>13. ResetRow => Stage(n, c)'
  BY <1>1, <1>2, <1>3 DEF ResetRow, At, Stage, CursorAt, CursorInBounds,
     OnScreen, Types, Windows, cursor, locals, history, PutsInAll, EndsLine
<1>14. print_newline => Stage(n, c)'
  BY <1>1, <1>2, <1>3 DEF print_newline, At, Stage, CursorAt,
     CursorInBounds, OnScreen, Types, Windows, cursor, locals, history
<1>15. LoadCol => Stage(n, c)'
  BY <1>1, <1>2, <1>3 DEF LoadCol, At, Stage, CursorAt, CursorInBounds,
     OnScreen, Types, Windows, cursor, locals, history
<1>16. StoreCol => Stage(n, c)'
  BY <1>1, <1>2, <1>3 DEF StoreCol, At, Stage, CursorAt, CursorInBounds,
     OnScreen, Types, Windows, cursor, locals, history
<1>17. TestCol => Stage(n, c)'
  BY <1>1, <1>2, <1>3 DEF TestCol, At, Stage, CursorAt, CursorInBounds,
     OnScreen, Types, Windows, cursor, locals, history
<1>18. scroll_terminal => Stage(n, c)'
  BY <1>1, <1>2, <1>3 DEF scroll_terminal, At, Stage, CursorAt,
     CursorInBounds, OnScreen, Types, Windows, cursor, locals, history
<1>19. LoadColAgain => Stage(n, c)'
  BY <1>1, <1>2, <1>3 DEF LoadColAgain, At, Stage, CursorAt, CursorInBounds,
     OnScreen, Types, Windows, cursor, locals, history
<1>20. StoreColBack => Stage(n, c)'
  BY <1>1, <1>2, <1>3 DEF StoreColBack, At, Stage, CursorAt, CursorInBounds,
     OnScreen, Types, Windows, cursor, locals, history
<1>21. Return => Stage(n, c)'
  BY <1>1, <1>2, <1>3 DEF Return, At, Stage, CursorAt, CursorInBounds,
     OnScreen, Types, Windows, cursor, locals, history
<1>22. Stage(n, c)' \/ Stage(n + 1, c)' \/ Stage(0, Space)'
  BY <1>5, <1>6, <1>7, <1>8, <1>9, <1>10, <1>11, <1>12, <1>13, <1>14, <1>15,
     <1>16, <1>17, <1>18, <1>19, <1>20, <1>21 DEF terminal_put_char,
     Newlines
<1> QED
  BY <1>1, <1>2, <1>4, <1>22 DEF InPrint

(* The shape of an untorn screen survives every step: a print that a        *)
(* handler interrupts is torn.                                              *)
LEMMA UntornStep ==
  ASSUME CursorInvariant, Untorn, [Next]_vars
  PROVE  Untorn'
<1> SUFFICES ASSUME tears' = 0 PROVE Untorn'
  BY DEF Untorn
<1>1. CASE UNCHANGED vars
  <2>1. UNCHANGED <<buffer, row, col, pc, char, x, y, counter, spaces, before,
                    tears, escaped>>
    BY <1>1 DEF vars, cursor, locals, history
  <2>2. InPrint => InPrint'
    BY <2>1 DEF InPrint, Stage, CursorAt, NoScreen
  <2> QED
    BY <2>1, <2>2 DEF Untorn
<1>2. CASE \E c \in HandlerChars \cup {Newline} : HandlerPrints(c)
  <2>1. PICK c \in HandlerChars \cup {Newline} : HandlerPrints(c)
    BY <1>2
  <2>2. pc = "idle" /\ tears' = tears
    BY <2>1 DEF HandlerPrints, CursorInvariant, Types
  <2>3. ~escaped /\ spaces = 0
    BY <2>2 DEF Untorn
  <2>4. ~escaped' /\ before' = NoScreen /\ spaces' = 0
    BY <2>1, <2>2, <2>3 DEF HandlerPrints, Windows, locals
  <2>5. pc' = "idle"
    <3>1. CursorInvariant'
      BY <2>1, CursorHandlerPrints
    <3> QED
      BY <2>1, <2>2, <2>4, <3>1
         DEF HandlerPrints, CursorInvariant, CursorInBounds
  <2> QED
    BY <2>4, <2>5 DEF Untorn
<1>3. CASE (\E c \in MainChars : PrintChar(c)) \/ PrintNewline \/ PrintTab
  <2>1. /\ tears' = tears /\ escaped' = escaped
        /\ pc' \in {"put", "newline", "tab"}
    BY <1>3 DEF PrintChar, PrintNewline, PrintTab, Begin, At
  <2> QED
    BY <1>3, <2>1, StageBegins DEF Untorn
<1>4. CASE print_tab \/ terminal_put_char \/ Newlines \/ Return
  <2>1. /\ tears' = tears /\ escaped' = escaped /\ pc # "idle"
        /\ pc' # "idle" => before' = before
        /\ pc' = "idle" => before' = NoScreen /\ spaces' = 0
    BY <1>4
       DEF print_tab, terminal_put_char, Newlines, Return, ReadLine, ReadRow,
           terminal_put_char_at, StoreOffPage, LoadRow, StoreRow, TestRow,
           ResetRow, print_newline, LoadCol, StoreCol, TestCol,
           scroll_terminal, LoadColAgain, StoreColBack, At, history
  <2> QED
    BY <1>4, <2>1, StageStep DEF Untorn
<1>5. CASE Off
  BY <1>1, <1>5 DEF Off
<1> QED
  BY <1>1, <1>2, <1>3, <1>4, <1>5 DEF Next

(* The two invariants together.                                             *)
THEOREM PrintsCorrect == Spec => [](CursorInvariant /\ Untorn)
<1>1. Init => Untorn
  BY DEF Init, Untorn
<1>2. CursorInvariant /\ Untorn /\ [Next]_vars => Untorn'
  BY UntornStep
<1> QED
  BY CursorCorrect, <1>1, <1>2, PTL DEF Spec

-----------------------------------------------------------------------------
(* The screen's page as the lines a reader sees *)

PageLines(b) ==
  [j \in 1 .. COL_MAX |-> [i \in 1 .. ROW_MAX |-> b[CellAt(i - 1, j - 1)]]]

(* The n cells from a place on are the next n of its line.                  *)
LEMMA CellsOfLine ==
  ASSUME NEW r \in Nat, NEW l \in Nat, NEW n \in Nat, r + n <= ROW_MAX,
         NEW i \in 0 .. ROW_MAX - 1, NEW j \in Nat
  PROVE  (CellAt(r, l) <= CellAt(i, j) /\ CellAt(i, j) < CellAt(r, l) + n)
           <=> (j = l /\ r <= i /\ i < r + n)
<1>1. ROW_MAX \in Nat
  BY TerminalAssumption
<1>2. j * ROW_MAX \in Nat /\ l * ROW_MAX \in Nat
  BY <1>1
<1>3. CASE j = l
  BY <1>1, <1>2, <1>3 DEF CellAt
<1>4. CASE j < l
  <2>1. CellAt(i, j) < l * ROW_MAX
    BY <1>4, LinesApart
  <2> QED
    BY <1>1, <1>2, <1>4, <2>1 DEF CellAt
<1>5. CASE l < j
  <2>1. (l + 1) * ROW_MAX <= j * ROW_MAX
    BY <1>1, <1>5, SMT
  <2>2. (l + 1) * ROW_MAX = l * ROW_MAX + ROW_MAX
    BY <1>1, SMT
  <2> QED
    BY <1>1, <1>2, <1>5, <2>1, <2>2 DEF CellAt
<1> QED
  BY <1>3, <1>4, <1>5

(* Cells put on a page are put in the cursor's line.                        *)
LEMMA PutLines ==
  ASSUME NEW s \in Screens, NEW n \in Nat, NEW c \in Text,
         s.row + n <= ROW_MAX
  PROVE  PageLines(Put(s, n, c)) =
           [PageLines(s.buffer) EXCEPT ![s.col + 1] =
              [i \in 1 .. ROW_MAX |->
                 IF s.row < i /\ i <= s.row + n THEN c ELSE @[i]]]
<1>1. /\ s.row \in Nat /\ s.col \in Nat /\ s.col < COL_MAX
      /\ ROW_MAX \in Nat /\ COL_MAX \in Nat
  BY TerminalAssumption DEF Screens
<1>2. ASSUME NEW j \in 1 .. COL_MAX, NEW i \in 1 .. ROW_MAX
      PROVE  Put(s, n, c)[CellAt(i - 1, j - 1)] =
               IF j = s.col + 1 /\ s.row < i /\ i <= s.row + n
               THEN c ELSE s.buffer[CellAt(i - 1, j - 1)]
  <2>1. /\ i - 1 \in 0 .. ROW_MAX - 1 /\ j - 1 \in Nat
        /\ OnScreen(i - 1, j - 1)
    BY <1>1 DEF OnScreen
  <2>2. CellAt(i - 1, j - 1) \in Cells
    BY <2>1, CellOnPage
  <2>3. (/\ CellAt(s.row, s.col) <= CellAt(i - 1, j - 1)
         /\ CellAt(i - 1, j - 1) < CellAt(s.row, s.col) + n)
          <=> (j - 1 = s.col /\ s.row <= i - 1 /\ i - 1 < s.row + n)
    BY <1>1, <2>1, CellsOfLine
  <2>4. (j - 1 = s.col /\ s.row <= i - 1 /\ i - 1 < s.row + n)
          <=> (j = s.col + 1 /\ s.row < i /\ i <= s.row + n)
    BY <1>1
  <2> QED
    BY <2>2, <2>3, <2>4 DEF Put, WithCells
<1> HIDE DEF Put
<1> QED
  BY <1>1, <1>2 DEF PageLines

(* Scrolling drops the first line and adds a blank one.                     *)
LEMMA ScrolledLines ==
  ASSUME NEW b \in [Cells -> Text]
  PROVE  PageLines(Scrolled(b)) =
           Append(Tail(PageLines(b)), [i \in 1 .. ROW_MAX |-> Space])
<1> DEFINE w == PageLines(b)
           blank == [i \in 1 .. ROW_MAX |-> Space]
<1>1. ROW_MAX \in Nat \ {0} /\ COL_MAX \in Nat \ {0}
  BY TerminalAssumption
<1>2. w \in Seq({w[j] : j \in 1 .. COL_MAX} \cup {blank}) /\ Len(w) = COL_MAX
  <2>1. w = [j \in 1 .. COL_MAX |-> w[j]]
    BY DEF PageLines
  <2> HIDE DEF w
  <2>2. w \in [1 .. COL_MAX -> {w[j] : j \in 1 .. COL_MAX} \cup {blank}]
    BY <2>1
  <2> QED
    BY <1>1, <2>2
<1>3. Append(Tail(w), blank) =
        [j \in 1 .. COL_MAX |-> IF j < COL_MAX THEN w[j + 1] ELSE blank]
  <2> HIDE DEF w, blank
  <2>1. PICK S : w \in Seq(S) /\ blank \in S
    BY <1>2
  <2>2. /\ Tail(w) \in Seq(S) /\ Len(Tail(w)) = COL_MAX - 1
        /\ \A j \in 1 .. COL_MAX - 1 : Tail(w)[j] = w[j + 1]
    BY <1>1, <1>2, <2>1
  <2> DEFINE t == Tail(w)
             a == Append(t, blank)
  <2>3. /\ t \in Seq(S) /\ Len(t) = COL_MAX - 1
        /\ \A j \in 1 .. COL_MAX - 1 : t[j] = w[j + 1]
    BY <2>2
  <2> HIDE DEF t
  <2>4. /\ a \in Seq(S) /\ Len(a) = COL_MAX
        /\ \A j \in 1 .. COL_MAX - 1 : a[j] = t[j]
        /\ a[COL_MAX] = blank
    BY <1>1, <2>1, <2>3
  <2> HIDE DEF a
  <2>5. a = [j \in 1 .. COL_MAX |-> a[j]]
    BY <1>1, <2>4
  <2>6. ASSUME NEW j \in 1 .. COL_MAX
        PROVE  a[j] = IF j < COL_MAX THEN w[j + 1] ELSE blank
    <3>1. CASE j < COL_MAX
      BY <1>1, <2>3, <2>4, <3>1
    <3>2. CASE j = COL_MAX
      BY <1>1, <2>4, <3>2
    <3> QED
      BY <1>1, <3>1, <3>2
  <2>7. a = [j \in 1 .. COL_MAX |-> IF j < COL_MAX THEN w[j + 1] ELSE blank]
    BY <2>5, <2>6
  <2> QED
    BY <2>7 DEF a, t
<1>4. ASSUME NEW j \in 1 .. COL_MAX - 1, NEW i \in 1 .. ROW_MAX
      PROVE  Scrolled(b)[CellAt(i - 1, j - 1)] = b[CellAt(i - 1, j)]
  <2>1. OnScreen(i - 1, j - 1) /\ i - 1 \in 0 .. ROW_MAX - 1
        /\ j - 1 \in Nat /\ COL_MAX - 1 \in Nat /\ j - 1 < COL_MAX - 1
    BY <1>1 DEF OnScreen
  <2>2. CellAt(i - 1, j - 1) \in Cells
    BY <2>1, CellOnPage
  <2>3. CellAt(i - 1, j - 1) < CellAt(0, COL_MAX - 1)
    <3>1. CellAt(i - 1, j - 1) < (COL_MAX - 1) * ROW_MAX
      BY <2>1, LinesApart
    <3>2. (COL_MAX - 1) * ROW_MAX \in Nat
      BY <1>1, <2>1
    <3> QED
      BY <3>1, <3>2 DEF CellAt
  <2>4. CellAt(i - 1, j - 1) + ROW_MAX = CellAt(i - 1, j)
    <3>1. (j - 1) * ROW_MAX + ROW_MAX = j * ROW_MAX
      BY <1>1, SMT
    <3>2. (j - 1) * ROW_MAX \in Nat /\ j * ROW_MAX \in Nat
      BY <1>1, <2>1
    <3> QED
      BY <1>1, <3>1, <3>2 DEF CellAt
  <2> QED
    BY <2>2, <2>3, <2>4 DEF Scrolled
<1>5. ASSUME NEW i \in 1 .. ROW_MAX
      PROVE  Scrolled(b)[CellAt(i - 1, COL_MAX - 1)] = Space
  <2>1. OnScreen(i - 1, COL_MAX - 1) /\ COL_MAX - 1 \in Nat
    BY <1>1 DEF OnScreen
  <2>2. /\ CellAt(i - 1, COL_MAX - 1) \in Cells
        /\ CellAt(i - 1, COL_MAX - 1) < COL_MAX * ROW_MAX
    BY <2>1, CellOnPage
  <2>3. /\ ~ (CellAt(i - 1, COL_MAX - 1) < CellAt(0, COL_MAX - 1))
        /\ CellAt(i - 1, COL_MAX - 1) < CellAt(0, COL_MAX)
    <3>1. (COL_MAX - 1) * ROW_MAX \in Nat /\ COL_MAX * ROW_MAX \in Nat
      BY <1>1, <2>1
    <3> QED
      BY <1>1, <2>2, <3>1 DEF CellAt
  <2> QED
    BY <2>2, <2>3 DEF Scrolled
<1>6. PageLines(Scrolled(b)) =
        [j \in 1 .. COL_MAX |-> IF j < COL_MAX THEN w[j + 1] ELSE blank]
  <2>1. ASSUME NEW j \in 1 .. COL_MAX
        PROVE  [i \in 1 .. ROW_MAX |-> Scrolled(b)[CellAt(i - 1, j - 1)]] =
                 IF j < COL_MAX THEN w[j + 1] ELSE blank
    <3>1. CASE j < COL_MAX
      <4>1. j \in 1 .. COL_MAX - 1 /\ j + 1 \in 1 .. COL_MAX
            /\ (j + 1) - 1 = j
        BY <1>1, <3>1
      <4>2. w[j + 1] = [i \in 1 .. ROW_MAX |-> b[CellAt(i - 1, j)]]
        BY <4>1 DEF PageLines
      <4> QED
        BY <1>4, <3>1, <4>1, <4>2
    <3>2. CASE ~(j < COL_MAX)
      <4>1. j = COL_MAX
        BY <1>1, <3>2
      <4> QED
        BY <1>5, <3>2, <4>1
    <3> QED
      BY <3>1, <3>2
  <2> HIDE DEF w, blank
  <2> QED
    BY <2>1 DEF PageLines
<1> QED
  BY <1>3, <1>6

-----------------------------------------------------------------------------
(* What a print does is an operation of the console *)

(* A reader sees the lines of the page and the cursor.                      *)
LEMMA Seen ==
  ASSUME NEW s, Shown = s, NEW t, Shown' = t
  PROVE  /\ LinesOf(Shown) = PageLines(s.buffer)
         /\ LinesOf(Shown)' = PageLines(t.buffer)
         /\ Shown.row = s.row /\ Shown.col = s.col
         /\ Shown'.row = t.row /\ Shown'.col = t.col
BY DEF LinesOf, PageLines

(* print_newline, on a page that may have just been put to.                 *)
LEMMA LineBelowShown ==
  ASSUME NEW s \in Screens, Shown = s,
         NEW b \in [Cells -> Text], NEW r,
         Shown' = NewlineOn([buffer |-> b, row |-> r, col |-> s.col])
  PROVE  Abstract!LineBelow(PageLines(b), s.col)
<1>1. ROW_MAX \in Nat /\ COL_MAX \in Nat /\ s.col \in Nat /\ s.col < COL_MAX
  BY TerminalAssumption DEF Screens
<1>2. CASE s.col + 1 = COL_MAX
  <2>1. Shown' = [buffer |-> Scrolled(b), row |-> 0, col |-> s.col]
    BY <1>2 DEF NewlineOn
  <2>2. /\ LinesOf(Shown)' = PageLines(Scrolled(b))
        /\ Shown'.row = 0 /\ Shown'.col = s.col
    BY <2>1, Seen
  <2>3. PageLines(Scrolled(b)) = Append(Tail(PageLines(b)), Abstract!BlankLine)
    BY ScrolledLines DEF Abstract!BlankLine
  <2> QED
    BY <1>1, <1>2, <2>2, <2>3 DEF Abstract!LineBelow
<1>3. CASE s.col + 1 # COL_MAX
  <2>1. Shown' = [buffer |-> b, row |-> 0, col |-> s.col + 1]
    BY <1>3 DEF NewlineOn
  <2>2. /\ LinesOf(Shown)' = PageLines(b)
        /\ Shown'.row = 0 /\ Shown'.col = s.col + 1
    BY <2>1, Seen
  <2> QED
    BY <1>1, <1>3, <2>2 DEF Abstract!LineBelow
<1> QED
  BY <1>2, <1>3

(* The reader's lines once n cells are put.                                 *)
LEMMA FilledShown ==
  ASSUME NEW s \in Screens, Shown = s, NEW n \in Nat, NEW c \in Text,
         s.row + n <= ROW_MAX
  PROVE  PageLines(Put(s, n, c)) = Abstract!Filled(n, c)
<1>1. LinesOf(Shown) = PageLines(s.buffer)
  BY DEF LinesOf, PageLines
<1>2. Abstract!Filled(n, c) =
        [LinesOf(Shown) EXCEPT ![Shown.col + 1] =
           [i \in 1 .. ROW_MAX |->
              IF Shown.row < i /\ i <= Shown.row + n THEN c ELSE @[i]]]
  BY DEF Abstract!Filled
<1>3. Abstract!Filled(n, c) =
        [PageLines(s.buffer) EXCEPT ![s.col + 1] =
           [i \in 1 .. ROW_MAX |->
              IF s.row < i /\ i <= s.row + n THEN c ELSE @[i]]]
  BY <1>1, <1>2
<1>4. PageLines(Put(s, n, c)) =
        [PageLines(s.buffer) EXCEPT ![s.col + 1] =
           [i \in 1 .. ROW_MAX |->
              IF s.row < i /\ i <= s.row + n THEN c ELSE @[i]]]
  BY PutLines
<1> QED
  BY <1>3, <1>4, Zenon

(* A character with a cell to spare behind it, and the blanks of a tab.     *)
LEMMA AdvanceShown ==
  ASSUME NEW s \in Screens, Shown = s, NEW n \in Nat, NEW c \in Text,
         s.row + n < ROW_MAX,
         Shown' = [buffer |-> Put(s, n, c), row |-> s.row + n, col |-> s.col]
  PROVE  Abstract!Advance(n, c)
<1>1. s.row \in Nat /\ ROW_MAX \in Nat
  BY TerminalAssumption DEF Screens
<1>2. /\ LinesOf(Shown)' = PageLines(Put(s, n, c))
      /\ Shown'.row = s.row + n /\ Shown'.col = s.col
  BY Seen
<1>3. LinesOf(Shown)' = Abstract!Filled(n, c)
  BY <1>1, <1>2, FilledShown
<1> QED
  BY <1>2, <1>3 DEF Abstract!Advance

(* The character that ends its line.                                        *)
LEMMA WrapShown ==
  ASSUME NEW s \in Screens, Shown = s, NEW c \in Text, NEW r,
         s.row + 1 = ROW_MAX,
         Shown' = NewlineOn([buffer |-> Put(s, 1, c), row |-> r,
                             col |-> s.col])
  PROVE  Abstract!Put(c)
<1>1. s.row \in Nat /\ ROW_MAX \in Nat
  BY TerminalAssumption DEF Screens
<1>2. Put(s, 1, c) \in [Cells -> Text]
  BY DEF Put, WithCells, Screens
<1>3. Abstract!LineBelow(Abstract!Filled(1, c), s.col)
  BY <1>1, <1>2, LineBelowShown, FilledShown
<1> QED
  BY <1>1, <1>3 DEF Abstract!Put, Abstract!Advance

(* A new line alone.                                                        *)
LEMMA NewlineShown ==
  ASSUME NEW s \in Screens, Shown = s, NEW r,
         Shown' = NewlineOn([buffer |-> s.buffer, row |-> r, col |-> s.col])
  PROVE  Abstract!NewLine
<1>1. s.buffer \in [Cells -> Text]
  BY DEF Screens
<1>2. Abstract!LineBelow(PageLines(s.buffer), s.col)
  BY <1>1, LineBelowShown
<1>3. LinesOf(Shown) = PageLines(s.buffer)
  BY DEF LinesOf, PageLines
<1> QED
  BY <1>2, <1>3 DEF Abstract!NewLine

(* A screen is not the mark of a missing one.                               *)
LEMMA ScreensAreScreens ==
  ASSUME NEW s \in Screens
  PROVE  s # NoScreen
<1>1. DOMAIN s = {"buffer", "row", "col"}
  BY DEF Screens
<1>2. DOMAIN NoScreen = {}
  BY DEF NoScreen
<1> QED
  BY <1>1, <1>2

(* An untorn screen is a proper one between prints.                         *)
LEMMA ScreenBetweenPrints ==
  ASSUME CursorInvariant, Untorn, tears = 0, pc = "idle"
  PROVE  Screen \in Screens /\ Shown = Screen
BY DEF CursorInvariant, CursorInBounds, Untorn, Types, OnScreen, Screen,
       Screens, Shown, Windows

(* A handler's print between prints.                                        *)
LEMMA ConsoleHandlerPrints ==
  ASSUME CursorInvariant, Untorn, tears = 0, pc = "idle",
         NEW c \in HandlerChars \cup {Newline}, HandlerPrints(c)
  PROVE  Abstract!Next
<1>1. Screen \in Screens /\ Shown = Screen
  BY ScreenBetweenPrints
<1>2. Shown' = [buffer |-> buffer', row |-> row', col |-> col']
  BY DEF HandlerPrints, Shown, Screen
<1>3. /\ Screen = [buffer |-> buffer, row |-> row, col |-> col]
      /\ row \in 0 .. ROW_MAX - 1 /\ col \in 0 .. COL_MAX - 1
      /\ buffer \in [Cells -> Text]
  BY <1>1 DEF Screen, Screens
<1>4. CellAt(row, col) \in Cells
  BY <1>3, CellOnPage DEF OnScreen
<1>5. CASE c = Newline
  <2>1. /\ buffer' = NewlineOn(Screen).buffer
        /\ row' = NewlineOn(Screen).row /\ col' = NewlineOn(Screen).col
    BY <1>5 DEF HandlerPrints
  <2>2. Shown' = NewlineOn(Screen)
    BY <1>2, <1>3, <2>1 DEF NewlineOn
  <2>3. Screen = [buffer |-> Screen.buffer, row |-> row, col |-> Screen.col]
    BY <1>3
  <2>4. Abstract!NewLine
    BY <1>1, <2>2, <2>3, NewlineShown
  <2> QED
    BY <2>4 DEF Abstract!Next
<1>6. CASE c # Newline
  <2>1. c \in Text
    BY <1>6 DEF Text
  <2>2. /\ buffer' = CharOn(Screen, c).buffer
        /\ row' = CharOn(Screen, c).row /\ col' = CharOn(Screen, c).col
    BY <1>4, <1>6 DEF HandlerPrints
  <2>3. Put(Screen, 1, c) = [buffer EXCEPT ![CellAt(row, col)] = c]
    <3>1. Put(Screen, 0 + 1, c) =
            [Put(Screen, 0, c)
               EXCEPT ![CellAt(Screen.row + 0, Screen.col)] = c]
      <4>1. CellAt(Screen.row + 0, Screen.col) \in Cells
        BY <1>3, <1>4
      <4>2. 0 \in Nat
        OBVIOUS
      <4> QED
        BY <1>1, <2>1, <4>1, <4>2, CellsPut, Zenon
    <3>2. Put(Screen, 0, c) = buffer
      BY <1>1, <1>3, <2>1, CellsPut
    <3>3. Put(Screen, 1, c) =
            [buffer EXCEPT ![CellAt(Screen.row + 0, Screen.col)] = c]
      BY <3>1, <3>2
    <3>4. Screen.row + 0 = row /\ Screen.col = col
      BY <1>3
    <3> QED
      BY <3>3, <3>4
  <2> DEFINE put ==
        [buffer |-> Put(Screen, 1, c), row |-> row + 1, col |-> col]
  <2>4. CharOn(Screen, c) = IF row + 1 = ROW_MAX THEN NewlineOn(put) ELSE put
    <3>1. /\ Screen \in [buffer : [Cells -> Text], row : Nat, col : Nat]
          /\ Screen.buffer = buffer /\ Screen.row = row /\ Screen.col = col
      BY <1>3
    <3>2. put = [buffer |-> [Screen.buffer EXCEPT
                               ![CellAt(Screen.row, Screen.col)] = c],
                 row |-> Screen.row + 1, col |-> Screen.col]
      BY <2>3, <3>1
    <3> QED
      BY <3>1, <3>2, CharPut
  <2>5. CASE row + 1 = ROW_MAX
    <3>1. Shown' = NewlineOn(put)
      BY <1>2, <2>2, <2>4, <2>5 DEF NewlineOn
    <3>2. Abstract!Put(c)
      BY <1>1, <1>3, <2>1, <2>5, <3>1, WrapShown
    <3> QED
      BY <2>1, <3>2 DEF Abstract!Next
  <2>6. CASE row + 1 # ROW_MAX
    <3>1. Shown' = put
      BY <1>2, <2>2, <2>4, <2>6
    <3>2. Abstract!Advance(1, c)
      BY <1>1, <1>3, <2>1, <2>6, <3>1, AdvanceShown, TerminalAssumption
    <3> QED
      BY <2>1, <3>2 DEF Abstract!Next, Abstract!Put
  <2> QED
    BY <2>5, <2>6
<1> QED
  BY <1>5, <1>6

(* The end of an untorn print of kernel_main.                               *)
LEMMA ConsoleReturn ==
  ASSUME CursorInvariant, Untorn, tears = 0, Return, pc' = "idle"
  PROVE  Abstract!Next
<1>1. /\ pc = "return" /\ spaces = 0 /\ before' = NoScreen
      /\ UNCHANGED <<buffer, row, col>>
  BY DEF Return, cursor
<1>2. before \in Screens /\ \E n \in Nat, c \in Text : Stage(n, c)
  BY <1>1 DEF Untorn, InPrint
<1>3. PICK n \in Nat, c \in Text : Stage(n, c)
  BY <1>2
<1>4. /\ Shown = before
      /\ Shown' = [buffer |-> buffer, row |-> row, col |-> col]
  BY <1>1, <1>2, ScreensAreScreens DEF Shown, Screen
<1>5. /\ before.buffer \in [Cells -> Text]
      /\ before.row \in 0 .. ROW_MAX - 1 /\ before.col \in 0 .. COL_MAX - 1
      /\ row \in 0 .. ROW_MAX - 1 /\ col \in 0 .. COL_MAX - 1
  BY <1>1, <1>2
     DEF Screens, CursorInvariant, CursorInBounds, OnScreen, Untorn, Windows
<1>6. ROW_MAX \in Nat /\ COL_MAX \in Nat /\ Space \in Text
  BY TerminalAssumption DEF Text
<1>7. CASE /\ buffer = Put(before, n, c)
           /\ CursorAt(before.row + n, before.col)
           /\ PutsInAll(before, n + spaces, c)
  <2>1. PutsInAll(before, n, c) /\ before.row + n < ROW_MAX
    BY <1>1, <1>5, <1>6, <1>7 DEF CursorAt
  <2>2. Abstract!Advance(n, c)
    BY <1>2, <1>4, <1>7, <2>1, AdvanceShown DEF CursorAt
  <2>3. CASE n = 1 /\ c \in MainChars
    BY <2>2, <2>3 DEF Abstract!Next, Abstract!Put
  <2>4. CASE c = Space /\ n = SpacesNeeded(before.row)
    <3>1. Shown.row = before.row /\ Shown.col = before.col
      BY <1>4
    <3>2. Abstract!Tab
      BY <2>1, <2>2, <2>4, <3>1 DEF Abstract!Tab, SpacesNeeded
    <3> QED
      BY <3>2 DEF Abstract!Next
  <2> QED
    BY <2>1, <2>3, <2>4 DEF PutsInAll
<1>8. ASSUME EndsLine(before, n, c),
             [buffer |-> buffer, row |-> row, col |-> col]
               = NewlineOn([buffer |-> Put(before, n, c), row |-> 0,
                            col |-> before.col])
      PROVE  Abstract!Next
  <2>1. CASE n = 0
    <3>1. Put(before, n, c) = before.buffer
      BY <1>2, <2>1, CellsPut
    <3>2. Abstract!NewLine
      BY <1>2, <1>4, <1>8, <3>1, NewlineShown
    <3> QED
      BY <3>2 DEF Abstract!Next
  <2>2. CASE n = 1 /\ before.row + 1 = ROW_MAX
    <3>1. Abstract!Put(c)
      BY <1>2, <1>4, <1>8, <2>2, WrapShown
    <3> QED
      BY <3>1 DEF Abstract!Next
  <2> QED
    BY <1>8, <2>1, <2>2 DEF EndsLine
<1>9. CASE /\ EndsLine(before, n, c)
           /\ buffer = Put(before, n, c)
           /\ CursorAt(0, before.col + 1)
  <2>1. [buffer |-> buffer, row |-> row, col |-> col]
          = NewlineOn([buffer |-> Put(before, n, c), row |-> 0,
                       col |-> before.col])
    <3>1. before.col + 1 # COL_MAX /\ row = 0 /\ col = before.col + 1
      BY <1>5, <1>6, <1>9 DEF CursorAt
    <3>2. NewlineOn([buffer |-> Put(before, n, c), row |-> 0,
                     col |-> before.col])
            = [buffer |-> Put(before, n, c), row |-> 0, col |-> before.col + 1]
      BY <3>1 DEF NewlineOn
    <3> QED
      BY <1>9, <3>1, <3>2
  <2> QED
    BY <1>8, <1>9, <2>1
<1>10. CASE /\ EndsLine(before, n, c)
            /\ buffer = Scrolled(Put(before, n, c))
            /\ CursorAt(0, before.col)
            /\ before.col + 1 = COL_MAX
  <2>1. [buffer |-> buffer, row |-> row, col |-> col]
          = NewlineOn([buffer |-> Put(before, n, c), row |-> 0,
                       col |-> before.col])
    BY <1>10 DEF NewlineOn, CursorAt
  <2> QED
    BY <1>8, <1>10, <2>1
<1> QED
  BY <1>1, <1>3, <1>7, <1>9, <1>10 DEF Stage

(* Every step is one of the console's or changes nothing a reader sees, up  *)
(* to the first print that is torn.                                         *)
LEMMA ConsoleStep ==
  ASSUME CursorInvariant, Untorn, [Next]_vars
  PROVE  [torn' \/ Abstract!Next]_(Abstract!vars)
<1> SUFFICES ASSUME ~ torn'
             PROVE  Abstract!Next \/ Shown' = Shown
  <2>1. Shown' = Shown => UNCHANGED Abstract!vars
    BY DEF Abstract!vars, LinesOf
  <2> QED
    BY <2>1
<1>1. CASE UNCHANGED vars
  BY <1>1 DEF vars, cursor, locals, history, Shown, Screen
<1>2. CASE \E c \in HandlerChars \cup {Newline} : HandlerPrints(c)
  <2>1. PICK c \in HandlerChars \cup {Newline} : HandlerPrints(c)
    BY <1>2
  <2>2. tears = 0 /\ pc = "idle"
    BY <2>1 DEF HandlerPrints, CursorInvariant, Types, torn
  <2> QED
    BY <2>1, <2>2, ConsoleHandlerPrints
<1>3. CASE (\E c \in MainChars : PrintChar(c)) \/ PrintNewline \/ PrintTab
  <2>1. /\ tears' = tears /\ pc = "idle" /\ UNCHANGED <<buffer, row, col>>
        /\ before' = IF torn THEN NoScreen ELSE Screen
    BY <1>3 DEF PrintChar, PrintNewline, PrintTab, Begin, At, cursor
  <2>2. tears = 0
    BY <2>1 DEF torn, CursorInvariant, Types
  <2>3. Screen \in Screens /\ Shown = Screen /\ before' = Screen
    BY <2>1, <2>2, ScreenBetweenPrints DEF torn
  <2>4. Shown' = Screen
    BY <2>3, ScreensAreScreens DEF Shown
  <2> QED
    BY <2>3, <2>4
<1>4. CASE print_tab \/ terminal_put_char \/ Newlines \/ Return
  <2>1. /\ tears' = tears /\ pc # "idle"
        /\ ~ Return => before' = before
        /\ pc' # "idle" => before' = before
        /\ pc' = "idle" => Return
    BY <1>4
       DEF print_tab, terminal_put_char, Newlines, Return, ReadLine, ReadRow,
           terminal_put_char_at, StoreOffPage, LoadRow, StoreRow, TestRow,
           ResetRow, print_newline, LoadCol, StoreCol, TestCol,
           scroll_terminal, LoadColAgain, StoreColBack, At, history
  <2>2. tears = 0
    BY <2>1 DEF torn, CursorInvariant, Types
  <2>3. CASE pc' = "idle"
    BY <2>1, <2>2, <2>3, ConsoleReturn
  <2>4. CASE pc' # "idle"
    <3>1. before \in Screens /\ before' = before
      BY <2>1, <2>2, <2>4 DEF Untorn, InPrint
    <3> QED
      BY <3>1, ScreensAreScreens DEF Shown
  <2> QED
    BY <2>3, <2>4
<1>5. CASE Off
  BY <1>1, <1>5 DEF Off
<1> QED
  BY <1>1, <1>2, <1>3, <1>4, <1>5 DEF Next

(* The driver implements the console: for any screen, each print of         *)
(* kernel_main and of a handler is one operation of the console, until a    *)
(* handler prints in the middle of one.                                     *)
THEOREM Refinement == Spec => ImplementsConsole
<1>1. Init => Abstract!Init
  <2> SUFFICES ASSUME Init PROVE Abstract!Init
    OBVIOUS
  <2>1. Shown = [buffer |-> buffer, row |-> 0, col |-> 0]
    BY DEF Init, Shown, Screen
  <2>2. LinesOf(Shown) = [j \in 1 .. COL_MAX |-> Abstract!BlankLine]
    <3>1. \A j \in 1 .. COL_MAX, i \in 1 .. ROW_MAX :
            buffer[CellAt(i - 1, j - 1)] = Space
      <4>1. TAKE j \in 1 .. COL_MAX, i \in 1 .. ROW_MAX
      <4>2. OnScreen(i - 1, j - 1)
        BY TerminalAssumption DEF OnScreen
      <4> QED
        BY <4>2, CellOnPage DEF Init
    <3>2. Shown.buffer = buffer
      BY <2>1
    <3> QED
      BY <3>1, <3>2 DEF LinesOf, Abstract!BlankLine
  <2> QED
    BY <2>1, <2>2 DEF Abstract!Init
<1>2. CursorInvariant /\ Untorn /\ [Next]_vars
        => [torn' \/ Abstract!Next]_(Abstract!vars)
  BY ConsoleStep
<1> QED
  BY PrintsCorrect, <1>1, <1>2, PTL DEF Spec, ImplementsConsole
=============================================================================
