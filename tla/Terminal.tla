----------------------------- MODULE Terminal ------------------------------
(***************************************************************************)
(* The screen driver, terminal.c, shared by kernel_main and the handlers   *)
(* of timer and keyboard, which interrupt it and print themselves.         *)
(*                                                                         *)
(* The driver keeps a cursor in memory and takes no lock.  The makefile    *)
(* builds without optimisation, so every read and every write of the       *)
(* cursor is an access of its own and ++ is two; kernel_main takes one     *)
(* step per access.  A handler runs with interrupts off, so its print is a *)
(* single step here, between any two of kernel_main's.                     *)
(*                                                                         *)
(* The source calls the horizontal position "row" and the line "col".      *)
(***************************************************************************)
EXTENDS Integers, Sequences

CONSTANTS
  ROW_MAX,         \* cells of a line
  COL_MAX,         \* lines
  PageCells,       \* cells of the one page mapped at 0xb8000
  tab_space_num,
  MainChars,       \* what kernel_main prints besides newlines and tabs
  HandlerChars,    \* what the handlers print besides newlines
  MaxLine,         \* bound on a line number that has left the screen
  MaxTears         \* bound on handlers' prints in the middle of another

ASSUME TerminalAssumption ==
  /\ {ROW_MAX, COL_MAX, PageCells, tab_space_num} \subseteq Nat \ {0}
  /\ ROW_MAX * COL_MAX <= PageCells
  /\ {MaxLine, MaxTears} \subseteq Nat

VARIABLES
  buffer,    \* the page's cells
  row, col,  \* terminal.row and terminal.col
  pc,        \* the next access of kernel_main's print, "idle" between prints
  char,      \* the character being put
  x, y,      \* arguments of terminal_put_char_at
  counter,   \* a cursor field between its read and its write
  spaces,    \* blanks of a tab still to put
  before,    \* history: the screen when the print in progress began
  tears,     \* history: prints by handlers in the middle of a print
  escaped    \* history: one did so in one of the windows below

cursor == <<row, col>>
locals == <<char, x, y, counter, spaces>>
history == <<before, tears, escaped>>

vars == <<buffer, cursor, pc, locals, history>>

-----------------------------------------------------------------------------

Newline == "newline"
TabChar == "tab"
Space == " "

Cells == 0 .. PageCells - 1

CellAt(i, j) == i + j * ROW_MAX

Screen == [buffer |-> buffer, row |-> row, col |-> col]

NoScreen == << >>
torn == tears > 0

\* init_terminal, with the screen cleared.
Init ==
  /\ buffer = [i \in Cells |-> Space]
  /\ row = 0 /\ col = 0
  /\ pc = "idle"
  /\ char = Space /\ x = 0 /\ y = 0 /\ counter = 0 /\ spaces = 0
  /\ before = NoScreen
  /\ tears = 0 /\ escaped = FALSE

\* Mutant: the last line is not emptied.
Scrolled_KeepsLast(b) ==
  [i \in Cells |->
     IF i < CellAt(0, COL_MAX - 1) THEN b[i + ROW_MAX] ELSE b[i]]

\* scroll_terminal: every line moves up, the last one is emptied.
Scrolled(b) ==
  [i \in Cells |->
     IF i < CellAt(0, COL_MAX - 1) THEN b[i + ROW_MAX]
     ELSE IF i < CellAt(0, COL_MAX) THEN Space
     ELSE b[i]]

-----------------------------------------------------------------------------
(* A print by a handler, on a screen s *)

\* print_newline
NewlineOn(s) ==
  IF s.col + 1 = COL_MAX
  THEN [buffer |-> Scrolled(s.buffer), row |-> 0, col |-> s.col]
  ELSE [s EXCEPT !.row = 0, !.col = @ + 1]

\* terminal_put_char, where the cell is on the page.
CharOn(s, c) ==
  LET put == [s EXCEPT !.buffer[CellAt(s.row, s.col)] = c, !.row = @ + 1]
  IN  IF put.row = ROW_MAX THEN NewlineOn(put) ELSE put

\* Where a handler's print finds the cursor off the screen, or passes a bound
\* kernel_main has yet to compare it with: from the write of an incremented
\* field until it is compared and, at the bound, taken back.
Windows ==
  {"row_test", "row_reset", "col_test", "scroll", "dec_load", "dec_store"}

\* terminal_print_char called by keyboard_interrupt, or by terminal_printf
\* for timer_print.
HandlerPrints(c) ==
  /\ pc # "off"
  /\ col <= MaxLine
  /\ \/ pc = "idle" /\ UNCHANGED tears
     \/ pc # "idle" /\ tears < MaxTears /\ tears' = tears + 1
  /\ before' = NoScreen
  /\ escaped' = (escaped \/ pc \in Windows)
  /\ \/ /\ c = Newline \/ CellAt(row, col) \in Cells
        /\ LET s == IF c = Newline THEN NewlineOn(Screen) ELSE CharOn(Screen, c)
           IN  buffer' = s.buffer /\ row' = s.row /\ col' = s.col
        /\ UNCHANGED pc
     \/ /\ c # Newline /\ CellAt(row, col) \notin Cells
        /\ pc' = "off"
        /\ UNCHANGED <<buffer, cursor>>
  /\ UNCHANGED locals

-----------------------------------------------------------------------------
(* A print by kernel_main, one access per step *)

At(from, to) == pc = from /\ pc' = to

Begin(to) ==
  /\ At("idle", to)
  /\ before' = IF torn THEN NoScreen ELSE Screen
  /\ UNCHANGED <<buffer, cursor, x, y, counter, spaces, tears, escaped>>

PrintChar(c) == Begin("put") /\ char' = c

PrintNewline == col <= MaxLine /\ Begin("newline") /\ UNCHANGED char

PrintTab == col <= MaxLine /\ Begin("tab") /\ UNCHANGED char

SpacesNeeded(r) == tab_space_num - (r % tab_space_num)

\* print_tab: blanks to the next tab stop, or a new line.
print_tab ==
  /\ pc = "tab"
  /\ \/ /\ SpacesNeeded(row) + row >= ROW_MAX
        /\ pc' = "newline"
        /\ UNCHANGED <<char, spaces>>
     \/ /\ SpacesNeeded(row) + row < ROW_MAX
        /\ pc' = "put"
        /\ char' = Space
        /\ spaces' = SpacesNeeded(row) - 1
  /\ UNCHANGED <<buffer, cursor, x, y, counter, history>>

\* terminal_put_char: the arguments of terminal_put_char_at are read in the
\* compiler's order, the line first,
ReadLine ==
  /\ At("put", "put_row")
  /\ y' = col
  /\ UNCHANGED <<buffer, cursor, char, x, counter, spaces, history>>

ReadRow ==
  /\ At("put_row", "put_store")
  /\ x' = row
  /\ UNCHANGED <<buffer, cursor, char, y, counter, spaces, history>>

\* and the cell is written.
terminal_put_char_at ==
  /\ At("put_store", "row_load")
  /\ CellAt(x, y) \in Cells
  /\ buffer' = [buffer EXCEPT ![CellAt(x, y)] = char]
  /\ x' = 0 /\ y' = 0
  /\ UNCHANGED <<cursor, char, counter, spaces, history>>

\* Off the page there is a page fault once remap_kernel has run, and other
\* memory before; the model ends.
StoreOffPage ==
  /\ At("put_store", "off")
  /\ CellAt(x, y) \notin Cells
  /\ UNCHANGED <<buffer, cursor, locals, history>>

LoadRow ==
  /\ At("row_load", "row_store")
  /\ counter' = row
  /\ UNCHANGED <<buffer, cursor, char, x, y, spaces, history>>

StoreRow ==
  /\ At("row_store", "row_test")
  /\ row' = counter + 1
  /\ UNCHANGED <<buffer, col, locals, history>>

\* Mutant: the margin is one cell further right.
AtMargin_Late(r) == r > ROW_MAX

AtMargin(r) == r = ROW_MAX

TestRow ==
  /\ pc = "row_test"
  /\ pc' = IF AtMargin(row) THEN "row_reset" ELSE "return"
  /\ UNCHANGED <<buffer, cursor, locals, history>>

ResetRow ==
  /\ At("row_reset", "newline")
  /\ row' = 0
  /\ UNCHANGED <<buffer, col, locals, history>>

\* print_newline
print_newline ==
  /\ At("newline", "col_load")
  /\ row' = 0
  /\ UNCHANGED <<buffer, col, locals, history>>

LoadCol ==
  /\ At("col_load", "col_store")
  /\ counter' = col
  /\ UNCHANGED <<buffer, cursor, char, x, y, spaces, history>>

StoreCol ==
  /\ At("col_store", "col_test")
  /\ col' = counter + 1
  /\ UNCHANGED <<buffer, row, locals, history>>

TestCol ==
  /\ pc = "col_test"
  /\ pc' = IF col = COL_MAX THEN "scroll" ELSE "return"
  /\ UNCHANGED <<buffer, cursor, locals, history>>

\* While it runs the line is COL_MAX, or more, so that no handler touches a
\* cell it copies: a single step.
scroll_terminal ==
  /\ At("scroll", "dec_load")
  /\ buffer' = Scrolled(buffer)
  /\ UNCHANGED <<cursor, locals, history>>

LoadColAgain ==
  /\ At("dec_load", "dec_store")
  /\ counter' = col
  /\ UNCHANGED <<buffer, cursor, char, x, y, spaces, history>>

StoreColBack ==
  /\ At("dec_store", "return")
  /\ col' = counter - 1
  /\ UNCHANGED <<buffer, row, locals, history>>

\* The next blank of a tab, or the end of the print.
Return ==
  /\ pc = "return"
  /\ counter' = 0
  /\ \/ /\ spaces > 0
        /\ spaces' = spaces - 1
        /\ pc' = "put"
        /\ UNCHANGED <<char, before>>
     \/ /\ spaces = 0
        /\ pc' = "idle"
        /\ char' = Space
        /\ before' = NoScreen
        /\ UNCHANGED spaces
  /\ UNCHANGED <<buffer, cursor, x, y, tears, escaped>>

Off == pc = "off" /\ UNCHANGED vars

terminal_put_char ==
  \/ ReadLine \/ ReadRow \/ terminal_put_char_at \/ StoreOffPage
  \/ LoadRow \/ StoreRow \/ TestRow \/ ResetRow

Newlines ==
  \/ print_newline \/ LoadCol \/ StoreCol \/ TestCol
  \/ scroll_terminal \/ LoadColAgain \/ StoreColBack

Next ==
  \/ \E c \in MainChars : PrintChar(c)
  \/ PrintNewline
  \/ PrintTab
  \/ print_tab
  \/ terminal_put_char
  \/ Newlines
  \/ Return
  \/ \E c \in HandlerChars \cup {Newline} : HandlerPrints(c)
  \/ Off

Spec == Init /\ [][Next]_vars

-----------------------------------------------------------------------------
(* Properties *)

Text == MainChars \cup HandlerChars \cup {Space}

(* The cursor is on the screen between prints, and no print misses the      *)
(* screen's page, unless a handler printed in one of the windows: anywhere  *)
(* else an interrupt can garble cells but not carry the cursor off.  No     *)
(* decrement takes the line below zero, whatever handlers do in between,    *)
(* and a tab's blanks never outnumber the tab's width.                      *)
CursorOnScreen ==
  /\ {row, col} \subseteq Nat
  /\ spaces \in 0 .. tab_space_num - 1
  /\ ~escaped =>
       /\ pc # "off"
       /\ pc = "idle" => row < ROW_MAX /\ col < COL_MAX

LinesOf(s) ==
  [j \in 1 .. COL_MAX |->
     [i \in 1 .. ROW_MAX |-> s.buffer[CellAt(i - 1, j - 1)]]]

\* What a reader of the screen is to see: during a print, what was there
\* before it.
Shown == IF before = NoScreen THEN Screen ELSE before

Abstract == INSTANCE Console WITH
  Width <- ROW_MAX, Height <- COL_MAX, TabStop <- tab_space_num,
  Chars <- Text, Blank <- Space,
  window <- LinesOf(Shown), cursor <- [x |-> Shown.row, y |-> Shown.col]

(* Each print of kernel_main or of a handler does to the screen what one    *)
(* operation of the console does, wrapping and scrolling included, up to    *)
(* the first print by a handler in the middle of one by kernel_main.        *)
ImplementsConsole ==
  Abstract!Init /\ [][torn' \/ Abstract!Next]_(Abstract!vars)
=============================================================================
