--------------------------- MODULE MCInterrupts ----------------------------
(***************************************************************************)
(* A machine whose firmware left the keyboard masked or not, and a disk on *)
(* the slave controller, masked itself, by the cascade or not at all; a    *)
(* letter, a shift key and an arrow key.                                   *)
(***************************************************************************)
EXTENDS Interrupts

DiskLine == 14

MCOtherLines == {DiskLine}

MCFirmwareMasks == {{DiskLine}, {KeyboardLine}, {KeyboardLine, CascadeLine}}

\* Exceptions main may raise: a division by zero, a page fault.
MCFaults == {0, 14}
=============================================================================
