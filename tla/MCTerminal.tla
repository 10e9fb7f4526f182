----------------------------- MODULE MCTerminal ----------------------------
(***************************************************************************)
(* A screen of two lines of three cells with one cell of its page to spare *)
(* (2000 of 2048 cells on a PC).                                           *)
(***************************************************************************)
EXTENDS Terminal

MCMainChars == {"a"}
MCHandlerChars == {"T"}
=============================================================================
