----------------------------- MODULE MCPrintf ------------------------------
(***************************************************************************)
(* Words of four digits, ints of two, shorts of one.  Formats: a directive *)
(* of every possible beginning up to three characters, with text and a     *)
(* second directive behind it.                                             *)
(***************************************************************************)
EXTENDS Printf

Alphabet == {"#", "0", "2", "1", "*", ".", "h", "l", "L", "x", "c", "s", "p", "d", "f", "%", "\\"}

Formats ==
  {<<"%">> \o w \o <<"x", "!", "%", "z", "x">> : w \in SeqOf(Alphabet, 3)}

\* Words with the top bit of a short, an int and a word, small and zero; the
\* first is also a width: 2, 5 and -1.
MCArgs == {<<2, 9, 40961>>, <<5, 171, 0>>, <<255, 0, 65535>>}

MCCalls == [fmt : Formats, args : MCArgs]
=============================================================================
