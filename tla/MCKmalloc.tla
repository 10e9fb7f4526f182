----------------------------- MODULE MCKmalloc -----------------------------
(***************************************************************************)
(* A heap of a few words.  Room for four small blocks, or for a large one  *)
(* that is freed, split and reused; requests that fit a freed block        *)
(* exactly, with slack, and with enough to spare to split it; and a zero   *)
(* one.                                                                    *)
(***************************************************************************)
EXTENDS Kmalloc

MCRequests == {0, 1, 5}

MCValues == {7}
=============================================================================
