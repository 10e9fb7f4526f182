---------------------------- MODULE HeapService ----------------------------
(***************************************************************************)
(* What the clients of the kernel heap rely on, with no free list and no   *)
(* headers: blocks of memory that do not overlap, each holding what its    *)
(* owner stored there last.  A step touches one block and leaves the words *)
(* of every other block alone.                                             *)
(***************************************************************************)
EXTENDS Integers

VARIABLE blocks   \* address |-> [size, words] of each block in use

Used == DOMAIN blocks

\* The blocks in A are the same after the step.
Kept(A) == \A b \in A : blocks'[b] = blocks[b]

\* The new block at a shares no word with the blocks in A.
ClearOf(a, A) ==
  \A b \in A : \/ a + blocks'[a].size <= b
               \/ b + blocks[b].size <= a

Init == blocks = << >>

\* kmalloc: a block that overlaps none, holding anything.
Allocate ==
  \E a \in Used' \ Used :
    /\ Used' = Used \cup {a}
    /\ ClearOf(a, Used)
    /\ Kept(Used)

\* krealloc: the block changes its size where it is, or moves; as many of
\* its words are kept as fit both sizes.
Reallocate ==
  \E a \in Used, b \in Used' :
    /\ Used' = (Used \ {a}) \cup {b}
    /\ ClearOf(b, Used \ {a})
    /\ Kept(Used \ {a})
    /\ \A i \in (DOMAIN blocks[a].words) \cap (DOMAIN blocks'[b].words) :
         blocks'[b].words[i] = blocks[a].words[i]

\* kfree.
Release ==
  \E a \in Used :
    /\ Used' = Used \ {a}
    /\ Kept(Used \ {a})

\* The owner of a block stores into it.
Store ==
  \E a \in Used :
    /\ Used' = Used
    /\ blocks'[a].size = blocks[a].size
    /\ Kept(Used \ {a})

Next == Allocate \/ Reallocate \/ Release \/ Store

Spec == Init /\ [][Next]_blocks
=============================================================================
