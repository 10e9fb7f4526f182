---------------------------- MODULE FrameSource ----------------------------
(***************************************************************************)
(* What a client of the physical frame allocator relies on, with none of   *)
(* the allocator's own state: a pool of frames from which each call to     *)
(* allocate_frame takes one that was never given before, and which refuses *)
(* only when the pool is empty.  Nothing ever returns to the pool:         *)
(* deallocate_frame has an empty body.                                     *)
(***************************************************************************)
EXTENDS Integers

VARIABLES
  pool,     \* the frames that can still be given
  ret,      \* return code of the latest call
  frame     \* frame number the latest call stored in its result

vars == <<pool, ret, frame>>

Init ==
  /\ pool \in SUBSET Nat
  /\ ret = 0
  /\ frame = 0

\* A successful call moves one frame from the pool to the caller.
Give ==
  /\ \E f \in pool : pool' = pool \ {f} /\ frame' = f
  /\ ret' = 0

\* A call fails only when nothing is left, and leaves frame number 0 behind.
Refuse ==
  /\ pool = {}
  /\ frame' = 0
  /\ ret' = -1
  /\ UNCHANGED pool

\* A call that has begun has already reset the caller's frame number.
Begin ==
  /\ frame' = 0
  /\ UNCHANGED <<pool, ret>>

Next == Give \/ Refuse \/ Begin

Spec == Init /\ [][Next]_vars
=============================================================================
