------------------------- MODULE MCFrameAllocator --------------------------
(***************************************************************************)
(* Small machines for the frame allocator: 4-byte frames, memory below     *)
(* address 40.  The memory maps have what firmware's maps have: areas out  *)
(* of order, a hole, an area smaller than a frame, ends inside a frame,    *)
(* a reserved area; and the degenerate ones, no area and no large area.    *)
(***************************************************************************)
EXTENDS FrameAllocator, Sequences

Usable == 1    \* multiboot_ram_available
InUse  == 2    \* multiboot_ram_reserved

Entry(a, n, t) == [base_addr |-> a, length |-> n, type |-> t]

\* In order: low memory with a ragged end, a sliver, a hole, high memory.
Holed == <<Entry(0, 10, Usable), Entry(10, 2, InUse), Entry(20, 16, Usable)>>

\* Out of order, back to back, the boundary inside a frame.
BackToBack == <<Entry(18, 14, Usable), Entry(0, 18, Usable)>>

\* Starting above zero, a reserved area between two usable ones.
Shifted == <<Entry(24, 8, Usable), Entry(5, 9, Usable), Entry(16, 5, InUse)>>

\* A single area too small for a frame.
Tiny == <<Entry(0, 3, Usable)>>

MCMaps == {Holed, BackToBack, Shifted, Tiny, <<>>}

Header(a, n) == [sh_addr |-> a, sh_size |-> n]

\* The null section, then the image: ending on a frame boundary, inside a
\* frame, or with an empty section last.
MCImages ==
  {<<Header(0, 0), Header(4, 4), Header(8, 4)>>,
   <<Header(0, 0), Header(12, 3), Header(8, 2)>>,
   <<Header(0, 0), Header(24, 5), Header(32, 0)>>}

ZeroBased(s) == [i \in 0 .. Len(s) - 1 |-> s[i + 1]]

MCBootInfo ==
  {[num_entries |-> Len(m), memory_maps |-> ZeroBased(m),
    num |-> Len(k), sectionheaders |-> ZeroBased(k),
    start |-> a, total_size |-> n] :
     m \in MCMaps, k \in MCImages, a \in {13, 16, 20}, n \in {3, 4, 6}}

\* A machine whose low memory begins at 0 and ends below a hole, as a PC's.
PCBootInfo == {d \in MCBootInfo : d.memory_maps = ZeroBased(Holed)}
=============================================================================
