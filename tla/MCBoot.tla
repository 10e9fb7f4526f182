------------------------------- MODULE MCBoot ------------------------------
(***************************************************************************)
(* Machines of up to 64 frames of 4 bytes, tables of eight entries, all of *)
(* the memory mapped by boot.s.  Small ones have one area of memory that   *)
(* ends anywhere from the multiboot structure on; the large one has a      *)
(* PC's two areas with the screen in the hole, the kernel in the upper one *)
(* and the lower one large enough for the boot.                            *)
(***************************************************************************)
EXTENDS Boot

P == INSTANCE PageTables

Header(a, n, flags) == [sh_addr |-> a, sh_size |-> n, sh_flags |-> flags]
Area(a, n) == [base_addr |-> a, length |-> n, type |-> 1]

\* .rodata, .text and .bss from page k on, one of them ending inside a page,
\* with p4, p3, p2 at the beginning of .bss and the stack behind.
Image(k) ==
  <<Header(0, 0, {}), Header(4 * k, 3, {"alloc"}), Header(4 * k + 4, 4, {"alloc", "exec"}),
    Header(4 * k + 8, 18, {"alloc", "write"})>>

Misaligned(k) == Append(Image(k), Header(4 * k + 27, 2, {"alloc"}))

\* The structure lies behind the image, in its last page or in the next.
Machine(image, k, maps, a, n, top) ==
  [sections |-> image, memory_maps |-> maps, start |-> 4 * k + a, total_size |-> n,
   p4 |-> k + 2, p3 |-> k + 3, p2 |-> k + 4,
   free |-> {f \in 0 .. top : f \notin k .. k + (IF image = Image(k) THEN 6 ELSE 7)
                                /\ f \notin k + a \div 4 .. k + (a + n) \div 4}]

SmallMachines ==
  {Machine(i, 4, <<Area(0, 4 * f - 1)>>, a, n, f - 1) :
     i \in {Image(4), Misaligned(4)}, f \in 12 .. 30, a \in {29, 32}, n \in {3, 6}}

LargeMachines ==
  {Machine(Image(40), 40, <<Area(160, 70), Area(0, 96)>>, a, n, 57) :
     a \in {29, 32}, n \in {3, 6}}

MCFrames == 0 .. 63
MCMachines == SmallMachines \cup LargeMachines
ZeroedRam == {P!EmptyTable}
=============================================================================
