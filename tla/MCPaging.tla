------------------------------ MODULE MCPaging -----------------------------
(***************************************************************************)
(* Small machines for remap_kernel: tables of four entries, 4-byte pages,  *)
(* so 256 pages of virtual memory, of which boot.s maps the first 16.      *)
(* The image is .rodata at page 5, .text at 6, .bss from 7 on with the     *)
(* boot tables p4, p3, p2 first and the stack behind them.                 *)
(***************************************************************************)
EXTENDS Paging, Functions

Header(a, n, flags) == [sh_addr |-> a, sh_size |-> n, sh_flags |-> flags]

Null   == Header(0, 0, {})
Rodata == Header(20, 3, {"alloc"})
Text   == Header(24, 4, {"alloc", "exec"})
Bss    == Header(28, 16, {"alloc", "write"})
Symtab == Header(2, 9, {})

\* Images: as linked; with debugging symbols and one byte of text on a second
\* page; and three that fail an assertion, an empty section, a misaligned one
\* and one that goes beyond the last address.
Linked == <<Null, Rodata, Text, Bss>>
OneByte == <<Null, Bss, Symtab, Rodata, Header(44, 5, {"alloc", "write", "exec"}), Text>>
MCImages ==
  {Linked,
   <<Null, Rodata, Text, Bss, Header(44, 0, {"alloc"})>>,
   <<Null, Rodata, Header(25, 3, {"alloc", "exec"}), Bss>>,
   <<Null, Rodata, Text, Bss, Header(44, 1000, {"alloc"})>>}

\* Frames of memory that are free: some below the image, and all from behind
\* image and multiboot structure to the end of memory, as the allocator has it.
\* The amounts: nothing for the new root; parts of what its tables need; parts
\* of the heap; and enough, with the screen's frame among them or not.
MCPools == {<<-1, 0>>} \cup {<<3, n>> : n \in 12 .. 24} \cup {<<n, 0>> : n \in 0 .. 3}
             \cup {<<-1, n>> : n \in 13 .. 30} \cup {<<4, n>> : n \in {13, 24}}

\* Where the sections end.
Ends(k) == {(s.sh_addr + s.sh_size) % (UINTPTR_MAX + 1) : s \in Range(k)}
LastOf(S) == CHOOSE e \in S : \A x \in S : x <= e

Machines(images, starts, sizes, pools) ==
  {[sections |-> k, start |-> a, total_size |-> n, p4 |-> 7, p3 |-> 8, p2 |-> 9,
    free |-> (0 .. f[1]) \cup ((LastOf(Ends(k) \cup {a + n}) \div 4) + 1 .. f[2])] :
     k \in images, a \in starts, n \in sizes, f \in pools}

\* The multiboot structure behind the image, where boot loaders put it, if need
\* be on a page without code, or in front of it, so that the loop over it runs
\* on into the image.
BehindImage(images, pools) ==
  Machines(images \ {OneByte}, {48, 51}, {1, 2}, pools)
    \cup Machines(images \cap {OneByte}, {52, 55}, {1, 2}, pools)
InFront(pools) == Machines({Linked}, {12}, {1, 2}, pools)

MCFrames == 0 .. 31

MCLayouts == BehindImage(MCImages \cup {OneByte}, MCPools) \cup InFront({<<2, 22>>})
OneByteLayouts == BehindImage({OneByte}, {<<3, 26>>})

ZeroedRam == {EmptyTable}

\* One machine, whose pages all differ, after a warm start: every free frame
\* holds one entry that reads as present.
LinkedLayouts == Machines({Linked}, {48}, {1}, {<<3, 26>>})
UsedRam == ZeroedRam \cup {[EmptyTable EXCEPT ![i] = EntryFor(5, Writeable)] : i \in Indices}
=============================================================================
