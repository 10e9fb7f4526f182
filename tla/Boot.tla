-------------------------------- MODULE Boot --------------------------------
(***************************************************************************)
(* kernel_main from init_allocator to init_heap: the remapping of Paging   *)
(* with the frames FrameAllocator really hands out, one turn of            *)
(* allocate_frame's loop at a time, from one and the same multiboot        *)
(* structure.                                                              *)
(*                                                                         *)
(* The last turn of a call is one step with what its caller does with the  *)
(* frame.  Paging by itself takes the lowest frame of a pool; here it gets *)
(* whatever the call returns, and that this is the same is to be shown.    *)
(***************************************************************************)
EXTENDS Integers, Sequences

CONSTANTS
  PAGE_TABLE_ENTRY_COUNT, PAGE_SIZE, UINTPTR_MAX,
  Frames, NewP4Page, OldP4Page, VgaFrame, HeapStart, HeapPages, Leftovers,
  Machines   \* layouts of Paging, each with a memory map

Areas(m) == {m.memory_maps[i] : i \in 1 .. Len(m.memory_maps)}
Headers(m) == {m.sections[i] : i \in 1 .. Len(m.sections)}

\* The frames allocate_frame can hand out on machine m: all up to the end of
\* the highest area that is walked, but for those of the kernel's image and of
\* the multiboot structure.
FramesOf(m) ==
  LET page(a) == a \div PAGE_SIZE
      large == {a \in Areas(m) : a.length >= PAGE_SIZE}
      walked == IF large # {} THEN large
                ELSE {m.memory_maps[i] : i \in 1 .. Len(m.memory_maps) \cap {1}}
      starts == {s.sh_addr : s \in {t \in Headers(m) : t.sh_size > 0}} \cup {UINTPTR_MAX}
      ends == {s.sh_addr + s.sh_size : s \in Headers(m)} \cup {0}
  IN  {f \in UNION {0 .. page(a.base_addr + a.length - 1) : a \in walked} :
         /\ ~(\E a \in starts, e \in ends : page(a) <= f /\ f <= page(e))
         /\ ~(page(m.start) <= f /\ f <= page(m.start + m.total_size))}

\* What loaders and firmware guarantee: areas that do not overlap, sections at
\* addresses below UINTPTR_MAX, and the tables of boot.s, being in .bss, in
\* frames that are in use.  Memory is zero at first.
ASSUME MachinesAssumption ==
  /\ PAGE_SIZE \in Nat \ {0} /\ UINTPTR_MAX \in Nat
  /\ Leftovers = {[i \in 0 .. PAGE_TABLE_ENTRY_COUNT - 1 |-> [frame |-> 0, flags |-> {}]]}
  /\ \A m \in Machines :
       /\ m = [sections |-> m.sections, memory_maps |-> m.memory_maps,
               start |-> m.start, total_size |-> m.total_size,
               p4 |-> m.p4, p3 |-> m.p3, p2 |-> m.p2, free |-> m.free]
       /\ {Len(m.sections), Len(m.memory_maps)} \subseteq Nat
       /\ Areas(m) \subseteq [base_addr : Nat, length : Nat \ {0}, type : Nat]
       /\ \A i, j \in 1 .. Len(m.memory_maps) :
            LET a == m.memory_maps[i]
                b == m.memory_maps[j]
            IN  i # j => \/ a.base_addr + a.length <= b.base_addr
                        \/ b.base_addr + b.length <= a.base_addr
       /\ \A s \in Headers(m) : s.sh_addr \in 0 .. UINTPTR_MAX /\ s.sh_size \in Nat
       /\ m.start \in Nat /\ m.total_size \in Nat \ {0}
       /\ m.free = FramesOf(m) /\ m.free \cap {m.p4, m.p3, m.p2} = {}

VARIABLES
  d, mem, cr3, tlb, exhausted, astray, pc, job, new_p4, section, addr,   \* as in Paging
  call, next_free_frame, entry_index, reserved, ret, frame,      \* the allocator's
  handed, owned

remapping == <<mem, cr3, tlb, exhausted, astray, pc, job, new_p4, section, addr>>
allocator == <<call, next_free_frame, entry_index, reserved, ret, frame, handed, owned>>

vars == <<d, remapping, allocator>>

-----------------------------------------------------------------------------

\* The multiboot structure as frame_allocator.c reads it.
BootInfoOf(m) ==
  [num_entries    |-> Len(m.memory_maps),
   memory_maps    |-> [i \in 0 .. Len(m.memory_maps) - 1 |-> m.memory_maps[i + 1]],
   num            |-> Len(m.sections),
   sectionheaders |-> [i \in 0 .. Len(m.sections) - 1 |->
                         [sh_addr |-> m.sections[i + 1].sh_addr,
                          sh_size |-> m.sections[i + 1].sh_size]],
   start          |-> m.start,
   total_size     |-> m.total_size]

data == BootInfoOf(d)

Allocator == INSTANCE FrameAllocator WITH
               BootInfo <- {BootInfoOf(m) : m \in Machines}, pc <- call

\* What the call in progress returns if it ends now; Paging's own account of
\* the free frames is left out.
Offered == IF call = "alloc" /\ entry_index # Allocator!NoEntry
           THEN {next_free_frame} ELSE {}

WithoutFree(m) == [m EXCEPT !.free = {}]

Remapping == INSTANCE Paging WITH
               Layouts <- {WithoutFree(m) : m \in Machines}, d <- WithoutFree(d),
               pool <- Offered

Init ==
  /\ d \in Machines
  /\ Allocator!Init
  /\ Remapping!Init

InitAllocator ==
  /\ UNCHANGED d
  /\ Allocator!init_allocator
  /\ UNCHANGED remapping

\* The points at which paging.c and kmalloc.c call allocate_frame.
NeedsFrame ==
  \/ pc = "start"
  \/ Remapping!NeedsTable
  \/ pc = "heap" /\ addr < HeapStart + HeapPages

Call ==
  /\ NeedsFrame
  /\ UNCHANGED d
  /\ Allocator!allocate_frame
  /\ UNCHANGED remapping

Turn ==
  /\ UNCHANGED d
  /\ Allocator!switch_area \/ Allocator!SkipReserved
  /\ UNCHANGED remapping

ReturnFrame ==
  /\ UNCHANGED d
  /\ Allocator!TakeFrame
  /\ Remapping!AllocateNewRoot \/ Remapping!CreateTable \/ Remapping!MapHeapPage

ReturnFailure ==
  /\ UNCHANGED d
  /\ Allocator!NoAreaLeft
  /\ Remapping!AllocateNewRoot \/ Remapping!NullTable \/ Remapping!MapHeapPage

\* A step of the remapping that allocates nothing, or a page fault.
RemappingStep ==
  /\ call = "ready"
  /\ UNCHANGED <<d, allocator>>
  /\ \/ ~NeedsFrame /\ Remapping!Next
     \/ Remapping!PageFault

Next ==
  InitAllocator \/ Call \/ Turn \/ ReturnFrame \/ ReturnFailure \/ RemappingStep

\* kernel_main runs on whatever interrupts come in between.
Spec == Init /\ [][Next]_vars /\ WF_vars(Next)

-----------------------------------------------------------------------------
(* Properties *)

\* A frame with a byte of a section that is loaded or of the multiboot
\* structure; the root of boot.s, itself in such a section, is edited.
InUse(f) ==
  /\ f # d.p4
  /\ \/ \E s \in Remapping!Loaded : Allocator!Overlaps(f, s.sh_addr, s.sh_size)
     \/ Allocator!Overlaps(f, d.start, d.total_size)

\* No store to a table hits the kernel image or the multiboot structure, from
\* which the remapping and the allocator are still reading: what the allocator
\* calls reserved covers what the remapping calls loaded.  Stores through a
\* null table are left aside: they hit the first pages, whatever is there.
ImageUntouched ==
  [][~astray => \A f \in Frames : InUse(f) => mem'[f] = mem[f]]_vars

HeapFrames ==
  {Remapping!Translation(page).frame : page \in HeapStart .. HeapStart + HeapPages - 1}

\* When the boot is over and memory sufficed, every frame the allocator gave
\* is where it was asked for, a table of the new root, a table the old root
\* got for the temporary pages, or a page of the heap, and none is two of
\* these.  Only those below the old root are lost to the kernel.
FramesAccounted ==
  pc = "done" /\ ~exhausted /\ ~astray =>
    LET new == Remapping!TableFrames(mem, new_p4)
        old == Remapping!TableFrames(mem, d.p4) \ {d.p4, d.p3, d.p2}
    IN  /\ handed = new \cup old \cup HeapFrames
        /\ new \cap old = {} /\ (new \cup old) \cap HeapFrames = {}

\* Paging as it is checked by itself, over the allocator's pool.
Alone == INSTANCE Paging WITH Layouts <- Machines, pool <- Allocator!Pool

\* What the remapping by itself assumes of images, structures and places, the
\* machines provide.
ASSUME RemappingAssumption ==
  /\ Alone!EntryCountAssumption /\ Alone!PagingAssumption /\ Alone!PlacesAssumption
  /\ Alone!LayoutAssumption /\ Alone!ImageAssumption

\* The remapping gets from the allocator what it takes for granted: the lowest
\* of the frames that are neither kernel, multiboot structure nor beyond the
\* last area, each once, and a failure only when none is left.
ImplementsPaging == Alone!Spec

\* The boot ends, in the kernel's endless loop, in a failed assertion or in a
\* page fault: no call of allocate_frame keeps it for ever, and no loop, also
\* when a null pointer is taken for a table and the wrong one is edited.
BootEnds == <>(pc \in {"done", "lost", "assert"})
=============================================================================
