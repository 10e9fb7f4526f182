-------------------------- MODULE FrameAllocator ---------------------------
(***************************************************************************)
(* The physical frame allocator, frame_allocator.c.                        *)
(*                                                                         *)
(* The allocator walks the multiboot memory map.  It keeps the number of   *)
(* the next frame to try and the index of the memory area it is in, steps  *)
(* over the frames of the kernel image and of the multiboot structure, and *)
(* never takes a frame back.  allocate_frame is a loop; one iteration is   *)
(* one step here, so that its termination can be stated.                   *)
(*                                                                         *)
(* Addresses are byte addresses, frames are numbered from 0.  The 64-bit   *)
(* sums base_addr + length and sh_addr + sh_size are taken not to wrap:    *)
(* physical addresses have at most 52 bits.                                *)
(***************************************************************************)
EXTENDS Integers

CONSTANTS
  PAGE_SIZE,     \* bytes per frame
  UINTPTR_MAX,   \* the initial value of the search for the lowest section
  BootInfo       \* the multiboot information a boot loader may hand over

\* An entry of the memory map.  The allocator never reads its type.
MemoryMapEntry ==
  [base_addr : Nat, length : Nat \ {0}, type : Nat]

SectionHeader == [sh_addr : Nat, sh_size : Nat]

\* Two byte ranges, given as first address and length, share no byte.
Apart(a, m, b, n) == a + m <= b \/ b + n <= a

ASSUME PageSizeAssumption == PAGE_SIZE \in Nat \ {0}

ASSUME UintptrMaxAssumption == UINTPTR_MAX \in Nat

(* What the boot loader guarantees: a list of memory areas that do not      *)
(* overlap, the section headers of the kernel image with addresses below    *)
(* UINTPTR_MAX, and where the multiboot structure lies.                     *)
ASSUME BootInfoAssumption ==
  \A d \in BootInfo :
    /\ d.num_entries \in Nat
    /\ d.memory_maps \in [0 .. d.num_entries - 1 -> MemoryMapEntry]
    /\ \A i, j \in 0 .. d.num_entries - 1 :
         i # j => Apart(d.memory_maps[i].base_addr, d.memory_maps[i].length,
                        d.memory_maps[j].base_addr, d.memory_maps[j].length)
    /\ d.num \in Nat
    /\ d.sectionheaders \in [0 .. d.num - 1 -> SectionHeader]
    /\ \A i \in 0 .. d.num - 1 : d.sectionheaders[i].sh_addr <= UINTPTR_MAX
    /\ d.start \in Nat
    /\ d.total_size \in Nat \ {0}

VARIABLES
  data,             \* the multiboot information of this boot
  pc,               \* "boot", "ready", or "alloc" inside allocate_frame
  next_free_frame,  \* allocator.next_free_frame.number
  entry_index,      \* allocator.entry_index
  reserved,         \* allocator.kernel_start .. allocator.multiboot_end
  ret,              \* return code of the latest allocate_frame
  frame,            \* frame->number of the latest allocate_frame
  handed,           \* history: every frame allocate_frame ever returned
  owned             \* the frames clients hold: handed out, not deallocated

vars == <<data, pc, next_free_frame, entry_index, reserved, ret, frame,
          handed, owned>>

-----------------------------------------------------------------------------

\* get_frame_for_addr
get_frame_for_addr(addr) == addr \div PAGE_SIZE

\* get_frame_start_addr, used by the paging code
get_frame_start_addr(f) == f * PAGE_SIZE

Entries == 0 .. data.num_entries - 1
Base(i) == data.memory_maps[i].base_addr
Length(i) == data.memory_maps[i].length
LastAddr(i) == Base(i) + Length(i) - 1

\* The areas that hold at least PAGE_SIZE bytes; smaller ones are ignored.
LargeAreas == {i \in Entries : Length(i) >= PAGE_SIZE}

\* Without a large area the search leaves entry_index at 0, and the walk
\* covers that one area, however small.
WalkedAreas == IF LargeAreas = {} THEN Entries \cap {0} ELSE LargeAreas

\* The area a linear search that replaces its candidate by a strictly lower
\* one ends with: the first of those with the lowest base address.
Lowest(i, areas) ==
  /\ i \in areas
  /\ \A j \in areas : Base(i) < Base(j) \/ (Base(i) = Base(j) /\ i <= j)

Sections == {data.sectionheaders[i] : i \in 0 .. data.num - 1}

\* The addresses the search for the kernel's first byte compares: only
\* sections with contents count.
SectionStarts == {s.sh_addr : s \in {t \in Sections : t.sh_size > 0}}
                   \cup {UINTPTR_MAX}

\* The addresses the search for the kernel's end compares: every section.
SectionEnds == {s.sh_addr + s.sh_size : s \in Sections} \cup {0}

Init ==
  /\ data \in BootInfo
  /\ pc = "boot"
  /\ next_free_frame = 0
  /\ entry_index = 0
  /\ reserved = [kernel_start |-> 0, kernel_end |-> 0,
                 multiboot_start |-> 0, multiboot_end |-> 0]
  /\ ret = 0
  /\ frame = 0
  /\ handed = {}
  /\ owned = {}

\* The first and last frame of the kernel and of the multiboot structure.
ReservedRanges(lo, hi) ==
  [kernel_start    |-> get_frame_for_addr(lo),
   kernel_end      |-> get_frame_for_addr(hi),
   multiboot_start |-> get_frame_for_addr(data.start),
   multiboot_end   |-> get_frame_for_addr(data.start + data.total_size)]

\* init_allocator: the lowest large area, and the frames to step over.
init_allocator ==
  /\ pc = "boot"
  /\ \/ LargeAreas = {} /\ entry_index' = 0
     \/ \E i \in LargeAreas : Lowest(i, LargeAreas) /\ entry_index' = i
  /\ \E lo \in SectionStarts, hi \in SectionEnds :
       /\ \A a \in SectionStarts : lo <= a
       /\ \A e \in SectionEnds : e <= hi
       /\ reserved' = ReservedRanges(lo, hi)
  /\ next_free_frame' = 0
  /\ pc' = "ready"
  /\ UNCHANGED <<data, ret, frame, handed, owned>>

-----------------------------------------------------------------------------

\* Mutant: the end address taken for the last one.
LastFrameOfArea_EndAddr ==
  get_frame_for_addr(Base(entry_index) + Length(entry_index))

LastFrameOfArea == get_frame_for_addr(LastAddr(entry_index))

AreaExhausted == next_free_frame > LastFrameOfArea

\* Mutant: the last kernel frame is not stepped over.
InKernel_HalfOpen(f) == reserved.kernel_start <= f /\ f < reserved.kernel_end

InKernel(f) == reserved.kernel_start <= f /\ f <= reserved.kernel_end

InMultiboot(f) ==
  reserved.multiboot_start <= f /\ f <= reserved.multiboot_end

\* The call: the caller's frame is reset and the loop entered.
allocate_frame ==
  /\ pc = "ready"
  /\ pc' = "alloc"
  /\ frame' = 0
  /\ UNCHANGED <<data, next_free_frame, entry_index, reserved, ret, handed,
                 owned>>

\* The value of entry_index once no area is left.
NoEntry == data.num_entries

\* No area is left: the call fails and its frame number stays 0.
NoAreaLeft ==
  /\ pc = "alloc"
  /\ entry_index = NoEntry
  /\ pc' = "ready"
  /\ ret' = -1
  /\ UNCHANGED <<data, next_free_frame, entry_index, reserved, frame, handed,
                 owned>>

\* Mutant: an area that begins right behind the current one is overlooked.
AreasAhead_NotAdjacent ==
  {i \in LargeAreas : LastAddr(entry_index) + 1 < Base(i)}

\* Mutant: the search starts from the first byte of the current area.
AreasAhead_FromBase == {i \in LargeAreas : Base(entry_index) <= Base(i)}

\* The areas switch_area chooses from: those that begin no earlier than the
\* last byte of the current one.
AreasAhead == {i \in LargeAreas : LastAddr(entry_index) <= Base(i)}

\* Mutant: the walk restarts at the first frame of the new area.
switch_area_Rewind ==
  /\ pc = "alloc"
  /\ entry_index # NoEntry
  /\ AreaExhausted
  /\ \/ /\ AreasAhead = {}
        /\ entry_index' = NoEntry
        /\ UNCHANGED next_free_frame
     \/ \E i \in AreasAhead :
          /\ Lowest(i, AreasAhead)
          /\ entry_index' = i
          /\ next_free_frame' = get_frame_for_addr(Base(i))
  /\ UNCHANGED <<data, pc, reserved, ret, frame, handed, owned>>

\* Mutant: the end marker is one too high.
switch_area_OnePast ==
  /\ pc = "alloc"
  /\ entry_index # NoEntry
  /\ AreaExhausted
  /\ \/ AreasAhead = {} /\ entry_index' = NoEntry + 1
     \/ \E i \in AreasAhead : Lowest(i, AreasAhead) /\ entry_index' = i
  /\ UNCHANGED <<data, pc, next_free_frame, reserved, ret, frame, handed,
                 owned>>

\* switch_area: on to the next area.  next_free_frame is left where it is.
switch_area ==
  /\ pc = "alloc"
  /\ entry_index # NoEntry
  /\ AreaExhausted
  /\ \/ AreasAhead = {} /\ entry_index' = NoEntry
     \/ \E i \in AreasAhead : Lowest(i, AreasAhead) /\ entry_index' = i
  /\ UNCHANGED <<data, pc, next_free_frame, reserved, ret, frame, handed,
                 owned>>

\* The frame belongs to the kernel image or to the multiboot structure.
SkipReserved ==
  /\ pc = "alloc"
  /\ entry_index # NoEntry
  /\ ~AreaExhausted
  /\ InKernel(next_free_frame) \/ InMultiboot(next_free_frame)
  /\ next_free_frame' = next_free_frame + 1
  /\ UNCHANGED <<data, pc, entry_index, reserved, ret, frame, handed, owned>>

TakeFrame ==
  /\ pc = "alloc"
  /\ entry_index # NoEntry
  /\ ~AreaExhausted
  /\ ~InKernel(next_free_frame)
  /\ ~InMultiboot(next_free_frame)
  /\ pc' = "ready"
  /\ ret' = 0
  /\ frame' = next_free_frame
  /\ next_free_frame' = next_free_frame + 1
  /\ handed' = handed \cup {next_free_frame}
  /\ owned' = owned \cup {next_free_frame}
  /\ UNCHANGED <<data, entry_index, reserved>>

\* Mutant: a deallocated frame restarts the search.
deallocate_frame_Restart(f) ==
  /\ pc = "ready"
  /\ f \in owned
  /\ owned' = owned \ {f}
  /\ next_free_frame' = f
  /\ entry_index' = 0
  /\ UNCHANGED <<data, pc, reserved, ret, frame, handed>>

\* deallocate_frame has an empty body: the client gives its frame up and the
\* allocator does not notice.
deallocate_frame(f) ==
  /\ pc = "ready"
  /\ f \in owned
  /\ owned' = owned \ {f}
  /\ UNCHANGED <<data, pc, next_free_frame, entry_index, reserved, ret, frame,
                 handed>>

Iteration == NoAreaLeft \/ switch_area \/ SkipReserved \/ TakeFrame

Next ==
  \/ init_allocator
  \/ allocate_frame
  \/ NoAreaLeft
  \/ switch_area
  \/ SkipReserved
  \/ TakeFrame
  \/ \E f \in owned : deallocate_frame(f)

Spec == Init /\ [][Next]_vars

\* The loop of a call in progress keeps running: nothing can block it.
FairSpec == Spec /\ WF_vars(Iteration)

-----------------------------------------------------------------------------
(* Properties *)

Reserved == [kernel_start : Nat, kernel_end : Nat,
             multiboot_start : Nat, multiboot_end : Nat]

(* Type invariant of the allocator's fields and of the history: entry_index *)
(* is an entry or num_entries, the end marker of switch_area.               *)
TypeOK ==
  /\ data \in BootInfo
  /\ pc \in {"boot", "ready", "alloc"}
  /\ next_free_frame \in Nat
  /\ entry_index \in 0 .. data.num_entries
  /\ reserved \in Reserved
  /\ ret \in {0, -1}
  /\ frame \in Nat
  /\ handed \subseteq Nat
  /\ owned \subseteq handed

\* Frame f shares a byte with the n bytes at address a.
Overlaps(f, a, n) ==
  n > 0 /\ ~Apart(get_frame_start_addr(f), PAGE_SIZE, a, n)

(* No frame allocate_frame returns holds a byte of a kernel section or of   *)
(* the multiboot structure: the bounds init_allocator computes from the     *)
(* section headers, rounded to frames, cover every byte in use.             *)
ReservedBytesUntouched ==
  \A f \in handed :
    /\ \A s \in Sections : ~Overlaps(f, s.sh_addr, s.sh_size)
    /\ ~Overlaps(f, data.start, data.total_size)

(* When allocate_frame reports failure, no frame of a large area is left:   *)
(* each was handed out, or lies in the kernel or multiboot ranges.  The     *)
(* order in which switch_area visits the areas skips none.                  *)
FailureMeansExhausted ==
  ret = -1 =>
    \A i \in WalkedAreas :
      \A f \in get_frame_for_addr(Base(i)) .. get_frame_for_addr(LastAddr(i)) :
        f \in handed \/ InKernel(f) \/ InMultiboot(f)

(* allocate_frame never returns a frame it has returned before, whether or  *)
(* not the frame was deallocated in between.                                *)
NeverTwice ==
  [][pc = "alloc" /\ pc' = "ready" /\ ret' = 0 => frame' \notin handed]_vars

(* Once allocate_frame has failed it fails for ever, whatever clients give  *)
(* back: deallocate_frame returns nothing to the allocator.                 *)
FailureIsPermanent ==
  [][pc = "alloc" /\ pc' = "ready" /\ ret = -1 => ret' = -1]_vars

(* Every call of allocate_frame returns: the loop neither spins between     *)
(* areas nor stalls on a reserved frame.                                    *)
AllocateReturns == (pc = "alloc") ~> (pc = "ready")

(* frame_allocator.c:86 says that a call that runs off the end of its area  *)
(* switches "to the next allowed area".  Stated of the result: a returned   *)
(* frame shares a byte with some area of the memory map.                    *)
HandedFramesAllowed ==
  \A f \in handed : \E i \in Entries : Overlaps(f, Base(i), Length(i))

(* The allocator as its clients see it.  The pool holds every frame up to   *)
(* the end of the highest area walked, holes between the areas included,    *)
(* that is neither in the kernel nor in the multiboot frames.               *)
KernelSpan(f) ==
  /\ \E a \in SectionStarts : get_frame_for_addr(a) <= f
  /\ \E e \in SectionEnds : f <= get_frame_for_addr(e)

MultibootSpan(f) ==
  /\ get_frame_for_addr(data.start) <= f
  /\ f <= get_frame_for_addr(data.start + data.total_size)

Pool ==
  {f \in UNION {0 .. get_frame_for_addr(LastAddr(i)) : i \in WalkedAreas} :
     ~KernelSpan(f) /\ ~MultibootSpan(f) /\ f \notin handed}

Source == INSTANCE FrameSource WITH pool <- Pool

(* The allocator implements the frame source: a call gives a frame of the   *)
(* pool that was not given before, and fails only when the pool is empty.   *)
ImplementsFrameSource == Source!Spec

-----------------------------------------------------------------------------
(* The inductive invariant behind the properties above. *)

(* The reserved ranges are the ones computed from the extreme section       *)
(* addresses and from where the multiboot structure lies.                   *)
SpansRecorded ==
  pc # "boot" =>
    \E lo \in SectionStarts, hi \in SectionEnds :
      /\ \A a \in SectionStarts : lo <= a
      /\ \A e \in SectionEnds : e <= hi
      /\ reserved = ReservedRanges(lo, hi)

(* The frames handed out are exactly the unreserved ones already passed.    *)
HandedIsPassed ==
  handed = {f \in 0 .. next_free_frame - 1 :
              ~KernelSpan(f) /\ ~MultibootSpan(f)}

Passed(i) == get_frame_for_addr(LastAddr(i)) < next_free_frame

(* The walk has passed every area below the current one, and every area     *)
(* once entry_index is the end marker, which is where a failure leaves it.  *)
WalkInOrder ==
  /\ pc = "boot" => ret = 0 /\ frame = 0 /\ next_free_frame = 0
  /\ pc = "alloc" => frame = 0
  /\ pc # "boot" /\ entry_index # NoEntry =>
       /\ entry_index \in WalkedAreas
       /\ \A i \in WalkedAreas : Base(i) < Base(entry_index) => Passed(i)
  /\ pc # "boot" /\ entry_index = NoEntry =>
       \A i \in WalkedAreas : Passed(i)
  /\ ret = -1 => pc # "boot" /\ entry_index = NoEntry

(* The walk's bookkeeping, inductive: what the theorems rest on.            *)
WalkInvariant == TypeOK /\ SpansRecorded /\ HandedIsPassed /\ WalkInOrder
=============================================================================
