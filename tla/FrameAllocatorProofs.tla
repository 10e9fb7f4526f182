----------------------- MODULE FrameAllocatorProofs ------------------------
(***************************************************************************)
(* Proofs about the frame allocator, for every frame size and every boot   *)
(* information that meets BootInfoAssumption.                              *)
(*                                                                         *)
(* The argument: next_free_frame only grows, and the walk visits the large *)
(* areas by increasing base address.  So the frames handed out are exactly *)
(* the unreserved ones below next_free_frame (HandedIsPassed), and every   *)
(* area below the current one lies wholly below it (WalkInOrder).  The     *)
(* properties of FrameAllocator follow from that invariant.                *)
(***************************************************************************)
EXTENDS FrameAllocator, TLAPS

-----------------------------------------------------------------------------
(* Frames and addresses *)

(* A quotient and its remainder.                                            *)
LEMMA Division ==
  ASSUME NEW a \in Nat, NEW p \in Nat \ {0}
  PROVE  /\ a \div p \in Nat
         /\ a % p \in 0 .. p - 1
         /\ a = p * (a \div p) + (a % p)
OBVIOUS

(* Frame numbers of addresses are natural numbers.                          *)
LEMMA FrameOfAddrType ==
  ASSUME NEW a \in Nat
  PROVE  get_frame_for_addr(a) \in Nat
BY PageSizeAssumption, Division DEF get_frame_for_addr

(* Division is monotonic.                                                   *)
LEMMA DivisionMonotonic ==
  ASSUME NEW a \in Nat, NEW b \in Nat, NEW p \in Nat \ {0}, a <= b
  PROVE  a \div p <= b \div p
<1>1. a \div p \in Nat /\ a % p \in 0 .. p - 1 /\ a = p * (a \div p) + (a % p)
  BY Division
<1>2. b \div p \in Nat /\ b % p \in 0 .. p - 1 /\ b = p * (b \div p) + (b % p)
  BY Division
<1> QED
  BY <1>1, <1>2

(* get_frame_for_addr is monotonic.                                         *)
LEMMA FrameOfAddrMonotonic ==
  ASSUME NEW a \in Nat, NEW b \in Nat, a <= b
  PROVE  get_frame_for_addr(a) <= get_frame_for_addr(b)
BY DivisionMonotonic, PageSizeAssumption DEF get_frame_for_addr

(* A multiple of p up to a is at most the quotient, one above it at least.  *)
LEMMA DivisionBounds ==
  ASSUME NEW a \in Nat, NEW f \in Nat, NEW p \in Nat \ {0}
  PROVE  /\ f * p <= a => f <= a \div p
         /\ a < f * p + p => a \div p <= f
<1>1. a \div p \in Nat /\ a % p \in 0 .. p - 1 /\ a = p * (a \div p) + (a % p)
  BY Division
<1>2. ASSUME f * p <= a PROVE f <= a \div p
  BY <1>1, <1>2
<1>3. ASSUME a < f * p + p PROVE a \div p <= f
  BY <1>1, <1>3
<1> QED
  BY <1>2, <1>3

(* A frame that overlaps a byte range lies between the frame of its first   *)
(* byte and the frame of the first byte behind it.                          *)
LEMMA OverlapBounds ==
  ASSUME NEW f \in Nat, NEW a \in Nat, NEW n \in Nat, Overlaps(f, a, n)
  PROVE  get_frame_for_addr(a) <= f /\ f <= get_frame_for_addr(a + n)
<1>1. f * PAGE_SIZE \in Nat
  BY PageSizeAssumption
<1>2. ~(f * PAGE_SIZE + PAGE_SIZE <= a \/ a + n <= f * PAGE_SIZE)
  BY DEF Overlaps, Apart, get_frame_start_addr
<1>3. a < f * PAGE_SIZE + PAGE_SIZE /\ f * PAGE_SIZE <= a + n
  BY <1>1, <1>2, PageSizeAssumption
<1>4. get_frame_for_addr(a) <= f
  BY <1>3, DivisionBounds, PageSizeAssumption DEF get_frame_for_addr
<1>5. f <= get_frame_for_addr(a + n)
  <2>1. a + n \in Nat
    OBVIOUS
  <2> QED
    BY <1>3, <2>1, DivisionBounds, PageSizeAssumption DEF get_frame_for_addr
<1> QED
  BY <1>4, <1>5

-----------------------------------------------------------------------------
(* The boot information *)

(* The memory map's areas are byte ranges that do not overlap.              *)
LEMMA AreaFacts ==
  ASSUME data \in BootInfo
  PROVE  /\ data.num_entries \in Nat
         /\ \A i \in Entries : /\ Base(i) \in Nat
                               /\ Length(i) \in Nat \ {0}
                               /\ LastAddr(i) \in Nat
                               /\ Base(i) <= LastAddr(i)
         /\ \A i, j \in Entries :
              i # j => LastAddr(i) < Base(j) \/ LastAddr(j) < Base(i)
         /\ WalkedAreas \subseteq Entries
         /\ LargeAreas \subseteq Entries
         /\ Entries \subseteq Nat
<1>1. data.num_entries \in Nat
  BY BootInfoAssumption
<1>2. \A i \in Entries : data.memory_maps[i] \in MemoryMapEntry
  BY BootInfoAssumption DEF Entries
<1>3. \A i \in Entries : Base(i) \in Nat /\ Length(i) \in Nat \ {0}
  BY <1>2 DEF MemoryMapEntry, Base, Length
<1>4. \A i, j \in Entries :
        i # j => Apart(Base(i), Length(i), Base(j), Length(j))
  BY BootInfoAssumption DEF Entries, Base, Length
<1>5. \A i \in Entries : LastAddr(i) \in Nat /\ Base(i) <= LastAddr(i)
  BY <1>3 DEF LastAddr
<1>6. \A i, j \in Entries :
        i # j => LastAddr(i) < Base(j) \/ LastAddr(j) < Base(i)
  BY <1>3, <1>4 DEF Apart, LastAddr
<1>7. /\ WalkedAreas \subseteq Entries
      /\ LargeAreas \subseteq Entries
      /\ Entries \subseteq Nat
  BY <1>1 DEF WalkedAreas, LargeAreas, Entries
<1> QED
  BY <1>1, <1>3, <1>5, <1>6, <1>7

(* The addresses compared in the search for the kernel's bounds.            *)
LEMMA SectionFacts ==
  ASSUME data \in BootInfo
  PROVE  /\ \A s \in Sections : s.sh_addr \in Nat /\ s.sh_size \in Nat
         /\ SectionStarts \subseteq Nat
         /\ SectionEnds \subseteq Nat
         /\ data.start \in Nat
         /\ data.total_size \in Nat
<1>1. \A s \in Sections : s.sh_addr \in Nat /\ s.sh_size \in Nat
  BY BootInfoAssumption DEF Sections, SectionHeader
<1>2. SectionStarts \subseteq Nat
  BY <1>1, UintptrMaxAssumption DEF SectionStarts
<1>3. SectionEnds \subseteq Nat
  BY <1>1 DEF SectionEnds
<1>4. data.start \in Nat /\ data.total_size \in Nat
  BY BootInfoAssumption
<1> QED
  BY <1>1, <1>2, <1>3, <1>4

(* Once init_allocator has run, its bounds delimit the same frames as the   *)
(* sections and the multiboot structure they were computed from.            *)
LEMMA SpansAgree ==
  ASSUME data \in BootInfo, SpansRecorded, pc # "boot", NEW f \in Nat
  PROVE  (InKernel(f) <=> KernelSpan(f)) /\ (InMultiboot(f) <=> MultibootSpan(f))
<1>1. PICK lo \in SectionStarts, hi \in SectionEnds :
        /\ \A a \in SectionStarts : lo <= a
        /\ \A e \in SectionEnds : e <= hi
        /\ reserved = ReservedRanges(lo, hi)
  BY DEF SpansRecorded
<1>2. /\ reserved.kernel_start = get_frame_for_addr(lo)
      /\ reserved.kernel_end = get_frame_for_addr(hi)
      /\ reserved.multiboot_start = get_frame_for_addr(data.start)
      /\ reserved.multiboot_end
           = get_frame_for_addr(data.start + data.total_size)
  BY <1>1 DEF ReservedRanges
<1>3. \A a \in SectionStarts :
        /\ get_frame_for_addr(a) \in Nat
        /\ get_frame_for_addr(lo) <= get_frame_for_addr(a)
  BY <1>1, SectionFacts, FrameOfAddrMonotonic, FrameOfAddrType
<1>4. \A e \in SectionEnds :
        /\ get_frame_for_addr(e) \in Nat
        /\ get_frame_for_addr(e) <= get_frame_for_addr(hi)
  BY <1>1, SectionFacts, FrameOfAddrMonotonic, FrameOfAddrType
<1>5. InKernel(f) <=> KernelSpan(f)
  BY <1>1, <1>2, <1>3, <1>4 DEF InKernel, KernelSpan
<1>6. InMultiboot(f) <=> MultibootSpan(f)
  BY <1>2 DEF InMultiboot, MultibootSpan
<1> QED
  BY <1>5, <1>6

(* What is derived from the boot information changes only with it.          *)
LEMMA DataStable ==
  ASSUME data' = data
  PROVE  /\ Entries' = Entries
         /\ LargeAreas' = LargeAreas
         /\ WalkedAreas' = WalkedAreas
         /\ Sections' = Sections
         /\ SectionStarts' = SectionStarts
         /\ SectionEnds' = SectionEnds
         /\ \A i : Base(i)' = Base(i) /\ LastAddr(i)' = LastAddr(i)
         /\ \A lo, hi : ReservedRanges(lo, hi)' = ReservedRanges(lo, hi)
         /\ \A f : KernelSpan(f)' = KernelSpan(f)
         /\ \A f : MultibootSpan(f)' = MultibootSpan(f)
<1>1. Entries' = Entries /\ Sections' = Sections
  BY DEF Entries, Sections
<1>2. \A i : Base(i)' = Base(i) /\ Length(i)' = Length(i)
  BY DEF Base, Length
<1>3. \A i : LastAddr(i)' = LastAddr(i)
  BY <1>2 DEF LastAddr
<1>4. LargeAreas' = LargeAreas
  BY <1>1, <1>2 DEF LargeAreas
<1>5. WalkedAreas' = WalkedAreas
  BY <1>1, <1>4 DEF WalkedAreas
<1>6. SectionStarts' = SectionStarts /\ SectionEnds' = SectionEnds
  BY <1>1 DEF SectionStarts, SectionEnds
<1>7. \A lo, hi : ReservedRanges(lo, hi)' = ReservedRanges(lo, hi)
  BY DEF ReservedRanges, get_frame_for_addr
<1>8. \A f : KernelSpan(f)' = KernelSpan(f)
  BY <1>6 DEF KernelSpan, get_frame_for_addr
<1>9. \A f : MultibootSpan(f)' = MultibootSpan(f)
  BY DEF MultibootSpan, get_frame_for_addr
<1> QED
  BY <1>1, <1>2, <1>3, <1>4, <1>5, <1>6, <1>7, <1>8, <1>9

(* No step changes the boot information.                                    *)
LEMMA DataConstant == [Next]_vars => data' = data
BY DEF Next, vars, init_allocator, allocate_frame, NoAreaLeft, switch_area,
       SkipReserved, TakeFrame, deallocate_frame

-----------------------------------------------------------------------------
(* Type correctness *)

(* The fields are typed before init_allocator runs.                         *)
LEMMA TypeInit == Init => TypeOK
BY BootInfoAssumption DEF Init, TypeOK, Reserved

(* Every step of the allocator keeps the fields typed.                      *)
LEMMA TypeStep == TypeOK /\ [Next]_vars => TypeOK'
<1> SUFFICES ASSUME TypeOK, [Next]_vars PROVE TypeOK'
  OBVIOUS
<1> USE DEF TypeOK
<1>1. data' = data /\ data.num_entries \in Nat
  BY DataConstant, AreaFacts
<1>2. CASE init_allocator
  <2>1. entry_index' \in 0 .. data.num_entries
    BY <1>1, <1>2, AreaFacts DEF init_allocator, Entries
  <2>2. reserved' \in Reserved
    <3>1. PICK lo \in SectionStarts, hi \in SectionEnds :
            reserved' = ReservedRanges(lo, hi)
      BY <1>2 DEF init_allocator
    <3>2. /\ lo \in Nat
          /\ hi \in Nat
          /\ data.start \in Nat
          /\ data.start + data.total_size \in Nat
      BY SectionFacts
    <3> QED
      BY <3>1, <3>2, FrameOfAddrType DEF ReservedRanges, Reserved
  <2> QED
    BY <1>1, <1>2, <2>1, <2>2 DEF init_allocator
<1>3. CASE allocate_frame
  BY <1>3 DEF allocate_frame
<1>4. CASE NoAreaLeft
  BY <1>4 DEF NoAreaLeft
<1>5. CASE switch_area
  <2>1. entry_index' = NoEntry \/ entry_index' \in LargeAreas
    BY <1>5 DEF switch_area, AreasAhead
  <2>2. entry_index' \in 0 .. data.num_entries
    BY <1>1, <2>1, AreaFacts DEF Entries, NoEntry
  <2> QED
    BY <1>1, <1>5, <2>2 DEF switch_area
<1>6. CASE SkipReserved
  BY <1>6 DEF SkipReserved
<1>7. CASE TakeFrame
  BY <1>7 DEF TakeFrame
<1>8. CASE \E f \in owned : deallocate_frame(f)
  BY <1>8 DEF deallocate_frame
<1>9. CASE UNCHANGED vars
  BY <1>9 DEF vars
<1> QED
  BY <1>2, <1>3, <1>4, <1>5, <1>6, <1>7, <1>8, <1>9 DEF Next

(* The allocator's fields keep their types: in particular entry_index never *)
(* leaves the memory map, num_entries being its end marker.                 *)
THEOREM TypeCorrect == Spec => []TypeOK
BY TypeInit, TypeStep, PTL DEF Spec

-----------------------------------------------------------------------------
(* The walk *)

(* Nothing is passed and nothing handed out before init_allocator runs.     *)
LEMMA WalkInit == Init => WalkInvariant
<1> SUFFICES ASSUME Init PROVE WalkInvariant
  OBVIOUS
<1>1. TypeOK
  BY TypeInit
<1>2. SpansRecorded
  BY DEF Init, SpansRecorded
<1>3. HandedIsPassed
  BY DEF Init, HandedIsPassed
<1>4. WalkInOrder
  BY DEF Init, WalkInOrder
<1> QED
  BY <1>1, <1>2, <1>3, <1>4 DEF WalkInvariant

(* init_allocator computes the reserved ranges, no later step touches them. *)
LEMMA SpansStep ==
  ASSUME TypeOK, SpansRecorded, [Next]_vars
  PROVE  SpansRecorded'
<1>1. /\ SectionStarts' = SectionStarts
      /\ SectionEnds' = SectionEnds
      /\ \A lo, hi : ReservedRanges(lo, hi)' = ReservedRanges(lo, hi)
  BY DataConstant, DataStable
<1>2. CASE init_allocator
  <2>1. PICK lo \in SectionStarts, hi \in SectionEnds :
          /\ \A a \in SectionStarts : lo <= a
          /\ \A e \in SectionEnds : e <= hi
          /\ reserved' = ReservedRanges(lo, hi)
    BY <1>2 DEF init_allocator
  <2> QED
    BY <1>1, <2>1 DEF SpansRecorded
<1>3. CASE ~init_allocator
  <2>1. reserved' = reserved /\ (pc' # "boot" => pc # "boot")
    BY <1>3 DEF Next, vars, allocate_frame, NoAreaLeft, switch_area,
                SkipReserved, TakeFrame, deallocate_frame
  <2> QED
    BY <1>1, <2>1 DEF SpansRecorded
<1> QED
  BY <1>2, <1>3

(* A frame is passed either by being handed out or by being reserved.       *)
LEMMA HandedStep ==
  ASSUME TypeOK, SpansRecorded, HandedIsPassed, WalkInOrder, [Next]_vars
  PROVE  HandedIsPassed'
<1>1. /\ \A f : KernelSpan(f)' = KernelSpan(f)
      /\ \A f : MultibootSpan(f)' = MultibootSpan(f)
  BY DataConstant, DataStable
<1>2. next_free_frame \in Nat
  BY DEF TypeOK
<1>3. CASE SkipReserved
  <2>1. KernelSpan(next_free_frame) \/ MultibootSpan(next_free_frame)
    BY <1>2, <1>3, SpansAgree DEF SkipReserved, TypeOK
  <2>2. next_free_frame' = next_free_frame + 1 /\ handed' = handed
    BY <1>3 DEF SkipReserved
  <2> QED
    BY <1>1, <1>2, <2>1, <2>2 DEF HandedIsPassed
<1>4. CASE TakeFrame
  <2>1. ~KernelSpan(next_free_frame) /\ ~MultibootSpan(next_free_frame)
    BY <1>2, <1>4, SpansAgree DEF TakeFrame, TypeOK
  <2>2. /\ next_free_frame' = next_free_frame + 1
        /\ handed' = handed \cup {next_free_frame}
    BY <1>4 DEF TakeFrame
  <2> QED
    BY <1>1, <1>2, <2>1, <2>2 DEF HandedIsPassed
<1>5. CASE ~SkipReserved /\ ~TakeFrame
  <2>1. next_free_frame' = next_free_frame /\ handed' = handed
    BY <1>5 DEF Next, vars, init_allocator, allocate_frame, NoAreaLeft,
                switch_area, deallocate_frame, WalkInOrder
  <2> QED
    BY <1>1, <2>1 DEF HandedIsPassed
<1> QED
  BY <1>3, <1>4, <1>5

(* The area the search for the lowest one ends with has no area below it.   *)
LEMMA LowestBelow ==
  ASSUME data \in BootInfo, NEW i, NEW j \in LargeAreas,
         Lowest(i, LargeAreas)
  PROVE  ~(Base(j) < Base(i))
<1>1. i \in LargeAreas /\ (Base(i) < Base(j) \/ Base(i) = Base(j))
  BY DEF Lowest
<1>2. Base(i) \in Nat /\ Base(j) \in Nat
  BY <1>1, AreaFacts
<1> QED
  BY <1>1, <1>2

(* When switch_area leaves an exhausted area, whatever large area does not  *)
(* lie ahead has been passed: it is the exhausted one or lies below it.     *)
LEMMA NotAheadPassed ==
  ASSUME TypeOK, WalkInOrder, pc # "boot", entry_index # NoEntry,
         AreaExhausted, NEW j \in LargeAreas, j \notin AreasAhead
  PROVE  Passed(j)
<1> DEFINE i == entry_index
<1>1. /\ i \in WalkedAreas
      /\ \A k \in WalkedAreas : Base(k) < Base(i) => Passed(k)
  BY DEF WalkInOrder
<1>2. i \in Entries /\ j \in Entries /\ j \in WalkedAreas
  BY <1>1, AreaFacts DEF TypeOK, WalkedAreas
<1>3. /\ Base(i) \in Nat /\ Base(j) \in Nat
      /\ LastAddr(i) \in Nat /\ LastAddr(j) \in Nat
      /\ Base(i) <= LastAddr(i) /\ Base(j) <= LastAddr(j)
  BY <1>2, AreaFacts DEF TypeOK
<1>4. ~(LastAddr(i) <= Base(j))
  BY DEF AreasAhead
<1>5. CASE j = i
  <2>1. get_frame_for_addr(LastAddr(i)) \in Nat /\ next_free_frame \in Nat
    BY <1>3, FrameOfAddrType DEF TypeOK
  <2> QED
    BY <1>5, <2>1 DEF AreaExhausted, LastFrameOfArea, Passed
<1>6. CASE j # i
  <2>1. LastAddr(j) < Base(i) \/ LastAddr(i) < Base(j)
    BY <1>2, <1>6, AreaFacts DEF TypeOK
  <2>2. Base(j) < Base(i)
    BY <1>3, <1>4, <2>1
  <2> QED
    BY <1>1, <1>2, <2>2
<1> QED
  BY <1>5, <1>6

(* Every step of the allocator keeps to the walk.                           *)
LEMMA WalkStep ==
  ASSUME TypeOK, WalkInOrder, [Next]_vars
  PROVE  WalkInOrder'
<1>1. /\ data' = data
      /\ WalkedAreas' = WalkedAreas
      /\ NoEntry' = NoEntry
      /\ \A i : Base(i)' = Base(i) /\ LastAddr(i)' = LastAddr(i)
  BY DataConstant, DataStable DEF NoEntry
<1>2. NoEntry \in Nat /\ next_free_frame \in Nat /\ data \in BootInfo
  BY AreaFacts DEF TypeOK, NoEntry
<1>3. \A i \in WalkedAreas : /\ get_frame_for_addr(LastAddr(i)) \in Nat
                             /\ i \in Entries
                             /\ i # NoEntry
  BY <1>2, AreaFacts, FrameOfAddrType DEF Entries, NoEntry
<1>4. ASSUME next_free_frame' \in {next_free_frame, next_free_frame + 1}
      PROVE  \A i \in WalkedAreas : Passed(i) => Passed(i)'
  BY <1>1, <1>2, <1>3, <1>4 DEF Passed, get_frame_for_addr
<1>5. CASE init_allocator
  <2>1. /\ pc' = "ready" /\ ret' = ret /\ ret = 0
    BY <1>5 DEF init_allocator, WalkInOrder
  <2>2. CASE LargeAreas = {}
    <3>1. entry_index' = 0 /\ WalkedAreas = Entries \cap {0}
      BY <1>5, <2>2 DEF init_allocator, WalkedAreas
    <3>2. CASE NoEntry = 0
      <4>1. WalkedAreas = {}
        BY <3>1, <3>2 DEF Entries, NoEntry
      <4> QED
        BY <1>1, <2>1, <3>1, <4>1, <3>2 DEF WalkInOrder
    <3>3. CASE NoEntry # 0
      <4>1. WalkedAreas = {0}
        BY <1>2, <3>1, <3>3 DEF Entries, NoEntry
      <4>2. Base(0) \in Nat
        BY <1>2, <4>1, AreaFacts
      <4> QED
        BY <1>1, <2>1, <3>1, <3>3, <4>1, <4>2 DEF WalkInOrder
    <3> QED
      BY <3>2, <3>3
  <2>3. CASE LargeAreas # {}
    <3>1. PICK i \in LargeAreas : Lowest(i, LargeAreas) /\ entry_index' = i
      BY <1>5, <2>3 DEF init_allocator
    <3>2. WalkedAreas = LargeAreas
      BY <2>3 DEF WalkedAreas
    <3>3. \A j \in WalkedAreas : ~(Base(j) < Base(i))
      BY <1>2, <3>1, <3>2, LowestBelow
    <3> QED
      BY <1>1, <1>3, <2>1, <3>1, <3>2, <3>3 DEF WalkInOrder
  <2> QED
    BY <2>2, <2>3
<1>6. CASE allocate_frame
  <2>1. \A i \in WalkedAreas : Passed(i) => Passed(i)'
    BY <1>4, <1>6 DEF allocate_frame
  <2> QED
    BY <1>1, <1>6, <2>1 DEF allocate_frame, WalkInOrder
<1>7. CASE NoAreaLeft
  <2>1. \A i \in WalkedAreas : Passed(i) => Passed(i)'
    BY <1>4, <1>7 DEF NoAreaLeft
  <2> QED
    BY <1>1, <1>7, <2>1 DEF NoAreaLeft, WalkInOrder
<1>8. CASE switch_area
  <2>1. /\ pc = "alloc" /\ pc' = pc /\ ret' = ret /\ frame' = frame
        /\ next_free_frame' = next_free_frame
        /\ entry_index # NoEntry
        /\ AreaExhausted
    BY <1>8 DEF switch_area
  <2>2. ret # -1
    BY <2>1 DEF WalkInOrder
  <2>3. \A i \in WalkedAreas : Passed(i) => Passed(i)'
    BY <1>4, <2>1
  <2>4. \A j \in WalkedAreas : j \notin AreasAhead => Passed(j)
    <3>1. CASE LargeAreas = {}
      <4>1. \A j \in WalkedAreas : j = entry_index
        BY <2>1, <3>1 DEF WalkInOrder, WalkedAreas
      <4> QED
        BY <1>2, <1>3, <2>1, <4>1 DEF AreaExhausted, LastFrameOfArea, Passed
    <3>2. CASE LargeAreas # {}
      BY <2>1, <3>2, NotAheadPassed DEF WalkedAreas
    <3> QED
      BY <3>1, <3>2
  <2>5. CASE AreasAhead = {} /\ entry_index' = NoEntry
    BY <1>1, <2>1, <2>2, <2>3, <2>4, <2>5 DEF WalkInOrder
  <2>6. CASE \E i \in AreasAhead : Lowest(i, AreasAhead) /\ entry_index' = i
    <3>1. PICK i \in AreasAhead : Lowest(i, AreasAhead) /\ entry_index' = i
      BY <2>6
    <3>2. i \in LargeAreas /\ i \in WalkedAreas
      BY DEF AreasAhead, WalkedAreas
    <3>3. \A j \in WalkedAreas : Base(j) < Base(i) => Passed(j)
      <4>1. SUFFICES ASSUME NEW j \in WalkedAreas, Base(j) < Base(i),
                            j \in AreasAhead
                     PROVE  FALSE
        BY <2>4
      <4>2. Base(i) < Base(j) \/ Base(i) = Base(j)
        BY <3>1, <4>1 DEF Lowest
      <4>3. Base(i) \in Nat /\ Base(j) \in Nat
        BY <1>2, <1>3, <3>2, AreaFacts
      <4> QED
        BY <4>1, <4>2, <4>3
    <3> QED
      BY <1>1, <1>3, <2>1, <2>2, <2>3, <3>1, <3>2, <3>3 DEF WalkInOrder
  <2> QED
    BY <1>8, <2>5, <2>6 DEF switch_area
<1>9. CASE SkipReserved
  <2>1. \A i \in WalkedAreas : Passed(i) => Passed(i)'
    BY <1>4, <1>9 DEF SkipReserved
  <2> QED
    BY <1>1, <1>9, <2>1 DEF SkipReserved, WalkInOrder
<1>10. CASE TakeFrame
  <2>1. \A i \in WalkedAreas : Passed(i) => Passed(i)'
    BY <1>4, <1>10 DEF TakeFrame
  <2> QED
    BY <1>1, <1>10, <2>1 DEF TakeFrame, WalkInOrder
<1>11. CASE \E f \in owned : deallocate_frame(f)
  <2>1. \A i \in WalkedAreas : Passed(i) => Passed(i)'
    BY <1>4, <1>11 DEF deallocate_frame
  <2> QED
    BY <1>1, <1>11, <2>1 DEF deallocate_frame, WalkInOrder
<1>12. CASE UNCHANGED vars
  <2>1. \A i \in WalkedAreas : Passed(i) => Passed(i)'
    BY <1>4, <1>12 DEF vars
  <2> QED
    BY <1>1, <1>12, <2>1 DEF vars, WalkInOrder
<1> QED
  BY <1>5, <1>6, <1>7, <1>8, <1>9, <1>10, <1>11, <1>12 DEF Next

(* The walk's bookkeeping holds throughout.                                 *)
THEOREM WalkCorrect == Spec => []WalkInvariant
<1>1. Init => WalkInvariant
  BY WalkInit
<1>2. WalkInvariant /\ [Next]_vars => WalkInvariant'
  BY TypeStep, SpansStep, HandedStep, WalkStep DEF WalkInvariant
<1> QED
  BY <1>1, <1>2, PTL DEF Spec

-----------------------------------------------------------------------------
(* The allocator's promises *)

(* No frame allocate_frame returns shares a byte with a kernel section or   *)
(* with the multiboot structure, whatever the image and the memory map.     *)
THEOREM ReservedSafe == Spec => []ReservedBytesUntouched
<1>1. WalkInvariant => ReservedBytesUntouched
  <2> SUFFICES ASSUME WalkInvariant, NEW f \in handed
               PROVE  /\ \A s \in Sections : ~Overlaps(f, s.sh_addr, s.sh_size)
                      /\ ~Overlaps(f, data.start, data.total_size)
    BY DEF ReservedBytesUntouched
  <2>1. /\ data \in BootInfo /\ f \in Nat
        /\ ~KernelSpan(f) /\ ~MultibootSpan(f)
    BY DEF WalkInvariant, TypeOK, HandedIsPassed
  <2>2. ASSUME NEW s \in Sections, Overlaps(f, s.sh_addr, s.sh_size)
        PROVE  FALSE
    <3>1. s.sh_addr \in Nat /\ s.sh_size \in Nat
      BY <2>1, SectionFacts
    <3>2. /\ get_frame_for_addr(s.sh_addr) <= f
          /\ f <= get_frame_for_addr(s.sh_addr + s.sh_size)
      BY <2>1, <2>2, <3>1, OverlapBounds
    <3>3. s.sh_size > 0
      BY <2>2 DEF Overlaps
    <3>4. s.sh_addr \in SectionStarts /\ s.sh_addr + s.sh_size \in SectionEnds
      BY <3>3 DEF SectionStarts, SectionEnds
    <3> QED
      BY <2>1, <3>2, <3>4 DEF KernelSpan
  <2>3. ~Overlaps(f, data.start, data.total_size)
    BY <2>1, SectionFacts, OverlapBounds DEF MultibootSpan
  <2> QED
    BY <2>2, <2>3
<1> QED
  BY <1>1, WalkCorrect, PTL

(* When allocate_frame has failed, no frame of a large area is left.        *)
THEOREM FailureExhausted == Spec => []FailureMeansExhausted
<1>1. WalkInvariant => FailureMeansExhausted
  <2> SUFFICES ASSUME WalkInvariant, ret = -1, NEW i \in WalkedAreas,
                      NEW f \in get_frame_for_addr(Base(i))
                                  .. get_frame_for_addr(LastAddr(i))
               PROVE  f \in handed \/ InKernel(f) \/ InMultiboot(f)
    BY DEF FailureMeansExhausted
  <2>1. data \in BootInfo /\ next_free_frame \in Nat
    BY DEF WalkInvariant, TypeOK
  <2>2. pc # "boot" /\ Passed(i)
    BY DEF WalkInvariant, WalkInOrder
  <2>3. /\ get_frame_for_addr(Base(i)) \in Nat
        /\ get_frame_for_addr(LastAddr(i)) \in Nat
    BY <2>1, AreaFacts, FrameOfAddrType
  <2>4. f \in Nat /\ f < next_free_frame
    BY <2>1, <2>2, <2>3 DEF Passed
  <2>5. f \in handed \/ KernelSpan(f) \/ MultibootSpan(f)
    BY <2>1, <2>4 DEF WalkInvariant, HandedIsPassed
  <2> QED
    BY <2>1, <2>2, <2>4, <2>5, SpansAgree DEF WalkInvariant
<1> QED
  BY <1>1, WalkCorrect, PTL

(* allocate_frame never returns the same frame twice.                       *)
THEOREM NoFrameTwice == Spec => NeverTwice
<1>1. WalkInvariant /\ [Next]_vars
        => [pc = "alloc" /\ pc' = "ready" /\ ret' = 0 => frame' \notin handed]_vars
  <2> SUFFICES ASSUME WalkInvariant, [Next]_vars, pc = "alloc",
                      pc' = "ready", ret' = 0
               PROVE  frame' \notin handed
    OBVIOUS
  <2>1. ret \in {0, -1} /\ next_free_frame \in Nat
    BY DEF WalkInvariant, TypeOK
  <2>2. frame' = next_free_frame
    BY DEF Next, vars, init_allocator, allocate_frame, NoAreaLeft,
           switch_area, SkipReserved, TakeFrame, deallocate_frame
  <2> QED
    BY <2>1, <2>2 DEF WalkInvariant, HandedIsPassed
<1> QED
  BY <1>1, WalkCorrect, PTL DEF Spec, NeverTwice

(* After one failure every later call fails, deallocate_frame or not.       *)
THEOREM FailurePermanent == Spec => FailureIsPermanent
<1>1. WalkInvariant /\ [Next]_vars
        => [pc = "alloc" /\ pc' = "ready" /\ ret = -1 => ret' = -1]_vars
  <2> SUFFICES ASSUME WalkInvariant, [Next]_vars, pc = "alloc",
                      pc' = "ready", ret = -1
               PROVE  ret' = -1
    OBVIOUS
  <2>1. entry_index = NoEntry
    BY DEF WalkInvariant, WalkInOrder
  <2> QED
    BY <2>1 DEF Next, vars, init_allocator, allocate_frame, NoAreaLeft,
           switch_area, SkipReserved, TakeFrame, deallocate_frame
<1> QED
  BY <1>1, WalkCorrect, PTL DEF Spec, FailureIsPermanent

-----------------------------------------------------------------------------
(* Refinement of the frame source *)

(* The frame TakeFrame takes is the lowest of the pool, and no other leaves *)
(* it.                                                                      *)
LEMMA TakesLowest ==
  ASSUME WalkInvariant, TakeFrame
  PROVE  /\ next_free_frame \in Pool
         /\ \A g \in Pool : next_free_frame <= g
         /\ Pool' = Pool \ {next_free_frame}
<1>1. /\ data \in BootInfo /\ data' = data /\ next_free_frame \in Nat
      /\ pc # "boot" /\ entry_index # NoEntry
      /\ ~InKernel(next_free_frame) /\ ~InMultiboot(next_free_frame)
      /\ ~AreaExhausted
      /\ handed' = handed \cup {next_free_frame}
      /\ frame' = next_free_frame /\ ret' = 0
  BY DEF WalkInvariant, TypeOK, TakeFrame
<1>2. ~KernelSpan(next_free_frame) /\ ~MultibootSpan(next_free_frame)
  BY <1>1, SpansAgree DEF WalkInvariant
<1>3. entry_index \in WalkedAreas
  BY <1>1 DEF WalkInvariant, WalkInOrder
<1>4. next_free_frame \in 0 .. get_frame_for_addr(LastAddr(entry_index))
  BY <1>1, <1>3, AreaFacts, FrameOfAddrType DEF AreaExhausted, LastFrameOfArea
<1>5. next_free_frame \notin handed
  BY <1>1 DEF WalkInvariant, HandedIsPassed
<1>6. next_free_frame \in Pool
  BY <1>2, <1>3, <1>4, <1>5 DEF Pool
<1>7. Pool' = Pool \ {next_free_frame}
  BY <1>1, DataStable DEF Pool, get_frame_for_addr
<1>8. ASSUME NEW g \in Pool PROVE next_free_frame <= g
  <2>1. g \in Nat
    <3>1. PICK i \in WalkedAreas : g \in 0 .. get_frame_for_addr(LastAddr(i))
      BY DEF Pool
    <3> QED
      BY <1>1, <3>1, AreaFacts, FrameOfAddrType
  <2>2. ~KernelSpan(g) /\ ~MultibootSpan(g) /\ g \notin handed
    BY DEF Pool
  <2> QED
    BY <1>1, <2>1, <2>2 DEF WalkInvariant, HandedIsPassed
<1> QED
  BY <1>6, <1>7, <1>8

(* So taking a frame is giving it.                                          *)
LEMMA TakeIsGive ==
  ASSUME WalkInvariant, TakeFrame
  PROVE  Source!Give
BY TakesLowest DEF TakeFrame, Source!Give

(* With no area left, every frame of the pool has been passed: none is in   *)
(* it.                                                                      *)
LEMMA FailsEmpty ==
  ASSUME WalkInvariant, NoAreaLeft
  PROVE  Pool = {} /\ Pool' = Pool
<1>1. /\ data \in BootInfo /\ data' = data /\ next_free_frame \in Nat
      /\ pc = "alloc" /\ entry_index = NoEntry
      /\ handed' = handed
  BY DEF WalkInvariant, TypeOK, NoAreaLeft
<1>2. \A i \in WalkedAreas : Passed(i)
  BY <1>1 DEF WalkInvariant, WalkInOrder
<1>3. Pool = {}
  <2> SUFFICES ASSUME NEW i \in WalkedAreas,
                      NEW f \in 0 .. get_frame_for_addr(LastAddr(i)),
                      ~KernelSpan(f), ~MultibootSpan(f), f \notin handed
               PROVE  FALSE
    BY DEF Pool
  <2>1. get_frame_for_addr(LastAddr(i)) \in Nat
    BY <1>1, AreaFacts, FrameOfAddrType
  <2>2. f < next_free_frame
    BY <1>1, <1>2, <2>1 DEF Passed
  <2> QED
    BY <1>1, <2>1, <2>2 DEF WalkInvariant, HandedIsPassed
<1>4. Pool' = Pool
  BY <1>1, DataStable DEF Pool, get_frame_for_addr
<1> QED
  BY <1>3, <1>4

(* So a failure is a refusal, with the frame number reset.                  *)
LEMMA NoAreaIsRefuse ==
  ASSUME WalkInvariant, NoAreaLeft
  PROVE  Source!Refuse
BY FailsEmpty DEF NoAreaLeft, WalkInvariant, WalkInOrder, Source!Refuse

(* The pool changes only with the frames handed out.                        *)
LEMMA PoolKept ==
  ASSUME data' = data, handed' = handed
  PROVE  Pool' = Pool
BY DataStable DEF Pool, get_frame_for_addr

(* Every step of the allocator is a step of the frame source or a stutter.  *)
THEOREM Refinement == Spec => ImplementsFrameSource
<1>1. Init => Source!Init
  <2> SUFFICES ASSUME Init PROVE Source!Init
    OBVIOUS
  <2>1. data \in BootInfo
    BY DEF Init
  <2>2. \A i \in WalkedAreas : get_frame_for_addr(LastAddr(i)) \in Nat
    BY <2>1, AreaFacts, FrameOfAddrType
  <2>3. Pool \subseteq Nat
    BY <2>2 DEF Pool
  <2> QED
    BY <2>3 DEF Init, Source!Init
<1>2. WalkInvariant /\ [Next]_vars => [Source!Next]_(Source!vars)
  <2> SUFFICES ASSUME WalkInvariant, [Next]_vars
               PROVE  [Source!Next]_(Source!vars)
    OBVIOUS
  <2>1. data' = data
    BY DataConstant
  <2>2. handed' = handed => Pool' = Pool
    BY <2>1, PoolKept
  <2>3. CASE allocate_frame
    BY <2>2, <2>3 DEF allocate_frame, Source!Next, Source!Begin
  <2>4. CASE NoAreaLeft
    BY <2>4, NoAreaIsRefuse DEF Source!Next
  <2>5. CASE TakeFrame
    BY <2>5, TakeIsGive DEF Source!Next
  <2>6. CASE ~allocate_frame /\ ~NoAreaLeft /\ ~TakeFrame
    <3>1. handed' = handed /\ ret' = ret /\ frame' = frame
      BY <2>6 DEF Next, vars, init_allocator, switch_area, SkipReserved,
                  deallocate_frame
    <3> QED
      BY <2>2, <3>1 DEF Source!vars
  <2> QED
    BY <2>3, <2>4, <2>5, <2>6
<1> QED
  BY <1>1, <1>2, WalkCorrect, PTL DEF Spec, ImplementsFrameSource, Source!Spec
=============================================================================
