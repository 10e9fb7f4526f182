----------------------------- MODULE BootProofs ------------------------------
(***************************************************************************)
(* The boot implements Paging: the remapping, fed by the real allocator,   *)
(* takes the steps it takes when frames come from a pool, and so has every *)
(* safety property Paging has.                                             *)
(*                                                                         *)
(* The allocator's variables make only steps of FrameAllocator, so its     *)
(* invariant holds by the theorems about it.  With it the frame a call     *)
(* returns is the lowest of Allocator!Pool, and a failure means the pool   *)
(* is empty.  Every other step of the remapping leaves the pool alone and  *)
(* reads neither it nor the frames that are free.                          *)
(***************************************************************************)
EXTENDS Boot, TLAPS

\* The theorems about the allocator, for the multiboot structure of the boot.
AP == INSTANCE FrameAllocatorProofs WITH
        BootInfo <- {BootInfoOf(m) : m \in Machines}, pc <- call

\* The theorems about the remapping, over the allocator's pool.
PP == INSTANCE PagingProofs WITH Layouts <- Machines, pool <- Allocator!Pool

(* What FrameAllocator assumes of its constants follows from what Boot      *)
(* assumes of the machine: areas that do not overlap, as firmware reports.  *)
LEMMA AllocatorAssumptions ==
  AP!PageSizeAssumption /\ AP!UintptrMaxAssumption /\ AP!BootInfoAssumption
<1>1. AP!PageSizeAssumption /\ AP!UintptrMaxAssumption
  BY MachinesAssumption DEF AP!PageSizeAssumption, AP!UintptrMaxAssumption
<1>2. AP!BootInfoAssumption
  <2> SUFFICES ASSUME NEW m \in Machines
        PROVE LET b == BootInfoOf(m) IN
            /\ b.num_entries \in Nat
            /\ b.memory_maps \in [0 .. b.num_entries - 1 -> AP!MemoryMapEntry]
            /\ \A i, j \in 0 .. b.num_entries - 1 :
                 i # j =>
                   AP!Apart(b.memory_maps[i].base_addr, b.memory_maps[i].length,
                            b.memory_maps[j].base_addr, b.memory_maps[j].length)
            /\ b.num \in Nat
            /\ b.sectionheaders \in [0 .. b.num - 1 -> AP!SectionHeader]
            /\ \A i \in 0 .. b.num - 1 :
                 b.sectionheaders[i].sh_addr <= UINTPTR_MAX
            /\ b.start \in Nat
            /\ b.total_size \in Nat \ {0}
    BY DEF AP!BootInfoAssumption
  <2> DEFINE b == BootInfoOf(m)
  <2>1. /\ b.num_entries = Len(m.memory_maps) /\ b.num = Len(m.sections)
        /\ b.start = m.start /\ b.total_size = m.total_size
        /\ b.memory_maps =
             [i \in 0 .. Len(m.memory_maps) - 1 |-> m.memory_maps[i + 1]]
        /\ b.sectionheaders = [i \in 0 .. Len(m.sections) - 1 |->
                         [sh_addr |-> m.sections[i + 1].sh_addr,
                          sh_size |-> m.sections[i + 1].sh_size]]
    BY DEF BootInfoOf
  <2> HIDE DEF b
  <2> DEFINE n == Len(m.memory_maps)
             map == m.memory_maps
  <2>2. /\ Len(m.sections) \in Nat /\ n \in Nat /\ UINTPTR_MAX \in Nat
        /\ \A i \in 0 .. n - 1 : i + 1 \in 1 .. n
    BY MachinesAssumption
  <2>4. ASSUME NEW i \in 0 .. n - 1 PROVE map[i + 1] \in AP!MemoryMapEntry
    <3>1. map[i + 1] \in Areas(m)
      BY <2>2 DEF Areas
    <3> QED
      BY <3>1, MachinesAssumption DEF AP!MemoryMapEntry
  <2>5. ASSUME NEW i \in 0 .. n - 1, NEW j \in 0 .. n - 1, i # j
        PROVE  AP!Apart(map[i + 1].base_addr, map[i + 1].length,
                        map[j + 1].base_addr, map[j + 1].length)
    <3>1. i + 1 # j + 1
      BY <2>5
    <3> QED
      BY <2>2, <3>1, MachinesAssumption DEF AP!Apart
  <2>3. /\ \A i \in 0 .. Len(m.sections) - 1 :
             /\ m.sections[i + 1].sh_addr \in 0 .. UINTPTR_MAX
             /\ m.sections[i + 1].sh_size \in Nat
        /\ m.start \in Nat /\ m.total_size \in Nat \ {0}
    BY MachinesAssumption DEF Headers
  <2>6. b.memory_maps \in [0 .. n - 1 -> AP!MemoryMapEntry]
    BY <2>1, <2>4
  <2>7. \A i, j \in 0 .. n - 1 :
          i # j =>
            AP!Apart(b.memory_maps[i].base_addr, b.memory_maps[i].length,
                     b.memory_maps[j].base_addr, b.memory_maps[j].length)
    <3>1. \A i \in 0 .. n - 1 : b.memory_maps[i] = map[i + 1]
      BY <2>1
    <3> HIDE DEF n, map
    <3> QED
      BY <2>5, <3>1, Zenon
  <2>8. /\ b.sectionheaders \in [0 .. b.num - 1 -> AP!SectionHeader]
        /\ \A i \in 0 .. b.num - 1 :
             b.sectionheaders[i].sh_addr <= UINTPTR_MAX
    <3>1. \A i \in 0 .. b.num - 1 :
            [sh_addr |-> m.sections[i + 1].sh_addr,
             sh_size |-> m.sections[i + 1].sh_size] \in AP!SectionHeader
      BY <2>1, <2>3 DEF AP!SectionHeader
    <3>2. \A i \in 0 .. b.num - 1 :
            b.sectionheaders[i].sh_addr = m.sections[i + 1].sh_addr
      BY <2>1
    <3>3. b.sectionheaders \in [0 .. b.num - 1 -> AP!SectionHeader]
      BY <2>1, <3>1
    <3>4. b.num = Len(m.sections)
      BY <2>1
    <3>5. ASSUME NEW i \in 0 .. b.num - 1
          PROVE  b.sectionheaders[i].sh_addr <= UINTPTR_MAX
      <4>1. m.sections[i + 1].sh_addr \in 0 .. UINTPTR_MAX
        BY <2>3, <3>4
      <4> QED
        BY <2>2, <3>2, <4>1
    <3> QED
      BY <3>3, <3>5
  <2> HIDE DEF n, map
  <2>9. b.num_entries = n
    BY <2>1 DEF n
  <2> QED
    BY <2>1, <2>2, <2>3, <2>6, <2>7, <2>8, <2>9 DEF b
<1> QED
  BY <1>1, <1>2

-----------------------------------------------------------------------------
(* The allocator inside the boot *)

(* The names of FrameAllocator under which the theorems know its steps.     *)
LEMMA SameSteps ==
  /\ Allocator!Init => AP!Init
  /\ Allocator!init_allocator => AP!init_allocator
  /\ Allocator!allocate_frame => AP!allocate_frame
  /\ Allocator!switch_area => AP!switch_area
  /\ Allocator!SkipReserved => AP!SkipReserved
  /\ Allocator!TakeFrame => AP!TakeFrame
  /\ Allocator!NoAreaLeft => AP!NoAreaLeft
<1> USE DEF
  Allocator!Entries, AP!Entries, Allocator!Base, AP!Base,
  Allocator!Length, AP!Length, Allocator!LastAddr, AP!LastAddr,
  Allocator!LargeAreas, AP!LargeAreas, Allocator!Lowest, AP!Lowest,
  Allocator!Sections, AP!Sections, Allocator!NoEntry, AP!NoEntry,
  Allocator!get_frame_for_addr, AP!get_frame_for_addr
<1>1. Allocator!Init => AP!Init
  BY DEF Allocator!Init, AP!Init
<1>2. Allocator!init_allocator => AP!init_allocator
  BY DEF Allocator!init_allocator, AP!init_allocator,
         Allocator!SectionStarts, AP!SectionStarts,
         Allocator!SectionEnds, AP!SectionEnds,
         Allocator!ReservedRanges, AP!ReservedRanges
<1>3. Allocator!allocate_frame => AP!allocate_frame
  BY DEF Allocator!allocate_frame, AP!allocate_frame
<1>4. Allocator!switch_area => AP!switch_area
  BY DEF Allocator!switch_area, AP!switch_area,
         Allocator!AreaExhausted, AP!AreaExhausted,
         Allocator!LastFrameOfArea, AP!LastFrameOfArea,
         Allocator!AreasAhead, AP!AreasAhead
<1>5. Allocator!SkipReserved => AP!SkipReserved
  BY DEF Allocator!SkipReserved, AP!SkipReserved,
         Allocator!AreaExhausted, AP!AreaExhausted,
         Allocator!LastFrameOfArea, AP!LastFrameOfArea,
         Allocator!InKernel, AP!InKernel, Allocator!InMultiboot, AP!InMultiboot
<1>6. Allocator!TakeFrame => AP!TakeFrame
  BY DEF Allocator!TakeFrame, AP!TakeFrame,
         Allocator!AreaExhausted, AP!AreaExhausted,
         Allocator!LastFrameOfArea, AP!LastFrameOfArea,
         Allocator!InKernel, AP!InKernel, Allocator!InMultiboot, AP!InMultiboot
<1>7. Allocator!NoAreaLeft => AP!NoAreaLeft
  BY DEF Allocator!NoAreaLeft, AP!NoAreaLeft
<1> QED
  BY <1>1, <1>2, <1>3, <1>4, <1>5, <1>6, <1>7

(* Every step of the boot is one of the allocator or leaves it alone.       *)
LEMMA AllocatorSteps == [Next]_vars => [AP!Next]_(AP!vars)
<1> SUFFICES ASSUME [Next]_vars PROVE [AP!Next]_(AP!vars)
  OBVIOUS
<1>1. CASE UNCHANGED <<d, allocator>>
  BY <1>1 DEF allocator, AP!vars, data
<1>2. CASE InitAllocator
  BY <1>2, SameSteps DEF InitAllocator, AP!Next
<1>3. CASE Call
  BY <1>3, SameSteps DEF Call, AP!Next
<1>4. CASE Turn
  BY <1>4, SameSteps DEF Turn, AP!Next
<1>5. CASE ReturnFrame
  BY <1>5, SameSteps DEF ReturnFrame, AP!Next
<1>6. CASE ReturnFailure
  BY <1>6, SameSteps DEF ReturnFailure, AP!Next
<1>7. CASE RemappingStep
  BY <1>1, <1>7 DEF RemappingStep
<1>8. CASE UNCHANGED vars
  BY <1>1, <1>8 DEF vars
<1> QED
  BY <1>2, <1>3, <1>4, <1>5, <1>6, <1>7, <1>8 DEF Next

(* So the allocator's invariant holds throughout the boot.                  *)
THEOREM WalkCorrect == Spec => []AP!WalkInvariant
<1>1. Init => AP!Init
  BY SameSteps DEF Init
<1>2. Spec => AP!Spec
  BY <1>1, AllocatorSteps, PTL DEF Spec, AP!Spec
<1>3. AP!Spec => []AP!WalkInvariant
  BY AllocatorAssumptions, AP!WalkCorrect
<1> QED
  BY <1>2, <1>3, PTL

-----------------------------------------------------------------------------
(* The remapping inside the boot *)

(* The remapping reads the same fields of the layout as by itself.          *)
LEMMA Fields ==
  ASSUME d \in Machines
  PROVE  LET w == WithoutFree(d) IN
         /\ w.sections = d.sections /\ w.start = d.start
         /\ w.total_size = d.total_size
         /\ w.p4 = d.p4 /\ w.p3 = d.p3 /\ w.p2 = d.p2
BY MachinesAssumption DEF WithoutFree

(* Operators of Paging that do not read the pool mean the same in both.     *)
LEMMA SameOperators ==
  /\ Remapping!p4_table = Alone!p4_table
  /\ Remapping!RecursiveIndex = Alone!RecursiveIndex
  /\ Remapping!EmptyTable = Alone!EmptyTable
  /\ Remapping!Unused = Alone!Unused
  /\ Remapping!Writeable = Alone!Writeable
  /\ \A e : Remapping!Present(e) = Alone!Present(e)
  /\ \A f, flags : Remapping!EntryFor(f, flags) = Alone!EntryFor(f, flags)
  /\ \A t, i :
       Remapping!descened_page_table(t, i) = Alone!descened_page_table(t, i)
  /\ \A page : Remapping!Translation(page) = Alone!Translation(page)
  /\ Remapping!NoLeaf = Alone!NoLeaf
  /\ \A m, root, page : Remapping!Walk(m, root, page) = Alone!Walk(m, root, page)
  /\ \A t, i, e : Remapping!Stored(t, i, e) = Alone!Stored(t, i, e)
  /\ Remapping!Index = Alone!Index
  /\ Remapping!EntryAtIndex = Alone!EntryAtIndex
  /\ \A page, f, flags, then :
       Remapping!MapJob(page, f, flags, then) =
         Alone!MapJob(page, f, flags, then)
  /\ \A page, then : Remapping!UnmapJob(page, then) = Alone!UnmapJob(page, then)
<1> USE DEF Remapping!R, Alone!R, Remapping!Indices, Alone!Indices,
            Remapping!RecursiveIndex, Alone!RecursiveIndex, Remapping!Unused,
            Alone!Unused, Remapping!EmptyTable, Alone!EmptyTable,
            Remapping!Present, Alone!Present, Remapping!EntryFor,
            Alone!EntryFor, Remapping!p4_table, Alone!p4_table,
            Remapping!descened_page_table, Alone!descened_page_table,
            Remapping!Writeable, Alone!Writeable, Remapping!NoJob, Alone!NoJob
<1>1. \A level, page :
        Remapping!IndexAt(level, page) = Alone!IndexAt(level, page)
  BY DEF Remapping!IndexAt, Alone!IndexAt
<1>2. /\ \A page : Remapping!Translation(page) = Alone!Translation(page)
      /\ \A m, root, page : Remapping!Walk(m, root, page) = Alone!Walk(m, root, page)
      /\ Remapping!NoLeaf = Alone!NoLeaf
  <2>1. /\ \A flags, e : Remapping!Allowed(flags, e) = Alone!Allowed(flags, e)
        /\ \A f, flags : Remapping!LeafOf(f, flags) = Alone!LeafOf(f, flags)
        /\ Remapping!NoLeaf = Alone!NoLeaf
        /\ \A e : Remapping!Present(e) = Alone!Present(e)
    BY DEF Remapping!NoLeaf, Alone!NoLeaf, Remapping!LeafOf, Alone!LeafOf,
           Remapping!Allowed, Alone!Allowed
  <2> USE DEF Remapping!Walk, Alone!Walk
  <2>2. ASSUME NEW m, NEW root, NEW page
        PROVE  Remapping!Walk(m, root, page) = Alone!Walk(m, root, page)
    BY <1>1, <2>1, Zenon
  <2> QED
    BY <2>1, <2>2 DEF Remapping!Translation, Alone!Translation
<1>4. \A t, i, e : Remapping!Stored(t, i, e) = Alone!Stored(t, i, e)
  BY <1>2 DEF Remapping!Stored, Alone!Stored
<1>5. /\ Remapping!Index = Alone!Index
      /\ Remapping!EntryAtIndex = Alone!EntryAtIndex
  BY <1>1, <1>2 DEF Remapping!Index, Alone!Index,
                    Remapping!EntryAtIndex, Alone!EntryAtIndex
<1>6. \A page, f, flags, then :
        Remapping!MapJob(page, f, flags, then) =
         Alone!MapJob(page, f, flags, then)
  BY DEF Remapping!MapJob, Alone!MapJob
<1>7. \A page, then :
        Remapping!UnmapJob(page, then) = Alone!UnmapJob(page, then)
  BY DEF Remapping!UnmapJob, Alone!UnmapJob
<1> QED
  BY <1>2, <1>4, <1>5, <1>6, <1>7

(* And those that say what the next step reads and where the code lies.     *)
LEMMA SameAccess ==
  ASSUME d \in Machines
  PROVE  /\ Remapping!NextAccess = Alone!NextAccess
         /\ Remapping!AccessMapped = Alone!AccessMapped
         /\ Remapping!Cached = Alone!Cached
         /\ Remapping!OnTheWay = Alone!OnTheWay
         /\ Remapping!NeedsTable = Alone!NeedsTable
         /\ Remapping!CodeGone => Alone!CodeGone
<1>1. Remapping!NextAccess = Alone!NextAccess
  BY Fields, SameOperators
     DEF Remapping!NextAccess, Alone!NextAccess, Remapping!MultibootBound,
         Alone!MultibootBound, Remapping!SizeOfMultibootStart, Alone!SizeOfMultibootStart
<1>2. Remapping!AccessMapped = Alone!AccessMapped
  BY <1>1, SameOperators DEF Remapping!AccessMapped, Alone!AccessMapped
<1>3. Remapping!Cached = Alone!Cached
  BY <1>1, SameOperators DEF Remapping!Cached, Alone!Cached
<1>4. Remapping!OnTheWay = Alone!OnTheWay
  BY <1>2 DEF Remapping!OnTheWay, Alone!OnTheWay
<1>5. Remapping!NeedsTable = Alone!NeedsTable
  BY <1>4, SameOperators DEF Remapping!NeedsTable, Alone!NeedsTable
<1>6. Remapping!CodeGone => Alone!CodeGone
  <2>1. Remapping!Loaded = Alone!Loaded
    BY Fields DEF Remapping!Loaded, Alone!Loaded, Remapping!Sections, Alone!Sections,
                  Remapping!IsAllocated, Alone!IsAllocated
  <2>2. \A x : Remapping!PagesOf(x) = Alone!PagesOf(x)
    BY DEF Remapping!PagesOf, Alone!PagesOf, Remapping!FrameOf, Alone!FrameOf,
           Remapping!LastAddr, Alone!LastAddr
  <2> QED
    BY <2>1, <2>2, SameOperators DEF Remapping!CodeGone, Alone!CodeGone
<1> QED
  BY <1>1, <1>2, <1>3, <1>4, <1>5, <1>6

(* A step that allocates nothing is a step of the remapping by itself when  *)
(* it leaves the allocator's pool alone.                                    *)
LEMMA SilentSteps ==
  ASSUME d \in Machines, d' = d, Allocator!Pool' = Allocator!Pool
  PROVE  /\ Remapping!Descend => Alone!Descend
         /\ Remapping!SetLeaf => Alone!SetLeaf
         /\ Remapping!ClearLeaf => Alone!ClearLeaf
         /\ Remapping!MapOldRoot => Alone!MapOldRoot
         /\ Remapping!flush_tlb => Alone!flush_tlb
         /\ Remapping!ClearNewRoot => Alone!ClearNewRoot
         /\ Remapping!MakeNewRecursive => Alone!MakeNewRecursive
         /\ Remapping!PointOldAtNew => Alone!PointOldAtNew
         /\ Remapping!SkipSection => Alone!SkipSection
         /\ Remapping!AssertFails => Alone!AssertFails
         /\ Remapping!BeginSection => Alone!BeginSection
         /\ Remapping!MapSectionPage => Alone!MapSectionPage
         /\ Remapping!EndSection => Alone!EndSection
         /\ Remapping!MapVga => Alone!MapVga
         /\ Remapping!MapMultibootPage => Alone!MapMultibootPage
         /\ Remapping!RestoreOldRoot => Alone!RestoreOldRoot
         /\ Remapping!UnmapOldRoot => Alone!UnmapOldRoot
         /\ Remapping!SwitchRoot => Alone!SwitchRoot
         /\ Remapping!UnmapGuardPage => Alone!UnmapGuardPage
         /\ Remapping!HeapMapped => Alone!HeapMapped
         /\ Remapping!PageFault => Alone!PageFault
         /\ job.unmap /\ Remapping!NullTable => Alone!NullTable
<1>1. Remapping!Descend => Alone!Descend
  BY Fields, SameOperators, SameAccess
     DEF Remapping!Descend, Alone!Descend, Remapping!DownOneLevel,
         Alone!DownOneLevel
<1>2. Remapping!SetLeaf => Alone!SetLeaf
  BY Fields, SameOperators, SameAccess
     DEF Remapping!SetLeaf, Alone!SetLeaf
<1>3. Remapping!ClearLeaf => Alone!ClearLeaf
  BY Fields, SameOperators, SameAccess
     DEF Remapping!ClearLeaf, Alone!ClearLeaf
<1>4. Remapping!MapOldRoot => Alone!MapOldRoot
  BY Fields, SameOperators, SameAccess
     DEF Remapping!MapOldRoot, Alone!MapOldRoot, Remapping!StartJob,
         Alone!StartJob
<1>5. Remapping!flush_tlb => Alone!flush_tlb
  BY Fields, SameOperators, SameAccess
     DEF Remapping!flush_tlb, Alone!flush_tlb, Remapping!AfterFlush,
         Alone!AfterFlush
<1>6. Remapping!ClearNewRoot => Alone!ClearNewRoot
  BY Fields, SameOperators, SameAccess
     DEF Remapping!ClearNewRoot, Alone!ClearNewRoot
<1>7. Remapping!MakeNewRecursive => Alone!MakeNewRecursive
  BY Fields, SameOperators, SameAccess
     DEF Remapping!MakeNewRecursive, Alone!MakeNewRecursive,
         Remapping!StoreRecursion, Alone!StoreRecursion
<1>8. Remapping!PointOldAtNew => Alone!PointOldAtNew
  BY Fields, SameOperators, SameAccess
     DEF Remapping!PointOldAtNew, Alone!PointOldAtNew,
         Remapping!StoreRecursion, Alone!StoreRecursion
<1>9. Remapping!SkipSection => Alone!SkipSection
  BY Fields, SameOperators, SameAccess
     DEF Remapping!SkipSection, Alone!SkipSection, Remapping!AtSection,
         Alone!AtSection, Remapping!Section, Alone!Section,
         Remapping!IsAllocated, Alone!IsAllocated
<1>10. Remapping!AssertFails => Alone!AssertFails
  BY Fields, SameOperators, SameAccess
     DEF Remapping!AssertFails, Alone!AssertFails, Remapping!AtSection,
         Alone!AtSection, Remapping!Section, Alone!Section,
         Remapping!IsAllocated, Alone!IsAllocated, Remapping!SectionAsserts,
         Alone!SectionAsserts, Remapping!LastAddr, Alone!LastAddr
<1>11. Remapping!BeginSection => Alone!BeginSection
  BY Fields, SameOperators, SameAccess
     DEF Remapping!BeginSection, Alone!BeginSection, Remapping!AtSection,
         Alone!AtSection, Remapping!Section, Alone!Section,
         Remapping!IsAllocated, Alone!IsAllocated, Remapping!SectionAsserts,
         Alone!SectionAsserts, Remapping!LastAddr, Alone!LastAddr
<1>12. Remapping!MapSectionPage => Alone!MapSectionPage
  BY Fields, SameOperators, SameAccess
     DEF Remapping!MapSectionPage, Alone!MapSectionPage, Remapping!StartJob,
         Alone!StartJob, Remapping!Section, Alone!Section,
         Remapping!PagesLeft, Alone!PagesLeft, Remapping!LastAddr,
         Alone!LastAddr, Remapping!FlagsOf, Alone!FlagsOf, Remapping!FrameOf,
         Alone!FrameOf, Remapping!IdentityJob, Alone!IdentityJob
<1>13. Remapping!EndSection => Alone!EndSection
  BY Fields, SameOperators, SameAccess
     DEF Remapping!EndSection, Alone!EndSection, Remapping!Section,
         Alone!Section, Remapping!PagesLeft, Alone!PagesLeft,
         Remapping!LastAddr, Alone!LastAddr
<1>14. Remapping!MapVga => Alone!MapVga
  BY Fields, SameOperators, SameAccess
     DEF Remapping!MapVga, Alone!MapVga, Remapping!StartJob, Alone!StartJob,
         Remapping!IdentityJob, Alone!IdentityJob
<1>15. Remapping!MapMultibootPage => Alone!MapMultibootPage
  BY Fields, SameOperators, SameAccess
     DEF Remapping!MapMultibootPage, Alone!MapMultibootPage,
         Remapping!StartJob, Alone!StartJob, Remapping!IdentityJob,
         Alone!IdentityJob, Remapping!FrameOf, Alone!FrameOf,
         Remapping!MultibootBound, Alone!MultibootBound,
         Remapping!SizeOfMultibootStart, Alone!SizeOfMultibootStart
<1>16. Remapping!RestoreOldRoot => Alone!RestoreOldRoot
  BY Fields, SameOperators, SameAccess
     DEF Remapping!RestoreOldRoot, Alone!RestoreOldRoot,
         Remapping!StoreRecursion, Alone!StoreRecursion,
         Remapping!MultibootBound, Alone!MultibootBound,
         Remapping!SizeOfMultibootStart, Alone!SizeOfMultibootStart
<1>17. Remapping!UnmapOldRoot => Alone!UnmapOldRoot
  BY Fields, SameOperators, SameAccess
     DEF Remapping!UnmapOldRoot, Alone!UnmapOldRoot, Remapping!StartJob,
         Alone!StartJob
<1>18. Remapping!SwitchRoot => Alone!SwitchRoot
  BY Fields, SameOperators, SameAccess
     DEF Remapping!SwitchRoot, Alone!SwitchRoot
<1>19. Remapping!UnmapGuardPage => Alone!UnmapGuardPage
  BY Fields, SameOperators, SameAccess
     DEF Remapping!UnmapGuardPage, Alone!UnmapGuardPage, Remapping!StartJob,
         Alone!StartJob
<1>20. Remapping!HeapMapped => Alone!HeapMapped
  BY Fields, SameOperators, SameAccess
     DEF Remapping!HeapMapped, Alone!HeapMapped
<1>21. Remapping!PageFault => Alone!PageFault
  BY SameAccess DEF Remapping!PageFault, Alone!PageFault
<1>22. job.unmap /\ Remapping!NullTable => Alone!NullTable
  BY SameOperators, SameAccess DEF Remapping!NullTable, Alone!NullTable
<1> QED
  BY <1>1, <1>2, <1>3, <1>4, <1>5, <1>6, <1>7, <1>8, <1>9, <1>10, <1>11, <1>12,
     <1>13, <1>14, <1>15, <1>16, <1>17, <1>18, <1>19, <1>20, <1>21, <1>22

(* The pool, by the name the theorems about the allocator know it.          *)
LEMMA SamePool == AP!Pool = Allocator!Pool
BY DEF
  AP!Pool, Allocator!Pool, AP!WalkedAreas, Allocator!WalkedAreas,
  AP!LargeAreas, Allocator!LargeAreas, AP!Entries, Allocator!Entries,
  AP!Base, Allocator!Base, AP!Length, Allocator!Length,
  AP!LastAddr, Allocator!LastAddr, AP!KernelSpan, Allocator!KernelSpan,
  AP!MultibootSpan, Allocator!MultibootSpan, AP!Sections, Allocator!Sections,
  AP!SectionStarts, Allocator!SectionStarts, AP!SectionEnds,
  Allocator!SectionEnds, AP!get_frame_for_addr, Allocator!get_frame_for_addr

(* And likewise after a step.                                               *)
LEMMA SamePoolNext == AP!Pool' = Allocator!Pool'
BY DEF
  AP!Pool, Allocator!Pool, AP!WalkedAreas, Allocator!WalkedAreas,
  AP!LargeAreas, Allocator!LargeAreas, AP!Entries, Allocator!Entries,
  AP!Base, Allocator!Base, AP!Length, Allocator!Length,
  AP!LastAddr, Allocator!LastAddr, AP!KernelSpan, Allocator!KernelSpan,
  AP!MultibootSpan, Allocator!MultibootSpan, AP!Sections, Allocator!Sections,
  AP!SectionStarts, Allocator!SectionStarts, AP!SectionEnds,
  Allocator!SectionEnds, AP!get_frame_for_addr, Allocator!get_frame_for_addr

\* The machine is one of those assumed, and the allocator's walk is as proved.
BootInvariant == d \in Machines /\ AP!WalkInvariant

(* A frame the allocator returns is the one Paging takes from the pool.     *)
LEMMA FrameAgrees ==
  ASSUME BootInvariant, Allocator!TakeFrame
  PROVE  /\ Allocator!Pool # {}
         /\ \A f : Remapping!allocate_frame(f) => Alone!allocate_frame(f)
         /\ \A f : Remapping!allocate_frame(f) => f \in Allocator!Pool
<1>1. /\ next_free_frame \in Allocator!Pool
      /\ \A g \in Allocator!Pool : next_free_frame <= g
      /\ Allocator!Pool' = Allocator!Pool \ {next_free_frame}
  BY SameSteps, SamePool, SamePoolNext, AllocatorAssumptions, AP!TakesLowest
     DEF BootInvariant
<1>2. Offered = {next_free_frame}
  BY DEF Allocator!TakeFrame, Offered
<1>3. ASSUME NEW f, Remapping!allocate_frame(f)
      PROVE  f = next_free_frame /\ UNCHANGED exhausted
  BY <1>2, <1>3 DEF Remapping!allocate_frame
<1> QED
  BY <1>1, <1>3 DEF Alone!allocate_frame

(* A failure of the allocator is one of the empty pool.                     *)
LEMMA FailureAgrees ==
  ASSUME BootInvariant, Allocator!NoAreaLeft
  PROVE  /\ Allocator!Pool = {} /\ Allocator!Pool' = {}
         /\ \A f : Remapping!allocate_frame(f) => Alone!allocate_frame(f)
<1>1. Allocator!Pool = {} /\ Allocator!Pool' = Allocator!Pool
  BY SameSteps, SamePool, SamePoolNext, AllocatorAssumptions, AP!FailsEmpty
     DEF BootInvariant
<1>2. Offered = {}
  BY DEF Allocator!NoAreaLeft, Offered
<1>3. ASSUME NEW f, Remapping!allocate_frame(f)
      PROVE  f = 0 /\ exhausted' = TRUE
  BY <1>2, <1>3 DEF Remapping!allocate_frame
<1> QED
  BY <1>1, <1>3 DEF Alone!allocate_frame

(* The steps that take a frame, or go on without one.                       *)
LEMMA AllocatingSteps ==
  ASSUME d \in Machines, d' = d,
         \A f : Remapping!allocate_frame(f) => Alone!allocate_frame(f),
         \A f : Remapping!allocate_frame(f) => f \in Allocator!Pool \cup {0}
  PROVE  /\ Remapping!AllocateNewRoot => Alone!AllocateNewRoot
         /\ Remapping!MapHeapPage => Alone!MapHeapPage
<1>1. Remapping!AllocateNewRoot => Alone!AllocateNewRoot
  BY SameOperators DEF Remapping!AllocateNewRoot, Alone!AllocateNewRoot,
     Remapping!StartJob, Alone!StartJob
<1>2. Remapping!MapHeapPage => Alone!MapHeapPage
  BY SameOperators DEF Remapping!MapHeapPage, Alone!MapHeapPage,
     Remapping!StartJob, Alone!StartJob
<1> QED
  BY <1>1, <1>2

(* A call of the allocator returns into the remapping.                      *)
LEMMA ReturnFrameStep ==
  ASSUME BootInvariant, ReturnFrame
  PROVE  Alone!Next
<1>1. /\ d \in Machines /\ d' = d /\ Allocator!TakeFrame
  BY DEF BootInvariant, ReturnFrame
<1>2. /\ Allocator!Pool # {}
      /\ \A f : Remapping!allocate_frame(f) => Alone!allocate_frame(f)
      /\ \A f : Remapping!allocate_frame(f) => f \in Allocator!Pool
  BY <1>1, FrameAgrees
<1>3. CASE Remapping!AllocateNewRoot
  BY <1>1, <1>2, <1>3, AllocatingSteps DEF Alone!Next, Alone!remap_kernel
<1>4. CASE Remapping!MapHeapPage
  BY <1>1, <1>2, <1>4, AllocatingSteps DEF Alone!Next, Alone!init_heap
<1>5. CASE Remapping!CreateTable
  <2>1. Alone!CreateTable
    BY <1>1, <1>2, <1>5, SameOperators, SameAccess
       DEF Remapping!CreateTable, Alone!CreateTable,
           Remapping!DownOneLevel, Alone!DownOneLevel
  <2> QED
    BY <2>1 DEF Alone!Next, Alone!MapOrUnmap
<1> QED
  BY <1>3, <1>4, <1>5 DEF ReturnFrame

(* So does one that failed, which the remapping survives without a frame.   *)
LEMMA ReturnFailureStep ==
  ASSUME BootInvariant, ReturnFailure
  PROVE  Alone!Next
<1>1. /\ d \in Machines /\ d' = d /\ Allocator!NoAreaLeft
  BY DEF BootInvariant, ReturnFailure
<1>2. /\ Allocator!Pool = {} /\ Allocator!Pool' = {}
      /\ \A f : Remapping!allocate_frame(f) => Alone!allocate_frame(f)
  BY <1>1, FailureAgrees
<1>3. \A f : Remapping!allocate_frame(f) => f \in Allocator!Pool \cup {0}
  BY <1>2 DEF Alone!allocate_frame
<1>4. CASE Remapping!AllocateNewRoot
  BY <1>1, <1>2, <1>3, <1>4, AllocatingSteps DEF Alone!Next, Alone!remap_kernel
<1>5. CASE Remapping!MapHeapPage
  BY <1>1, <1>2, <1>3, <1>5, AllocatingSteps DEF Alone!Next, Alone!init_heap
<1>6. CASE Remapping!NullTable
  <2>1. Alone!NullTable
    BY <1>1, <1>2, <1>6, SameOperators, SameAccess
       DEF Remapping!NullTable, Alone!NullTable
  <2> QED
    BY <2>1 DEF Alone!Next, Alone!MapOrUnmap
<1> QED
  BY <1>4, <1>5, <1>6 DEF ReturnFailure

(* Where nothing is allocated, the two take the same steps.                 *)
LEMMA RemappingStepAlone ==
  ASSUME BootInvariant, RemappingStep
  PROVE  Alone!Next
<1>1. /\ d \in Machines /\ d' = d /\ call = "ready"
      /\ (~NeedsFrame /\ Remapping!Next) \/ Remapping!PageFault
  BY DEF BootInvariant, RemappingStep
<1>2. Allocator!Pool' = Allocator!Pool
  <2>1. data' = data /\ handed' = handed
    BY DEF RemappingStep, allocator, data
  <2> QED
    BY <2>1, SamePool, SamePoolNext, AllocatorAssumptions, AP!PoolKept
<1>3. CASE Remapping!PageFault
  BY <1>1, <1>2, <1>3, SilentSteps DEF Alone!Next
<1>4. CASE ~NeedsFrame /\ Remapping!Next /\ ~Remapping!PageFault
  <2>1. /\ ~Remapping!AllocateNewRoot /\ ~Remapping!MapHeapPage
        /\ ~Remapping!CreateTable
    BY <1>4 DEF NeedsFrame, Remapping!AllocateNewRoot, Remapping!MapHeapPage,
                Remapping!CreateTable
  <2>2. Remapping!NullTable => job.unmap
    BY <1>4 DEF NeedsFrame, Remapping!NullTable, Remapping!NeedsTable
  <2>3. Remapping!Ended => Alone!Ended
    BY <1>1, <1>2 DEF Remapping!Ended, Alone!Ended, Remapping!vars, Alone!vars
  <2> QED
    BY <1>1, <1>2, <1>4, <2>1, <2>2, <2>3, SilentSteps
       DEF Remapping!Next, Alone!Next, Remapping!MapOrUnmap, Alone!MapOrUnmap,
           Remapping!remap_kernel, Alone!remap_kernel, Remapping!MapSections,
           Alone!MapSections, Remapping!init_heap, Alone!init_heap
<1> QED
  BY <1>1, <1>3, <1>4

(* What the allocator can still give: FramesOf, in terms of the machine, but *)
(* for what it has given.                                                   *)
LEMMA PoolOfMachine ==
  ASSUME d \in Machines
  PROVE  Allocator!Pool = FramesOf(d) \ handed
<1> DEFINE maps == d.memory_maps
           n == Len(maps)
           page(a) == a \div PAGE_SIZE
           ends(A) == UNION {0 .. page(a.base_addr + a.length - 1) : a \in A}
<1>1. /\ n \in Nat /\ Len(d.sections) \in Nat
      /\ \A i \in 1 .. n : i - 1 \in 0 .. n - 1 /\ (i - 1) + 1 = i
      /\ \A i \in 0 .. n - 1 : i + 1 \in 1 .. n
  BY MachinesAssumption
<1>2. /\ data.num_entries = n /\ data.num = Len(d.sections)
      /\ data.start = d.start /\ data.total_size = d.total_size
      /\ \A i \in 0 .. n - 1 : data.memory_maps[i] = maps[i + 1]
      /\ \A i \in 0 .. Len(d.sections) - 1 :
           data.sectionheaders[i] = [sh_addr |-> d.sections[i + 1].sh_addr,
                                     sh_size |-> d.sections[i + 1].sh_size]
  BY DEF data, BootInfoOf
<1>3. Allocator!Entries = 0 .. n - 1
  BY <1>2 DEF Allocator!Entries
<1> HIDE DEF n
<1>4. \A i \in 0 .. n - 1 :
        /\ Allocator!Length(i) = maps[i + 1].length
        /\ Allocator!LastAddr(i) =
             maps[i + 1].base_addr + maps[i + 1].length - 1
  BY <1>2 DEF Allocator!Length, Allocator!Base, Allocator!LastAddr
<1> DEFINE large == {a \in Areas(d) : a.length >= PAGE_SIZE}
           first == {maps[i] : i \in 1 .. n \cap {1}}
           Of(I) == {maps[i + 1] : i \in I}
<1>5. Of(Allocator!LargeAreas) = large
  <2>1. Allocator!LargeAreas =
          {i \in 0 .. n - 1 : maps[i + 1].length >= PAGE_SIZE}
    BY <1>3, <1>4 DEF Allocator!LargeAreas
  <2>2. Areas(d) = {maps[i] : i \in 1 .. n}
    BY DEF Areas, n
  <2>3. ASSUME NEW i \in Allocator!LargeAreas PROVE maps[i + 1] \in large
    BY <1>1, <2>1, <2>2
  <2>4. ASSUME NEW a \in large
        PROVE  \E i \in Allocator!LargeAreas : a = maps[i + 1]
    <3>1. PICK i \in 1 .. n : a = maps[i]
      BY <2>2
    <3> QED
      BY <1>1, <2>1, <3>1
  <2> HIDE DEF large
  <2> QED
    BY <2>3, <2>4
<1>6. Of(Allocator!Entries \cap {0}) = first
  BY <1>1, <1>3
<1>7. Of(Allocator!WalkedAreas) = IF large # {} THEN large ELSE first
  <2>1. Allocator!LargeAreas = {} <=> large = {}
    BY <1>5
  <2> HIDE DEF large, first, Of
  <2> QED
    BY <1>5, <1>6, <2>1 DEF Allocator!WalkedAreas
<1>8. Allocator!WalkedAreas \subseteq 0 .. n - 1
  BY <1>3 DEF Allocator!WalkedAreas, Allocator!LargeAreas
<1>9. UNION {0 .. Allocator!get_frame_for_addr(Allocator!LastAddr(i)) :
               i \in Allocator!WalkedAreas} = ends(Of(Allocator!WalkedAreas))
  <2>1. \A i \in Allocator!WalkedAreas :
          0 .. Allocator!get_frame_for_addr(Allocator!LastAddr(i)) =
            0 .. page(maps[i + 1].base_addr + maps[i + 1].length - 1)
    BY <1>4, <1>8 DEF Allocator!get_frame_for_addr
  <2> QED
    BY <2>1
<1> DEFINE starts == {s.sh_addr : s \in {t \in Headers(d) : t.sh_size > 0}}
                       \cup {UINTPTR_MAX}
           stops == {s.sh_addr + s.sh_size : s \in Headers(d)} \cup {0}
<1>10. Allocator!SectionStarts = starts /\ Allocator!SectionEnds = stops
  <2> DEFINE k == Len(d.sections)
             Short(s) == [sh_addr |-> s.sh_addr, sh_size |-> s.sh_size]
  <2>1. Allocator!Sections = {Short(d.sections[i + 1]) : i \in 0 .. k - 1}
    <3>1. \A i \in 0 .. k - 1 :
            data.sectionheaders[i] = Short(d.sections[i + 1])
      BY <1>2
    <3>2. Allocator!Sections = {data.sectionheaders[i] : i \in 0 .. k - 1}
      BY <1>2 DEF Allocator!Sections
    <3> HIDE DEF Short, k
    <3> QED
      BY <3>1, <3>2
  <2>2. Allocator!Sections = {Short(s) : s \in Headers(d)}
    <3>1. /\ \A i \in 1 .. k : i - 1 \in 0 .. k - 1 /\ (i - 1) + 1 = i
          /\ \A i \in 0 .. k - 1 : i + 1 \in 1 .. k
      BY <1>1
    <3> QED
      BY <2>1, <3>1 DEF Headers
  <2>3. \A s : Short(s).sh_addr = s.sh_addr /\ Short(s).sh_size = s.sh_size
    OBVIOUS
  <2> HIDE DEF Short
  <2> QED
    BY <2>2, <2>3 DEF Allocator!SectionStarts, Allocator!SectionEnds
<1>11. \A f : /\ Allocator!KernelSpan(f) <=>
                   \E a \in starts, e \in stops : page(a) <= f /\ f <= page(e)
              /\ Allocator!MultibootSpan(f) <=>
                   page(d.start) <= f /\ f <= page(d.start + d.total_size)
  BY <1>2, <1>10 DEF Allocator!KernelSpan, Allocator!MultibootSpan,
                     Allocator!get_frame_for_addr
<1> DEFINE walked == IF large # {} THEN large ELSE first
<1>12. FramesOf(d) =
         {f \in ends(walked) :
            /\ ~(\E a \in starts, e \in stops : page(a) <= f /\ f <= page(e))
            /\ ~(page(d.start) <= f /\ f <= page(d.start + d.total_size))}
  BY DEF FramesOf, n
<1>13. Allocator!Pool = {f \in ends(walked) : ~Allocator!KernelSpan(f)
                                           /\ ~Allocator!MultibootSpan(f)
                                           /\ f \notin handed}
  <2> HIDE DEF walked, ends
  <2>1. walked = Of(Allocator!WalkedAreas)
    BY <1>7 DEF walked
  <2> QED
    BY <1>9, <2>1 DEF Allocator!Pool
<1> HIDE DEF walked, ends, starts, stops, page
<1> QED
  BY <1>11, <1>12, <1>13

(* At first the pool is the layout's free frames, and memory is zero.       *)
LEMMA InitAlone == Init => Alone!Init
<1> SUFFICES ASSUME Init PROVE Alone!Init
  OBVIOUS
<1>1. /\ d \in Machines /\ handed = {}
      /\ Allocator!Init /\ Remapping!Init
  BY DEF Init, Allocator!Init
<1>2. /\ d.free = FramesOf(d) /\ d.free \cap {d.p4, d.p3, d.p2} = {}
      /\ Alone!EmptyTable \in Leftovers
  BY <1>1, MachinesAssumption
     DEF Alone!EmptyTable, Alone!Indices, Alone!R, Alone!Unused
<1>3. Allocator!Pool = FramesOf(d)
  BY <1>1, PoolOfMachine
<1>4. \A f : Remapping!BootTable(WithoutFree(d), f) = Alone!BootTable(d, f)
  BY <1>1, Fields, SameOperators
     DEF Remapping!BootTable, Alone!BootTable, Remapping!R, Alone!R,
         Remapping!Indices, Alone!Indices
<1>5. \A f \in d.free : Alone!BootTable(d, f) = Alone!EmptyTable
  BY <1>2 DEF Alone!BootTable
<1>6. mem = [f \in Frames |-> Alone!BootTable(d, f)]
  <2>1. WithoutFree(d).free = {}
    BY <1>1, MachinesAssumption DEF WithoutFree
  <2>2. mem = [f \in Frames |-> Remapping!BootTable(WithoutFree(d), f)]
    BY <1>1, <2>1 DEF Remapping!Init
  <2> QED
    BY <1>4, <2>2
<1>7. mem = [f \in Frames |-> IF f \in d.free THEN Alone!EmptyTable
                              ELSE Alone!BootTable(d, f)]
  BY <1>5, <1>6
<1> QED
  BY <1>1, <1>2, <1>3, <1>7, Fields
     DEF Remapping!Init, Alone!Init, Remapping!NoJob, Alone!NoJob

(* A step of the boot is one of Paging over the pool, or, while a call of   *)
(* allocate_frame is under way, a stutter.                                  *)
LEMMA NextAlone == BootInvariant /\ [Next]_vars => [Alone!Next]_(Alone!vars)
<1> SUFFICES ASSUME BootInvariant, [Next]_vars PROVE [Alone!Next]_(Alone!vars)
  OBVIOUS
<1>1. ASSUME UNCHANGED <<d, remapping>>, handed' = handed
      PROVE  UNCHANGED Alone!vars
  <2>1. Allocator!Pool' = Allocator!Pool
    BY <1>1, SamePool, SamePoolNext, AllocatorAssumptions, AP!PoolKept DEF data
  <2> QED
    BY <1>1, <2>1 DEF Alone!vars, remapping
<1>2. CASE InitAllocator
  BY <1>1, <1>2 DEF InitAllocator, Allocator!init_allocator
<1>3. CASE Call
  BY <1>1, <1>3 DEF Call, Allocator!allocate_frame
<1>4. CASE Turn
  BY <1>1, <1>4 DEF Turn, Allocator!switch_area, Allocator!SkipReserved
<1>5. CASE UNCHANGED vars
  BY <1>1, <1>5 DEF vars, allocator
<1> QED
  BY <1>2, <1>3, <1>4, <1>5, ReturnFrameStep, ReturnFailureStep,
     RemappingStepAlone DEF Next

(* The invariant holds throughout the boot; the multiboot structure that    *)
(* allocator and remapping read is one and stays as it is.                  *)
THEOREM BootCorrect == Spec => []BootInvariant
<1>1. Init => d \in Machines
  BY DEF Init
<1>2. d \in Machines /\ [Next]_vars => (d \in Machines)'
  BY DEF Next, vars, InitAllocator, Call, Turn, ReturnFrame, ReturnFailure,
         RemappingStep
<1>3. Spec => [](d \in Machines)
  BY <1>1, <1>2, PTL DEF Spec
<1> QED
  BY <1>3, WalkCorrect, PTL DEF BootInvariant

(* kernel_main's calls of allocate_frame give the remapping and the heap    *)
(* what Paging takes for granted: the lowest free frame, each once, and 0   *)
(* only when there is none.                                                 *)
THEOREM Refinement == Spec => ImplementsPaging
BY InitAlone, NextAlone, BootCorrect, PTL DEF Spec, ImplementsPaging, Alone!Spec

-----------------------------------------------------------------------------
(* What is proved of Paging, for the boot *)

(* Machines are what Paging takes them for, and their memory is zero.       *)
LEMMA PagingAssumptions ==
  /\ PP!EntryCountAssumption /\ PP!PagingAssumption /\ PP!PlacesAssumption
  /\ PP!LayoutAssumption /\ PP!ImageAssumption
  /\ PP!ZeroedMemory
<1> USE DEF Alone!R, PP!R, Alone!Indices, PP!Indices, Alone!Pages, PP!Pages,
            Alone!IndexAt, PP!IndexAt, Alone!RecursiveIndex, PP!RecursiveIndex,
            Alone!FrameOf, PP!FrameOf, Alone!IsAllocated, PP!IsAllocated,
            Alone!LastAddr, PP!LastAddr, Alone!PagesOf, PP!PagesOf,
            Alone!SizeOfMultibootStart, PP!SizeOfMultibootStart
<1>1. PP!EntryCountAssumption
  BY RemappingAssumption DEF Alone!EntryCountAssumption, PP!EntryCountAssumption
<1>2. PP!PagingAssumption
  BY RemappingAssumption DEF Alone!PagingAssumption, PP!PagingAssumption
<1>3. PP!PlacesAssumption
  BY RemappingAssumption
     DEF Alone!PlacesAssumption, PP!PlacesAssumption, Alone!DistantPages, PP!DistantPages
<1>4. PP!LayoutAssumption
  <2>1. \A l : Alone!LayoutOK(l) => PP!LayoutOK(l)
    BY DEF Alone!LayoutOK, PP!LayoutOK
  <2> QED
    BY <2>1, RemappingAssumption DEF Alone!LayoutAssumption, PP!LayoutAssumption
<1>5. PP!ImageAssumption
  <2>1. \A l : Alone!ImageOK(l) => PP!ImageOK(l)
    BY DEF Alone!ImageOK, PP!ImageOK, Alone!StructurePages, PP!StructurePages
  <2> QED
    BY <2>1, RemappingAssumption DEF Alone!ImageAssumption, PP!ImageAssumption
<1>6. PP!ZeroedMemory
  BY MachinesAssumption DEF PP!ZeroedMemory, PP!EmptyTable, PP!Unused
<1> QED
  BY <1>1, <1>2, <1>3, <1>4, <1>5, <1>6

(* The operators of Paging, under the names the theorems know them by.       *)
LEMMA PagingOperators ==
  /\ Alone!p4_table = PP!p4_table
  /\ Alone!RecursiveIndex = PP!RecursiveIndex
  /\ Alone!EmptyTable = PP!EmptyTable
  /\ Alone!Unused = PP!Unused
  /\ Alone!Writeable = PP!Writeable
  /\ Alone!NoJob = PP!NoJob
  /\ \A e : Alone!Present(e) = PP!Present(e)
  /\ \A f, flags : Alone!EntryFor(f, flags) = PP!EntryFor(f, flags)
  /\ \A t, i : Alone!descened_page_table(t, i) = PP!descened_page_table(t, i)
  /\ \A page : Alone!Translation(page) = PP!Translation(page)
  /\ Alone!NoLeaf = PP!NoLeaf
  /\ \A m, root, page : Alone!Walk(m, root, page) = PP!Walk(m, root, page)
  /\ \A t, i, e : Alone!Stored(t, i, e) = PP!Stored(t, i, e)
  /\ Alone!Index = PP!Index
  /\ Alone!EntryAtIndex = PP!EntryAtIndex
  /\ \A page, f, flags, then :
        Alone!MapJob(page, f, flags, then) = PP!MapJob(page, f, flags, then)
  /\ \A page, then : Alone!UnmapJob(page, then) = PP!UnmapJob(page, then)
  /\ \A f, flags, then :
        Alone!IdentityJob(f, flags, then) = PP!IdentityJob(f, flags, then)
  /\ \A l, f : Alone!BootTable(l, f) = PP!BootTable(l, f)
  /\ \A a : Alone!FrameOf(a) = PP!FrameOf(a)
  /\ \A s : Alone!IsAllocated(s) = PP!IsAllocated(s)
  /\ \A s : Alone!FlagsOf(s) = PP!FlagsOf(s)
  /\ \A s : Alone!SectionAsserts(s) = PP!SectionAsserts(s)
  /\ \A s : Alone!PagesLeft(s) = PP!PagesLeft(s)
  /\ Alone!AtSection = PP!AtSection
  /\ Alone!Section = PP!Section
  /\ Alone!MultibootBound = PP!MultibootBound
  /\ Alone!AfterFlush = PP!AfterFlush
<1> USE DEF Alone!R, PP!R, Alone!Indices, PP!Indices, Alone!Unused, PP!Unused,
            Alone!Present, PP!Present, Alone!IndexAt, PP!IndexAt
<1>1. Alone!p4_table = PP!p4_table
  BY DEF Alone!p4_table, PP!p4_table
<1>2. Alone!RecursiveIndex = PP!RecursiveIndex
  BY DEF Alone!RecursiveIndex, PP!RecursiveIndex
<1>3. Alone!EmptyTable = PP!EmptyTable
  BY DEF Alone!EmptyTable, PP!EmptyTable
<1>4. Alone!Unused = PP!Unused
  OBVIOUS
<1>5. Alone!Writeable = PP!Writeable
  BY DEF Alone!Writeable, PP!Writeable
<1>6. Alone!NoJob = PP!NoJob
  BY DEF Alone!NoJob, PP!NoJob
<1>7. \A e : Alone!Present(e) = PP!Present(e)
  OBVIOUS
<1>8. \A f, flags : Alone!EntryFor(f, flags) = PP!EntryFor(f, flags)
  BY DEF Alone!EntryFor, PP!EntryFor
<1>9. \A t, i : Alone!descened_page_table(t, i) = PP!descened_page_table(t, i)
  BY DEF Alone!descened_page_table, PP!descened_page_table
<1>10. \A m, root, page : Alone!Walk(m, root, page) = PP!Walk(m, root, page)
  <2> SUFFICES ASSUME NEW m, NEW root, NEW page
               PROVE  Alone!Walk(m, root, page) = PP!Walk(m, root, page)
    OBVIOUS
  <2> QED
    BY Zenon DEF Alone!Walk, PP!Walk, Alone!NoLeaf, PP!NoLeaf, Alone!LeafOf, PP!LeafOf,
                 Alone!Allowed, PP!Allowed
<1>11. /\ \A page : Alone!Translation(page) = PP!Translation(page)
       /\ Alone!NoLeaf = PP!NoLeaf
  BY <1>10 DEF Alone!Translation, PP!Translation, Alone!NoLeaf, PP!NoLeaf
<1>12. \A t, i, e : Alone!Stored(t, i, e) = PP!Stored(t, i, e)
  BY <1>11 DEF Alone!Stored, PP!Stored
<1>13. Alone!Index = PP!Index
  BY DEF Alone!Index, PP!Index
<1>14. Alone!EntryAtIndex = PP!EntryAtIndex
  BY <1>11, <1>13 DEF Alone!EntryAtIndex, PP!EntryAtIndex
<1>15. \A page, f, flags, then :
        Alone!MapJob(page, f, flags, then) = PP!MapJob(page, f, flags, then)
  BY DEF Alone!p4_table, PP!p4_table, Alone!MapJob, PP!MapJob
<1>16. \A page, then : Alone!UnmapJob(page, then) = PP!UnmapJob(page, then)
  BY DEF Alone!p4_table, PP!p4_table, Alone!UnmapJob, PP!UnmapJob
<1>17. \A f, flags, then :
        Alone!IdentityJob(f, flags, then) = PP!IdentityJob(f, flags, then)
  BY <1>15 DEF Alone!IdentityJob, PP!IdentityJob
<1>18. \A l, f : Alone!BootTable(l, f) = PP!BootTable(l, f)
  BY DEF Alone!RecursiveIndex, PP!RecursiveIndex, Alone!EmptyTable,
         PP!EmptyTable, Alone!EntryFor, PP!EntryFor, Alone!Writeable,
         PP!Writeable, Alone!BootTable, PP!BootTable
<1>19. \A a : Alone!FrameOf(a) = PP!FrameOf(a)
  BY DEF Alone!FrameOf, PP!FrameOf
<1>20. \A s : Alone!IsAllocated(s) = PP!IsAllocated(s)
  BY DEF Alone!IsAllocated, PP!IsAllocated
<1>21. \A s : Alone!FlagsOf(s) = PP!FlagsOf(s)
  BY DEF Alone!FlagsOf, PP!FlagsOf
<1>22. \A s : Alone!SectionAsserts(s) = PP!SectionAsserts(s)
  BY DEF Alone!LastAddr, PP!LastAddr, Alone!SectionAsserts, PP!SectionAsserts
<1>23. \A s : Alone!PagesLeft(s) = PP!PagesLeft(s)
  BY DEF Alone!LastAddr, PP!LastAddr, Alone!PagesLeft, PP!PagesLeft
<1>24. Alone!AtSection = PP!AtSection
  BY DEF Alone!AtSection, PP!AtSection
<1>25. Alone!Section = PP!Section
  BY DEF Alone!Section, PP!Section
<1>26. Alone!MultibootBound = PP!MultibootBound
  BY DEF Alone!SizeOfMultibootStart, PP!SizeOfMultibootStart,
         Alone!MultibootBound, PP!MultibootBound
<1>27. Alone!AfterFlush = PP!AfterFlush
  BY DEF Alone!AfterFlush, PP!AfterFlush
<1> QED
  BY <1>1, <1>2, <1>3, <1>4, <1>5, <1>6, <1>7, <1>8, <1>9, <1>10, <1>11, <1>12,
     <1>13, <1>14, <1>15, <1>16, <1>17, <1>18, <1>19, <1>20, <1>21, <1>22,
     <1>23, <1>24, <1>25, <1>26, <1>27

(* What the next step reads, and where the code lies.                       *)
LEMMA PagingAccess ==
  /\ Alone!AccessMapped = PP!AccessMapped
  /\ Alone!Cached = PP!Cached
  /\ Alone!OnTheWay = PP!OnTheWay
  /\ Alone!NeedsTable = PP!NeedsTable
  /\ Alone!CodeGone => PP!CodeGone
<1>1. Alone!NextAccess = PP!NextAccess
  BY PagingOperators DEF Alone!NextAccess, PP!NextAccess
<1>2. Alone!AccessMapped = PP!AccessMapped
  BY <1>1, PagingOperators DEF Alone!AccessMapped, PP!AccessMapped
<1>3. Alone!Cached = PP!Cached
  BY <1>1, PagingOperators DEF Alone!Cached, PP!Cached
<1>4. Alone!OnTheWay = PP!OnTheWay
  BY <1>2 DEF Alone!OnTheWay, PP!OnTheWay
<1>5. Alone!NeedsTable = PP!NeedsTable
  BY <1>4, PagingOperators DEF Alone!NeedsTable, PP!NeedsTable
<1>6. Alone!CodeGone => PP!CodeGone
  <2>1. Alone!Loaded = PP!Loaded
    BY DEF Alone!Loaded, PP!Loaded, Alone!Sections, PP!Sections,
           Alone!IsAllocated, PP!IsAllocated
  <2>2. \A x : Alone!PagesOf(x) = PP!PagesOf(x)
    BY DEF Alone!PagesOf, PP!PagesOf, Alone!FrameOf, PP!FrameOf,
           Alone!LastAddr, PP!LastAddr
  <2> QED
    BY <2>1, <2>2, PagingOperators DEF Alone!CodeGone, PP!CodeGone
<1> QED
  BY <1>2, <1>3, <1>4, <1>5, <1>6

(* Their actions.                                                            *)
LEMMA PagingSteps ==
  /\ Alone!Init => PP!Init
  /\ Alone!Descend => PP!Descend
  /\ Alone!CreateTable => PP!CreateTable
  /\ Alone!NullTable => PP!NullTable
  /\ Alone!SetLeaf => PP!SetLeaf
  /\ Alone!ClearLeaf => PP!ClearLeaf
  /\ Alone!AllocateNewRoot => PP!AllocateNewRoot
  /\ Alone!MapOldRoot => PP!MapOldRoot
  /\ Alone!flush_tlb => PP!flush_tlb
  /\ Alone!ClearNewRoot => PP!ClearNewRoot
  /\ Alone!MakeNewRecursive => PP!MakeNewRecursive
  /\ Alone!PointOldAtNew => PP!PointOldAtNew
  /\ Alone!SkipSection => PP!SkipSection
  /\ Alone!AssertFails => PP!AssertFails
  /\ Alone!BeginSection => PP!BeginSection
  /\ Alone!MapSectionPage => PP!MapSectionPage
  /\ Alone!EndSection => PP!EndSection
  /\ Alone!MapVga => PP!MapVga
  /\ Alone!MapMultibootPage => PP!MapMultibootPage
  /\ Alone!RestoreOldRoot => PP!RestoreOldRoot
  /\ Alone!UnmapOldRoot => PP!UnmapOldRoot
  /\ Alone!SwitchRoot => PP!SwitchRoot
  /\ Alone!UnmapGuardPage => PP!UnmapGuardPage
  /\ Alone!MapHeapPage => PP!MapHeapPage
  /\ Alone!HeapMapped => PP!HeapMapped
  /\ Alone!PageFault => PP!PageFault
  /\ Alone!Ended => PP!Ended
<1>1. Alone!Init => PP!Init
  BY PagingOperators, PagingAccess DEF Alone!Init, PP!Init
<1>2. Alone!Descend => PP!Descend
  BY PagingOperators, PagingAccess DEF Alone!Descend, PP!Descend, Alone!DownOneLevel,
         PP!DownOneLevel
<1>3. Alone!CreateTable => PP!CreateTable
  BY PagingOperators, PagingAccess DEF Alone!CreateTable, PP!CreateTable,
         Alone!allocate_frame, PP!allocate_frame, Alone!DownOneLevel,
         PP!DownOneLevel
<1>4. Alone!NullTable => PP!NullTable
  BY PagingOperators, PagingAccess DEF Alone!NullTable, PP!NullTable
<1>5. Alone!SetLeaf => PP!SetLeaf
  BY PagingOperators, PagingAccess DEF Alone!SetLeaf, PP!SetLeaf
<1>6. Alone!ClearLeaf => PP!ClearLeaf
  BY PagingOperators, PagingAccess DEF Alone!ClearLeaf, PP!ClearLeaf
<1>7. Alone!AllocateNewRoot => PP!AllocateNewRoot
  BY PagingOperators, PagingAccess DEF Alone!AllocateNewRoot, PP!AllocateNewRoot,
         Alone!StartJob, PP!StartJob, Alone!allocate_frame,
         PP!allocate_frame
<1>8. Alone!MapOldRoot => PP!MapOldRoot
  BY PagingOperators, PagingAccess DEF Alone!MapOldRoot, PP!MapOldRoot, Alone!StartJob,
         PP!StartJob
<1>9. Alone!flush_tlb => PP!flush_tlb
  BY PagingOperators, PagingAccess DEF Alone!flush_tlb, PP!flush_tlb
<1>10. Alone!ClearNewRoot => PP!ClearNewRoot
  BY PagingOperators, PagingAccess DEF Alone!ClearNewRoot, PP!ClearNewRoot
<1>11. Alone!MakeNewRecursive => PP!MakeNewRecursive
  BY PagingOperators, PagingAccess DEF Alone!MakeNewRecursive, PP!MakeNewRecursive,
         Alone!StoreRecursion, PP!StoreRecursion
<1>12. Alone!PointOldAtNew => PP!PointOldAtNew
  BY PagingOperators, PagingAccess DEF Alone!PointOldAtNew, PP!PointOldAtNew,
         Alone!StoreRecursion, PP!StoreRecursion
<1>13. Alone!SkipSection => PP!SkipSection
  BY PagingOperators, PagingAccess DEF Alone!SkipSection, PP!SkipSection
<1>14. Alone!AssertFails => PP!AssertFails
  BY PagingOperators, PagingAccess DEF Alone!AssertFails, PP!AssertFails
<1>15. Alone!BeginSection => PP!BeginSection
  BY PagingOperators, PagingAccess DEF Alone!BeginSection, PP!BeginSection
<1>16. Alone!MapSectionPage => PP!MapSectionPage
  BY PagingOperators, PagingAccess DEF Alone!MapSectionPage, PP!MapSectionPage,
         Alone!StartJob, PP!StartJob
<1>17. Alone!EndSection => PP!EndSection
  BY PagingOperators, PagingAccess DEF Alone!EndSection, PP!EndSection
<1>18. Alone!MapVga => PP!MapVga
  BY PagingOperators, PagingAccess DEF Alone!MapVga, PP!MapVga, Alone!StartJob,
         PP!StartJob
<1>19. Alone!MapMultibootPage => PP!MapMultibootPage
  BY PagingOperators, PagingAccess DEF Alone!MapMultibootPage, PP!MapMultibootPage,
         Alone!StartJob, PP!StartJob
<1>20. Alone!RestoreOldRoot => PP!RestoreOldRoot
  BY PagingOperators, PagingAccess DEF Alone!RestoreOldRoot, PP!RestoreOldRoot,
         Alone!StoreRecursion, PP!StoreRecursion
<1>21. Alone!UnmapOldRoot => PP!UnmapOldRoot
  BY PagingOperators, PagingAccess DEF Alone!UnmapOldRoot, PP!UnmapOldRoot,
         Alone!StartJob, PP!StartJob
<1>22. Alone!SwitchRoot => PP!SwitchRoot
  BY PagingOperators, PagingAccess DEF Alone!SwitchRoot, PP!SwitchRoot
<1>23. Alone!UnmapGuardPage => PP!UnmapGuardPage
  BY PagingOperators, PagingAccess DEF Alone!UnmapGuardPage, PP!UnmapGuardPage,
         Alone!StartJob, PP!StartJob
<1>24. Alone!MapHeapPage => PP!MapHeapPage
  BY PagingOperators, PagingAccess DEF Alone!MapHeapPage, PP!MapHeapPage,
         Alone!StartJob, PP!StartJob, Alone!allocate_frame,
         PP!allocate_frame
<1>25. Alone!HeapMapped => PP!HeapMapped
  BY PagingOperators, PagingAccess DEF Alone!HeapMapped, PP!HeapMapped
<1>26. Alone!Ended => PP!Ended
  BY PagingOperators, PagingAccess DEF Alone!Ended, PP!Ended, Alone!vars, PP!vars
<1>27. Alone!PageFault => PP!PageFault
  BY PagingAccess DEF Alone!PageFault, PP!PageFault
<1> QED
  BY <1>1, <1>2, <1>3, <1>4, <1>5, <1>6, <1>7, <1>8, <1>9, <1>10, <1>11, <1>12,
     <1>13, <1>14, <1>15, <1>16, <1>17, <1>18, <1>19, <1>20, <1>21, <1>22,
     <1>23, <1>24, <1>25, <1>26, <1>27

LEMMA PagingNext == [Alone!Next]_(Alone!vars) => [PP!Next]_(PP!vars)
<1>1. UNCHANGED Alone!vars => UNCHANGED PP!vars
  BY DEF Alone!vars, PP!vars
<1>2. Alone!Next => PP!Next
  BY PagingSteps
     DEF Alone!Next, PP!Next, Alone!MapOrUnmap, PP!MapOrUnmap, Alone!MapSections,
         PP!MapSections, Alone!remap_kernel, PP!remap_kernel,
         Alone!init_heap, PP!init_heap
<1> QED
  BY <1>1, <1>2

LEMMA BootIsPaging == Spec => PP!Spec
<1>1. Init => PP!Init
  BY InitAlone, PagingSteps
<1>2. BootInvariant /\ [Next]_vars => [PP!Next]_(PP!vars)
  BY NextAlone, PagingNext
<1> QED
  BY <1>1, <1>2, BootCorrect, PTL DEF Spec, PP!Spec

(* With the real allocator the remapping has the safety properties that are *)
(* proved of it by itself, with their exceptions: the properties end where  *)
(* a null pointer is taken for a table, and KernelMapped lets go of a page  *)
(* that holds nothing but the last byte of its section.                     *)
THEOREM RemappingSafe ==
  Spec => [](/\ PP!OnCourse => PP!TypeOK
             /\ PP!KernelMapped /\ PP!AccessesCoherent
             /\ PP!EditsTheRightTree /\ PP!TranslateAgrees
             /\ PP!FinalMapping /\ PP!HeapFramesPrivate)
<1>1. PP!Spec => /\ [](PP!OnCourse => PP!TypeOK)
                 /\ []PP!KernelMapped /\ []PP!AccessesCoherent
                 /\ []PP!EditsTheRightTree /\ []PP!TranslateAgrees
                 /\ []PP!FinalMapping /\ []PP!HeapFramesPrivate
  BY PagingAssumptions, PP!TypeCorrect, PP!KernelMappedCorrect, PP!CoherentCorrect,
     PP!RightTreeCorrect, PP!TranslateCorrect, PP!FinalMappingCorrect,
     PP!HeapFramesPrivateCorrect
<1> QED
  BY <1>1, BootIsPaging, PTL

-----------------------------------------------------------------------------
(* Where the allocator's frames go *)

(* The allocator gives only frames of the machine it walks.                 *)
LEMMA HandedStep ==
  BootInvariant /\ handed \subseteq d.free /\ [Next]_vars => (handed \subseteq d.free)'
<1> SUFFICES ASSUME BootInvariant, handed \subseteq d.free, [Next]_vars
             PROVE  (handed \subseteq d.free)'
  OBVIOUS
<1>1. d' = d
  BY DEF Next, vars, InitAllocator, Call, Turn, ReturnFrame, ReturnFailure, RemappingStep
<1>2. CASE Allocator!TakeFrame
  <2>1. next_free_frame \in Allocator!Pool
    BY <1>2, SameSteps, SamePool, AllocatorAssumptions, AP!TakesLowest DEF BootInvariant
  <2>2. next_free_frame \in d.free
    BY <2>1, PoolOfMachine, MachinesAssumption DEF BootInvariant
  <2> QED
    BY <1>1, <1>2, <2>2 DEF Allocator!TakeFrame
<1>3. CASE ~Allocator!TakeFrame
  <2>1. handed' = handed
    BY <1>3 DEF Next, vars, allocator, InitAllocator, Call, Turn, ReturnFrame, ReturnFailure,
                RemappingStep, Allocator!init_allocator, Allocator!allocate_frame,
                Allocator!switch_area, Allocator!SkipReserved, Allocator!NoAreaLeft
  <2> QED
    BY <1>1, <2>1
<1> QED
  BY <1>2, <1>3

(* What is missing in the pool is what was given.                           *)
LEMMA HandedIsMissing ==
  ASSUME d \in Machines, handed \subseteq d.free
  PROVE  d.free \ Allocator!Pool = handed
BY PoolOfMachine, MachinesAssumption

(* What allocate_frame has returned at any time of the boot is what is      *)
(* missing in the pool of the machine's free frames: it loses none.         *)
THEOREM HandedCorrect == Spec => [](handed = d.free \ Allocator!Pool)
<1>1. Init => handed \subseteq d.free
  BY DEF Init, Allocator!Init
<1>2. Spec => [](handed \subseteq d.free)
  BY <1>1, HandedStep, BootCorrect, PTL DEF Spec
<1>3. BootInvariant /\ handed \subseteq d.free => handed = d.free \ Allocator!Pool
  BY HandedIsMissing DEF BootInvariant
<1> QED
  BY <1>2, <1>3, BootCorrect, PTL

(* FramesAccounted, for every machine: once the boot is over, when memory   *)
(* has sufficed and no null pointer was taken for a table, each frame the   *)
(* allocator gave is a table of the new root, one the old root got for the  *)
(* temporary pages, or a page of the heap, and none is two of these.        *)
THEOREM FramesAccountedCorrect == Spec => []FramesAccounted
<1>1. PP!Spec => []PP!Accounted
  BY PagingAssumptions, PP!AccountedCorrect
<1>2. ASSUME d \in Machines, handed = d.free \ Allocator!Pool, PP!Accounted
      PROVE  FramesAccounted
  <2>1. \A root : PP!TableFrames(mem, root) = Remapping!TableFrames(mem, root)
    BY DEF PP!TableFrames, Remapping!TableFrames, PP!Indices, Remapping!Indices,
           PP!R, Remapping!R, PP!RecursiveIndex, Remapping!RecursiveIndex,
           PP!Present, Remapping!Present
  <2>2. \A page : PP!Translation(page) = Remapping!Translation(page)
    BY DEF PP!Translation, Remapping!Translation, PP!Walk, Remapping!Walk,
           PP!IndexAt, Remapping!IndexAt, PP!R, Remapping!R, PP!Present, Remapping!Present,
           PP!Allowed, Remapping!Allowed, PP!LeafOf, Remapping!LeafOf,
           PP!NoLeaf, Remapping!NoLeaf
  <2>3. PP!HeapFrames = HeapFrames
    BY <2>2 DEF PP!HeapFrames, HeapFrames, PP!HeapRange
  <2> QED
    BY <1>2, <2>1, <2>3 DEF PP!Accounted, FramesAccounted
<1> QED
  BY <1>1, <1>2, BootIsPaging, BootCorrect, HandedCorrect, PTL DEF BootInvariant

(* A frame in use is none of those the allocator gives.                     *)
LEMMA InUseNotFree ==
  ASSUME d \in Machines, NEW f \in Frames, InUse(f)
  PROVE  f \notin d.free \cup {d.p4}
<1>1. f # d.p4 /\ d.free = FramesOf(d)
  BY MachinesAssumption DEF InUse
<1>2. /\ PAGE_SIZE \in Nat \ {0} /\ f \in Nat
      /\ d.start \in Nat /\ d.total_size \in Nat
      /\ \A s \in Headers(d) : s.sh_addr \in Nat /\ s.sh_size \in Nat
  <2>1. f \in Nat
    BY PagingAssumptions DEF PP!PagingAssumption, PP!Pages, PP!R, PP!EntryCountAssumption
  <2> QED
    BY <2>1, MachinesAssumption
<1>3. \A a, n \in Nat :
        Allocator!Overlaps(f, a, n) =>
          n > 0 /\ a \div PAGE_SIZE <= f /\ f <= (a + n) \div PAGE_SIZE
  <2>1. \A a, n : Allocator!Overlaps(f, a, n) = AP!Overlaps(f, a, n)
    BY DEF Allocator!Overlaps, AP!Overlaps, Allocator!Apart, AP!Apart,
           Allocator!get_frame_start_addr, AP!get_frame_start_addr
  <2> QED
    BY <1>2, <2>1, AllocatorAssumptions, AP!OverlapBounds
       DEF AP!get_frame_for_addr, AP!Overlaps
<1>4. CASE \E s \in Remapping!Loaded : Allocator!Overlaps(f, s.sh_addr, s.sh_size)
  <2>1. PICK s \in Headers(d) : Allocator!Overlaps(f, s.sh_addr, s.sh_size)
    BY <1>4, Fields DEF Remapping!Loaded, Remapping!Sections, Headers
  <2>2. /\ s.sh_size > 0 /\ s.sh_addr \div PAGE_SIZE <= f
        /\ f <= (s.sh_addr + s.sh_size) \div PAGE_SIZE
    BY <1>2, <1>3, <2>1
  <2> QED
    BY <1>1, <2>1, <2>2 DEF FramesOf
<1>5. CASE Allocator!Overlaps(f, d.start, d.total_size)
  BY <1>1, <1>2, <1>3, <1>5 DEF FramesOf
<1> QED
  BY <1>4, <1>5 DEF InUse

(* ImageUntouched, for every machine: until a null pointer is taken for a   *)
(* table, the remapping writes its tables only to frames it was given and   *)
(* to the root of boot.s, and no byte of a section or of the multiboot      *)
(* structure is in a frame the allocator gives.                             *)
THEOREM ImageUntouchedCorrect == Spec => ImageUntouched
<1>1. PP!Spec => PP!StoresToOwn
  BY PagingAssumptions, PP!StoresToOwnCorrect
<1>2. BootInvariant /\ [~astray => PP!ConfinedStore]_(PP!vars) =>
        [~astray => \A f \in Frames : InUse(f) => mem'[f] = mem[f]]_vars
  <2>1. UNCHANGED PP!vars => mem' = mem
    BY DEF PP!vars
  <2> QED
    BY <2>1, InUseNotFree DEF BootInvariant, PP!ConfinedStore
<1> QED
  BY <1>1, <1>2, BootIsPaging, BootCorrect, PTL DEF PP!StoresToOwn, ImageUntouched
==============================================================================
