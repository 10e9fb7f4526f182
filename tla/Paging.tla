------------------------------- MODULE Paging ------------------------------
(***************************************************************************)
(* How the kernel leaves the page tables boot.s set up for tables of its   *)
(* own: remap_kernel of paging.c, with the functions that map and unmap a  *)
(* page, followed by init_heap of kmalloc.c.                               *)
(*                                                                         *)
(* Tables are reached only through the recursive entry of the root, so     *)
(* while the new tables are filled that entry of the old root points to    *)
(* the new one.  One step is one access to a table, with what the CPU's    *)
(* translation buffer may still hold of earlier ones; interrupts strike    *)
(* between any two steps and need the kernel mapped.                       *)
(*                                                                         *)
(* Frames the allocator hands out hold what Leftovers says: paging.c does  *)
(* not clear the tables it creates.                                        *)
(*                                                                         *)
(* When no frame is left for a table the code goes on with a null pointer: *)
(* the table at virtual page 0, which boot.s has mapped to frame 0.  The   *)
(* model follows it there.  Frames in use that hold no table are read as   *)
(* empty.                                                                  *)
(***************************************************************************)
EXTENDS PageTables, Sequences

CONSTANTS
  PAGE_SIZE,
  UINTPTR_MAX,  \* the last address
  Frames,       \* memory
  Layouts,      \* kernel images, multiboot structures and amounts of memory
  Leftovers,    \* what free frames may hold, seen as tables
  NewP4Page,    \* 0xdeadbeef: where the new root is mapped meanwhile
  OldP4Page,    \* 0xdddd0000: and the old one
  VgaFrame,     \* the frame of address 0xb8000
  HeapStart,    \* first page of the heap
  HeapPages     \* pages of the heap

SizeOfMultibootStart == 8

ASSUME PagingAssumption ==
  /\ PAGE_SIZE \in Nat \ {0} /\ UINTPTR_MAX \in Nat
  /\ {NewP4Page, OldP4Page, HeapStart, VgaFrame} \subseteq Pages
  /\ HeapPages \in Nat
  /\ Frames \subseteq Pages

VARIABLES
  d,          \* the layout of this boot: sections, multiboot data, boot tables
  mem,        \* frame |-> the table in it
  cr3,        \* frame of the current root
  tlb,        \* translations of table pages the CPU may have cached
  pool,       \* frames allocate_frame can still hand out
  exhausted,  \* history: an allocate_frame failed
  astray,     \* history: a null pointer was taken for a table
  pc,         \* where remap_kernel or init_heap is
  job,        \* the page being mapped or unmapped
  new_p4,     \* frame of the new root
  section,    \* index of the section being mapped
  addr        \* next address, for the heap next page, to map

vars == <<d, mem, cr3, tlb, pool, exhausted, astray, pc, job, new_p4, section, addr>>

-----------------------------------------------------------------------------

FrameOf(a) == a \div PAGE_SIZE

Translation(page) == Walk(mem, cr3, page)

\* The loop's bound is a pointer sum: total_size counts whole structures.
MultibootBound == d.start + SizeOfMultibootStart * d.total_size

\* The pages of the tables the next step reads or writes; remap_kernel prints
\* the recursive entries before it stores to the new root's.
NextAccess ==
  CASE pc = "job" -> {job.table}
    [] pc = "clear" -> {NewP4Page}
    [] pc = "recurse_new" -> {p4_table, OldP4Page, NewP4Page}
    [] pc = "recurse_old" -> {p4_table}
    [] pc = "multiboot" /\ addr > MultibootBound -> {OldP4Page}
    [] OTHER -> {}

AccessMapped == \A page \in NextAccess : Translation(page) # NoLeaf

\* After the accesses their translations may be in the buffer.
Cached == tlb \cup {<<page, Translation(page).frame>> : page \in NextAccess}

\* A store of entry e at index i of the table seen at page t.
Stored(t, i, e) == [mem EXCEPT ![Translation(t).frame][i] = e]

Writeable == {"present", "writeable"}

NoJob == [page |-> 0, frame |-> 0, flags |-> {}, table |-> 0, level |-> 0,
          unmap |-> FALSE, then |-> "done"]

\* map_page_to_frame and unmap_page begin at the root; "then" is where their
\* caller goes on.
MapJob(page, f, flags, then) ==
  [page |-> page, frame |-> f, flags |-> {"present"} \cup flags,
   table |-> p4_table, level |-> 4, unmap |-> FALSE, then |-> then]

UnmapJob(page, then) ==
  [page |-> page, frame |-> 0, flags |-> {},
   table |-> p4_table, level |-> 4, unmap |-> TRUE, then |-> then]

StartJob(j) == job' = j /\ pc' = "job"

\* set_up_page_tables and enable_paging of boot.s: the first R * R frames
\* mapped one to one by huge pages, and the recursive entry.
BootTable(l, f) ==
  CASE f = l.p4 -> [EmptyTable EXCEPT
                      ![0] = EntryFor(l.p3, Writeable),
                      ![RecursiveIndex] = EntryFor(l.p4, Writeable)]
    [] f = l.p3 -> [EmptyTable EXCEPT ![0] = EntryFor(l.p2, Writeable)]
    [] f = l.p2 -> [i \in Indices |->
                      EntryFor(R * i, Writeable \cup {"huge"})]
    [] OTHER -> EmptyTable

Init ==
  /\ d \in Layouts
  /\ \E old \in Leftovers :
       mem = [f \in Frames |-> IF f \in d.free THEN old ELSE BootTable(d, f)]
  /\ cr3 = d.p4
  /\ tlb = {}
  /\ pool = d.free
  /\ exhausted = FALSE
  /\ astray = FALSE
  /\ pc = "start"
  /\ job = NoJob
  /\ new_p4 = 0
  /\ section = 0
  /\ addr = 0

\* The allocator hands out its lowest frame; when it fails the caller's frame
\* number is 0.
allocate_frame(f) ==
  \/ /\ pool # {}
     /\ f \in pool /\ \A g \in pool : f <= g
     /\ pool' = pool \ {f}
     /\ UNCHANGED exhausted
  \/ /\ pool = {}
     /\ f = 0
     /\ exhausted' = TRUE
     /\ UNCHANGED pool

-----------------------------------------------------------------------------
(* map_page_to_frame and unmap_page: one step per level *)

Index == IndexAt(job.level, job.page)
EntryAtIndex == mem[Translation(job.table).frame][Index]

DownOneLevel ==
  job' = [job EXCEPT !.table = descened_page_table(@, Index), !.level = @ - 1]

\* Above the last level, at a table that can be read.
OnTheWay == pc = "job" /\ job.level > 1 /\ AccessMapped

\* The entry is present: on to the table it points to.
Descend ==
  /\ OnTheWay
  /\ Present(EntryAtIndex)
  /\ DownOneLevel
  /\ tlb' = Cached
  /\ UNCHANGED <<d, mem, cr3, pool, exhausted, astray, pc, new_p4, section, addr>>

NeedsTable == OnTheWay /\ ~Present(EntryAtIndex) /\ ~job.unmap

\* get_next_page_table_or_create: a frame for the missing table.  After the
\* flush the entry is read again.
CreateTable ==
  /\ NeedsTable
  /\ pool # {}
  /\ \E f \in pool :
       /\ allocate_frame(f)
       /\ mem' = Stored(job.table, Index, EntryFor(f, Writeable))
  /\ tlb' = {<<job.table, Walk(mem', cr3, job.table).frame>>}
  /\ DownOneLevel
  /\ UNCHANGED <<d, cr3, astray, pc, new_p4, section, addr>>

\* descened_page_table returns NULL: there is no frame for the missing table,
\* or it is unmap_page that misses it.  No caller looks at the pointer.
NullTable ==
  /\ OnTheWay
  /\ ~Present(EntryAtIndex)
  /\ job.unmap \/ pool = {}
  /\ exhausted' = (exhausted \/ ~job.unmap)
  /\ astray' = TRUE
  /\ job' = [job EXCEPT !.table = 0, !.level = @ - 1]
  /\ tlb' = Cached
  /\ UNCHANGED <<d, mem, cr3, pool, pc, new_p4, section, addr>>

\* The last table's entry is set, whatever was in it.
SetLeaf ==
  /\ pc = "job" /\ AccessMapped
  /\ job.level = 1
  /\ ~job.unmap
  /\ mem' = Stored(job.table, Index, EntryFor(job.frame, job.flags))
  /\ tlb' = Cached
  /\ pc' = job.then
  /\ UNCHANGED <<d, cr3, pool, exhausted, astray, job, new_p4, section, addr>>

\* unmap_page clears the entry before it reads the frame from it, so no frame
\* is ever given back; then the buffer is flushed.
ClearLeaf ==
  /\ pc = "job" /\ AccessMapped
  /\ job.level = 1
  /\ job.unmap
  /\ mem' = Stored(job.table, Index, Unused)
  /\ tlb' = {}
  /\ pc' = job.then
  /\ UNCHANGED <<d, cr3, pool, exhausted, astray, job, new_p4, section, addr>>

-----------------------------------------------------------------------------
(* remap_kernel *)

\* A frame for the new root, mapped where the old tables have room; the
\* allocation's result is not looked at.
AllocateNewRoot ==
  /\ pc = "start"
  /\ \E f \in pool \cup {0} :
       /\ allocate_frame(f)
       /\ new_p4' = f
       /\ StartJob(MapJob(NewP4Page, f, {"writeable"}, "map_old"))
  /\ UNCHANGED <<d, mem, cr3, tlb, astray, section, addr>>

MapOldRoot ==
  /\ pc = "map_old"
  /\ StartJob(MapJob(OldP4Page, d.p4, {"writeable"}, "flush_old"))
  /\ UNCHANGED <<d, mem, cr3, tlb, pool, exhausted, astray, new_p4, section, addr>>

\* flush_tlb, called where only the buffer changes.
AfterFlush ==
  [flush_old       |-> "clear",
   flush_recursion |-> "sections",
   flush_restored  |-> "unmap_old"]

flush_tlb ==
  /\ pc \in DOMAIN AfterFlush
  /\ tlb' = {}
  /\ pc' = AfterFlush[pc]
  /\ UNCHANGED <<d, mem, cr3, pool, exhausted, astray, job, new_p4, section, addr>>

\* init_page_table on the new root.
ClearNewRoot ==
  /\ pc = "clear" /\ AccessMapped
  /\ mem' = [mem EXCEPT ![Translation(NewP4Page).frame] = EmptyTable]
  /\ tlb' = Cached
  /\ pc' = "recurse_new"
  /\ UNCHANGED <<d, cr3, pool, exhausted, astray, job, new_p4, section, addr>>

\* One store to the entry that makes a root recursive, seen at page t.
StoreRecursion(from, t, f, to) ==
  /\ pc = from /\ AccessMapped
  /\ mem' = Stored(t, RecursiveIndex, EntryFor(f, Writeable))
  /\ tlb' = Cached
  /\ pc' = to
  /\ UNCHANGED <<d, cr3, pool, exhausted, astray, job, new_p4, section, addr>>

\* Mutant: the new root's entry leads back to the old root.
MakeNewRecursive_Old ==
  StoreRecursion("recurse_new", NewP4Page, d.p4, "recurse_old")

MakeNewRecursive ==
  StoreRecursion("recurse_new", NewP4Page, new_p4, "recurse_old")

\* Mutant: the old root goes on leading to itself.
PointOldAtNew_Old ==
  StoreRecursion("recurse_old", p4_table, d.p4, "flush_recursion")

\* Mutant: no flush after the store.
PointOldAtNew_NoFlush ==
  StoreRecursion("recurse_old", p4_table, new_p4, "sections")

\* From here on the recursive addresses lead into the new tables.
PointOldAtNew ==
  StoreRecursion("recurse_old", p4_table, new_p4, "flush_recursion")

Sections == {d.sections[i] : i \in 1 .. Len(d.sections)}
IsAllocated(s) == "alloc" \in s.sh_flags
LastAddr(s) == (s.sh_addr + s.sh_size - 1) % (UINTPTR_MAX + 1)

\* Mutant: the test of the executable flag is inverted.
FlagsOf_Swapped(s) ==
  (IF "exec" \in s.sh_flags THEN {"no_exec"} ELSE {})
    \cup (IF "write" \in s.sh_flags THEN {"writeable"} ELSE {})

FlagsOf(s) ==
  (IF "exec" \in s.sh_flags THEN {} ELSE {"no_exec"})
    \cup (IF "write" \in s.sh_flags THEN {"writeable"} ELSE {})

AtSection == pc = "sections" /\ section < Len(d.sections)
Section == d.sections[section + 1]

SkipSection ==
  /\ AtSection
  /\ ~IsAllocated(Section)
  /\ section' = section + 1
  /\ UNCHANGED <<d, mem, cr3, tlb, pool, exhausted, astray, pc, job, new_p4, addr>>

SectionAsserts(s) == s.sh_addr % PAGE_SIZE = 0 /\ s.sh_addr <= LastAddr(s)

AssertFails ==
  /\ AtSection
  /\ IsAllocated(Section)
  /\ ~SectionAsserts(Section)
  /\ pc' = "assert"
  /\ UNCHANGED <<d, mem, cr3, tlb, pool, exhausted, astray, job, new_p4, section, addr>>

BeginSection ==
  /\ AtSection
  /\ IsAllocated(Section)
  /\ SectionAsserts(Section)
  /\ addr' = Section.sh_addr
  /\ pc' = "pages"
  /\ UNCHANGED <<d, mem, cr3, tlb, pool, exhausted, astray, job, new_p4, section>>

\* Mutant: the last page of every section is left out.
PagesLeft_OneShort(s) == addr + PAGE_SIZE < LastAddr(s)

\* The loop compares with the last address, not with the one behind it.
PagesLeft(s) == addr < LastAddr(s)

\* identity_map_page
IdentityJob(f, flags, then) == MapJob(f, f, flags, then)

MapSectionPage ==
  /\ pc = "pages"
  /\ PagesLeft(Section)
  /\ StartJob(IdentityJob(FrameOf(addr), FlagsOf(Section), "pages"))
  /\ addr' = addr + PAGE_SIZE
  /\ UNCHANGED <<d, mem, cr3, tlb, pool, exhausted, astray, new_p4, section>>

EndSection ==
  /\ pc = "pages"
  /\ ~PagesLeft(Section)
  /\ section' = section + 1
  /\ pc' = "sections"
  /\ UNCHANGED <<d, mem, cr3, tlb, pool, exhausted, astray, job, new_p4, addr>>

MapVga ==
  /\ pc = "sections"
  /\ section = Len(d.sections)
  /\ StartJob(IdentityJob(VgaFrame, {"writeable", "no_exec"}, "multiboot"))
  /\ addr' = d.start
  /\ UNCHANGED <<d, mem, cr3, tlb, pool, exhausted, astray, new_p4, section>>

MapMultibootPage ==
  /\ pc = "multiboot"
  /\ addr <= MultibootBound
  /\ StartJob(IdentityJob(FrameOf(addr), {"no_exec"}, "multiboot"))
  /\ addr' = addr + PAGE_SIZE
  /\ UNCHANGED <<d, mem, cr3, tlb, pool, exhausted, astray, new_p4, section>>

\* The old root is recursive again, by way of the page it was mapped at.
RestoreOldRoot ==
  /\ addr > MultibootBound
  /\ StoreRecursion("multiboot", OldP4Page, d.p4, "flush_restored")

UnmapOldRoot ==
  /\ pc = "unmap_old"
  /\ StartJob(UnmapJob(OldP4Page, "switch"))
  /\ UNCHANGED <<d, mem, cr3, tlb, pool, exhausted, astray, new_p4, section, addr>>

SwitchRoot ==
  /\ pc = "switch"
  /\ cr3' = new_p4
  /\ tlb' = {}
  /\ pc' = "guard"
  /\ UNCHANGED <<d, mem, pool, exhausted, astray, job, new_p4, section, addr>>

\* Mutant: it is the temporary page that is unmapped, after the switch.
UnmapGuardPage_Temporary ==
  /\ pc = "guard"
  /\ StartJob(UnmapJob(OldP4Page, "heap"))
  /\ addr' = HeapStart
  /\ UNCHANGED <<d, mem, cr3, tlb, pool, exhausted, astray, new_p4, section>>

\* The old root's page becomes the guard page; then init_heap begins.
UnmapGuardPage ==
  /\ pc = "guard"
  /\ StartJob(UnmapJob(d.p4, "heap"))
  /\ addr' = HeapStart
  /\ UNCHANGED <<d, mem, cr3, tlb, pool, exhausted, astray, new_p4, section>>

-----------------------------------------------------------------------------
(* init_heap *)

\* Mutant: every page gets the frame the allocator is at, which stays free.
MapHeapPage_OneFrame ==
  /\ pc = "heap"
  /\ addr < HeapStart + HeapPages
  /\ \E f \in pool \cup {0} :
       /\ \A g \in pool : g <= f
       /\ StartJob(MapJob(addr, f, {"writeable"}, "heap"))
  /\ addr' = addr + 1
  /\ UNCHANGED <<d, mem, cr3, tlb, pool, exhausted, astray, new_p4, section>>

\* Mutant: every frame is mapped at the first page of the heap.
MapHeapPage_FirstPage ==
  /\ pc = "heap"
  /\ addr < HeapStart + HeapPages
  /\ \E f \in pool \cup {0} :
       /\ allocate_frame(f)
       /\ StartJob(MapJob(HeapStart, f, {"writeable"}, "heap"))
  /\ addr' = addr + 1
  /\ UNCHANGED <<d, mem, cr3, tlb, astray, new_p4, section>>

\* map_page does not look at the allocation's result.
MapHeapPage ==
  /\ pc = "heap"
  /\ addr < HeapStart + HeapPages
  /\ \E f \in pool \cup {0} :
       /\ allocate_frame(f)
       /\ StartJob(MapJob(addr, f, {"writeable"}, "heap"))
  /\ addr' = addr + 1
  /\ UNCHANGED <<d, mem, cr3, tlb, astray, new_p4, section>>

HeapMapped ==
  /\ pc = "heap"
  /\ addr = HeapStart + HeapPages
  /\ pc' = "done"
  /\ UNCHANGED <<d, mem, cr3, tlb, pool, exhausted, astray, job, new_p4, section, addr>>

-----------------------------------------------------------------------------
(* Page faults *)

Loaded == {s \in Sections : IsAllocated(s)}

\* The pages with a byte of a section.
PagesOf(s) == FrameOf(s.sh_addr) .. FrameOf(LastAddr(s))

\* Which of its pages the code runs in is left open.
CodeGone ==
  \E s \in Loaded : \E page \in PagesOf(s) :
    /\ "exec" \in s.sh_flags
    /\ ~(Translation(page).frame = page /\ Translation(page).exec)

\* page_fault_handler stops the machine, unless it cannot be reached either.
PageFault ==
  /\ pc \notin {"done", "lost", "assert"}
  /\ ~AccessMapped \/ CodeGone
  /\ pc' = "lost"
  /\ UNCHANGED <<d, mem, cr3, tlb, pool, exhausted, astray, job, new_p4, section, addr>>

\* The kernel runs on, or has stopped.
Ended == pc \in {"done", "lost", "assert"} /\ UNCHANGED vars

MapOrUnmap == Descend \/ CreateTable \/ NullTable \/ SetLeaf \/ ClearLeaf

MapSections ==
  SkipSection \/ AssertFails \/ BeginSection \/ MapSectionPage \/ EndSection

remap_kernel ==
  \/ AllocateNewRoot \/ MapOldRoot \/ ClearNewRoot \/ MakeNewRecursive
  \/ PointOldAtNew \/ MapSections \/ MapVga \/ MapMultibootPage
  \/ RestoreOldRoot \/ UnmapOldRoot \/ SwitchRoot \/ UnmapGuardPage

init_heap == MapHeapPage \/ HeapMapped

Next == MapOrUnmap \/ flush_tlb \/ remap_kernel \/ init_heap \/ PageFault \/ Ended

Spec == Init /\ [][Next]_vars

-----------------------------------------------------------------------------
(* What the linker script, boot.s and the boot loader have seen to *)

\* The pages of a section the loop reaches: all, but for a last page that
\* holds one byte only.
MappedPagesOf(s) ==
  FrameOf(s.sh_addr) .. FrameOf(LastAddr(s) - 1)

\* Memory is smaller than the virtual address space, boot.s maps the first
\* R * R pages of it, and neither the temporary pages nor the heap are among
\* these or in the window of the recursive entry.  The temporary pages need
\* tables of their own below the old root.
DistantPages == {NewP4Page, OldP4Page} \cup HeapStart .. HeapStart + HeapPages - 1

ASSUME PlacesAssumption ==
  /\ DistantPages \subseteq Pages
  /\ \A page \in DistantPages : page >= R * R
  /\ \A page \in DistantPages \cup Frames : IndexAt(4, page) # RecursiveIndex
  /\ \A page \in {NewP4Page, OldP4Page} : IndexAt(4, page) # 0
  /\ NewP4Page # OldP4Page
  /\ {0, VgaFrame} \cup {R * i : i \in Indices} \subseteq Frames

\* The boot tables are three frames that are not free, and what is mapped to
\* itself is memory.
LayoutOK(l) ==
  /\ l.sections \in Seq([sh_addr : Nat, sh_size : Nat,
                          sh_flags : SUBSET {"alloc", "exec", "write"}])
  /\ {l.start, l.total_size} \subseteq Nat
  /\ l.free \subseteq Frames
  /\ {l.p4, l.p3, l.p2} \subseteq Frames \ l.free
  /\ l.p4 # l.p3 /\ l.p3 # l.p2 /\ l.p2 # l.p4
  /\ \A i \in 1 .. Len(l.sections) :
       IsAllocated(l.sections[i]) => PagesOf(l.sections[i]) \subseteq Frames
  /\ FrameOf(l.start) .. FrameOf(l.start + SizeOfMultibootStart * l.total_size)
       \subseteq Frames

ASSUME LayoutAssumption == \A l \in Layouts : LayoutOK(l)

StructurePages(l) == FrameOf(l.start) .. FrameOf(l.start + l.total_size - 1)

\* The kernel, the screen and the multiboot structure lie where boot.s has
\* mapped memory; the allocator has no frame of the kernel to give.  The
\* linker gives code pages of its own, and neither screen nor structure lies
\* in them.  What will be the guard page holds neither of these, and a
\* structure on several pages is at least an eighth of a page, or the loop
\* with its bound of eight times the size would stop before the second.
ImageOK(l) ==
  /\ {VgaFrame} \cup StructurePages(l) \subseteq 0 .. R * R - 1
  /\ l.p4 \notin {VgaFrame} \cup StructurePages(l)
  /\ \/ StructurePages(l) \subseteq {FrameOf(l.start)}
     \/ PAGE_SIZE <= SizeOfMultibootStart * l.total_size
  /\ \A i \in 1 .. Len(l.sections) :
       IsAllocated(l.sections[i]) =>
         \A page \in PagesOf(l.sections[i]) :
           /\ page < R * R
           /\ page \notin l.free
           /\ "exec" \in l.sections[i].sh_flags =>
                /\ page \notin {VgaFrame} \cup StructurePages(l)
                /\ \A j \in 1 .. Len(l.sections) :
                     IsAllocated(l.sections[j]) /\ page \in PagesOf(l.sections[j]) =>
                       "exec" \in l.sections[j].sh_flags

ASSUME ImageAssumption == \A l \in Layouts : ImageOK(l)

-----------------------------------------------------------------------------
(* The translation of a page by the code, for readers of the tables *)

\* get_physical_frame: -1 for an entry that is not present.
get_physical_frame(entry) == IF Present(entry) THEN entry.frame ELSE -1

HugeFrame(entry, page) == get_physical_frame(entry) + IndexAt(1, page)

\* What is read at an index of a table seen at page t.
EntryIn(t, i) == mem[Translation(t).frame][i]

translate_page(page) ==
  LET t3 == descened_page_table(p4_table, IndexAt(4, page))
      t2 == descened_page_table(t3, IndexAt(3, page))
      t1 == descened_page_table(t2, IndexAt(2, page))
      entry == EntryIn(t2, IndexAt(2, page))
  IN  IF "huge" \in entry.flags THEN HugeFrame(entry, page)
      ELSE get_physical_frame(EntryIn(t1, IndexAt(1, page)))

-----------------------------------------------------------------------------
(* Properties *)

\* Types: tables hold entries, and every table address is a page that the
\* recursive entry reaches, as descened_page_table's shift must keep it.
TypeOK ==
  /\ \A f \in Frames : mem[f] \in
       [Indices -> [frame : Frames, flags : SUBSET
          {"present", "writeable", "huge", "no_exec"}]]
  /\ {cr3, new_p4, job.frame} \subseteq Frames
  /\ {job.page, job.table} \subseteq Pages
  /\ tlb \subseteq Pages \X Frames
  /\ pool \subseteq d.free
  /\ {exhausted, astray} \subseteq BOOLEAN
  /\ job.level \in 0 .. 4
  /\ section \in 0 .. Len(d.sections)
  /\ addr \in Nat

InMultibootLoop(page) ==
  \E k \in 0 .. FrameOf(MultibootBound) :
    d.start + k * PAGE_SIZE <= MultibootBound /\ page = FrameOf(d.start) + k

\* The two faults of remap_kernel that cost the kernel a page or a right: the
\* loop over a section leaves out a last page that holds one byte, the loop
\* over the multiboot structure goes on behind it.
LastByteOnly(s, page) == LastAddr(s) = page * PAGE_SIZE
Overrun(page) == InMultibootLoop(page) /\ page \notin StructurePages(d)

\* No null pointer was taken for a table, and there was no page fault.
OnCourse == ~astray /\ pc # "lost"

\* At every instant of the remapping the CPU can fetch the kernel's code, and
\* an interrupt can reach stack, tables and the screen: each page that holds a
\* byte of a loaded section is mapped to itself under the current root, code
\* executable.  The exceptions, all under the new root: the old root's page,
\* which is the guard page then; a page whose only byte is its section's last;
\* and the right to execute where the loop over the multiboot structure runs
\* too far.  The multiboot structure stays mapped too: its sections are read
\* while the loops run under the old root, its memory map by every allocation.
KernelMapped ==
  OnCourse =>
    /\ \A s \in Loaded : \A page \in PagesOf(s) :
         LET t == Translation(page)
         IN  \/ t.frame = page
                /\ ("exec" \in s.sh_flags => t.exec \/ (cr3 # d.p4 /\ Overrun(page)))
             \/ cr3 # d.p4 /\ (page = d.p4 \/ LastByteOnly(s, page))
    /\ Translation(VgaFrame).frame = VgaFrame
    /\ \A page \in StructurePages(d) : Translation(page).frame = page

\* No step of remap_kernel depends on a stale translation: the table it is
\* about to touch is mapped, and whatever the buffer may still hold of its
\* page is what the tables say now.  A flush is left out nowhere.
AccessesCoherent ==
  OnCourse =>
    /\ AccessMapped
    /\ \A page \in NextAccess : \A pair \in tlb :
         pair[1] = page => pair[2] = Translation(page).frame

\* unmap_page looks at none of the three pointers descened_page_table returns,
\* and need not: only a missing frame leads to a null one.
NullTableMeansExhausted == astray => exhausted

\* The frame of the table of a level on the way to a page below a root.
TableOf(root, level, page) ==
  LET e4 == mem[root][IndexAt(4, page)]
      e3 == mem[e4.frame][IndexAt(3, page)]
      e2 == mem[e3.frame][IndexAt(2, page)]
  IN  CASE level = 4 -> root
        [] level = 3 -> e4.frame
        [] level = 2 -> e3.frame
        [] level = 1 -> e2.frame

\* A page is mapped in the tree it is meant for: the kernel's pages under
\* the new root while the old one is in force, all others under the current
\* root, although the code uses the same addresses for both.
EditsTheRightTree ==
  pc = "job" /\ ~astray =>
    LET root == IF job.then \in {"pages", "multiboot"} THEN new_p4 ELSE cr3
    IN  Translation(job.table).frame = TableOf(root, job.level, job.page)

\* translate_page, which reads the tables through the recursive entry, finds
\* for every page that has them the frame the memory management unit finds
\* below the root this entry leads to, which is the new one while it is filled.
TranslateAgrees ==
  OnCourse =>
    LET root == mem[cr3][RecursiveIndex].frame
    IN  \A page \in Pages :
          IndexAt(4, page) # RecursiveIndex /\ Walk(mem, root, page) # NoLeaf =>
            translate_page(page) = Walk(mem, root, page).frame

InHeap(page) == page \in HeapStart .. HeapStart + HeapPages - 1

\* A section's rights, as its header states them.
RightsOf(s, page) ==
  [frame |-> page, write |-> "write" \in s.sh_flags, exec |-> "exec" \in s.sh_flags]

\* What the loops make a page translate to in the end; of several sections the
\* last counts.
Intended(page) ==
  LET holding == {i \in 1 .. Len(d.sections) :
                    d.sections[i] \in Loaded /\ page \in MappedPagesOf(d.sections[i])}
      last == CHOOSE i \in holding : \A j \in holding : j <= i
  IN  IF page = d.p4 THEN NoLeaf
      ELSE IF InMultibootLoop(page) THEN LeafOf(page, {"no_exec"})
      ELSE IF page = VgaFrame THEN LeafOf(page, {"writeable", "no_exec"})
      ELSE IF holding = {} THEN NoLeaf
      ELSE RightsOf(d.sections[last], page)

\* When the boot is over the new tables say what remap_kernel set out to
\* build and nothing else: sections with their own rights, screen, multiboot
\* pages, a hole for the guard page, and the heap.  Neither temporary page is
\* left.  The window of the recursive entry itself is left aside.
FinalMapping ==
  pc = "done" /\ ~astray =>
    \A page \in Pages :
      \/ IndexAt(4, page) = RecursiveIndex
      \/ InHeap(page) /\ Translation(page).write
      \/ ~InHeap(page) /\ Translation(page) = Intended(page)

\* As long as allocate_frame did not fail, nor came to the screen in the hole
\* of the memory map, the heap's frames are nobody else's: no two heap pages
\* share one, none is a table, and none is mapped at another page, but for
\* reading where the multiboot loop runs too far.
HeapFramesPrivate ==
  pc = "done" /\ ~exhausted /\ ~astray /\ VgaFrame \notin d.free \ pool =>
    \A page \in HeapStart .. HeapStart + HeapPages - 1 :
      LET f == Translation(page).frame
      IN  /\ f \in d.free
          /\ f \notin TableFrames(mem, cr3)
          /\ \A other \in Pages \ {page} :
               \/ IndexAt(4, other) = RecursiveIndex
               \/ Translation(other).frame # f
               \/ other = f /\ InMultibootLoop(f) /\ ~Translation(other).write

\* "make sure unused here!": the last table's entry is unused when a page is
\* mapped.
LeafUnused ==
  pc = "job" /\ job.level = 1 /\ ~job.unmap => ~Present(EntryAtIndex)

\* "id map the multiboot structure"; and of a section "assert(addr <= end_addr)",
\* so that its last byte may be the first one of a page.  When the new root comes
\* into force it maps to themselves the pages with a byte of a loaded section, of
\* the screen or of the multiboot structure, and no others.
Declared == {VgaFrame} \cup StructurePages(d) \cup UNION {PagesOf(s) : s \in Loaded}

NewRootAsDeclared ==
  pc = "switch" /\ ~astray =>
    \A page \in Pages :
      \/ IndexAt(4, page) = RecursiveIndex
      \/ page \in Declared /\ Walk(mem, new_p4, page).frame = page
      \/ page \notin Declared /\ Walk(mem, new_p4, page) = NoLeaf

\* As long as no null pointer was taken for a table, a store goes to a frame that
\* was handed out or to the root of boot.s: never to the tables below it, nor to
\* anything else in memory.
ConfinedStore == \A f \in Frames \ ((d.free \ pool) \cup {d.p4}) : mem'[f] = mem[f]
StoresToOwn == [][~astray => ConfinedStore]_vars
=============================================================================
