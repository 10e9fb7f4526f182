# os_c: specifications of the kernel

`os_c` is a small x86-64 kernel in C and assembly, booted by GRUB. This
directory holds TLA+ specifications of its parts, model-checked with TLC on
small instances, and theorems about them proved with TLAPS. Source paths below
are relative to `src/` of the repository (in `PROJECT.json` to its root).

## 1. Inventory

| component | source | state it keeps | operations | what makes it correct |
|---|---|---|---|---|
| frame allocator | `frame_allocator.c` | next frame to try, current memory area, frames of kernel and multiboot structure | `init_allocator`, `allocate_frame`, `switch_area`, `deallocate_frame` | no frame twice, none in use by the kernel, failure only when nothing is left, the walk ends |
| kernel heap | `kmalloc.c` | a list of free nodes inside the heap, its head being the untouched rest | `init_heap`, `kmalloc`, `krealloc`, `kfree` | blocks never overlap, contents survive, no block is lost, the walk ends |
| paging | `paging.c` | the page tables, CR3, what the CPU's buffer caches | `remap_kernel`, `map_page`, `unmap_page`, `identity_map_page` | the kernel is mapped at every instant, the right tables are edited and nothing else is written, the final mapping is the intended one |
| interrupts | `pic.c`, `arch/x86_64/boot64.s`, `exceptions.c` | handler table, controller masks and in-service lines, interrupt flag | `setup_interrupt_handlers`, `pic_init`, `pic_enable_interrupts`, `add_interrupt_handler`, shims, exception handlers | each request acknowledged once, nothing but an error stops the machine |
| keyboard | `keyboard.c` | the flag that a key's release has begun | `keyboard_interrupt` | every key printed once, in order; every byte read |
| terminal | `terminal.c` | cursor, the screen's cells; during a call, the place in the format and the next argument | `terminal_put_char`, `print_newline`, `print_tab`, `scroll_terminal`, `terminal_printf` | text appears where a reader expects it, the cursor stays on the screen; formats are cut into directives that take the arguments meant for them, numbers read back |
| kernel main | `kernel.c` | - | the order of initialisation, `timer_print` | the boot reaches its loop |
| multiboot data | `multiboot.c` | pointers to the tags of interest | `init_multiboot_data`, `parse_multiboot_data`, `print_elf_symbols`, the predicates of a section | all tags, areas and sections are visited once and nothing else is read, the pointers are the right tags, the walk ends |
| early boot | `boot.s`, `linker.ld` | boot page tables | feature checks, `set_up_page_tables`, `enable_paging` | the tables map the first GiB and themselves |
| interval timer, `interrupts.c` | `pit.c`, `interrupts.c` | - | never called | - |
| assertions, ports | `assert.h`, `util.h` | - | `_os_assert`, `inb`, `outb` | an assertion stops the CPU |

**How they interact.** `long_mode_start` fills the interrupt table and calls
`kernel_main`, which runs every initialisation in turn on one CPU. From
`pic_enable_interrupts` on, the timer's and the keyboard's handlers interrupt
it between any two instructions; they share the terminal with it. GRUB's memory
map and section headers are the input of the frame allocator and of
`remap_kernel`. `remap_kernel` and `init_heap` take frames from the allocator.
The heap uses the pages `init_heap` mapped.

**What is hard.** There are no threads and nothing is persistent; nothing is
retried or timed out. What remains is (a) interrupts against
`kernel_main`: handlers installed after interrupts are on, a cursor shared
without a lock, code and stack that must stay mapped during the remapping;
(b) hardware state behind the code's back: the translation buffer, the
controllers' in-service lines and edge-triggered requests; (c) long sequences
of legal calls on lists and ranges, with off-by-ones at both ends; (d) loops
that might not end; (e) limits: memory exhausted at any allocation, the heap's
end, the screen's page. `PROJECT.json` lists each hazard at its line.

## 2. Modules

| module | models | kind |
|---|---|---|
| `FrameSource` | what clients of the frame allocator rely on | abstract specification |
| `FrameAllocator` | `frame_allocator.c` | component; implements `FrameSource` |
| `FrameAllocatorProofs` | theorems about it | proofs |
| `HeapService` | what clients of the heap rely on | abstract specification |
| `Kmalloc` | `kmalloc.c` | component; implements `HeapService` |
| `KmallocProofs` | theorems about it | proofs |
| `PageTables` | entries, indices, the MMU's walk, recursive addresses | operators |
| `Paging` | `remap_kernel`, `map_page`, `unmap_page`, `init_heap`'s mapping | component |
| `PagingProofs` | theorems about it | proofs |
| `Boot` | `kernel_main` from `init_allocator` to `init_heap` | composition of `FrameAllocator` and `Paging`; implements `Paging` over a pool |
| `BootProofs` | theorems about it, the refinement from the allocator's own | proofs |
| `Multiboot` | `multiboot.c`: the tag walk and what is kept of it | component |
| `MultibootProofs` | theorems about it | proofs |
| `Interrupts` | boot order, controllers, shims, exceptions, keyboard, timer | composition of the parts that interrupts join |
| `InterruptsProofs` | theorems about it | proofs |
| `Console` | what a reader of the screen is promised | abstract specification |
| `Terminal` | cursor and screen of `terminal.c`, with handlers printing | component; implements `Console` until a print is interrupted |
| `TerminalProofs` | theorems about it | proofs |
| `Printf` | `terminal_printf`: formats, arguments, hexadecimal numbers | component |
| `PrintfProofs` | theorems about formats, arguments and numbers | proofs |
| `MC*` | the instances TLC checks | |

### FrameAllocator
Variables are the fields of `struct frame_allocator`, the boot information, the
result of the latest call, and two histories: `handed`, all frames ever
returned, and `owned`, those not deallocated since. One iteration of
`allocate_frame`'s loop is one step (`NoAreaLeft`, `switch_area`,
`SkipReserved`, `TakeFrame`, after the code's four branches), so that its
termination can be stated. The linear searches for a lowest area are stated by
what they find (`Lowest`). Sums of addresses are assumed not to wrap: physical
addresses have at most 52 bits. Memory areas are assumed disjoint and not
empty, as firmware reports them.

### Kmalloc
Memory is an array of 8-byte words starting at `heap_start_addr`; a header is
two words, so all fields the code writes are where it writes them and an
overlap corrupts a header or a client's word in the model too. Each step of
`allocate_memory`'s walk is an action. Heap code is never called by a handler,
so calls do not overlap. A store of a header behind the heap faults, and
`page_fault_handler` halts: `pc = "fault"` is final. Sizes that are no multiple
of 8 are left out. Clients use a block only between getting it and freeing it.

### PageTables and Paging
A table pointer of the C code is a virtual address; the model's `Translation`
walks the tables from `cr3` for every access, the recursive entry included, so
which frame a store reaches is computed and not postulated. One access to one
table is one step. `tlb` holds every translation the CPU may still have of
table pages since the last flush; the properties demand that it never matters.
A failed assertion stops the model (`"assert"`).
When no frame is left for a table, `descened_page_table` returns NULL and no
caller looks. NULL is a virtual address like any other: `NullTable` lets the job
go on with the table at page 0, which `boot.s` has mapped to frame 0 and the new
tables do not map in these images. The model follows the code there, through stores to whatever
that frame holds, through the loops and the switch of the roots, until it is
through or meets a page that is not mapped (`PageFault`, `pc = "lost"`):
`page_fault_handler` stops the machine, and so does the CPU if the handler
cannot be reached. Which of its pages the code runs in at a step is left open,
so `PageFault` *may* strike, and need not, as soon as one of them is not mapped
to itself or not executable (`CodeGone`); the stack is not followed. Frames in
use that hold no table are read as empty ones, so what is read through a null
pointer is exact only for frames that hold tables; `astray` remembers that a
null pointer was used, and the properties that speak of contents end there:
from then on entries are stored wherever frame 0's contents lead, and no comment
of the code promises anything. `NullTableMeansExhausted` says that it takes an
exhausted memory to get there, and `BootEnds` that the boot ends all the same.
A page of the heap that gets no frame is mapped to frame 0, as the code does it
(`paging.c:316`); `HeapFramesPrivate` speaks of boots without a failure.
The kernel stores through pages that are not writeable too: `remap_kernel`
leaves write protection off (`paging.c:348` is commented out).
`Leftovers` says what a frame may hold when it is handed out: all of the run
`paging` is for zeroed memory, which the code relies on and emulators grant;
`paging_leftovers` is for memory in use before, where the code's missing check
and missing clearing show. `translate_page` changes nothing, is not called at
present and is an operator; `TranslateCorrect` proves that it agrees with the
CPU's walk.
The multiboot structure lies behind the image, where GRUB puts it, or in front
of it: then the overlong loop of `paging.c:418` goes on into the image and takes
the right to execute from the code it meets, which `KernelMapped` allows for. `MappedPagesOf` and `InMultibootLoop` are the pages the
loops of `remap_kernel` reach and `FinalMapping` is stated in them: it says that
tables, order and rights are as the loops describe. Whether the loops reach what
they should is said by properties that start from the section headers and the
structure's own size (`PagesOf`, `StructurePages`): `NewRootAsDeclared`, which is
refuted, and `KernelMapped`, which names its exceptions.
`allocate_frame` is used here by its contract: the lowest free frame, never
again, or failure and frame 0. `BootProofs` proves that the allocator keeps it.

### Boot
The variables of both modules, with one layout from which each gets the part
it reads: the allocator the memory map, all sections and the structure's
extent, the remapping the sections it maps. A call of `allocate_frame` begins
where the code makes it (`Call`), takes one step per turn of the loop (`Turn`),
and its last turn is one step with what the caller does with the frame
(`ReturnFrame`, `ReturnFailure`). For that `Paging` is instantiated with a pool
that holds the one frame the call is about to return. `ImplementsPaging` is the
same `Paging` with the allocator's whole pool of frames: that the two agree is
the contract above. Deallocation does not occur, for `unmap_page` never gives
a frame back. Assumed of the machine (`MachinesAssumption`): what
`FrameAllocator` assumes of its memory map, tables of `boot.s` that are not
among the frames the allocator can hand out, as they lie in `.bss`, and memory
that is zero at first; and what `Paging` assumes of layouts and places
(`RemappingAssumption`), which TLC evaluates for the machines of the run. A
layout's `free` is what the allocator can hand out.

### Multiboot
An address is a number, and what lies at it is looked up in what the loader
stored, so a walk that strays reads zeros or nothing. One turn of the tag loop,
of the loop over areas and of the loop over sections is one step. `printed`
remembers what was read, up to `MaxShown` items, of a section the set of letters
its flags print; the properties compare it with what was stored, in the loader's
own terms. Assumed of the loader: tags of at
least 8 bytes at multiples of 8, one of each kept type at most, an end tag, a
tag of ELF sections (without it the code reads through NULL), areas of 24 bytes
and section headers of 64, a section of names among those listed. `MaxShown` is
large enough for all there is to show (`ListsAssumption`); it keeps walks that
do not end, of which a changed code could have some, from growing for ever.

### Printf
One step per turn of `terminal_printf`'s loop; `get_format` and the functions
it calls are operators on the format, a sequence of characters. A word has
`WordDigits` hexadecimal digits and wraps, an `int` and a `short` fewer. What a
turn shows is kept in `out`. The pads and signs the code ignores, decimal
numbers and floating point numbers, which it prints as nothing, are so here.
A format ends at its first 0, and arguments are words (`PrintfAssumption`).

### Interrupts
One step of `kernel_main` per access to the controllers or the handler table;
requests, priorities, in-service bits and edges of the two cascaded 8259s; the
keyboard as a queue of scan codes behind a one-byte output buffer; the shim as
call, EOI, `iretq`. Keys are classes: with a character, without, extended. The
codes of an extended key begin with 0xE0, when it is pressed and when it is
released, and 0xE0 indexes behind the table of characters: text that is no key's
(`Junk`) or none is printed. `KeysPrintedInOrder` is about the text that is
keys' and leaves `Junk` out; `OnlyKeysPrinted` is about the rest, and refuted.
Until `pic_enable_interrupts` has programmed the keyboard controller
(`ProgramKeyboard`, a step after `sti`), the controller may translate a code into
the firmware's set, in which a release is one byte; runs in which it did
(`translated`) are left aside by both properties. Spurious interrupts of the
controllers and the non-maskable interrupt are not modelled.

### Terminal
`kernel_main`'s prints take one step per access to the cursor, since the
makefile builds without optimisation and each access is an instruction; a
handler's print is one step because gates turn interrupts off and handlers do
not nest (checked in `Interrupts`). Which characters `terminal_printf` emits is
left open here (`Printf` has it). Source names are kept: `row` is the position in the line, `col` the
line.

## 3. Runs

| run | checks | what it shows |
|---|---|---|
| `frame_allocator` | type, reserved bytes, exhaustion, walk; `NeverTwice`, `FailureIsPermanent`, `AllocateReturns`, refinement | the allocator keeps its promises on five memory maps, three images, nine places of the multiboot structure |
| `frame_allocator_holes` | `HandedFramesAllowed` is violated | frames of a hole between areas are handed out although the comment at `frame_allocator.c:86` speaks of the next allowed area |
| `kmalloc` | type, `HeapTiled`, `FreeListComplete`, `FaultMeansExhausted`; `GrowsOnlyWhenNothingFits`, `CallReturns`, refinement | any sequence of calls of sizes 0, 1 and 5 words on 12 words |
| `paging` | type, `KernelMapped`, `AccessesCoherent`, `NullTableMeansExhausted`, `EditsTheRightTree`, `FinalMapping`, `HeapFramesPrivate`; `StoresToOwn` | the whole remapping, memory exhausted at every allocation; a null pointer is taken for a table only then |
| `paging_leftovers` | `LeafUnused` is violated | in memory that is not zero, pages are mapped over entries that are present, against the comment at `paging.c:309` |
| `boot` | `FramesAccounted`; `ImageUntouched`, `BootEnds`, refinement `ImplementsPaging` | allocator and remapping agree on what is in use, no frame is lost but the tables of the two temporary pages, and the boot ends, if need be in a page fault |
| `multiboot` | `ReadsWhatWasStored`; `WalkEnds` | the walk reads all tags, areas and sections in order and nothing else |
| `printf` | `FormatUnderstood`, `ArgumentsInStep`, `NumbersReadBack` | every directive of up to four characters, with text and another directive behind it |
| `paging_switch` | `NewRootAsDeclared` is violated | in one and the same state: a page whose only byte is its section's last is left out by the `<` at `paging.c:404`, although `paging.c:390` accepts such sections; and the loop at `paging.c:418` maps eight times the structure's size |
| `interrupts` | type, `InServiceOnlyInShim`, `HaltHasACause`, `KeysPrintedInOrder`; `BootFinishes`, `KeysAreRead` | interrupts at every step of the boot and of each other's shims; nothing is left waiting under fair scheduling |
| `interrupts_extended` | `OnlyKeysPrinted` is violated | 0xE0, with which an extended key's release begins, is looked up behind the end of `ascii_key`, although the branch of `keyboard.c:93` is to print nothing |
| `terminal` | `CursorOnScreen`, `ImplementsConsole` | the driver is a console until a print is interrupted; the cursor escapes only through the six windows named in `Windows` |

**Bounds, and why they are enough.**
Frame allocator: 4-byte frames below address 40 with areas that start and end
inside frames, are smaller than a frame, are adjacent inside a frame, are out
of order, leave a hole; the walk's decisions depend only on such relations, and
the safety properties are proved for every size.
Heap: 12 words hold three blocks and the head; sizes 0, 1, 5 give exact fits,
fits with slack below and above `minimum_alloc_size`, splits, and the overrun.
Paging: four entries per table, of which the last is the recursive one, keep
all four levels and all index coincidences of the real addresses (the two
temporary pages share their first index and differ in the second, the heap has
the second index after the kernel's). Every size of free memory from none to
enough makes each allocation fail in some behaviour; the screen's frame is
among the free ones or not. 4-byte pages put section ends at several offsets of
a page, one byte included; that image, and a structure in front of the image, are
among the layouts of the passing run too.
Boot: `Paging`'s tables with eight entries, and frames of 4 bytes; the memory
ends at every frame from the structure to where the boot has enough, so each
allocation is the one that fails in some behaviour; the structure begins in the
image's last page or in the next and ends at either side of a frame's border;
the large machine has the areas of a PC out of order, with the screen in the
hole.
Multiboot: up to three tags in every order before the end tag, with sizes that
need padding and sizes that do not; no area, one and two; sections with every
flag that matters, an unnamed one and one of the upper half. `MaxShown` is
above what these can show.
Printf: words of four digits, ints of two, shorts of one, with arguments that
have each top bit set and clear; directives are any three characters of an
alphabet with one member of each class the parser tells apart.
Interrupts: one tick (it may recur while pending), two keys, and one line of the
slave controller besides, whose requests pass both controllers; two keys are needed for a release next to a press.
Terminal: two lines of three cells, a tab stop of two, at most `MaxTears` = 2
prints that interrupt another and any number between prints; with 4 cells, 3
tears and 6.3 million states the result is the same. `MaxLine` bounds a cursor
that has left the screen already.

**Fairness.** A call in progress runs on, since nothing can block it on a CPU
that has not halted: weak fairness of the loop's steps in `FrameAllocator` and
`Kmalloc`. For the same reason weak fairness of the next step in `Multiboot`
and `Boot`, which are `kernel_main` alone: interrupts come in between but return
(`Interrupts`). In `Interrupts`, weak fairness of the shim and of entering a pending
exception (the CPU executes), of the keyboard controller delivering its next
byte, and strong fairness of `kernel_main`'s steps and of accepting interrupts,
which alternate: an x86 CPU executes the instruction after `iretq` before the
next one can starve it, and accepts a pending interrupt once the flag is on. No
fairness is assumed of ticks, keys, devices and faults.

**Deadlock** is checked except in `interrupts` and `interrupts_extended`, where a
halted CPU really stops, and in `multiboot` and `printf`, where the function
returns (or `printf`'s assertion stops the machine).

## 4. Proofs

`FrameAllocatorProofs` proves, for every page size, memory map, image and
multiboot structure that satisfies the assumptions in `FrameAllocator`
(`PageSizeAssumption`, `UintptrMaxAssumption`, `BootInfoAssumption`):

* `TypeCorrect`: `TypeOK`, inductive as it stands;
* `WalkCorrect`: `WalkInvariant`, the strengthening everything else needs. The
  wanted properties speak of handed frames, and a step hands out
  `next_free_frame`: one has to know that it is beyond all frames handed out,
  that the recorded ranges are those of the sections (`SpansRecorded`), that the
  frames handed out are exactly the unreserved ones below the cursor
  (`HandedIsPassed`), and that all areas below the current one are passed
  (`WalkInOrder`), which needs that areas are disjoint;
* `ReservedSafe`, `FailureExhausted`, `NoFrameTwice`, `FailurePermanent`: the
  properties of the run, from the invariant;
* `Refinement`: every step is a step of `FrameSource` or leaves its variables
  unchanged; the pool is the frames up to the highest area, minus the reserved
  and the handed ones.

The arithmetic of division the solvers lack is stated as lemmas at the top
(`Division`, `DivisionMonotonic`, `DivisionBounds`).

`KmallocProofs` proves, for every size of the heap of two words or more, every
set of request sizes and every content (`HeapSizeAssumption`,
`RequestsAssumption`, `ValuesAssumption`):

* `HeapCorrect`: `HeapInvariant`. Its parts: the headers tile the words below
  the head, each word once (`Tiling`); the free list is a numbering of the freed
  nodes, without repetition, each node's link leading to the next and the last
  to NULL, and the walk in progress has passed nodes that do not fit only
  (`IsList`, `FreeList`); what `krealloc` remembers across its call of `kmalloc`
  still names a held block when it copies (`Locals`). All three are needed at
  once: a link is kept intact because blocks do not overlap, and a block taken
  from the list is no client's because the list holds freed nodes only. The list
  is stated by the existence of a numbering and not by a recursive function, so
  that insertion and removal are facts about one link (`ListInserted`,
  `ListRemoved`);
* `TypeCorrect`, `HeapTiledCorrect`, `FaultCorrect`, `GrowthCorrect`: the
  properties of the run, from the invariant;
* `FreeListCorrect`: the nodes the code's own walk visits are all freed nodes.
  The walk is a recursive function, so this takes an induction over its steps,
  which is carried out as the minimal counterexample (`LeastNumber`, from the
  library's theorem that `<` on `Nat` is well-founded);
* `Refinement`: every step is a step of `HeapService` or leaves what clients see
  unchanged; `krealloc`'s copy is the step in which the service keeps contents.

`TerminalProofs` proves, for every screen that fits its page, every tab stop,
all characters and any number of handlers' prints (`TerminalAssumption`):

* `CursorCorrect`: `CursorInvariant`, which says at each access of a print how
  far `row` and `col` may be off the screen and what the copies in `x`, `y` and
  `counter` are worth after a handler has moved the cursor;
* `CursorStaysOnScreen`: the run's `CursorOnScreen`: the cursor leaves the screen
  through the windows named in `Windows` only;
* `PrintsCorrect`: with it `Untorn`, which follows a print no handler interrupts
  from its first access to its last: so many cells are put, this much is left;
* `Refinement`: until the first torn print the screen is the `Console`'s. The
  page is one row of cells and the console a list of lines, so the lemmas in
  between (`CellsOfLine`, `PutLines`, ...) say which cells are which line's;
  a scroll moves each line one up.

`InterruptsProofs` proves, for every set of devices without a handler, firmware
masks, keys and faults (`LinesAssumption`, `MasksAssumption`,
`FaultsAssumption`, `BoundsAssumption`, which only says that the bounds on
events are numbers):

* `TypeCorrect`: `TypeOK`, which holds that no shim runs with interrupts on;
* `ServiceCorrect`: `ServiceInvariant`, the strengthening. A gate turns
  interrupts off, so one shim runs at a time; the line it serves enters service
  with it and leaves by its one EOI (`InService`, `ShimServesItsLine`). The EOI
  never goes to the slave controller: no slave line gets as far, since its
  vector still has `i_ok`, which halts (`HandlersInPlace`). The keyboard's
  handler finds a byte whenever it is called (`ByteForRequest`);
* `InServiceOnlyInShimCorrect` and `HaltHasACauseCorrect`: the two invariants of
  the run, which are not inductive alone. The first needs to know which handlers
  a slave line's shim can call, the second that the keyboard's vector has its
  handler when `kernel_main` is in its loop;
* `KeysCorrect` and `KeysPrintedInOrderCorrect`, for keys whose codes are not
  the prefixes' (`KeysAssumption`) and as long as no byte came before the keyboard
  controller was programmed. The invariant has a witness that tells for
  every byte not yet read how many characters will be printed up to it
  (`WillPrint`): a byte adds one if it is a key's with a character and neither
  the byte before it nor, for the first, `keyboard_key_released` makes it one of
  a release. `ReadByte` and `SendByte` say that reading and sending a byte keep
  it; the text printed is searched by recursion, whose one step is `KeysOfAppend`.

`MultibootProofs` proves, for every list of tags a loader may pass and every
number of areas and sections (`MultibootAssumption`, `ListsAssumption`):

* `WalkCorrect`: `WalkInvariant`. The code computes the next tag's address from
  a tag's size, the loader's placement is a recursive function of the tags in
  front: that they agree (`Agreement`) rests on both rounding up to 8, and that
  each address names one tag is an induction carried out as the minimal
  counterexample. The walk is therefore always at a tag, and it has kept the
  pointers of exactly the tags it has passed;
* `PointersCorrect`: `PointersKept`: when the walk is over each pointer is the
  address of the loader's tag of its type, or NULL if there is none;
* `ReadingCorrect`: the run's `ReadsWhatWasStored`. The invariant of the output,
  `ShownInvariant`, says for each point of the walk which part of what the
  loader stored has been shown, as a sequence; `PartsOfTag` and
  `PartsOfSections` say how such a part grows by one item and that it begins
  the whole, `HeaderRead` that a section's header is read where it lies. What
  was stored is put together by the recursion of `FlattenSeq`: `UptoSteps`
  turns it into one step per tag, `ContentsFit` counts what it comes to, both
  by minimal counterexample.

`BootProofs` proves, for every machine (`MachinesAssumption`), size of the
tables, heap and place of the temporary pages (`RemappingAssumption`, which is
what `Paging` assumes of them and the refinement does not need):

* `WalkCorrect`: the allocator's `WalkInvariant` holds throughout the boot. The
  theorems of `FrameAllocatorProofs` are used as they stand, through an instance
  of that module: every step of the boot is a step of `FrameAllocator` or leaves
  its variables alone (`AllocatorSteps`), and its assumptions follow from those
  on machines (`AllocatorAssumptions`);
* `Refinement`: the run's `ImplementsPaging`. A returned frame is the lowest of
  the pool, and a failed call means that the pool is empty (`TakesLowest`,
  `FailsEmpty` of `FrameAllocatorProofs`); every other step of the remapping
  reads neither pool nor free frames, so it is the same step of `Paging` over
  the pool (`SilentSteps`); at first the pool is the layout's free frames
  (`PoolOfMachine`);
* `RemappingSafe`: the boot is `Paging` over the pool, so the theorems of
  `PagingProofs` hold of it, by an instance of that module: the kernel with its
  real allocator stays mapped, edits the right tables and ends with the mapping
  the loops describe, each with the exceptions its property names;
* `HandedCorrect`: what the allocator has given is what is missing in the pool;
* `FramesAccountedCorrect`: the run's `FramesAccounted`, from `Accounted` of
  `PagingProofs`;
* `ImageUntouchedCorrect`: the run's `ImageUntouched`. Until a null pointer is
  taken for a table, stores go to frames that were given or to the old root
  (`StoresToOwn` of `PagingProofs`), and no frame
  with a byte in use is one the allocator gives (`InUseNotFree`).

`PagingProofs` proves, for any number of entries of a table, any layouts, any
amount of memory and memory that is zero at first (`ZeroedMemory`, as the run
`paging` has it; `paging_leftovers` shows what happens otherwise). All of it is
about a boot that is on course (`OnCourse`): no null pointer was taken for a
table, and there was no page fault. From the step on at which the code goes on
with a null pointer nothing is proved, and nothing much holds. Up to there:

* `Invariance`: the inductive invariant `IInv`. The heart of it is that every
  frame that is a table has one place (`Tree`): a level, the table above and the
  index there. So two ways through the tables that end in the same table are the
  same way (`WaysApart`), and a store to one page's last entry changes no other
  page, no table above and no translation in the window of the recursive entry
  (`LeafStore`, `WindowStable`). Frames of the allocator are no table and hold
  nothing, so a new table adds no mapping (`TableStore`). Besides, the recursive
  entries lead to the tree that is edited (`Recursive`), each temporary page is
  mapped from when it is needed until it is not (`TemporaryPages`), a job's table
  is seen where `descened_page_table` computes (`JobOK`), and the buffer is sound
  but before a flush (`Buffer`). Which frame has which place is no state of the
  program; the invariant says that there are places, and each step that makes a
  table or a root gives new ones;
* `TypeCorrect`, `CoherentCorrect`, `RightTreeCorrect`, `TranslateCorrect`: the
  run's `TypeOK`, on course, `AccessesCoherent` and `EditsTheRightTree`, and
  `TranslateAgrees`, about `translate_page`. That the window shows the table of each level is `WindowWalk`, over what
  the first part of the module proves about addresses: indices are digits, a
  page is told apart by its four, and going down shifts them by one.
* `ViewInvariance`: with `IInv`, `View` and `Counts` are invariant. `Expected`
  says what a page's translation in the new tree should be at each point of the
  remapping: the rights of the last section that has been mapped there, then
  those of the screen and of the multiboot loop, the hole, the heap. A job whose
  page is not set yet is the only exception (`Pending`), and what it will store is
  what is expected. A loop over addresses has passed exactly the pages of its
  range (`LoopOfSection`, `LoopOfStructure`), a table made on the way changes no
  translation (`WalkAfterTable`), and a leaf set changes one (`WalkAfterLeaf`);
* `KernelMappedCorrect`, `FinalMappingCorrect`: the run's `KernelMapped` and
  `FinalMapping`. Under the old root the pages are mapped since no step touches
  what `boot.s` has built (`BootMapping`); under the new one by `View`, whose loops
  have all ended when `cr3` is loaded. `KernelMapped` speaks of every page with a
  byte of a loaded section and names the pages the loops lose: a last page with
  one byte (`LastByteOnly`), and the right to execute where the loop over the
  structure runs too far (`Overrun`);
* `HeapFramesPrivateCorrect`: the run's `HeapFramesPrivate`. While `init_heap`
  runs, tables and heap pages take their frames from the same allocator in turn.
  `PrivateFrames` says that the frames of the heap's pages were free, are no
  longer in the pool, have no place in the trees and are not shared, and that
  every other page shows no frame the allocator ever had (`Harmless`), but for
  those the overlong multiboot loop maps to themselves for reading. A new table
  gets a frame from the pool and leaves the places of all others as they are
  (`CreateTablePlaces`); every table the new root leads to has a place
  (`TablesPlaced`), so no heap page is one. All this holds as long as the
  allocator has not come to the screen's frame, which lies in the hole between
  two areas (`frame_allocator_holes`) and is mapped for writing besides;
* `FramesInvariance`: with the same places `Accounts` is invariant, the converse
  of all that: a frame with a place was handed out or is a table of `boot.s`
  (`Owned`), an entry leads to each table but the two roots (`Linked`,
  `TwoRoots`), and a frame that was handed out and has no place is a heap page's
  (`NothingLost`). An entry that leads to a table is never overwritten; the one
  step that clears a whole table, the new root's, comes when nothing is below it
  yet (`NothingBelowNewRoot`);
* `AccountedCorrect`: in the end what was handed out is exactly the tables below
  the new root, those the old root got and the heap's pages, each frame once. A
  table has one root, found by following its place upwards (`RootOf`), and is
  reached from there by the entries (`TablesFound`);
* `StoresToOwnCorrect`: the run's `StoresToOwn`: no step writes to a frame that
  was not handed out, the root of `boot.s` aside. What could write to that root's own tables is a job
  for a page below them, and there is none: the temporary pages are elsewhere.

When the first allocation of all fails, the code goes on with frame 0 as its new
root; the proof shows that it never gets to use it, as the second one fails
with it (`Doomed`). Assumed of the machine (`PlacesAssumption`,
`LayoutAssumption`): the temporary pages and the heap lie outside of what
`boot.s` maps and of the recursive window, the temporary pages (0xdeadbeef and
0xdddd0000, with first indices 27) not below its root's first entry either; the
tables of `boot.s` are three
frames that are not free, and what is mapped to itself is memory. And of the
image (`ImageAssumption`): kernel, screen and multiboot structure lie in what
`boot.s` maps; the allocator has no frame of the kernel, as
`FrameAllocatorProofs` shows; the guard page is neither screen nor structure; no page with code
also holds bytes of a section without code, the screen or the structure. One clause was found by the
proof: the loop over the structure steps by pages up to its start plus eight
times its size, so it covers a structure that begins near the end of a page and
reaches into the next only if the structure is an eighth of a page or more.

`PrintfProofs` proves, for every format, every list of arguments and every
width of a word, an int and a short (`PrintfAssumption`, `PowersAssumption`):

* `FormatsCorrect`: the run's `FormatUnderstood`. `IsDirective` says of a text
  that it *can* be divided into flag, width, length and specifier; `get_format`
  divides by taking each part as long as it can be. `ParsedIsDirective` shows
  that what is accepted can be so divided, unless it has a point in it;
  `DirectiveIsParsed` that nothing that can is refused, whatever follows it.
  The characters that may begin one part may not continue the one before
  (`Letters`), but for the 0: taken as a flag it makes the width one digit
  shorter and no other part different;
* `ArgumentsCorrect`: the run's `ArgumentsInStep`. A star in an accepted
  directive is always the width's (`StarFound`): one behind a point ends in the
  assertion, whatever digits follow. The four types whose argument is left
  can be told by the text alone (`LeftIsSeen`). `ArgumentInvariant` is then that
  `next_arg` is ahead by what the turns so far needed, and that strings are
  where their argument says;
* `NumbersCorrect`: the run's `NumbersReadBack`, for words of any width instead
  of the run's four digits, and for every width a format asks for. The lowest
  `n` digits of a word add up to its remainder by `16 ^ n` (`DigitsAddUp`), and
  where `print_integer_as_hex` starts, only zeros are left of the text
  (`HexShown`, `LeadingZeros`). What `Word` hands to it is the argument cut to
  its type: a short is extended to a word and keeps its own digits, since a
  short divides a word (`WordPrinted`). The type can be told by the text: an `h`
  in it is a length, as is a letter in front of the specifier (`LengthSeen`).

What the library defines by recursion is handled as in `MultibootProofs`:
`FlattenAppend` says what `FlattenSeq` does with one more sequence,
`SumOverMore` what a sum does with one more element, which may be taken first
although the sum takes them in an order of its own (`SumTakes`). Of powers with
a variable exponent the provers know next to nothing; they are given that
`16 ^ (n + 1)` is `16 * 16 ^ n` up to the size of a word (`PowersAssumption`),
which TLC evaluates on the run. What else is needed of them, that they are
positive and that the smaller divide the larger, is proved from it by a least
counterexample (`Powers`, `PowerDivides`).

**Only model-checked**: `AllocateReturns`, `CallReturns`, `BootFinishes`,
`KeysAreRead`, `BootEnds`, `WalkEnds`: liveness under fairness is out of the
prover's reach. And `NullTableMeansExhausted`, which after the first null pointer
speaks of states the invariants do not describe. Every other invariant and every
action property of a passing run is proved.

## 5. What is not modelled

* `pit.c`, which is never called and whose one operation writes two bytes to a
  port; `interrupts.c`, a description of the descriptor table in C that nothing
  calls (`boot64.s` builds the table and `Interrupts` models it); `irq_set_mask`, `pic_write_EOI`, `pic_disable_interrupts`, `print_tag`,
  `print_memory_tags`: never called.
* The feature checks of `boot.s` and the setting of control registers
  (`enable_no_exec`, the disabled `enable_write_protect`): straight-line code.
* What the exception handlers and the assertion write on the screen.
* In `Printf`, the characters of text, which are `Terminal`'s; pointers (`%p`)
  and `%n`, which end in an assertion.
* What lies in memory apart from tables, so what code and data a null table
  overwrites, and what runs after that.
* The depth of the stack; exceptions inside handlers; spurious and non-maskable
  interrupts; the handlers' own output during a page fault; loaders whose tags are
  smaller than a header or whose areas are not 24 bytes long.

## 6. Plan

1. (done) The core: frame allocator with proofs, heap, paging, interrupts,
   terminal.
2. (done) `Boot`, old contents of frames, `Multiboot`, `Printf`; proofs about
   `Interrupts`.
3. `Terminal` inside `Interrupts`: the handlers' prints as their effects.
4. (done) Proofs about `Kmalloc` and `Terminal`, their refinements included;
   about `Multiboot`; that `Boot` implements `Paging`; `KeysPrintedInOrder`.
5. (done) Proofs of the safety properties of `Paging` for zeroed memory, until a
   null pointer is taken for a table, and of `Boot`: what the allocator has given
   away. What the code does after that is followed by TLC only.
6. (done) `ReadsWhatWasStored`.
7. (done) `FormatUnderstood`, `ArgumentsInStep`, `NumbersReadBack`.
