------------------------------ MODULE Kmalloc ------------------------------
(***************************************************************************)
(* The kernel heap, kmalloc.c: blocks behind 16-byte headers, a singly     *)
(* linked list of freed blocks, and at its head the node that holds the    *)
(* part of the heap never given out.                                       *)
(*                                                                         *)
(* Memory is counted in 8-byte words from heap_start_addr, so a header is  *)
(* two words, next and size.  A request that is no multiple of 8 bytes     *)
(* only moves the boundaries by less than a word.  The walk of             *)
(* allocate_memory along the list is one step per node.                    *)
(*                                                                         *)
(* Nothing is mapped behind the heap, so a header that would be written    *)
(* there ends the modelled behaviour in a page fault.                      *)
(***************************************************************************)
EXTENDS Integers, FiniteSets

CONSTANTS
  heap_size,   \* words mapped for the heap
  Requests,    \* the sizes clients ask for, in words
  Values       \* what clients store in their blocks

ASSUME HeapSizeAssumption == heap_size \in Nat /\ heap_size >= 2

ASSUME RequestsAssumption == Requests \subseteq Nat

ASSUME ValuesAssumption == Values \subseteq Int

VARIABLES
  mem,             \* the heap's words
  free_list_head,  \* address of the node that holds the rest of the heap
  pc,              \* "boot", "idle", "walk", "copy" or "fault"
  node,            \* allocate_memory's cursor
  required_bytes,  \* what the walk looks for
  resize,          \* the block krealloc moves, or NULL for a plain kmalloc
  result,          \* the block allocate_memory found for krealloc
  held,            \* the blocks in use: address |-> words the client may use
  freed            \* history: the nodes kfree put in the list, still there

vars == <<mem, free_list_head, pc, node, required_bytes, resize, result, held,
          freed>>

-----------------------------------------------------------------------------

\* sizeof(struct free_node)
HeaderSize == 2

\* Mutant: a split may leave a rest too small for its header.
minimum_alloc_size_NoHeader == 1

\* The least rest worth splitting off: a header and two words.
minimum_alloc_size == HeaderSize + 2

NULL == -1

Addresses == 0 .. heap_size - 1

\* get_free_node_from_addr, and the address kmalloc returns for a node.
get_free_node_from_addr(addr) == addr - HeaderSize
AddressOf(n) == n + HeaderSize

\* The fields of struct free_node.
NextOf(n) == mem[n]
SizeOf(n) == mem[n + 1]

\* The heap with the fields of node n assigned.
WithNode(m, n, next, size) == [m EXCEPT ![n] = next, ![n + 1] = size]

Init ==
  /\ mem = [a \in Addresses |-> 0]
  /\ free_list_head = NULL
  /\ pc = "boot"
  /\ node = NULL
  /\ required_bytes = 0
  /\ resize = NULL
  /\ result = NULL
  /\ held = << >>
  /\ freed = {}

\* init_heap: one node, as large as the heap, its own header included.
init_heap ==
  /\ pc = "boot"
  /\ pc' = "idle"
  /\ free_list_head' = 0
  /\ mem' = WithNode(mem, 0, NULL, heap_size)
  /\ UNCHANGED <<node, required_bytes, resize, result, held, freed>>

-----------------------------------------------------------------------------
(* allocate_memory *)

\* Mutant: the walk starts one node late.
StartWalk_SkipsFirst(bytes) ==
  /\ pc' = "walk"
  /\ node' = IF NextOf(free_list_head) = NULL THEN free_list_head
                                            ELSE NextOf(free_list_head)
  /\ required_bytes' = bytes

\* The cursor starts at the head, whose own size is not looked at.
StartWalk(bytes) ==
  /\ pc' = "walk"
  /\ node' = free_list_head
  /\ required_bytes' = bytes

\* kmalloc is called.
kmalloc(bytes) ==
  /\ pc = "idle"
  /\ StartWalk(bytes)
  /\ resize' = NULL
  /\ UNCHANGED <<mem, free_list_head, result, held, freed>>

\* Mutant: an exact fit is passed by.
Fits_Strict(n) == SizeOf(n) > required_bytes

Fits(n) == SizeOf(n) >= required_bytes

\* The next node is too small: on along the list.
AdvanceCursor ==
  /\ pc = "walk"
  /\ NextOf(node) # NULL
  /\ ~Fits(NextOf(node))
  /\ node' = NextOf(node)
  /\ UNCHANGED <<mem, free_list_head, pc, required_bytes, resize, result, held,
                 freed>>

\* The locals of a call are gone once it returns.
LocalsGone ==
  node' = NULL /\ required_bytes' = 0 /\ resize' = NULL /\ result' = NULL

\* Node n is allocated: kmalloc returns its address, krealloc goes on to copy.
Allocated(n) ==
  \/ /\ resize = NULL
     /\ pc' = "idle"
     /\ held' = [a \in DOMAIN held \cup {AddressOf(n)} |->
                   IF a = AddressOf(n) THEN required_bytes ELSE held[a]]
     /\ LocalsGone
  \/ /\ resize # NULL
     /\ pc' = "copy"
     /\ result' = n
     /\ UNCHANGED <<held, node, required_bytes, resize>>

\* The next node fits with less than minimum_alloc_size to spare: it is taken
\* out of the list whole, and keeps its size.
TakeWholeNode ==
  /\ pc = "walk"
  /\ NextOf(node) # NULL
  /\ Fits(NextOf(node))
  /\ LET old == NextOf(node) IN
       /\ SizeOf(old) - required_bytes < minimum_alloc_size
       /\ mem' = [WithNode(mem, old, NULL, SizeOf(old))
                    EXCEPT ![node] = NextOf(old)]
       /\ freed' = freed \ {old}
       /\ Allocated(old)
  /\ UNCHANGED free_list_head

\* Mutant: the rest's size does not pay for its header.
RestSize_NoHeader(old) == SizeOf(old) - required_bytes

\* The size of what is left of a split block.
RestSize(old) == SizeOf(old) - required_bytes - HeaderSize

\* The next node fits with room to spare: its tail replaces it in the list.
SplitNode ==
  /\ pc = "walk"
  /\ NextOf(node) # NULL
  /\ Fits(NextOf(node))
  /\ LET old == NextOf(node)
         rest == old + HeaderSize + required_bytes
     IN  /\ SizeOf(old) - required_bytes >= minimum_alloc_size
         /\ mem' = [WithNode(WithNode(mem, rest, NextOf(old), RestSize(old)),
                             old, NULL, required_bytes)
                      EXCEPT ![node] = rest]
         /\ freed' = (freed \ {old}) \cup {rest}
         /\ Allocated(old)
  /\ UNCHANGED free_list_head

NewHead == free_list_head + HeaderSize + required_bytes

\* No freed node fits: the request is cut off the head, whose size is not
\* compared with it.
TakeFromHead ==
  /\ pc = "walk"
  /\ NextOf(node) = NULL
  /\ NewHead + 1 \in Addresses
  /\ mem' = WithNode(WithNode(mem, NewHead, NextOf(free_list_head),
                              RestSize(free_list_head)),
                     free_list_head, NULL, required_bytes)
  /\ free_list_head' = NewHead
  /\ Allocated(free_list_head)
  /\ UNCHANGED freed

\* The new head's size field lies behind the heap: storing it faults.
HeapOverrun ==
  /\ pc = "walk"
  /\ NextOf(node) = NULL
  /\ NewHead + 1 \notin Addresses
  /\ pc' = "fault"
  /\ UNCHANGED <<mem, free_list_head, node, required_bytes, resize, result,
                 held, freed>>

\* page_fault_handler halts with interrupts disabled.
page_fault_handler == pc = "fault" /\ UNCHANGED vars

-----------------------------------------------------------------------------
(* kfree and krealloc *)

\* Mutant: the freed node cuts the list off.
Inserted_LosesList(m, n) == [m EXCEPT ![n] = NULL, ![free_list_head] = n]

\* Mutant: the two assignments swapped, so that the node follows itself.
Inserted_Swapped(m, n) == [m EXCEPT ![n] = n, ![free_list_head] = n]

\* The list once node n is put behind the head.
Inserted(m, n) ==
  [m EXCEPT ![n] = m[free_list_head], ![free_list_head] = n]

kfree(addr) ==
  /\ pc = "idle"
  /\ mem' = Inserted(mem, get_free_node_from_addr(addr))
  /\ freed' = freed \cup {get_free_node_from_addr(addr)}
  /\ held' = [a \in DOMAIN held \ {addr} |-> held[a]]
  /\ UNCHANGED <<free_list_head, pc, node, required_bytes, resize, result>>

\* krealloc when the block is large enough as it is.
ReallocInPlace(addr, bytes) ==
  /\ pc = "idle"
  /\ SizeOf(get_free_node_from_addr(addr)) >= bytes
  /\ held' = [held EXCEPT ![addr] = bytes]
  /\ UNCHANGED <<mem, free_list_head, pc, node, required_bytes, resize, result,
                 freed>>

\* krealloc when it is not: kmalloc first.
ReallocMove(addr, bytes) ==
  /\ pc = "idle"
  /\ SizeOf(get_free_node_from_addr(addr)) < bytes
  /\ StartWalk(bytes)
  /\ resize' = addr
  /\ UNCHANGED <<mem, free_list_head, result, held, freed>>

\* Mutant: the last word is not copied.
kmemcpy_Short(dest, src, bytes) ==
  [a \in Addresses |->
     IF dest <= a /\ a < dest + bytes - 1 THEN mem[src + (a - dest)]
                                          ELSE mem[a]]

\* kmemcpy, for ranges that do not overlap.
kmemcpy(dest, src, bytes) ==
  [a \in Addresses |->
     IF dest <= a /\ a < dest + bytes THEN mem[src + (a - dest)] ELSE mem[a]]

\* Then the old block's words are copied, and the old block freed.
CopyAndFree ==
  /\ pc = "copy"
  /\ LET old == get_free_node_from_addr(resize) IN
       /\ mem' = Inserted(kmemcpy(AddressOf(result), resize, SizeOf(old)), old)
       /\ freed' = freed \cup {old}
  /\ held' = [a \in (DOMAIN held \ {resize}) \cup {AddressOf(result)} |->
                IF a = AddressOf(result) THEN required_bytes ELSE held[a]]
  /\ pc' = "idle"
  /\ LocalsGone
  /\ UNCHANGED free_list_head

\* A client fills its block.
ClientStores(addr, v) ==
  /\ pc = "idle"
  /\ mem' = [a \in Addresses |->
               IF addr <= a /\ a < addr + held[addr] THEN v ELSE mem[a]]
  /\ UNCHANGED <<free_list_head, pc, node, required_bytes, resize, result,
                 held, freed>>

Next ==
  \/ init_heap
  \/ \E bytes \in Requests : kmalloc(bytes)
  \/ AdvanceCursor
  \/ TakeWholeNode
  \/ SplitNode
  \/ TakeFromHead
  \/ HeapOverrun
  \/ page_fault_handler
  \/ \E addr \in DOMAIN held : kfree(addr)
  \/ \E addr \in DOMAIN held, bytes \in Requests : ReallocInPlace(addr, bytes)
  \/ \E addr \in DOMAIN held, bytes \in Requests : ReallocMove(addr, bytes)
  \/ CopyAndFree
  \/ \E addr \in DOMAIN held, v \in Values : ClientStores(addr, v)

Spec == Init /\ [][Next]_vars

\* A call in progress keeps running until it returns or faults.
InCall == AdvanceCursor \/ TakeWholeNode \/ SplitNode \/ TakeFromHead
            \/ HeapOverrun \/ CopyAndFree

FairSpec == Spec /\ WF_vars(InCall)

-----------------------------------------------------------------------------
(* Properties *)

HeldNodes == {get_free_node_from_addr(a) : a \in DOMAIN held}

\* Every header below the head: blocks in use, freed blocks, and the block
\* krealloc is about to copy into.
Nodes == HeldNodes \cup freed \cup (IF pc = "copy" THEN {result} ELSE {})

EndOf(n) == n + HeaderSize + SizeOf(n)

(* Type invariant; the size fields of headers are never negative, that is,  *)
(* no size_t subtraction of allocate_memory wraps.                          *)
TypeOK ==
  /\ mem \in [Addresses -> Int]
  /\ free_list_head \in Addresses \cup {NULL}
  /\ pc \in {"boot", "idle", "walk", "copy", "fault"}
  /\ node \in Addresses \cup {NULL}
  /\ required_bytes \in Nat
  /\ resize \in Addresses \cup {NULL, heap_size}
  /\ result \in Addresses \cup {NULL}
  /\ held \in [DOMAIN held -> Nat]
  /\ freed \subseteq Addresses
  /\ \A n \in Nodes : n + 1 \in Addresses /\ SizeOf(n) \in Nat

(* The blocks in use, the freed blocks and the head partition the heap: no  *)
(* word below the head belongs to two of them or to none, splits and the    *)
(* slack of blocks taken whole included, and the head's size is the rest.   *)
HeapTiled ==
  pc # "boot" =>
    /\ free_list_head + SizeOf(free_list_head) = heap_size
    /\ HeldNodes \cap freed = {}
    /\ pc = "copy" => result \notin HeldNodes \cup freed
    /\ \A n \in Nodes : 0 <= n /\ EndOf(n) <= free_list_head
    /\ \A n, m \in Nodes : n # m => EndOf(n) <= m \/ EndOf(m) <= n
    /\ \A a \in 0 .. free_list_head - 1 :
         \E n \in Nodes : n <= a /\ a < EndOf(n)
    /\ \A a \in DOMAIN held : held[a] <= SizeOf(get_free_node_from_addr(a))

\* The nodes the list passes through, NULL included if it ends.
Listed ==
  LET nth[k \in Addresses] ==
        IF k = 0 THEN NextOf(free_list_head)
        ELSE IF nth[k - 1] = NULL THEN NULL
        ELSE NextOf(nth[k - 1])
  IN  {nth[k] : k \in Addresses}

(* The free list holds every freed block and nothing else, and ends: no     *)
(* block is lost to a later kmalloc, and none in use is on the list.        *)
FreeListComplete == pc # "boot" => Listed = freed \cup {NULL}

(* allocate_memory eats into the untouched part of the heap only when no    *)
(* freed block is large enough.                                             *)
GrowsOnlyWhenNothingFits ==
  [][pc = "walk" /\ free_list_head' # free_list_head
       => \A n \in freed : SizeOf(n) < required_bytes]_vars

(* kmalloc has no failure result: it faults.  It does so only when no freed *)
(* block fits and the rest has no room for the request and a new header.    *)
FaultMeansExhausted ==
  pc = "fault" =>
    /\ \A n \in freed : SizeOf(n) < required_bytes
    /\ SizeOf(free_list_head) < HeaderSize + required_bytes + HeaderSize

(* Every call of kmalloc and krealloc returns or faults: the walk ends.     *)
CallReturns == pc \in {"walk", "copy"} ~> pc \in {"idle", "fault"}

\* The blocks in use, as their owners see them.
BlocksInUse ==
  [a \in DOMAIN held |->
     [size  |-> held[a],
      words |-> [i \in 0 .. held[a] - 1 |-> mem[a + i]]]]

Service == INSTANCE HeapService WITH blocks <- BlocksInUse

(* The heap implements the heap service: blocks in use never overlap, each  *)
(* keeps its contents through the calls of others, and krealloc keeps what  *)
(* fits the new size.                                                       *)
ImplementsHeapService == Service!Spec
=============================================================================
