--------------------------- MODULE MultibootProofs ---------------------------
(***************************************************************************)
(* Proofs about Multiboot, for everything a loader may pass.               *)
(*                                                                         *)
(* The loader's side says where each tag lies by recursion over the tags,  *)
(* the code finds the next one from the size the current one states.  That *)
(* the two agree is the substance (Agreement); the invariant of the walk,  *)
(* WalkInvariant, is then that the tag visited is the k-th and that the    *)
(* pointers are those among the first k.  That of the output,              *)
(* ShownInvariant, is that all there was to show of what lies behind the   *)
(* walk has been shown: the lists of areas and sections are as long as the *)
(* code computes, and each element lies where it looks.                    *)
(***************************************************************************)
EXTENDS Multiboot, SequenceTheorems, WellFoundedInduction, TLAPS

-----------------------------------------------------------------------------
(* Natural numbers *)

(* Every set of natural numbers has a least one: what the proofs by         *)
(* induction over the tags rest on.                                         *)
LEMMA LeastNumber ==
  ASSUME NEW T, T \subseteq Nat, T # {}
  PROVE  \E x \in T : \A y \in T : x <= y
<1> DEFINE R == {ss \in Nat \X Nat : ss[1] < ss[2]}
<1>1. R = OpToRel(<, Nat)
  BY DEF OpToRel
<1>2. IsWellFoundedOn(R, Nat)
  BY <1>1, NatLessThanWellFounded
<1>3. PICK x \in T : \A y \in T : <<y, x>> \notin R
  <2> HIDE DEF R
  <2> QED
    BY <1>2, WFMin
<1>4. ASSUME NEW y \in T PROVE x <= y
  <2>1. x \in Nat /\ y \in Nat
    OBVIOUS
  <2>2. <<y, x>> \in Nat \X Nat
    BY <2>1
  <2>3. y < x => <<y, x>> \in R
    BY <2>2, Zenon
  <2> QED
    BY <1>3, <2>1, <2>3
<1> QED
  BY <1>4

(* The multiple of 8 the code computes behind an address.                   *)
Aligned(a) == IF a % 8 = 0 THEN a ELSE a + 8 - (a % 8)

(* It is the only one among the next eight addresses.                       *)
LEMMA AlignedIsNext ==
  ASSUME NEW e \in Nat
  PROVE  /\ Aligned(e) \in Nat /\ Aligned(e) >= e
         /\ (CHOOSE a \in e .. e + 7 : a % 8 = 0) = Aligned(e)
<1>1. /\ Aligned(e) \in e .. e + 7 /\ Aligned(e) % 8 = 0
  BY DEF Aligned
<1>2. \A a \in e .. e + 7 : a % 8 = 0 => a = Aligned(e)
  BY DEF Aligned
<1>3. (CHOOSE a \in e .. e + 7 : a % 8 = 0) = Aligned(e)
  <2> DEFINE c == CHOOSE a \in e .. e + 7 : a % 8 = 0
  <2>1. c \in e .. e + 7 /\ c % 8 = 0
    BY <1>1, Zenon
  <2> QED
    BY <1>2, <2>1
<1> QED
  BY <1>1, <1>3

-----------------------------------------------------------------------------
(* The loader's side *)

(* The address of tag k when the one before it is at a.                     *)
Behind(b, k, a) ==
  IF k = 1 THEN b.start + 8
  ELSE LET end == a + b.tags[k - 1].size
       IN  CHOOSE n \in end .. end + 7 : n % 8 = 0

(* What Placed defines by recursion: the address of each of n tags.         *)
Addresses(b, n, f) == f = [k \in 1 .. n |-> Behind(b, k, f[k - 1])]

(* There are such addresses, for any number of tags.                        *)
LEMMA AddressesExist ==
  ASSUME NEW b
  PROVE  \A n \in Nat : \E f : Addresses(b, n, f)
<1> DEFINE T == {n \in Nat : ~ \E f : Addresses(b, n, f)}
<1>1. SUFFICES ASSUME T # {} PROVE FALSE
  OBVIOUS
<1>2. PICK n \in T : \A m \in T : n <= m
  BY <1>1, LeastNumber
<1>3. n \in Nat /\ ~ \E f : Addresses(b, n, f)
  OBVIOUS
<1>4. CASE n = 0
  <2> DEFINE f == [k \in 1 .. 0 |-> 0]
  <2>1. Addresses(b, 0, f)
    BY DEF Addresses
  <2> QED
    BY <1>3, <1>4, <2>1
<1>5. CASE n # 0
  <2>1. n - 1 \in Nat /\ n - 1 \notin T
    BY <1>2, <1>3, <1>5
  <2>2. PICK f : Addresses(b, n - 1, f)
    BY <2>1
  <2> DEFINE g == [k \in 1 .. n |->
                     IF k < n THEN f[k] ELSE Behind(b, n, f[n - 1])]
  <2>3. ASSUME NEW k \in 1 .. n PROVE g[k] = Behind(b, k, g[k - 1])
    <3>1. k = 1 \/ (k - 1 \in 1 .. n - 1 /\ k - 1 \in 1 .. n /\ k - 1 < n)
      BY <1>3
    <3>2. k = 1 \/ g[k - 1] = f[k - 1]
      BY <3>1
    <3>3. Behind(b, k, g[k - 1]) = Behind(b, k, f[k - 1])
      <4> HIDE DEF g
      <4>1. CASE k = 1
        BY <4>1 DEF Behind
      <4>2. CASE k # 1
        BY <3>2, <4>2
      <4> QED
        BY <4>1, <4>2
    <3>4. CASE k < n
      <4>1. k \in 1 .. n - 1
        BY <1>3, <3>4
      <4>2. f[k] = Behind(b, k, f[k - 1])
        BY <2>2, <4>1 DEF Addresses
      <4>3. g[k] = f[k]
        BY <3>4
      <4> QED
        BY <3>3, <4>2, <4>3, Zenon
    <3>5. CASE k = n
      <4>1. g[k] = Behind(b, k, f[k - 1])
        BY <1>3, <3>5
      <4> QED
        BY <3>3, <4>1, Zenon
    <3> QED
      BY <1>3, <3>4, <3>5
  <2>4. g = [k \in 1 .. n |-> Behind(b, k, g[k - 1])]
    <3>1. g = [k \in 1 .. n |-> g[k]]
      OBVIOUS
    <3> HIDE DEF g
    <3> QED
      BY <2>3, <3>1
  <2>5. Addresses(b, n, g)
    <3> HIDE DEF g
    <3> QED
      BY <2>4 DEF Addresses
  <2> QED
    BY <1>3, <2>5, Zenon
<1> QED
  BY <1>4, <1>5

(* What the recursion of Placed computes.                                   *)
LEMMA PlacedAddresses ==
  ASSUME NEW b \in Boots
  PROVE  LET p == Placed(b) IN
         /\ p.start = b.start /\ p.tags = b.tags
         /\ \A k \in DOMAIN b.tags : p.at[k] = Behind(b, k, p.at[k - 1])
<1> DEFINE f == CHOOSE g : Addresses(b, Len(b.tags), g)
<1>1. Len(b.tags) \in Nat /\ DOMAIN b.tags = 1 .. Len(b.tags)
  BY MultibootAssumption
<1>2. Addresses(b, Len(b.tags), f)
  BY <1>1, AddressesExist, Zenon
<1>3. Placed(b) = [start |-> b.start, tags |-> b.tags, at |-> f]
  BY <1>1 DEF Placed, Addresses, Behind
<1> HIDE DEF f
<1>4. \A k \in 1 .. Len(b.tags) : f[k] = Behind(b, k, f[k - 1])
  BY <1>2 DEF Addresses
<1> QED
  BY <1>1, <1>3, <1>4

(* Tags follow each other at growing addresses, each aligned behind the one *)
(* before.                                                                  *)
Laid(p) ==
  /\ p.start \in Nat \ {0}
  /\ Len(p.tags) \in Nat \ {0} /\ DOMAIN p.tags = 1 .. Len(p.tags)
  /\ \A k \in DOMAIN p.tags :
       /\ p.tags[k].size \in Nat
       /\ p.tags[k].type = 0 <=> k = Len(p.tags)
       /\ p.at[k] \in Nat \ {0}
  /\ \A j, k \in DOMAIN p.tags :
       p.tags[j].type = p.tags[k].type /\ p.tags[j].type \in KeptTypes => j = k
  /\ p.at[1] = p.start + 8
  /\ \A k \in 2 .. Len(p.tags) :
       p.at[k] = Aligned(p.at[k - 1] + p.tags[k - 1].size)
  /\ \A j, k \in DOMAIN p.tags : j < k => p.at[j] < p.at[k]

(* Whatever the loader passes lies so.                                      *)
LEMMA LoaderLays ==
  ASSUME NEW b \in Boots
  PROVE  Laid(Placed(b))
<1> DEFINE p == Placed(b)
           n == Len(b.tags)
<1>1. /\ b.start \in Nat \ {0}
      /\ n \in Nat /\ DOMAIN b.tags = 1 .. n
      /\ \A k \in 1 .. n :
           /\ b.tags[k].size \in Nat /\ b.tags[k].size >= 8
           /\ b.tags[k].type = 0 <=> k = n
      /\ \A j, k \in 1 .. n :
           b.tags[j].type = b.tags[k].type /\ b.tags[j].type \in KeptTypes => j = k
      /\ n # 0
  BY MultibootAssumption
<1>2. /\ p.start = b.start /\ p.tags = b.tags
      /\ \A k \in 1 .. n : p.at[k] = Behind(b, k, p.at[k - 1])
  BY <1>1, PlacedAddresses
<1> HIDE DEF p, n
<1>3. p.at[1] = b.start + 8
  BY <1>1, <1>2 DEF Behind
<1>4. \A k \in 2 .. n :
        p.at[k - 1] \in Nat =>
          /\ p.at[k] = Aligned(p.at[k - 1] + b.tags[k - 1].size)
          /\ p.at[k] \in Nat /\ p.at[k] > p.at[k - 1]
  <2> SUFFICES ASSUME NEW k \in 2 .. n, p.at[k - 1] \in Nat
               PROVE  /\ p.at[k] = Aligned(p.at[k - 1] + b.tags[k - 1].size)
                      /\ p.at[k] \in Nat /\ p.at[k] > p.at[k - 1]
    OBVIOUS
  <2> DEFINE e == p.at[k - 1] + b.tags[k - 1].size
  <2>1. k \in 1 .. n /\ k # 1 /\ k - 1 \in 1 .. n
    BY <1>1
  <2>2. e \in Nat /\ e > p.at[k - 1]
    BY <1>1, <2>1
  <2>3. p.at[k] = CHOOSE a \in e .. e + 7 : a % 8 = 0
    BY <1>2, <2>1 DEF Behind
  <2> HIDE DEF e
  <2>4. p.at[k] = Aligned(e) /\ Aligned(e) \in Nat /\ Aligned(e) >= e
    BY <2>2, <2>3, AlignedIsNext
  <2> QED
    BY <2>2, <2>4 DEF e
<1>5. \A k \in 1 .. n :
        p.at[k] \in Nat \ {0} /\ \A j \in 1 .. k : j < k => p.at[j] < p.at[k]
  <2> DEFINE Fine(k) == /\ p.at[k] \in Nat \ {0}
                        /\ \A j \in 1 .. k : j < k => p.at[j] < p.at[k]
             T == {k \in 1 .. n : ~ Fine(k)}
  <2>1. SUFFICES ASSUME T # {} PROVE FALSE
    OBVIOUS
  <2>2. PICK k \in T : \A j \in T : k <= j
    <3>1. T \subseteq Nat
      BY <1>1
    <3> HIDE DEF T
    <3> QED
      BY <2>1, <3>1, LeastNumber
  <2>3. k \in 1 .. n /\ ~ Fine(k)
    OBVIOUS
  <2>4. k # 1
    BY <1>1, <1>3, <2>3
  <2>5. k - 1 \in 1 .. n /\ k \in 2 .. n /\ k - 1 \notin T
    BY <1>1, <2>2, <2>3, <2>4
  <2>6. Fine(k - 1)
    BY <2>5
  <2>7. p.at[k] \in Nat /\ p.at[k] > p.at[k - 1]
    BY <1>4, <2>5, <2>6
  <2>8. ASSUME NEW j \in 1 .. k, j < k PROVE p.at[j] < p.at[k] /\ p.at[k] # 0
    <3>1. j = k - 1 \/ (j \in 1 .. k - 1 /\ j < k - 1)
      BY <1>1, <2>3, <2>8
    <3>2. j = k - 1 \/ p.at[j] < p.at[k - 1]
      BY <2>6, <3>1
    <3>3. p.at[j] \in Nat
      <4>1. j \in 1 .. n /\ j \notin T
        BY <1>1, <2>2, <2>3, <2>8
      <4> QED
        BY <4>1
    <3> QED
      BY <2>6, <2>7, <3>2, <3>3
  <2>9. Fine(k)
    BY <2>5, <2>6, <2>7, <2>8
  <2> QED
    BY <2>3, <2>9
<1>6. \A k \in 2 .. n : p.at[k] = Aligned(p.at[k - 1] + b.tags[k - 1].size)
  <2>1. \A k \in 2 .. n : k - 1 \in 1 .. n
    BY <1>1
  <2> QED
    BY <1>4, <1>5, <2>1
<1>7. Len(p.tags) = n /\ DOMAIN p.tags = 1 .. n
  BY <1>1, <1>2 DEF n
<1>8. \A j, k \in 1 .. n : j < k => p.at[j] < p.at[k]
  BY <1>1, <1>5
<1>9. Laid(p)
  BY <1>1, <1>2, <1>3, <1>5, <1>6, <1>7, <1>8 DEF Laid
<1> QED
  BY <1>9 DEF p

-----------------------------------------------------------------------------
(* The code's side *)

LastTag == Len(boot.tags)

(* At a tag's address the tag is read, and nothing else.                    *)
LEMMA TagRead ==
  ASSUME Laid(boot), NEW k \in 1 .. LastTag
  PROVE  TagAt(boot.at[k]) = boot.tags[k]
<1>1. /\ DOMAIN boot.tags = 1 .. LastTag /\ LastTag \in Nat
      /\ \A j \in 1 .. LastTag : boot.at[j] \in Nat
      /\ \A j, m \in 1 .. LastTag : j < m => boot.at[j] < boot.at[m]
  BY DEF Laid, LastTag
<1>2. \A j \in 1 .. LastTag : boot.at[j] = boot.at[k] => j = k
  BY <1>1
<1>3. (CHOOSE j \in DOMAIN boot.tags : boot.at[j] = boot.at[k]) = k
  <2> DEFINE c == CHOOSE j \in DOMAIN boot.tags : boot.at[j] = boot.at[k]
  <2>1. c \in 1 .. LastTag /\ boot.at[c] = boot.at[k]
    BY <1>1, Zenon
  <2> QED
    BY <1>2, <2>1
<1> QED
  BY <1>1, <1>3 DEF TagAt

(* Agreement: the address the code computes from a tag's size is the one at *)
(* which the loader put the next tag, and NULL behind the last.             *)
LEMMA Agreement ==
  ASSUME Laid(boot), NEW k \in 1 .. LastTag
  PROVE  find_next_tag_address(boot.at[k]) =
           IF k = LastTag THEN NULL ELSE boot.at[k + 1]
<1>1. /\ DOMAIN boot.tags = 1 .. LastTag /\ LastTag \in Nat
      /\ boot.tags[k].type = 0 <=> k = LastTag
      /\ \A j \in 2 .. LastTag :
           boot.at[j] = Aligned(boot.at[j - 1] + boot.tags[j - 1].size)
  BY DEF Laid, LastTag
<1>2. TagAt(boot.at[k]) = boot.tags[k]
  BY TagRead
<1>3. CASE k = LastTag
  BY <1>1, <1>2, <1>3 DEF find_next_tag_address
<1>4. CASE k # LastTag
  <2>1. k + 1 \in 2 .. LastTag /\ (k + 1) - 1 = k
    BY <1>1, <1>4
  <2>2. boot.at[k + 1] = Aligned(boot.at[k] + boot.tags[k].size)
    BY <1>1, <2>1
  <2>3. find_next_tag_address(boot.at[k]) = Aligned(boot.at[k] + boot.tags[k].size)
    BY <1>1, <1>2, <1>4 DEF find_next_tag_address, Aligned
  <2> QED
    BY <1>4, <2>2, <2>3
<1> QED
  BY <1>3, <1>4

(* The tag of a type.                                                       *)
IndexOf(b, type) == CHOOSE j \in DOMAIN b.tags : b.tags[j].type = type

(* The address of the tag of a type among the first n, NULL without one.    *)
Among(b, n, type) ==
  IF \E j \in 1 .. n : b.tags[j].type = type THEN b.at[IndexOf(b, type)] ELSE NULL

(* The pointers after n tags.                                               *)
KeptOf(b, n) ==
  [command_line |-> Among(b, n, 1), name |-> Among(b, n, 2),
   info |-> Among(b, n, 4), device |-> Among(b, n, 5),
   maps |-> Among(b, n, 6), symbols |-> Among(b, n, 9)]

DataOf(b, n) ==
  [start |-> b.start, memory_map |-> Among(b, n, 6), elf_symbols |-> Among(b, n, 9)]

(* After n tags the pointers are those of these.                            *)
Passed(n) == kept = KeptOf(boot, n) /\ data = DataOf(boot, n)

(* The inductive invariant: where the walk is and what it has kept.         *)
WalkInvariant ==
  /\ Laid(boot)
  /\ pc \in {"init", "walk", "next", "areas", "sections", "done"}
  /\ pc = "init" =>
       /\ kept = [command_line |-> NULL, name |-> NULL, info |-> NULL,
                  device |-> NULL, maps |-> NULL, symbols |-> NULL]
       /\ data = [start |-> NULL, memory_map |-> NULL, elf_symbols |-> NULL]
  /\ pc = "walk" =>
       \E k \in 1 .. LastTag : curr_tag = boot.at[k] /\ Passed(k - 1)
  /\ pc \in {"next", "areas"} =>
       \E k \in 1 .. LastTag : curr_tag = boot.at[k] /\ Passed(k)
  /\ pc \in {"sections", "done"} => Passed(LastTag)

(* One more tag changes the pointer of its type only.                       *)
LEMMA OneMore ==
  ASSUME Laid(boot), NEW k \in 1 .. LastTag, NEW type \in KeptTypes
  PROVE  Among(boot, k, type) =
           IF boot.tags[k].type = type THEN boot.at[k] ELSE Among(boot, k - 1, type)
<1>1. /\ DOMAIN boot.tags = 1 .. LastTag /\ LastTag \in Nat
      /\ \A i1, i2 \in 1 .. LastTag :
           boot.tags[i1].type = boot.tags[i2].type /\ boot.tags[i1].type \in KeptTypes
             => i1 = i2
  BY DEF Laid, LastTag
<1>2. \A j \in 1 .. k : j = k \/ j \in 1 .. k - 1
  BY <1>1
<1>3. CASE boot.tags[k].type = type
  <2> DEFINE c == IndexOf(boot, type)
  <2>1. c \in 1 .. LastTag /\ boot.tags[c].type = type
    BY <1>1, <1>3, Zenon DEF IndexOf
  <2>2. c = k
    BY <1>1, <1>3, <2>1
  <2>3. \E j \in 1 .. k : boot.tags[j].type = type
    BY <1>1, <1>3
  <2> QED
    BY <1>3, <2>2, <2>3 DEF Among
<1>4. CASE boot.tags[k].type # type
  <2>1. (\E j \in 1 .. k : boot.tags[j].type = type)
          <=> \E j \in 1 .. k - 1 : boot.tags[j].type = type
    BY <1>1, <1>2, <1>4
  <2> QED
    BY <1>4, <2>1, Zenon DEF Among
<1> QED
  BY <1>3, <1>4

(* Before the first tag nothing is kept.                                    *)
LEMMA NothingYet == \A type \in KeptTypes : Among(boot, 0, type) = NULL
BY DEF Among

(* The invariant holds at first.                                            *)
LEMMA InitWalk == Init => WalkInvariant
<1> SUFFICES ASSUME Init PROVE WalkInvariant
  OBVIOUS
<1>1. Laid(boot)
  BY LoaderLays DEF Init
<1>2. kept = [command_line |-> NULL, name |-> NULL, info |-> NULL,
              device |-> NULL, maps |-> NULL, symbols |-> NULL]
  BY DEF Init, Pointer, KeptTypes
<1> QED
  BY <1>1, <1>2 DEF Init, WalkInvariant

(* The invariant is kept by every step.                                     *)
LEMMA NextWalk == WalkInvariant /\ [Next]_vars => WalkInvariant'
<1> SUFFICES ASSUME WalkInvariant, [Next]_vars PROVE WalkInvariant'
  OBVIOUS
<1>0. /\ Laid(boot) /\ LastTag \in Nat \ {0}
      /\ \A k \in 1 .. LastTag : boot.at[k] \in Nat \ {0}
  BY DEF WalkInvariant, Laid, LastTag
<1>1. CASE init_multiboot_data
  <2>1. /\ boot' = boot /\ pc' = "walk" /\ kept' = kept
        /\ kept = [command_line |-> NULL, name |-> NULL, info |-> NULL,
                   device |-> NULL, maps |-> NULL, symbols |-> NULL]
        /\ data' = [start |-> boot.start, memory_map |-> NULL, elf_symbols |-> NULL]
    BY <1>1 DEF init_multiboot_data, WalkInvariant
  <2>2. curr_tag' = boot.at[1] /\ 1 \in 1 .. LastTag
    BY <1>0, <1>1 DEF init_multiboot_data, SizeOfStart, Laid
  <2>3. Passed(0)'
    BY <2>1, NothingYet DEF Passed, KeptOf, DataOf, KeptTypes
  <2> QED
    BY <1>0, <2>1, <2>2, <2>3 DEF WalkInvariant, LastTag
<1>2. CASE VisitTag
  <2> DEFINE type == TagAt(curr_tag).type
  <2>1. PICK k \in 1 .. LastTag : curr_tag = boot.at[k] /\ Passed(k - 1)
    BY <1>2 DEF WalkInvariant, VisitTag
  <2>2. type = boot.tags[k].type
    BY <1>0, <2>1, TagRead
  <2>3. /\ boot' = boot /\ curr_tag' = curr_tag /\ pc' \in {"areas", "next"}
        /\ kept' = IF type \in DOMAIN Pointer
                   THEN [kept EXCEPT ![Pointer[type]] = curr_tag] ELSE kept
        /\ data' = [start |-> data.start, memory_map |-> kept'.maps,
                     elf_symbols |-> kept'.symbols]
    BY <1>2 DEF VisitTag
  <2> HIDE DEF type
  <2>4. \A t \in KeptTypes :
          Among(boot, k, t) = IF type = t THEN boot.at[k] ELSE Among(boot, k - 1, t)
    BY <1>0, <2>2, OneMore
  <2>5. kept' = KeptOf(boot, k)
    BY <2>1, <2>3, <2>4 DEF Passed, KeptOf, Pointer, KeptTypes
  <2>6. data' = DataOf(boot, k)
    BY <2>1, <2>3, <2>5 DEF Passed, KeptOf, DataOf
  <2>7. Passed(k)'
    BY <2>3, <2>5, <2>6 DEF Passed
  <2> QED
    BY <1>0, <2>1, <2>3, <2>7 DEF WalkInvariant, LastTag
<1>3. CASE PrintArea
  BY <1>3 DEF PrintArea, WalkInvariant, Passed, LastTag
<1>4. CASE NextTag
  <2>1. PICK k \in 1 .. LastTag : curr_tag = boot.at[k] /\ Passed(k)
    BY <1>4 DEF WalkInvariant, NextTag
  <2>2. /\ boot' = boot /\ kept' = kept /\ data' = data
        /\ curr_tag' = find_next_tag_address(curr_tag)
        /\ pc' = IF curr_tag' = NULL THEN "sections" ELSE "walk"
    BY <1>4 DEF NextTag
  <2>3. curr_tag' = IF k = LastTag THEN NULL ELSE boot.at[k + 1]
    BY <1>0, <2>1, <2>2, Agreement
  <2>4. Passed(k)'
    BY <2>1, <2>2 DEF Passed
  <2>5. CASE k = LastTag
    BY <1>0, <2>2, <2>3, <2>4, <2>5 DEF WalkInvariant, LastTag
  <2>6. CASE k # LastTag
    <3>1. k + 1 \in 1 .. LastTag /\ (k + 1) - 1 = k
      BY <1>0, <2>6
    <3>2. pc' = "walk" /\ curr_tag' = boot'.at[k + 1]
      BY <1>0, <2>2, <2>3, <2>6, <3>1 DEF NULL
    <3>3. Passed((k + 1) - 1)' /\ LastTag' = LastTag
      BY <2>2, <2>4, <3>1 DEF LastTag
    <3> QED
      BY <1>0, <2>2, <3>1, <3>2, <3>3 DEF WalkInvariant
  <2> QED
    BY <2>5, <2>6
<1>5. CASE PrintSection
  BY <1>5 DEF PrintSection, WalkInvariant, Passed, LastTag
<1>6. CASE Return
  BY <1>6 DEF Return, WalkInvariant, Passed, LastTag
<1>7. CASE UNCHANGED vars
  BY <1>7 DEF vars, WalkInvariant, Passed, LastTag
<1> QED
  BY <1>1, <1>2, <1>3, <1>4, <1>5, <1>6, <1>7 DEF Next, parse_multiboot_data

(* The walk goes from tag to tag as the loader laid them, and has kept      *)
(* exactly the pointers of those it passed.                                 *)
THEOREM WalkCorrect == Spec => []WalkInvariant
BY InitWalk, NextWalk, PTL DEF Spec

(* When it is over, the pointers are those of the loader's tags.            *)
THEOREM PointersCorrect == Spec => []PointersKept
<1>1. WalkInvariant => PointersKept
  <2> SUFFICES ASSUME WalkInvariant, pc \in {"sections", "done"}
               PROVE  PointersKept
    BY DEF PointersKept
  <2>1. \A type \in KeptTypes : Among(boot, LastTag, type) = AddrOfType(type)
    BY DEF Among, IndexOf, AddrOfType, WalkInvariant, Laid, LastTag
  <2> QED
    BY <2>1 DEF WalkInvariant, Passed, KeptOf, DataOf, PointersKept, KeptTypes
<1> QED
  BY <1>1, WalkCorrect, PTL

-----------------------------------------------------------------------------
(* Sequences of sequences *)

(* One more sequence behind those put together.                             *)
Joined(s, k, f) == IF k = 1 THEN s[k] ELSE f \o s[k]

(* What FlattenSeq defines by recursion: the first n put together.          *)
Flat(s, n, f) == f = [k \in 1 .. n |-> Joined(s, k, f[k - 1])]

(* There are such sequences.                                                *)
LEMMA FlatExists ==
  ASSUME NEW s
  PROVE  \A n \in Nat : \E f : Flat(s, n, f)
<1> DEFINE T == {n \in Nat : ~ \E f : Flat(s, n, f)}
<1>1. SUFFICES ASSUME T # {} PROVE FALSE
  OBVIOUS
<1>2. PICK n \in T : \A m \in T : n <= m
  BY <1>1, LeastNumber
<1>3. n \in Nat /\ ~ \E f : Flat(s, n, f)
  OBVIOUS
<1>4. CASE n = 0
  <2> DEFINE f == [k \in 1 .. 0 |-> 0]
  <2>1. Flat(s, 0, f)
    BY DEF Flat
  <2> QED
    BY <1>3, <1>4, <2>1
<1>5. CASE n # 0
  <2>1. n - 1 \in Nat /\ n - 1 \notin T
    BY <1>2, <1>3, <1>5
  <2>2. PICK f : Flat(s, n - 1, f)
    BY <2>1
  <2> DEFINE g == [k \in 1 .. n |->
                     IF k < n THEN f[k] ELSE Joined(s, n, f[n - 1])]
  <2>3. ASSUME NEW k \in 1 .. n PROVE g[k] = Joined(s, k, g[k - 1])
    <3>1. k = 1 \/ (k - 1 \in 1 .. n - 1 /\ k - 1 \in 1 .. n /\ k - 1 < n)
      BY <1>3
    <3>2. k = 1 \/ g[k - 1] = f[k - 1]
      BY <3>1
    <3>3. Joined(s, k, g[k - 1]) = Joined(s, k, f[k - 1])
      <4> HIDE DEF g
      <4>1. CASE k = 1
        BY <4>1 DEF Joined
      <4>2. CASE k # 1
        BY <3>2, <4>2
      <4> QED
        BY <4>1, <4>2
    <3>4. CASE k < n
      <4>1. k \in 1 .. n - 1
        BY <1>3, <3>4
      <4>2. f[k] = Joined(s, k, f[k - 1])
        BY <2>2, <4>1 DEF Flat
      <4>3. g[k] = f[k]
        BY <3>4
      <4> QED
        BY <3>3, <4>2, <4>3, Zenon
    <3>5. CASE k = n
      <4>1. g[k] = Joined(s, k, f[k - 1])
        BY <1>3, <3>5
      <4> QED
        BY <3>3, <4>1, Zenon
    <3> QED
      BY <1>3, <3>4, <3>5
  <2>4. g = [k \in 1 .. n |-> Joined(s, k, g[k - 1])]
    <3>1. g = [k \in 1 .. n |-> g[k]]
      OBVIOUS
    <3> HIDE DEF g
    <3> QED
      BY <2>3, <3>1
  <2>5. Flat(s, n, g)
    <3> HIDE DEF g
    <3> QED
      BY <2>4 DEF Flat
  <2> QED
    BY <1>3, <2>5, Zenon
<1> QED
  BY <1>4, <1>5

(* The first n of a sequence of sequences put together.                     *)
Upto(s, n) == IF n = 0 THEN <<>> ELSE (CHOOSE f : Flat(s, Len(s), f))[n]

(* Each adds one, and all of them are what FlattenSeq returns.              *)
LEMMA UptoSteps ==
  ASSUME NEW S, NEW s \in Seq(Seq(S))
  PROVE  /\ Upto(s, 0) = <<>>
         /\ \A n \in 1 .. Len(s) : Upto(s, n) = Upto(s, n - 1) \o s[n]
         /\ \A n \in 0 .. Len(s) : Upto(s, n) \in Seq(S)
         /\ s # <<>> => FlattenSeq(s) = Upto(s, Len(s))
<1> DEFINE f == CHOOSE g : Flat(s, Len(s), g)
<1>1. Len(s) \in Nat /\ \A n \in 1 .. Len(s) : s[n] \in Seq(S)
  OBVIOUS
<1>2. Flat(s, Len(s), f)
  BY <1>1, FlatExists, Zenon
<1>3. \A n \in 1 .. Len(s) : Upto(s, n) = f[n]
  BY <1>1 DEF Upto
<1>4. s # <<>> => FlattenSeq(s) = f[Len(s)]
  <2>1. s # <<>> => Len(s) # 0
    OBVIOUS
  <2> QED
    BY <2>1, Zenon DEF FlattenSeq, Flat, Joined
<1> HIDE DEF f
<1>5. \A n \in 1 .. Len(s) : f[n] = Joined(s, n, f[n - 1])
  BY <1>2 DEF Flat
<1>6. Upto(s, 0) = <<>>
  BY DEF Upto
<1>7. \A n \in 1 .. Len(s) : Upto(s, n) = Upto(s, n - 1) \o s[n]
  <2> SUFFICES ASSUME NEW n \in 1 .. Len(s)
               PROVE  Upto(s, n) = Upto(s, n - 1) \o s[n]
    OBVIOUS
  <2>1. CASE n = 1
    <3>1. Upto(s, 1) = s[1]
      BY <1>3, <1>5, <2>1 DEF Joined
    <3>2. <<>> \o s[1] = s[1]
      BY <1>1, <2>1, ConcatEmptySeq
    <3> QED
      BY <1>6, <2>1, <3>1, <3>2
  <2>2. CASE n # 1
    <3>1. n - 1 \in 1 .. Len(s)
      BY <1>1, <2>2
    <3> QED
      BY <1>3, <1>5, <2>2, <3>1 DEF Joined
  <2> QED
    BY <2>1, <2>2
<1>8. \A n \in 0 .. Len(s) : Upto(s, n) \in Seq(S)
  <2> DEFINE T == {n \in 0 .. Len(s) : Upto(s, n) \notin Seq(S)}
  <2>1. SUFFICES ASSUME T # {} PROVE FALSE
    OBVIOUS
  <2>2. PICK n \in T : \A m \in T : n <= m
    <3>1. T \subseteq Nat
      BY <1>1
    <3> HIDE DEF T
    <3> QED
      BY <2>1, <3>1, LeastNumber
  <2>3. n \in 0 .. Len(s) /\ Upto(s, n) \notin Seq(S)
    OBVIOUS
  <2>4. n # 0
    BY <1>6, <2>3, EmptySeq
  <2>5. n \in 1 .. Len(s) /\ n - 1 \in 0 .. Len(s) /\ n - 1 \notin T
    BY <1>1, <2>2, <2>3, <2>4
  <2>6. Upto(s, n - 1) \in Seq(S) /\ s[n] \in Seq(S)
    BY <1>1, <2>5
  <2> QED
    BY <1>7, <2>3, <2>5, <2>6, ConcatProperties
<1>9. s # <<>> => FlattenSeq(s) = Upto(s, Len(s))
  <2> SUFFICES ASSUME s # <<>> PROVE FlattenSeq(s) = Upto(s, Len(s))
    OBVIOUS
  <2>1. Len(s) \in 1 .. Len(s)
    BY EmptySeq, <1>1
  <2> QED
    BY <1>3, <1>4, <2>1
<1> QED
  BY <1>6, <1>7, <1>8, <1>9

(* s begins t, in words the provers take apart easily.                      *)
Begins(S, s, t) == \E u \in Seq(S) : t = s \o u

(* It is IsPrefix.                                                          *)
LEMMA BeginsIsPrefix ==
  ASSUME NEW S, NEW s \in Seq(S), NEW t \in Seq(S), Begins(S, s, t)
  PROVE  /\ IsPrefix(s, t)
         /\ \A k \in 1 .. Len(s) : k \in 1 .. Len(t) /\ t[k] = s[k]
<1>1. PICK u \in Seq(S) : t = s \o u
  BY DEF Begins
<1>2. /\ Len(s) \in Nat /\ Len(u) \in Nat /\ Len(t) = Len(s) + Len(u)
      /\ \A k \in 1 .. Len(s) + Len(u) :
           t[k] = IF k <= Len(s) THEN s[k] ELSE u[k - Len(s)]
  BY <1>1, ConcatProperties, LenProperties
<1>3. \A k \in 1 .. Len(s) : k \in 1 .. Len(t) /\ t[k] = s[k]
  BY <1>2
<1>4. /\ SubSeq(t, 1, Len(s)) \in Seq(S)
      /\ Len(SubSeq(t, 1, Len(s))) = Len(s)
      /\ \A k \in 1 .. Len(s) : SubSeq(t, 1, Len(s))[k] = s[k]
  <2>1. \A k \in 1 .. Len(s) : t[k] \in S
    BY <1>3, ElementOfSeq
  <2>2. /\ SubSeq(t, 1, Len(s)) \in Seq(S)
        /\ Len(SubSeq(t, 1, Len(s))) = IF 1 <= Len(s) THEN Len(s) - 1 + 1 ELSE 0
        /\ \A k \in 1 .. Len(s) - 1 + 1 : SubSeq(t, 1, Len(s))[k] = t[1 + k - 1]
    <3>1. 1 \in Int /\ Len(s) \in Int
      BY <1>2
    <3> HIDE <1>1
    <3> QED
      BY <2>1, <3>1, SubSeqProperties
  <2> QED
    BY <1>2, <1>3, <2>2
<1>5. SubSeq(t, 1, Len(s)) = s
  <2> HIDE <1>1
  <2> QED
    BY <1>4, SeqEqual
<1>6. SubSeq(s, 1, Len(s)) = s
  BY SubSeqFull
<1> QED
  BY <1>2, <1>3, <1>5, <1>6 DEF IsPrefix

(* What begins the beginning of a third begins the third.                   *)
LEMMA BeginsTransitive ==
  ASSUME NEW S, NEW s \in Seq(S), NEW t \in Seq(S), NEW v,
         Begins(S, s, t), Begins(S, t, v)
  PROVE  Begins(S, s, v)
<1>1. PICK u \in Seq(S) : t = s \o u
  BY DEF Begins
<1>2. PICK w \in Seq(S) : v = t \o w
  BY DEF Begins
<1>3. v = s \o (u \o w) /\ u \o w \in Seq(S)
  BY <1>1, <1>2, ConcatAssociative, ConcatProperties
<1> QED
  BY <1>3 DEF Begins

(* The first n put together begin all of them put together.                 *)
LEMMA UptoBegins ==
  ASSUME NEW S, NEW s \in Seq(Seq(S)), NEW n \in 0 .. Len(s)
  PROVE  \A m \in n .. Len(s) : Begins(S, Upto(s, n), Upto(s, m))
<1> DEFINE T == {m \in n .. Len(s) : ~ Begins(S, Upto(s, n), Upto(s, m))}
<1>0. Len(s) \in Nat /\ \A m \in 1 .. Len(s) : s[m] \in Seq(S)
  OBVIOUS
<1>a. /\ \A m \in 1 .. Len(s) : Upto(s, m) = Upto(s, m - 1) \o s[m]
      /\ \A m \in 0 .. Len(s) : Upto(s, m) \in Seq(S)
  BY UptoSteps
<1>1. SUFFICES ASSUME T # {} PROVE FALSE
  OBVIOUS
<1>2. PICK m \in T : \A j \in T : m <= j
  <2>1. T \subseteq Nat
    BY <1>0
  <2> HIDE DEF T
  <2> QED
    BY <1>1, <2>1, LeastNumber
<1>3. m \in n .. Len(s) /\ ~ Begins(S, Upto(s, n), Upto(s, m))
  OBVIOUS
<1>4. m # n
  <2>1. Upto(s, n) = Upto(s, n) \o <<>> /\ <<>> \in Seq(S)
    BY <1>a, ConcatEmptySeq, EmptySeq
  <2> QED
    BY <1>3, <2>1, Zenon DEF Begins
<1>5. m - 1 \in n .. Len(s) /\ m - 1 \notin T /\ m \in 1 .. Len(s) /\ m - 1 \in 0 .. Len(s)
  BY <1>0, <1>2, <1>3, <1>4
<1>6. Begins(S, Upto(s, n), Upto(s, m - 1))
  BY <1>5
<1>7. Begins(S, Upto(s, m - 1), Upto(s, m))
  BY <1>0, <1>a, <1>5 DEF Begins
<1> QED
  BY <1>3, <1>5, <1>6, <1>7, <1>a, BeginsTransitive

-----------------------------------------------------------------------------
(* What the loader stored *)

(* The lists of the two tags that have one, as ListsAssumption says.        *)
Listed(p) ==
  /\ \A k \in DOMAIN p.tags :
       /\ p.tags[k].type = 6 =>
            /\ p.tags[k].areas \in Nat /\ p.tags[k].entry_size = 24
            /\ p.tags[k].size = 16 + 24 * p.tags[k].areas
       /\ p.tags[k].type = 9 =>
            /\ p.tags[k].num \in Nat /\ p.tags[k].entsize = 64
            /\ DOMAIN p.tags[k].headers = 1 .. p.tags[k].num
            /\ p.tags[k].shndx \in 0 .. p.tags[k].num - 1
  /\ \A j, k \in DOMAIN p.tags :
       p.tags[k].type = 9 =>
         Len(p.tags) + p.tags[k].num + (IF p.tags[j].type = 6 THEN p.tags[j].areas ELSE 0)
           <= MaxShown
  /\ \E k \in DOMAIN p.tags : p.tags[k].type = 9

(* Whatever the loader passes lists so.                                     *)
LEMMA LoaderLists ==
  ASSUME NEW b \in Boots
  PROVE  Listed(Placed(b))
<1>1. Placed(b).tags = b.tags
  BY PlacedAddresses
<1>2. Listed(b)
  <2>1. /\ \A k \in DOMAIN b.tags :
             /\ b.tags[k].type = 6 =>
                  /\ b.tags[k].areas \in Nat /\ b.tags[k].entry_size = 24
                  /\ b.tags[k].size = 16 + 24 * b.tags[k].areas
             /\ b.tags[k].type = 9 =>
                  /\ b.tags[k].num \in Nat /\ b.tags[k].entsize = 64
                  /\ DOMAIN b.tags[k].headers = 1 .. b.tags[k].num
                  /\ b.tags[k].shndx \in 0 .. b.tags[k].num - 1
        /\ \A j, k \in DOMAIN b.tags :
             b.tags[k].type = 9 =>
               Len(b.tags) + b.tags[k].num
                 + (IF b.tags[j].type = 6 THEN b.tags[j].areas ELSE 0) <= MaxShown
    BY ListsAssumption
  <2>2. \E k \in DOMAIN b.tags : b.tags[k].type = 9
    BY MultibootAssumption
  <2> QED
    BY <2>1, <2>2 DEF Listed
<1> HIDE DEF Listed
<1>3. Listed(Placed(b)) <=> Listed(b)
  BY <1>1 DEF Listed
<1> QED
  BY <1>2, <1>3

(* The tag of the sections, its headers and what is shown of the n-th.      *)
Symbols == boot.tags[IndexOf(boot, 9)]
SymbolsAt == boot.at[IndexOf(boot, 9)]
SectionItem(n) ==
  <<"section", SymbolsAt + 64 * n - 44,
    Symbols.headers[Symbols.shndx + 1].sh_addr + Symbols.headers[n].sh_name,
    get_sh_flag_strings(Symbols.headers[n].sh_flags)>>

(* Everything that can be shown.                                            *)
Items == ({"tag", "area"} \X Nat) \cup {SectionItem(n) : n \in 1 .. Symbols.num}

(* What there is to show of the first n areas of tag k, of the first n      *)
(* tags with their areas, and of the first n sections.                      *)
AreaItems(k, n) == [m \in 1 .. n |-> <<"area", boot.at[k] + 24 * m - 8>>]
TagItems(n) == Upto([k \in DOMAIN boot.tags |-> TagContents(k)], n)
SectionItems(n) == [m \in 1 .. n |-> SectionItem(m)]

(* The areas of tag k, none if it is no memory map.                         *)
AreasOf(k) == IF boot.tags[k].type = 6 THEN boot.tags[k].areas ELSE 0

(* The tag of the sections is found.                                        *)
LEMMA SymbolsTag ==
  ASSUME Laid(boot), Listed(boot)
  PROVE  /\ IndexOf(boot, 9) \in 1 .. LastTag
         /\ Symbols.type = 9 /\ Symbols.num \in Nat /\ Symbols.entsize = 64
         /\ DOMAIN Symbols.headers = 1 .. Symbols.num
         /\ Symbols.shndx \in 0 .. Symbols.num - 1
         /\ Among(boot, LastTag, 9) = SymbolsAt /\ AddrOfType(9) = SymbolsAt
         /\ SymbolsAt \in Nat \ {0}
         /\ TagAt(SymbolsAt) = Symbols
<1> DEFINE c == IndexOf(boot, 9)
<1>1. /\ DOMAIN boot.tags = 1 .. LastTag /\ LastTag \in Nat
      /\ \E k \in 1 .. LastTag : boot.tags[k].type = 9
  BY DEF Laid, Listed, LastTag
<1>2. c \in 1 .. LastTag /\ boot.tags[c].type = 9
  BY <1>1, Zenon DEF IndexOf
<1>3. Among(boot, LastTag, 9) = boot.at[c] /\ AddrOfType(9) = boot.at[c]
  BY <1>1, Zenon DEF Among, AddrOfType, IndexOf
<1>4. boot.at[c] \in Nat \ {0} /\ TagAt(boot.at[c]) = boot.tags[c]
  BY <1>1, <1>2, TagRead DEF Laid
<1> HIDE DEF c
<1>5. /\ boot.tags[c].num \in Nat /\ boot.tags[c].entsize = 64
      /\ DOMAIN boot.tags[c].headers = 1 .. boot.tags[c].num
      /\ boot.tags[c].shndx \in 0 .. boot.tags[c].num - 1
  BY <1>1, <1>2 DEF Listed
<1> QED
  BY <1>2, <1>3, <1>4, <1>5 DEF c, Symbols, SymbolsAt

(* The header of a section is read where print_elf_symbols looks for it.    *)
LEMMA HeaderRead ==
  ASSUME Laid(boot), Listed(boot), NEW n \in 1 .. Symbols.num
  PROVE  HeaderAt(SymbolsAt + 64 * n - 44) = Symbols.headers[n]
<1> DEFINE a == SymbolsAt + 64 * n - 44
<1>1. /\ AddrOfType(9) = SymbolsAt /\ TagAt(SymbolsAt) = Symbols
      /\ DOMAIN Symbols.headers = 1 .. Symbols.num
      /\ SymbolsAt \in Nat /\ Symbols.num \in Nat
  BY SymbolsTag
<1>2. SymbolsAt + 20 + 64 * (n - 1) = a
  BY <1>1
<1>3. (a - SymbolsAt - 20) \div 64 + 1 = n
  <2>1. a - SymbolsAt - 20 = 64 * (n - 1)
    BY <1>1
  <2>2. \A x \in Nat : (64 * x) \div 64 = x
    OBVIOUS
  <2>3. n - 1 \in Nat
    BY <1>1
  <2> HIDE DEF a
  <2>4. (64 * (n - 1)) \div 64 = n - 1
    BY <2>2, <2>3
  <2> QED
    BY <1>1, <2>1, <2>4
<1> HIDE DEF a
<1>4. HeaderAt(a) = Symbols.headers[(a - SymbolsAt - 20) \div 64 + 1]
  BY <1>1, <1>2, Zenon DEF HeaderAt
<1> QED
  BY <1>3, <1>4 DEF a

(* What there is to show of a tag.                                          *)
LEMMA TagIs ==
  ASSUME Laid(boot), Listed(boot), NEW k \in 1 .. LastTag
  PROVE  /\ AreasOf(k) \in Nat
         /\ TagContents(k) = <<<<"tag", boot.at[k]>>>> \o AreaItems(k, AreasOf(k))
         /\ <<"tag", boot.at[k]>> \in Items
         /\ <<<<"tag", boot.at[k]>>>> \in Seq(Items)
         /\ TagContents(k) \in Seq(Items)
         /\ Len(TagContents(k)) = 1 + AreasOf(k)
<1>1. /\ DOMAIN boot.tags = 1 .. LastTag /\ boot.at[k] \in Nat
      /\ boot.tags[k].type = 6 => boot.tags[k].areas \in Nat
  BY DEF Laid, Listed, LastTag
<1>2. AreasOf(k) \in Nat
  BY <1>1 DEF AreasOf
<1>3. TagContents(k) = <<<<"tag", boot.at[k]>>>> \o AreaItems(k, AreasOf(k))
  BY DEF TagContents, AreaItems, AreasOf
<1>4. <<"tag", boot.at[k]>> \in Items
  BY <1>1 DEF Items
<1>5. <<<<"tag", boot.at[k]>>>> \in Seq(Items) /\ Len(<<<<"tag", boot.at[k]>>>>) = 1
  <2> DEFINE e == <<"tag", boot.at[k]>>
  <2> HIDE DEF e
  <2>1. e \in Items => <<e>> \in Seq(Items) /\ Len(<<e>>) = 1
    OBVIOUS
  <2> QED
    BY <1>4, <2>1 DEF e
<1>6. AreaItems(k, AreasOf(k)) \in Seq(Items) /\ Len(AreaItems(k, AreasOf(k))) = AreasOf(k)
  <2>1. \A m \in 1 .. AreasOf(k) : <<"area", boot.at[k] + 24 * m - 8>> \in Items
    <3> SUFFICES ASSUME NEW m \in 1 .. AreasOf(k)
                 PROVE  <<"area", boot.at[k] + 24 * m - 8>> \in Items
      OBVIOUS
    <3>1. boot.at[k] + 24 * m - 8 \in Nat
      BY <1>1, <1>2
    <3> QED
      BY <3>1 DEF Items
  <2> DEFINE s == AreaItems(k, AreasOf(k))
             n == AreasOf(k)
  <2>2. s \in [1 .. n -> Items]
    BY <2>1, Zenon DEF AreaItems
  <2> HIDE DEF s, n
  <2>3. s \in Seq(Items) /\ Len(s) = n
    BY <1>2, <2>2 DEF n
  <2> QED
    BY <2>3 DEF s, n
<1> QED
  BY <1>2, <1>3, <1>4, <1>5, <1>6, ConcatProperties

(* What there is to show of the sections.                                   *)
LEMMA SectionsAre ==
  ASSUME Laid(boot), Listed(boot), NEW n \in 0 .. Symbols.num
  PROVE  /\ SectionItems(n) \in Seq(Items) /\ Len(SectionItems(n)) = n
         /\ \A m \in 1 .. n : SectionItems(n)[m] = SectionItem(m) /\ SectionItem(m) \in Items
<1>1. Symbols.num \in Nat
  BY SymbolsTag
<1>2. \A m \in 1 .. n : SectionItem(m) \in Items
  <2>1. \A m \in 1 .. n : m \in 1 .. Symbols.num
    BY <1>1
  <2> QED
    BY <2>1, Zenon DEF Items
<1>3. SectionItems(n) \in [1 .. n -> Items]
  BY <1>2, Zenon DEF SectionItems
<1>4. \A m \in 1 .. n : SectionItems(n)[m] = SectionItem(m)
  BY Zenon DEF SectionItems
<1> HIDE DEF SectionItems
<1>5. SectionItems(n) \in Seq(Items) /\ Len(SectionItems(n)) = n
  BY <1>1, <1>3
<1> QED
  BY <1>2, <1>4, <1>5

(* A sequence is as long as its domain says.                                *)
LEMMA SequenceOf ==
  ASSUME NEW S, NEW n \in Nat, NEW s \in [1 .. n -> S]
  PROVE  s \in Seq(S) /\ Len(s) = n /\ (n # 0 => s # <<>>)
OBVIOUS

(* What there is to show of the tags, one after the other.                  *)
LEMMA TagsAre ==
  ASSUME Laid(boot), Listed(boot)
  PROVE  /\ TagItems(0) = <<>>
         /\ \A n \in 1 .. LastTag : TagItems(n) = TagItems(n - 1) \o TagContents(n)
         /\ \A n \in 0 .. LastTag :
              TagItems(n) \in Seq(Items) /\ Begins(Items, TagItems(n), TagItems(LastTag))
         /\ Contents = TagItems(LastTag) \o SectionItems(Symbols.num)
<1> DEFINE s == [k \in DOMAIN boot.tags |-> TagContents(k)]
<1>1. DOMAIN boot.tags = 1 .. LastTag /\ LastTag \in Nat \ {0}
  BY DEF Laid, LastTag
<1>2. s \in [1 .. LastTag -> Seq(Items)]
  BY <1>1, TagIs
<1>3. \A k \in 1 .. LastTag : s[k] = TagContents(k)
  BY <1>1
<1>4. \A n : TagItems(n) = Upto(s, n)
  BY DEF TagItems
<1>5. Contents = FlattenSeq(s) \o SectionItems(Symbols.num)
  <2>1. AddrOfType(9) = SymbolsAt /\ TagAt(SymbolsAt) = Symbols
        /\ DOMAIN Symbols.headers = 1 .. Symbols.num
    BY SymbolsTag
  <2> DEFINE sections ==
        [n \in DOMAIN TagAt(AddrOfType(9)).headers |->
              <<"section", AddrOfType(9) + 64 * n - 44,
                TagAt(AddrOfType(9)).headers[TagAt(AddrOfType(9)).shndx + 1].sh_addr
                  + TagAt(AddrOfType(9)).headers[n].sh_name,
                get_sh_flag_strings(TagAt(AddrOfType(9)).headers[n].sh_flags)>>]
  <2>2. Contents = FlattenSeq(s) \o sections
    BY DEF Contents
  <2>3. sections = SectionItems(Symbols.num)
    BY <2>1 DEF SectionItems, SectionItem
  <2> QED
    BY <2>2, <2>3
<1> HIDE DEF s
<1>6. s \in Seq(Seq(Items)) /\ Len(s) = LastTag /\ s # <<>>
  BY <1>1, <1>2, SequenceOf
<1>7. /\ Upto(s, 0) = <<>>
      /\ \A n \in 1 .. LastTag : Upto(s, n) = Upto(s, n - 1) \o s[n]
      /\ \A n \in 0 .. LastTag : Upto(s, n) \in Seq(Items)
      /\ FlattenSeq(s) = Upto(s, LastTag)
  BY <1>6, UptoSteps
<1>8. \A n \in 0 .. LastTag : Begins(Items, Upto(s, n), Upto(s, LastTag))
  BY <1>1, <1>6, UptoBegins
<1> QED
  BY <1>3, <1>4, <1>5, <1>7, <1>8

(* The areas among the first n tags.                                        *)
SeenAreas(n) ==
  IF \E j \in 1 .. n : boot.tags[j].type = 6 THEN AreasOf(IndexOf(boot, 6)) ELSE 0

(* All there is to show can be remembered.                                  *)
LEMMA ContentsFit ==
  ASSUME Laid(boot), Listed(boot)
  PROVE  Contents \in Seq(Items) /\ Len(Contents) <= MaxShown
<1>1. /\ DOMAIN boot.tags = 1 .. LastTag /\ LastTag \in Nat \ {0}
      /\ \A j, k \in 1 .. LastTag :
           boot.tags[j].type = boot.tags[k].type /\ boot.tags[j].type \in KeptTypes => j = k
  BY DEF Laid, LastTag
<1>2. /\ TagItems(0) = <<>>
      /\ \A n \in 1 .. LastTag : TagItems(n) = TagItems(n - 1) \o TagContents(n)
      /\ \A n \in 0 .. LastTag : TagItems(n) \in Seq(Items)
      /\ Contents = TagItems(LastTag) \o SectionItems(Symbols.num)
  BY TagsAre
<1>3. \A n \in 1 .. LastTag :
        /\ AreasOf(n) \in Nat /\ TagContents(n) \in Seq(Items)
        /\ Len(TagContents(n)) = 1 + AreasOf(n)
  BY TagIs
<1>4. \A n \in 1 .. LastTag : boot.tags[n].type = 6 => n = IndexOf(boot, 6)
  <2> SUFFICES ASSUME NEW n \in 1 .. LastTag, boot.tags[n].type = 6
               PROVE  n = IndexOf(boot, 6)
    OBVIOUS
  <2> DEFINE c == IndexOf(boot, 6)
  <2>1. c \in 1 .. LastTag /\ boot.tags[c].type = 6
    BY <1>1, Zenon DEF IndexOf
  <2> HIDE DEF c
  <2>2. n = c
    BY <1>1, <2>1 DEF KeptTypes
  <2> QED
    BY <2>2 DEF c
<1>5. \A n \in 0 .. LastTag : SeenAreas(n) \in Nat
  <2> SUFFICES ASSUME NEW n \in 0 .. LastTag, NEW j \in 1 .. n, boot.tags[j].type = 6
               PROVE  AreasOf(IndexOf(boot, 6)) \in Nat
    BY DEF SeenAreas
  <2>1. j \in 1 .. LastTag
    BY <1>1
  <2> QED
    BY <1>3, <1>4, <2>1
<1>6. \A n \in 1 .. LastTag : SeenAreas(n) = SeenAreas(n - 1) + AreasOf(n)
  <2> SUFFICES ASSUME NEW n \in 1 .. LastTag
               PROVE  SeenAreas(n) = SeenAreas(n - 1) + AreasOf(n)
    OBVIOUS
  <2>1. \A j \in 1 .. n : j = n \/ j \in 1 .. n - 1
    BY <1>1
  <2>2. n - 1 \in 0 .. LastTag
    BY <1>1
  <2>3. CASE boot.tags[n].type = 6
    <3>1. ~ \E j \in 1 .. n - 1 : boot.tags[j].type = 6
      <4> SUFFICES ASSUME NEW j \in 1 .. n - 1, boot.tags[j].type = 6 PROVE FALSE
        OBVIOUS
      <4>1. j \in 1 .. LastTag /\ j # n
        BY <1>1
      <4> QED
        BY <1>4, <2>3, <4>1
    <3>2. SeenAreas(n - 1) = 0
      BY <3>1 DEF SeenAreas
    <3>3. SeenAreas(n) = AreasOf(n)
      <4>1. n \in 1 .. n
        BY <1>1
      <4> QED
        BY <1>4, <2>3, <4>1 DEF SeenAreas
    <3> QED
      BY <1>3, <3>2, <3>3
  <2>4. CASE boot.tags[n].type # 6
    <3>1. (\E j \in 1 .. n : boot.tags[j].type = 6)
            <=> \E j \in 1 .. n - 1 : boot.tags[j].type = 6
      BY <1>1, <2>1, <2>4
    <3>2. SeenAreas(n) = SeenAreas(n - 1) /\ AreasOf(n) = 0
      BY <2>4, <3>1, Zenon DEF SeenAreas, AreasOf
    <3> QED
      BY <1>5, <2>2, <3>2
  <2> QED
    BY <2>3, <2>4
<1>7. \A n \in 0 .. LastTag : Len(TagItems(n)) = n + SeenAreas(n)
  <2> DEFINE T == {n \in 0 .. LastTag : Len(TagItems(n)) # n + SeenAreas(n)}
  <2>1. SUFFICES ASSUME T # {} PROVE FALSE
    OBVIOUS
  <2>2. PICK n \in T : \A m \in T : n <= m
    <3>1. T \subseteq Nat
      BY <1>1
    <3> HIDE DEF T
    <3> QED
      BY <2>1, <3>1, LeastNumber
  <2>3. n \in 0 .. LastTag /\ Len(TagItems(n)) # n + SeenAreas(n)
    OBVIOUS
  <2>4. n # 0
    <3>1. SeenAreas(0) = 0
      BY DEF SeenAreas
    <3>2. Len(TagItems(0)) = 0
      BY <1>2
    <3> QED
      BY <2>3, <3>1, <3>2
  <2>5. n \in 1 .. LastTag /\ n - 1 \in 0 .. LastTag /\ n - 1 \notin T
    BY <1>1, <2>2, <2>3, <2>4
  <2>6. Len(TagItems(n - 1)) = n - 1 + SeenAreas(n - 1)
    BY <2>5
  <2>7. Len(TagItems(n)) = Len(TagItems(n - 1)) + Len(TagContents(n))
    BY <1>2, <1>3, <2>5, ConcatProperties
  <2>8. /\ Len(TagContents(n)) = 1 + AreasOf(n) /\ AreasOf(n) \in Nat
        /\ SeenAreas(n) = SeenAreas(n - 1) + AreasOf(n) /\ SeenAreas(n - 1) \in Nat
    BY <1>3, <1>5, <1>6, <2>5
  <2>9. n \in Nat
    BY <1>1, <2>5
  <2>10. Len(TagItems(n)) = n + SeenAreas(n)
    BY <2>6, <2>7, <2>8, <2>9
  <2> QED
    BY <2>3, <2>10
<1>8. LastTag + Symbols.num + SeenAreas(LastTag) <= MaxShown
  <2>1. \A j, k \in 1 .. LastTag :
          boot.tags[k].type = 9 => LastTag + boot.tags[k].num + AreasOf(j) <= MaxShown
    BY <1>1 DEF Listed, LastTag, AreasOf
  <2>2. IndexOf(boot, 9) \in 1 .. LastTag /\ Symbols.type = 9 /\ Symbols.num \in Nat
    BY SymbolsTag
  <2>3. \A j \in 1 .. LastTag : LastTag + Symbols.num + AreasOf(j) <= MaxShown
    BY <2>1, <2>2 DEF Symbols
  <2>4. CASE \E j \in 1 .. LastTag : boot.tags[j].type = 6
    BY <1>4, <2>3, <2>4 DEF SeenAreas
  <2>5. CASE ~ \E j \in 1 .. LastTag : boot.tags[j].type = 6
    <3>1. SeenAreas(LastTag) = 0 /\ 1 \in 1 .. LastTag
      BY <1>1, <2>5 DEF SeenAreas
    <3>2. MaxShown \in Nat
      BY MultibootAssumption
    <3>3. LastTag + Symbols.num + AreasOf(1) <= MaxShown /\ AreasOf(1) \in Nat
      BY <1>3, <2>3, <3>1
    <3>4. LastTag \in Nat /\ Symbols.num \in Nat
      BY <1>1, <2>2
    <3> QED
      BY <3>1, <3>2, <3>3, <3>4
  <2> QED
    BY <2>4, <2>5
<1>9. /\ SectionItems(Symbols.num) \in Seq(Items)
      /\ Len(SectionItems(Symbols.num)) = Symbols.num /\ Symbols.num \in Nat
  BY SymbolsTag, SectionsAre
<1>10. LastTag \in 0 .. LastTag
  BY <1>1
<1>11. /\ Contents \in Seq(Items)
       /\ Len(Contents) = LastTag + SeenAreas(LastTag) + Symbols.num
  <2>1. /\ TagItems(LastTag) \in Seq(Items)
        /\ Len(TagItems(LastTag)) = LastTag + SeenAreas(LastTag)
    BY <1>2, <1>7, <1>10
  <2>2. /\ TagItems(LastTag) \o SectionItems(Symbols.num) \in Seq(Items)
        /\ Len(TagItems(LastTag) \o SectionItems(Symbols.num))
             = Len(TagItems(LastTag)) + Len(SectionItems(Symbols.num))
    BY <1>9, <2>1, ConcatProperties
  <2> QED
    BY <1>2, <1>9, <2>1, <2>2
<1> QED
  BY <1>1, <1>5, <1>8, <1>9, <1>10, <1>11

-----------------------------------------------------------------------------
(* What is shown *)

(* A sequence whose elements are those of a longer one begins it.           *)
LEMMA PartBegins ==
  ASSUME NEW S, NEW t \in Seq(S), NEW s \in Seq(S),
         Len(t) <= Len(s), \A m \in 1 .. Len(t) : t[m] = s[m]
  PROVE  Begins(S, t, s)
<1> DEFINE u == SubSeq(s, Len(t) + 1, Len(s))
<1>1. Len(t) \in Nat /\ Len(s) \in Nat /\ \A m \in 1 .. Len(s) : s[m] \in S
  BY LenProperties, ElementOfSeq
<1>2. /\ u \in Seq(S) /\ Len(u) = Len(s) - Len(t)
      /\ \A m \in 1 .. Len(u) : u[m] = s[Len(t) + m]
  <2>1. Len(t) + 1 \in Int /\ Len(s) \in Int /\ \A m \in Len(t) + 1 .. Len(s) : s[m] \in S
    BY <1>1
  <2>2. /\ u \in Seq(S)
        /\ Len(u) = IF Len(t) + 1 <= Len(s) THEN Len(s) - (Len(t) + 1) + 1 ELSE 0
        /\ \A m \in 1 .. Len(s) - (Len(t) + 1) + 1 : u[m] = s[Len(t) + 1 + m - 1]
    BY <2>1, SubSeqProperties
  <2> HIDE DEF u
  <2>3. Len(u) = Len(s) - Len(t)
    BY <1>1, <2>2
  <2>4. \A m \in 1 .. Len(u) : u[m] = s[Len(t) + m]
    <3> SUFFICES ASSUME NEW m \in 1 .. Len(u) PROVE u[m] = s[Len(t) + m]
      OBVIOUS
    <3>1. m \in 1 .. Len(s) - (Len(t) + 1) + 1 /\ Len(t) + 1 + m - 1 = Len(t) + m
      BY <1>1, <2>3
    <3> QED
      BY <2>2, <3>1
  <2> QED
    BY <2>2, <2>3, <2>4
<1> HIDE DEF u
<1>3. /\ t \o u \in Seq(S) /\ Len(t \o u) = Len(s)
      /\ \A m \in 1 .. Len(s) : (t \o u)[m] = IF m <= Len(t) THEN t[m] ELSE u[m - Len(t)]
  BY <1>1, <1>2, ConcatProperties
<1>4. \A m \in 1 .. Len(s) : s[m] = (t \o u)[m]
  <2> SUFFICES ASSUME NEW m \in 1 .. Len(s) PROVE s[m] = (t \o u)[m]
    OBVIOUS
  <2>1. CASE m <= Len(t)
    BY <1>1, <1>3, <2>1
  <2>2. CASE ~ m <= Len(t)
    <3>1. m - Len(t) \in 1 .. Len(u) /\ Len(t) + (m - Len(t)) = m
      BY <1>1, <1>2, <2>2
    <3> QED
      BY <1>2, <1>3, <2>2, <3>1
  <2> QED
    BY <2>1, <2>2
<1>5. s = t \o u
  BY <1>3, <1>4, SeqEqual
<1> QED
  BY <1>2, <1>5 DEF Begins

(* Behind the same sequence, beginnings stay beginnings.                    *)
LEMMA ConcatBegins ==
  ASSUME NEW S, NEW r \in Seq(S), NEW s \in Seq(S), NEW t \in Seq(S), Begins(S, s, t)
  PROVE  Begins(S, r \o s, r \o t)
<1>1. PICK u \in Seq(S) : t = s \o u
  BY DEF Begins
<1>2. r \o t = (r \o s) \o u
  BY <1>1, ConcatAssociative
<1> QED
  BY <1>2 DEF Begins

(* Appending behind another sequence.                                       *)
LEMMA ConcatAppend ==
  ASSUME NEW S, NEW r \in Seq(S), NEW s \in Seq(S), NEW e \in S
  PROVE  r \o Append(s, e) = Append(r \o s, e)
<1>1. <<e>> \in Seq(S) /\ r \o s \in Seq(S)
  BY ConcatProperties
<1> QED
  BY <1>1, ConcatAssociative, AppendIsConcat

(* An item that comes next in what there is to show is remembered.          *)
LEMMA ShowsNext ==
  ASSUME Laid(boot), Listed(boot), NEW e \in Items, printed \in Seq(Items),
         Begins(Items, Append(printed, e), Contents), Show(e)
  PROVE  printed' = Append(printed, e)
<1>1. Contents \in Seq(Items) /\ Len(Contents) <= MaxShown
  BY ContentsFit
<1>2. PICK u \in Seq(Items) : Contents = Append(printed, e) \o u
  BY DEF Begins
<1>3. /\ Append(printed, e) \in Seq(Items) /\ Len(printed) \in Nat
      /\ Len(Append(printed, e)) = Len(printed) + 1
  BY AppendProperties, LenProperties
<1>4. Len(Contents) = Len(printed) + 1 + Len(u) /\ Len(u) \in Nat
  BY <1>2, <1>3, ConcatProperties, LenProperties
<1>5. Len(printed) < MaxShown
  BY <1>1, <1>3, <1>4, MultibootAssumption
<1> QED
  BY <1>5 DEF Show

(* What is shown of tag k once the loop over its areas is at n.             *)
TagPart(k, n) == <<<<"tag", boot.at[k]>>>> \o AreaItems(k, n)

(* The invariant of the output: what has been shown is what there was to    *)
(* show of the tags, areas and sections behind the walk.                    *)
ShownInvariant ==
  /\ Listed(boot)
  /\ pc = "init" => printed = <<>>
  /\ pc = "walk" =>
       \A k \in 1 .. LastTag : curr_tag = boot.at[k] => printed = TagItems(k - 1)
  /\ pc = "areas" =>
       \A k \in 1 .. LastTag : curr_tag = boot.at[k] =>
         /\ boot.tags[k].type = 6 /\ i \in 0 .. AreasOf(k)
         /\ printed = TagItems(k - 1) \o TagPart(k, i)
  /\ pc = "next" =>
       \A k \in 1 .. LastTag : curr_tag = boot.at[k] => printed = TagItems(k)
  /\ pc = "sections" =>
       /\ i \in 0 .. Symbols.num
       /\ printed = TagItems(LastTag) \o SectionItems(i)
  /\ pc = "done" => printed = Contents

(* A part of what there is to show of a tag: what it is, how it grows and   *)
(* that it begins the whole.                                                *)
LEMMA PartsOfTag ==
  ASSUME Laid(boot), Listed(boot), NEW k \in 1 .. LastTag, NEW n \in 0 .. AreasOf(k)
  PROVE  /\ TagPart(k, n) \in Seq(Items)
         /\ Begins(Items, TagItems(k - 1) \o TagPart(k, n), Contents)
         /\ n = 0 => TagPart(k, n) = <<<<"tag", boot.at[k]>>>>
         /\ n = AreasOf(k) => TagPart(k, n) = TagContents(k)
         /\ n < AreasOf(k) =>
              /\ <<"area", boot.at[k] + 24 * (n + 1) - 8>> \in Items
              /\ TagPart(k, n + 1) =
                   Append(TagPart(k, n), <<"area", boot.at[k] + 24 * (n + 1) - 8>>)
<1> DEFINE e(m) == <<"area", boot.at[k] + 24 * m - 8>>
           h == <<<<"tag", boot.at[k]>>>>
<1>0. /\ boot.at[k] \in Nat /\ LastTag \in Nat
      /\ AreasOf(k) \in Nat /\ h \in Seq(Items)
      /\ TagContents(k) = h \o AreaItems(k, AreasOf(k))
  BY TagIs DEF Laid, LastTag
<1> HIDE DEF h
<1>1. \A m \in 1 .. AreasOf(k) : e(m) \in Items
  <2> SUFFICES ASSUME NEW m \in 1 .. AreasOf(k) PROVE e(m) \in Items
    OBVIOUS
  <2>1. boot.at[k] + 24 * m - 8 \in Nat
    BY <1>0
  <2> QED
    BY <2>1 DEF Items
<1>2. \A m \in 0 .. AreasOf(k) :
        /\ AreaItems(k, m) \in Seq(Items) /\ Len(AreaItems(k, m)) = m
        /\ \A j \in 1 .. m : AreaItems(k, m)[j] = e(j)
  <2> SUFFICES ASSUME NEW m \in 0 .. AreasOf(k)
               PROVE  /\ AreaItems(k, m) \in Seq(Items) /\ Len(AreaItems(k, m)) = m
                      /\ \A j \in 1 .. m : AreaItems(k, m)[j] = e(j)
    OBVIOUS
  <2>1. \A j \in 1 .. m : j \in 1 .. AreasOf(k)
    BY <1>0
  <2>2. AreaItems(k, m) = [j \in 1 .. m |-> e(j)]
    BY DEF AreaItems
  <2> HIDE DEF e
  <2>3. AreaItems(k, m) \in [1 .. m -> Items]
    BY <1>1, <2>1, <2>2
  <2>4. m \in Nat
    BY <1>0
  <2> QED
    BY <2>2, <2>3, <2>4, SequenceOf
<1>3. n \in Nat /\ AreasOf(k) \in 0 .. AreasOf(k)
  BY <1>0
<1>4. \A m \in 0 .. AreasOf(k) : TagPart(k, m) = h \o AreaItems(k, m)
  BY DEF TagPart, h
<1>5. \A m \in 0 .. AreasOf(k) : TagPart(k, m) \in Seq(Items)
  BY <1>0, <1>2, <1>4, ConcatProperties
<1>6. Begins(Items, TagPart(k, n), TagContents(k))
  <2>1. Begins(Items, AreaItems(k, n), AreaItems(k, AreasOf(k)))
    <3>1. \A m \in 1 .. n : AreaItems(k, n)[m] = AreaItems(k, AreasOf(k))[m]
      <4> SUFFICES ASSUME NEW m \in 1 .. n
                   PROVE  AreaItems(k, n)[m] = AreaItems(k, AreasOf(k))[m]
        OBVIOUS
      <4>1. m \in 1 .. AreasOf(k)
        BY <1>0
      <4> HIDE DEF e
      <4> QED
        BY <1>2, <1>3, <4>1
    <3> QED
      BY <1>0, <1>2, <1>3, <3>1, PartBegins
  <2>2. /\ AreaItems(k, n) \in Seq(Items) /\ AreaItems(k, AreasOf(k)) \in Seq(Items)
        /\ TagPart(k, n) = h \o AreaItems(k, n)
    BY <1>2, <1>3, <1>4
  <2>3. Begins(Items, h \o AreaItems(k, n), h \o AreaItems(k, AreasOf(k)))
    BY <1>0, <2>1, <2>2, ConcatBegins
  <2> QED
    BY <1>0, <2>2, <2>3
<1>7. Begins(Items, TagItems(k - 1) \o TagPart(k, n), Contents)
  <2>1. /\ k - 1 \in 0 .. LastTag /\ k \in 0 .. LastTag /\ LastTag \in 0 .. LastTag
        /\ LastTag \in 1 .. LastTag
    BY <1>0
  <2>2. /\ TagItems(k - 1) \in Seq(Items) /\ TagItems(k) \in Seq(Items)
        /\ TagItems(LastTag) \in Seq(Items)
        /\ TagItems(k) = TagItems(k - 1) \o TagContents(k)
        /\ Begins(Items, TagItems(k), TagItems(LastTag))
        /\ Contents = TagItems(LastTag) \o SectionItems(Symbols.num)
    BY <2>1, TagsAre
  <2>3. TagContents(k) \in Seq(Items)
    BY TagIs
  <2>4. Begins(Items, TagItems(k - 1) \o TagPart(k, n), TagItems(k))
    BY <1>5, <1>6, <2>2, <2>3, ConcatBegins
  <2>5. Begins(Items, TagItems(LastTag), Contents)
    <3>1. SectionItems(Symbols.num) \in Seq(Items)
      BY SymbolsTag, SectionsAre
    <3> QED
      BY <2>2, <3>1 DEF Begins
  <2>6. TagItems(k - 1) \o TagPart(k, n) \in Seq(Items)
    BY <1>5, <2>2, ConcatProperties
  <2>7. Begins(Items, TagItems(k - 1) \o TagPart(k, n), TagItems(LastTag))
    BY <2>2, <2>4, <2>6, BeginsTransitive
  <2> QED
    BY <2>2, <2>5, <2>6, <2>7, BeginsTransitive
<1>8. n = 0 => TagPart(k, n) = h
  <2>1. AreaItems(k, 0) = <<>>
    BY DEF AreaItems
  <2> QED
    BY <1>0, <1>4, <1>3, <2>1, ConcatEmptySeq
<1>9. ASSUME n < AreasOf(k)
      PROVE  /\ e(n + 1) \in Items
             /\ TagPart(k, n + 1) = Append(TagPart(k, n), e(n + 1))
  <2>1. n + 1 \in 1 .. AreasOf(k) /\ n + 1 \in 0 .. AreasOf(k)
    BY <1>0, <1>9
  <2>2. e(n + 1) \in Items
    BY <1>1, <2>1
  <2> HIDE DEF e
  <2>3. AreaItems(k, n + 1) = Append(AreaItems(k, n), e(n + 1))
    <3> DEFINE s == AreaItems(k, n + 1)
               t == Append(AreaItems(k, n), e(n + 1))
    <3>1. /\ s \in Seq(Items) /\ Len(s) = n + 1
          /\ \A j \in 1 .. n + 1 : s[j] = e(j)
      BY <1>2, <2>1
    <3>2. /\ AreaItems(k, n) \in Seq(Items) /\ Len(AreaItems(k, n)) = n
          /\ \A j \in 1 .. n : AreaItems(k, n)[j] = e(j)
      BY <1>2
    <3>3. /\ t \in Seq(Items) /\ Len(t) = n + 1
          /\ \A j \in 1 .. n : t[j] = e(j)
          /\ t[n + 1] = e(n + 1)
      BY <2>2, <3>2, AppendProperties
    <3> HIDE DEF s, t
    <3>4. \A j \in 1 .. n + 1 : j \in 1 .. n \/ j = n + 1
      BY <1>3
    <3>5. s = t
      BY <3>1, <3>3, <3>4, SeqEqual
    <3> QED
      BY <3>5 DEF s, t
  <2>4. TagPart(k, n + 1) = h \o Append(AreaItems(k, n), e(n + 1))
    BY <1>4, <2>1, <2>3
  <2>5. AreaItems(k, n) \in Seq(Items) /\ TagPart(k, n) = h \o AreaItems(k, n)
    BY <1>2, <1>4
  <2>6. h \o Append(AreaItems(k, n), e(n + 1)) = Append(h \o AreaItems(k, n), e(n + 1))
    <3> DEFINE x == e(n + 1)
    <3>1. x \in Items
      BY <2>2
    <3> HIDE DEF x
    <3>2. h \o Append(AreaItems(k, n), x) = Append(h \o AreaItems(k, n), x)
      BY <1>0, <2>5, <3>1, ConcatAppend
    <3> QED
      BY <3>2 DEF x
  <2> QED
    BY <2>2, <2>4, <2>5, <2>6
<1> QED
  BY <1>0, <1>4, <1>5, <1>7, <1>8, <1>9, <1>3 DEF h

(* The same of the sections.                                                *)
LEMMA PartsOfSections ==
  ASSUME Laid(boot), Listed(boot), NEW n \in 0 .. Symbols.num
  PROVE  /\ Begins(Items, TagItems(LastTag) \o SectionItems(n), Contents)
         /\ TagItems(LastTag) \o SectionItems(n) \in Seq(Items)
         /\ n < Symbols.num =>
              /\ SectionItem(n + 1) \in Items
              /\ TagItems(LastTag) \o SectionItems(n + 1) =
                   Append(TagItems(LastTag) \o SectionItems(n), SectionItem(n + 1))
<1>0. Symbols.num \in Nat /\ Symbols.num \in 0 .. Symbols.num /\ n \in Nat
  BY SymbolsTag
<1>1. \A m \in 0 .. Symbols.num :
        /\ SectionItems(m) \in Seq(Items) /\ Len(SectionItems(m)) = m
        /\ \A j \in 1 .. m : SectionItems(m)[j] = SectionItem(j) /\ SectionItem(j) \in Items
  BY SectionsAre
<1>2. /\ TagItems(LastTag) \in Seq(Items)
      /\ Contents = TagItems(LastTag) \o SectionItems(Symbols.num)
  <2>1. LastTag \in 0 .. LastTag
    BY DEF Laid, LastTag
  <2> QED
    BY <2>1, TagsAre
<1>3. Begins(Items, SectionItems(n), SectionItems(Symbols.num))
  <2>1. \A m \in 1 .. n : SectionItems(n)[m] = SectionItems(Symbols.num)[m]
    <3> SUFFICES ASSUME NEW m \in 1 .. n
                 PROVE  SectionItems(n)[m] = SectionItems(Symbols.num)[m]
      OBVIOUS
    <3>1. m \in 1 .. Symbols.num
      BY <1>0
    <3> QED
      BY <1>0, <1>1, <3>1
  <2> QED
    BY <1>0, <1>1, <2>1, PartBegins
<1>4. ASSUME n < Symbols.num
      PROVE  /\ SectionItem(n + 1) \in Items
             /\ TagItems(LastTag) \o SectionItems(n + 1) =
                  Append(TagItems(LastTag) \o SectionItems(n), SectionItem(n + 1))
  <2>1. n + 1 \in 0 .. Symbols.num /\ n + 1 \in 1 .. n + 1
    BY <1>0, <1>4
  <2>2. SectionItem(n + 1) \in Items
    BY <1>1, <2>1
  <2>3. SectionItems(n + 1) = Append(SectionItems(n), SectionItem(n + 1))
    <3> DEFINE s == SectionItems(n + 1)
               t == Append(SectionItems(n), SectionItem(n + 1))
    <3>1. /\ s \in Seq(Items) /\ Len(s) = n + 1
          /\ \A j \in 1 .. n + 1 : s[j] = SectionItem(j)
      BY <1>1, <2>1
    <3>2. /\ SectionItems(n) \in Seq(Items) /\ Len(SectionItems(n)) = n
          /\ \A j \in 1 .. n : SectionItems(n)[j] = SectionItem(j)
      BY <1>1
    <3>3. /\ t \in Seq(Items) /\ Len(t) = n + 1
          /\ \A j \in 1 .. n : t[j] = SectionItem(j)
          /\ t[n + 1] = SectionItem(n + 1)
      BY <2>2, <3>2, AppendProperties
    <3> HIDE DEF s, t
    <3>4. \A j \in 1 .. n + 1 : j \in 1 .. n \/ j = n + 1
      BY <1>0
    <3>5. s = t
      BY <3>1, <3>3, <3>4, SeqEqual
    <3> QED
      BY <3>5 DEF s, t
  <2>4. SectionItems(n) \in Seq(Items)
    BY <1>1
  <2>5. TagItems(LastTag) \o Append(SectionItems(n), SectionItem(n + 1))
          = Append(TagItems(LastTag) \o SectionItems(n), SectionItem(n + 1))
    <3> DEFINE x == SectionItem(n + 1)
    <3>1. x \in Items
      BY <2>2
    <3> HIDE DEF x
    <3>2. TagItems(LastTag) \o Append(SectionItems(n), x)
            = Append(TagItems(LastTag) \o SectionItems(n), x)
      BY <1>2, <2>4, <3>1, ConcatAppend
    <3> QED
      BY <3>2 DEF x
  <2> QED
    BY <2>2, <2>3, <2>5
<1>5. Begins(Items, TagItems(LastTag) \o SectionItems(n), Contents)
  BY <1>0, <1>1, <1>2, <1>3, ConcatBegins
<1>6. TagItems(LastTag) \o SectionItems(n) \in Seq(Items)
  BY <1>1, <1>2, ConcatProperties
<1> QED
  BY <1>4, <1>5, <1>6

(* What the loader stored stays as it is.                                   *)
LEMMA StoredStays ==
  ASSUME boot' = boot
  PROVE  /\ LastTag' = LastTag /\ Symbols' = Symbols /\ Contents' = Contents
         /\ \A n : /\ TagItems(n)' = TagItems(n) /\ AreasOf(n)' = AreasOf(n)
                   /\ SectionItems(n)' = SectionItems(n)
         /\ \A k, n : TagPart(k, n)' = TagPart(k, n)
<1>1. LastTag' = LastTag /\ Symbols' = Symbols /\ SymbolsAt' = SymbolsAt
  BY DEF LastTag, Symbols, SymbolsAt
<1>2. \A k : TagContents(k)' = TagContents(k)
  BY DEF TagContents
<1>3. \A n : TagItems(n)' = TagItems(n)
  BY <1>2, Zenon DEF TagItems
<1>4. \A n : SectionItems(n)' = SectionItems(n)
  BY <1>1, Zenon DEF SectionItems, SectionItem
<1>5. AddrOfType(9)' = AddrOfType(9) /\ \A a : TagAt(a)' = TagAt(a)
  <2>1. AddrOfType(9)' = AddrOfType(9)
    BY Zenon DEF AddrOfType
  <2>2. \A a : TagAt(a)' = TagAt(a)
    BY DEF TagAt
  <2> QED
    BY <2>1, <2>2
<1>6. Contents' = Contents
  BY <1>2, <1>5, Zenon DEF Contents
<1>7. \A n : AreasOf(n)' = AreasOf(n)
  BY DEF AreasOf
<1>8. \A k, n : TagPart(k, n)' = TagPart(k, n)
  BY Zenon DEF TagPart, AreaItems
<1> QED
  BY <1>1, <1>3, <1>4, <1>6, <1>7, <1>8

(* The invariant of the output holds at first.                              *)
LEMMA InitShown == Init => ShownInvariant
BY LoaderLists DEF Init, ShownInvariant

(* The invariant of the output is kept by every step.                       *)
LEMMA NextShown ==
  WalkInvariant /\ ShownInvariant /\ [Next]_vars => ShownInvariant'
<1> SUFFICES ASSUME WalkInvariant, ShownInvariant, [Next]_vars PROVE ShownInvariant'
  OBVIOUS
<1>0. /\ Laid(boot) /\ Listed(boot) /\ LastTag \in Nat \ {0}
      /\ \A k \in 1 .. LastTag : boot.at[k] \in Nat \ {0}
      /\ \A j, k \in 1 .. LastTag : boot.at[j] = boot.at[k] => j = k
  <2>1. /\ Laid(boot) /\ Listed(boot) /\ LastTag \in Nat \ {0}
        /\ \A k \in 1 .. LastTag : boot.at[k] \in Nat \ {0}
    BY DEF WalkInvariant, ShownInvariant, Laid, LastTag
  <2>2. \A j, k \in 1 .. LastTag : j < k => boot.at[j] < boot.at[k]
    BY DEF WalkInvariant, Laid, LastTag
  <2> QED
    BY <2>1, <2>2
<1>a. boot' = boot
  BY DEF Next, parse_multiboot_data, init_multiboot_data, VisitTag, PrintArea, NextTag,
         PrintSection, Return, vars
<1>b. /\ LastTag' = LastTag /\ Symbols' = Symbols /\ Contents' = Contents
      /\ \A n : /\ TagItems(n)' = TagItems(n) /\ AreasOf(n)' = AreasOf(n)
                /\ SectionItems(n)' = SectionItems(n)
      /\ \A k, n : TagPart(k, n)' = TagPart(k, n)
  BY <1>a, StoredStays
<1>1. CASE init_multiboot_data
  <2>1. pc' = "walk" /\ printed' = printed /\ printed = <<>> /\ curr_tag' = boot.at[1]
    BY <1>0, <1>1 DEF init_multiboot_data, SizeOfStart, Laid, ShownInvariant
  <2>2. TagItems(0) = <<>> /\ 1 \in 1 .. LastTag
    BY <1>0, TagsAre
  <2>3. \A k \in 1 .. LastTag : curr_tag' = boot.at[k] => printed' = TagItems(k - 1)
    <3> SUFFICES ASSUME NEW k \in 1 .. LastTag, curr_tag' = boot.at[k]
                 PROVE  printed' = TagItems(k - 1)
      OBVIOUS
    <3>1. boot.at[k] = boot.at[1]
      BY <2>1
    <3>2. k = 1
      BY <1>0, <2>2, <3>1, Zenon
    <3>3. k - 1 = 0
      BY <3>2
    <3> QED
      BY <2>1, <2>2, <3>3
  <2> QED
    BY <1>0, <1>a, <1>b, <2>1, <2>3 DEF ShownInvariant
<1>2. CASE VisitTag
  <2>1. PICK k \in 1 .. LastTag : curr_tag = boot.at[k]
    BY <1>2 DEF WalkInvariant, VisitTag
  <2>2. printed = TagItems(k - 1)
    BY <1>2, <2>1 DEF ShownInvariant, VisitTag
  <2>3. TagAt(curr_tag) = boot.tags[k]
    BY <1>0, <2>1, TagRead
  <2>4. /\ Show(<<"tag", boot.at[k]>>) /\ curr_tag' = boot.at[k] /\ i' = 0
        /\ pc' = IF boot.tags[k].type = 6 THEN "areas" ELSE "next"
    BY <1>2, <2>1, <2>3 DEF VisitTag
  <2>5. /\ AreasOf(k) \in Nat /\ 0 \in 0 .. AreasOf(k)
        /\ <<"tag", boot.at[k]>> \in Items
    <3>1. AreasOf(k) \in Nat /\ <<"tag", boot.at[k]>> \in Items
      BY <1>0, TagIs
    <3> QED
      BY <3>1
  <2>6. /\ Begins(Items, TagItems(k - 1) \o TagPart(k, 0), Contents)
        /\ TagPart(k, 0) = <<<<"tag", boot.at[k]>>>>
        /\ 0 = AreasOf(k) => TagPart(k, 0) = TagContents(k)
    BY <1>0, <2>5, PartsOfTag
  <2>7. TagItems(k - 1) \in Seq(Items) /\ TagItems(k) = TagItems(k - 1) \o TagContents(k)
    <3>1. k - 1 \in 0 .. LastTag
      BY <1>0
    <3> QED
      BY <1>0, <3>1, TagsAre
  <2>8. printed' = TagItems(k - 1) \o TagPart(k, 0)
    <3> DEFINE e == <<"tag", boot.at[k]>>
    <3>1. e \in Items /\ Show(e) /\ TagPart(k, 0) = <<e>>
      BY <2>4, <2>5, <2>6
    <3> HIDE DEF e
    <3>2. Append(printed, e) = TagItems(k - 1) \o TagPart(k, 0)
      BY <2>2, <2>7, <3>1, AppendIsConcat
    <3> QED
      BY <1>0, <2>2, <2>6, <2>7, <3>1, <3>2, ShowsNext
  <2>9. \A j \in 1 .. LastTag : curr_tag' = boot.at[j] => j = k
    BY <1>0, <2>4
  <2>10. CASE boot.tags[k].type = 6
    <3>1. pc' = "areas"
      BY <2>4, <2>10
    <3>2. \A j \in 1 .. LastTag : curr_tag' = boot.at[j] =>
            /\ boot.tags[j].type = 6 /\ i' \in 0 .. AreasOf(j)
            /\ printed' = TagItems(j - 1) \o TagPart(j, i')
      BY <2>4, <2>5, <2>8, <2>9, <2>10
    <3> QED
      BY <1>0, <1>a, <1>b, <3>1, <3>2 DEF ShownInvariant
  <2>11. CASE boot.tags[k].type # 6
    <3>1. pc' = "next" /\ AreasOf(k) = 0
      BY <2>4, <2>11 DEF AreasOf
    <3>2. printed' = TagItems(k)
      BY <2>6, <2>7, <2>8, <3>1
    <3> QED
      BY <1>0, <1>a, <1>b, <2>9, <3>1, <3>2 DEF ShownInvariant
  <2> QED
    BY <2>10, <2>11
<1>c. ASSUME NEW k \in 1 .. LastTag, pc = "areas", curr_tag = boot.at[k]
      PROVE  /\ AreasOf(k) \in Nat /\ i \in 0 .. AreasOf(k)
             /\ printed = TagItems(k - 1) \o TagPart(k, i)
             /\ kept.maps = boot.at[k] /\ num_of_maps(TagAt(kept.maps)) = AreasOf(k)
  <2>1. /\ boot.tags[k].type = 6 /\ i \in 0 .. AreasOf(k)
        /\ printed = TagItems(k - 1) \o TagPart(k, i)
    BY <1>c DEF ShownInvariant
  <2>2. Passed(k)
    <3>1. PICK j \in 1 .. LastTag : curr_tag = boot.at[j] /\ Passed(j)
      BY <1>c DEF WalkInvariant
    <3>2. j = k
      BY <1>0, <1>c, <3>1
    <3> QED
      BY <3>1, <3>2
  <2>3. kept.maps = boot.at[k]
    <3>1. Among(boot, k, 6) = boot.at[k]
      BY <1>0, <2>1, OneMore DEF KeptTypes
    <3> QED
      BY <2>2, <3>1 DEF Passed, KeptOf
  <2>4. TagAt(kept.maps) = boot.tags[k]
    BY <1>0, <2>3, TagRead
  <2>5. /\ boot.tags[k].areas \in Nat /\ boot.tags[k].entry_size = 24
        /\ boot.tags[k].size = 16 + 24 * boot.tags[k].areas
        /\ AreasOf(k) = boot.tags[k].areas
    BY <1>0, <2>1 DEF Laid, Listed, LastTag, AreasOf
  <2>6. num_of_maps(boot.tags[k]) = boot.tags[k].areas
    <3> DEFINE x == boot.tags[k].areas
    <3>1. num_of_maps(boot.tags[k]) = (16 + 24 * x - 16) \div 24 /\ x \in Nat
      BY <2>5 DEF num_of_maps
    <3> HIDE DEF x
    <3>2. (16 + 24 * x - 16) \div 24 = x
      BY <3>1
    <3> QED
      BY <3>1, <3>2 DEF x
  <2> QED
    BY <2>1, <2>3, <2>4, <2>5, <2>6
<1>3. CASE PrintArea
  <2>1. PICK k \in 1 .. LastTag : curr_tag = boot.at[k]
    BY <1>3 DEF WalkInvariant, PrintArea
  <2>2. /\ AreasOf(k) \in Nat /\ i \in 0 .. AreasOf(k)
        /\ printed = TagItems(k - 1) \o TagPart(k, i)
        /\ kept.maps = boot.at[k] /\ num_of_maps(TagAt(kept.maps)) = AreasOf(k)
    BY <1>3, <1>c, <2>1 DEF PrintArea
  <2>3. /\ i < AreasOf(k) /\ i' = i + 1 /\ pc' = "areas" /\ curr_tag' = curr_tag
        /\ Show(<<"area", boot.at[k] + 4 * 4 + i * 24>>)
    BY <1>3, <2>2 DEF PrintArea, SizeOfArea
  <2> DEFINE e == <<"area", boot.at[k] + 24 * (i + 1) - 8>>
  <2>4. Show(e)
    <3>1. boot.at[k] + 4 * 4 + i * 24 = boot.at[k] + 24 * (i + 1) - 8
      BY <1>0, <2>2
    <3> QED
      BY <2>3, <3>1
  <2>5. i + 1 \in 0 .. AreasOf(k)
    BY <2>2, <2>3
  <2>6. /\ TagPart(k, i) \in Seq(Items) /\ e \in Items
        /\ TagPart(k, i + 1) = Append(TagPart(k, i), e)
        /\ Begins(Items, TagItems(k - 1) \o TagPart(k, i + 1), Contents)
    BY <1>0, <2>2, <2>3, <2>5, PartsOfTag
  <2> HIDE DEF e
  <2>7. TagItems(k - 1) \in Seq(Items)
    <3>1. k - 1 \in 0 .. LastTag
      BY <1>0
    <3> QED
      BY <1>0, <3>1, TagsAre
  <2>8. /\ Append(printed, e) = TagItems(k - 1) \o TagPart(k, i + 1)
        /\ printed \in Seq(Items)
    <3>1. TagItems(k - 1) \o Append(TagPart(k, i), e) = Append(TagItems(k - 1) \o TagPart(k, i), e)
      BY <2>6, <2>7, ConcatAppend
    <3>2. TagItems(k - 1) \o TagPart(k, i) \in Seq(Items)
      BY <2>6, <2>7, ConcatProperties
    <3> QED
      BY <2>2, <2>6, <3>1, <3>2
  <2>9. printed' = TagItems(k - 1) \o TagPart(k, i + 1)
    BY <1>0, <2>4, <2>6, <2>8, ShowsNext
  <2>10. boot.tags[k].type = 6 /\ \A j \in 1 .. LastTag : curr_tag' = boot.at[j] => j = k
    BY <1>0, <1>3, <2>1, <2>3 DEF ShownInvariant, PrintArea
  <2>11. \A j \in 1 .. LastTag : curr_tag' = boot.at[j] =>
           /\ boot.tags[j].type = 6 /\ i' \in 0 .. AreasOf(j)
           /\ printed' = TagItems(j - 1) \o TagPart(j, i')
    BY <2>3, <2>5, <2>9, <2>10
  <2> QED
    BY <1>0, <1>a, <1>b, <2>3, <2>11 DEF ShownInvariant
<1>4. CASE NextTag
  <2>1. PICK k \in 1 .. LastTag : curr_tag = boot.at[k]
    BY <1>4 DEF WalkInvariant, NextTag
  <2>2. /\ printed' = printed /\ i' = 0
        /\ pc' = IF curr_tag' = NULL THEN "sections" ELSE "walk"
        /\ curr_tag' = IF k = LastTag THEN NULL ELSE boot.at[k + 1]
    BY <1>0, <1>4, <2>1, Agreement DEF NextTag
  <2>3. printed = TagItems(k)
    <3>1. CASE pc = "next"
      BY <2>1, <3>1 DEF ShownInvariant
    <3>2. CASE pc = "areas"
      <4>1. /\ AreasOf(k) \in Nat /\ i \in 0 .. AreasOf(k)
            /\ printed = TagItems(k - 1) \o TagPart(k, i)
            /\ num_of_maps(TagAt(kept.maps)) = AreasOf(k)
        BY <1>c, <2>1, <3>2
      <4>2. i >= num_of_maps(TagAt(kept.maps))
        BY <1>4, <3>2 DEF NextTag
      <4>3. i = AreasOf(k)
        BY <4>1, <4>2
      <4>4. TagPart(k, i) = TagContents(k)
        BY <1>0, <4>1, <4>3, PartsOfTag
      <4> QED
        BY <1>0, <4>1, <4>4, TagsAre
    <3> QED
      BY <1>4, <3>1, <3>2 DEF NextTag
  <2>4. CASE k = LastTag
    <3>1. pc' = "sections" /\ printed' = TagItems(LastTag)
      BY <2>2, <2>3, <2>4
    <3>2. /\ 0 \in 0 .. Symbols.num /\ TagItems(LastTag) \in Seq(Items)
          /\ SectionItems(0) = <<>>
      <4>1. Symbols.num \in Nat /\ LastTag \in 0 .. LastTag
        BY <1>0, SymbolsTag
      <4>2. SectionItems(0) = <<>>
        BY DEF SectionItems
      <4> QED
        BY <1>0, <4>1, <4>2, TagsAre
    <3>3. TagItems(LastTag) \o SectionItems(0) = TagItems(LastTag)
      BY <3>2, ConcatEmptySeq
    <3> QED
      BY <1>0, <1>a, <1>b, <2>2, <3>1, <3>2, <3>3 DEF ShownInvariant
  <2>5. CASE k # LastTag
    <3>1. k + 1 \in 1 .. LastTag /\ (k + 1) - 1 = k
      BY <1>0, <2>5
    <3>2. pc' = "walk" /\ curr_tag' = boot.at[k + 1]
      BY <1>0, <2>2, <2>5, <3>1 DEF NULL
    <3>3. \A j \in 1 .. LastTag : curr_tag' = boot.at[j] => printed' = TagItems(j - 1)
      BY <1>0, <2>2, <2>3, <3>1, <3>2
    <3> QED
      BY <1>0, <1>a, <1>b, <3>2, <3>3 DEF ShownInvariant
  <2> QED
    BY <2>4, <2>5
<1>d. ASSUME pc = "sections"
      PROVE  /\ i \in 0 .. Symbols.num /\ Symbols.num \in Nat
             /\ printed = TagItems(LastTag) \o SectionItems(i)
             /\ kept.symbols = SymbolsAt /\ TagAt(kept.symbols) = Symbols
  <2>1. /\ Symbols.num \in Nat /\ TagAt(SymbolsAt) = Symbols
        /\ Among(boot, LastTag, 9) = SymbolsAt
    BY <1>0, SymbolsTag
  <2>2. kept.symbols = SymbolsAt
    BY <1>d, <2>1 DEF WalkInvariant, Passed, KeptOf
  <2> QED
    BY <1>d, <2>1, <2>2 DEF ShownInvariant
<1>5. CASE PrintSection
  <2>1. /\ i \in 0 .. Symbols.num /\ Symbols.num \in Nat
        /\ printed = TagItems(LastTag) \o SectionItems(i)
        /\ kept.symbols = SymbolsAt /\ TagAt(kept.symbols) = Symbols
    BY <1>5, <1>d DEF PrintSection
  <2>2. i < Symbols.num /\ i' = i + 1 /\ pc' = "sections"
    BY <1>5, <2>1 DEF PrintSection
  <2>3. /\ Symbols.entsize = 64 /\ Symbols.shndx \in 0 .. Symbols.num - 1
        /\ SymbolsAt \in Nat
    BY <1>0, SymbolsTag
  <2>4. i + 1 \in 1 .. Symbols.num /\ i + 1 \in 0 .. Symbols.num
        /\ Symbols.shndx + 1 \in 1 .. Symbols.num
    BY <2>1, <2>2, <2>3
  <2>5. /\ SectionHeader(i) = SymbolsAt + 64 * (i + 1) - 44
        /\ SectionHeader(Symbols.shndx) = SymbolsAt + 64 * (Symbols.shndx + 1) - 44
    <3>1. \A n : SectionHeader(n) = SymbolsAt + 5 * 4 + n * 64
      BY <2>1, <2>3 DEF SectionHeader
    <3>2. \A n \in Nat : SymbolsAt + 5 * 4 + n * 64 = SymbolsAt + 64 * (n + 1) - 44
      BY <2>3
    <3>3. i \in Nat /\ Symbols.shndx \in Nat
      BY <2>1, <2>3
    <3> QED
      BY <3>1, <3>2, <3>3
  <2>6. /\ HeaderAt(SectionHeader(i)) = Symbols.headers[i + 1]
        /\ HeaderAt(SectionHeader(Symbols.shndx)) = Symbols.headers[Symbols.shndx + 1]
    BY <1>0, <2>4, <2>5, HeaderRead
  <2> DEFINE e == SectionItem(i + 1)
  <2>7. Show(e)
    <3>1. Show(<<"section", SectionHeader(i),
                 HeaderAt(SectionHeader(Symbols.shndx)).sh_addr
                   + HeaderAt(SectionHeader(i)).sh_name,
                 get_sh_flag_strings(HeaderAt(SectionHeader(i)).sh_flags)>>)
      BY <1>5, <2>1 DEF PrintSection
    <3> QED
      BY <2>5, <2>6, <3>1 DEF SectionItem
  <2>8. /\ Begins(Items, TagItems(LastTag) \o SectionItems(i + 1), Contents)
        /\ TagItems(LastTag) \o SectionItems(i) \in Seq(Items)
        /\ e \in Items
        /\ TagItems(LastTag) \o SectionItems(i + 1)
             = Append(TagItems(LastTag) \o SectionItems(i), e)
    BY <1>0, <2>1, <2>2, <2>4, PartsOfSections
  <2> HIDE DEF e
  <2>9. printed' = TagItems(LastTag) \o SectionItems(i + 1)
    BY <1>0, <2>1, <2>7, <2>8, ShowsNext
  <2> QED
    BY <1>0, <1>a, <1>b, <2>2, <2>4, <2>9 DEF ShownInvariant
<1>6. CASE Return
  <2>1. /\ i \in 0 .. Symbols.num /\ Symbols.num \in Nat
        /\ printed = TagItems(LastTag) \o SectionItems(i)
        /\ TagAt(kept.symbols) = Symbols
    BY <1>6, <1>d DEF Return
  <2>2. i >= Symbols.num /\ pc' = "done" /\ printed' = printed
    BY <1>6, <2>1 DEF Return
  <2>3. i = Symbols.num
    BY <2>1, <2>2
  <2>4. printed' = Contents
    BY <1>0, <2>1, <2>2, <2>3, TagsAre
  <2> QED
    BY <1>0, <1>a, <1>b, <2>2, <2>4 DEF ShownInvariant
<1>7. CASE UNCHANGED vars
  <2>1. pc' = pc /\ curr_tag' = curr_tag /\ i' = i /\ printed' = printed
    BY <1>7 DEF vars
  <2> QED
    BY <1>0, <1>a, <1>b, <2>1 DEF ShownInvariant
<1> QED
  BY <1>1, <1>2, <1>3, <1>4, <1>5, <1>6, <1>7 DEF Next, parse_multiboot_data

(* What has been shown at any time begins what there is to show, and all    *)
(* that is shown comes from the tags, the areas and the sections.           *)
LEMMA ShownBegins ==
  ASSUME WalkInvariant, ShownInvariant
  PROVE  printed \in Seq(Items) /\ Begins(Items, printed, Contents)
<1>0. /\ Laid(boot) /\ Listed(boot) /\ LastTag \in Nat \ {0}
      /\ Symbols.num \in Nat
  BY SymbolsTag DEF WalkInvariant, ShownInvariant, Laid, LastTag
<1>1. /\ TagItems(0) = <<>>
      /\ \A n \in 1 .. LastTag : TagItems(n) = TagItems(n - 1) \o TagContents(n)
      /\ \A n \in 0 .. LastTag :
           TagItems(n) \in Seq(Items) /\ Begins(Items, TagItems(n), TagItems(LastTag))
  BY <1>0, TagsAre
<1>2. \A n \in 0 .. Symbols.num :
        /\ TagItems(LastTag) \o SectionItems(n) \in Seq(Items)
        /\ Begins(Items, TagItems(LastTag) \o SectionItems(n), Contents)
  BY <1>0, PartsOfSections
<1>3. /\ Contents = TagItems(LastTag) \o SectionItems(Symbols.num)
      /\ SectionItems(Symbols.num) \in Seq(Items)
      /\ Symbols.num \in 0 .. Symbols.num
  BY <1>0, TagsAre, SectionsAre
<1>4. \A n \in 0 .. LastTag : Begins(Items, TagItems(n), Contents)
  <2> SUFFICES ASSUME NEW n \in 0 .. LastTag PROVE Begins(Items, TagItems(n), Contents)
    OBVIOUS
  <2>1. TagItems(LastTag) \in Seq(Items) /\ Begins(Items, TagItems(n), TagItems(LastTag))
        /\ TagItems(n) \in Seq(Items)
    BY <1>0, <1>1
  <2>2. Begins(Items, TagItems(LastTag), Contents)
    BY <1>3 DEF Begins
  <2> QED
    BY <2>1, <2>2, BeginsTransitive
<1>5. CASE pc = "init"
  <2>1. printed = TagItems(0) /\ 0 \in 0 .. LastTag
    BY <1>0, <1>1, <1>5 DEF ShownInvariant
  <2> QED
    BY <1>1, <1>4, <2>1
<1>6. CASE pc \in {"walk", "next"}
  <2>1. PICK k \in 1 .. LastTag : curr_tag = boot.at[k]
    BY <1>6 DEF WalkInvariant
  <2>2. printed \in {TagItems(k - 1), TagItems(k)} /\ k - 1 \in 0 .. LastTag /\ k \in 0 .. LastTag
    BY <1>0, <1>6, <2>1 DEF ShownInvariant
  <2> QED
    BY <1>1, <1>4, <2>2
<1>7. CASE pc = "areas"
  <2>1. PICK k \in 1 .. LastTag : curr_tag = boot.at[k]
    BY <1>7 DEF WalkInvariant
  <2>2. i \in 0 .. AreasOf(k) /\ printed = TagItems(k - 1) \o TagPart(k, i)
    BY <1>7, <2>1 DEF ShownInvariant
  <2>3. /\ TagPart(k, i) \in Seq(Items)
        /\ Begins(Items, TagItems(k - 1) \o TagPart(k, i), Contents)
    BY <1>0, <2>2, PartsOfTag
  <2>4. TagItems(k - 1) \in Seq(Items)
    <3>1. k - 1 \in 0 .. LastTag
      BY <1>0
    <3> QED
      BY <1>1, <3>1
  <2> QED
    BY <2>2, <2>3, <2>4, ConcatProperties
<1>8. CASE pc = "sections"
  BY <1>2, <1>8 DEF ShownInvariant
<1>9. CASE pc = "done"
  <2>1. printed = TagItems(LastTag) \o SectionItems(Symbols.num)
    BY <1>3, <1>9 DEF ShownInvariant
  <2> QED
    BY <1>2, <1>3, <2>1
<1> QED
  BY <1>5, <1>6, <1>7, <1>8, <1>9 DEF WalkInvariant

(* The letters of the flags paging.c asks for name these flags only.        *)
LEMMA Letters ==
  ASSUME NEW flags
  PROVE  /\ "W" \in get_sh_flag_strings(flags) <=> 0 \in flags
         /\ "A" \in get_sh_flag_strings(flags) <=> 1 \in flags
         /\ "X" \in get_sh_flag_strings(flags) <=> 2 \in flags
<1>1. /\ DOMAIN FlagNames = (0 .. 10 \ {3}) \cup {26, 27}
      /\ FlagNames[0] = "W" /\ FlagNames[1] = "A" /\ FlagNames[2] = "X"
      /\ \A b \in DOMAIN FlagNames \ 0 .. 2 : FlagNames[b] \notin {"W", "A", "X"}
  BY DEF FlagNames
<1>2. \A b \in DOMAIN FlagNames : /\ FlagNames[b] = "W" <=> b = 0
                                  /\ FlagNames[b] = "A" <=> b = 1
                                  /\ FlagNames[b] = "X" <=> b = 2
  BY <1>1
<1>3. {0, 1, 2} \subseteq 0 .. 31 \cap DOMAIN FlagNames
  BY <1>1
<1>4. get_sh_flag_strings(flags)
        = {FlagNames[b] : b \in flags \cap 0 .. 31 \cap DOMAIN FlagNames}
  BY DEF get_sh_flag_strings
<1> HIDE DEF FlagNames
<1> QED
  BY <1>2, <1>3, <1>4

(* The walk shows every tag, every memory area and every section header the *)
(* loader stored, each once and in order, and nothing else; and the letters *)
(* of a section's flags say what remap_kernel will do with it.              *)
THEOREM ReadingCorrect == Spec => []ReadsWhatWasStored
<1>1. WalkInvariant /\ ShownInvariant => ReadsWhatWasStored
  <2> SUFFICES ASSUME WalkInvariant, ShownInvariant PROVE ReadsWhatWasStored
    OBVIOUS
  <2>0. Laid(boot) /\ Listed(boot)
    BY DEF WalkInvariant, ShownInvariant
  <2>1. /\ printed \in Seq(Items) /\ Begins(Items, printed, Contents)
        /\ Contents \in Seq(Items)
    BY <2>0, ShownBegins, ContentsFit
  <2>2. IsPrefix(printed, Contents)
    BY <2>1, BeginsIsPrefix
  <2>3. pc = "done" => printed = Contents
    BY DEF ShownInvariant
  <2>4. ASSUME NEW k \in DOMAIN printed, printed[k][1] = "section"
        PROVE  LET header == HeaderAt(printed[k][2])
                   Shown(letter) == letter \in printed[k][4]
               IN  /\ Shown("W") <=> elf_section_is_writable(header)
                   /\ Shown("A") <=> elf_section_is_allocated(header)
                   /\ Shown("X") <=> elf_section_is_exectuable(header)
    <3>1. printed[k] \in Items
      BY <2>1
    <3>2. printed[k] \notin {"tag", "area"} \X Nat
      BY <2>4
    <3>3. PICK n \in 1 .. Symbols.num : printed[k] = SectionItem(n)
      BY <3>1, <3>2, Zenon DEF Items
    <3>4. /\ printed[k][2] = SymbolsAt + 64 * n - 44
          /\ printed[k][4] = get_sh_flag_strings(Symbols.headers[n].sh_flags)
      BY <3>3 DEF SectionItem
    <3>5. HeaderAt(printed[k][2]) = Symbols.headers[n]
      BY <2>0, <3>4, HeaderRead
    <3> QED
      BY <3>4, <3>5, Letters
           DEF elf_section_is_writable, elf_section_is_allocated, elf_section_is_exectuable
  <2> QED
    BY <2>2, <2>3, <2>4 DEF ReadsWhatWasStored
<1>2. Spec => []ShownInvariant
  BY InitShown, NextShown, WalkCorrect, PTL DEF Spec
<1> QED
  BY <1>1, <1>2, WalkCorrect, PTL
==============================================================================
