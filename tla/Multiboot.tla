----------------------------- MODULE Multiboot -----------------------------
(***************************************************************************)
(* The walk over the information the boot loader leaves in memory,         *)
(* multiboot.c: one tag after the other, each found from the size the one  *)
(* before states, with the pointers the walk keeps for the frame allocator *)
(* and the remapping, then the printing of the kernel's ELF sections.      *)
(*                                                                         *)
(* A pointer is an address; 0 is NULL.  Where the loader puts what is      *)
(* external and stated apart from the addresses the code computes.  What   *)
(* is shown of an object is its address; the wording is left out.          *)
(***************************************************************************)
EXTENDS Integers, SequencesExt

CONSTANTS
  Boots,     \* what loaders pass: a start address and a sequence of tags
  MaxShown   \* bound on what is remembered of the output

\* The types of the tags the file keeps a pointer to.
KeptTypes == {1, 2, 4, 5, 6, 9}

\* A tag of type 6 lists areas, one of type 9 the sections of the kernel file
\* and the index of the one that holds their names; only the last has type 0,
\* and there is one tag at most of each type that is kept.
ASSUME MultibootAssumption ==
  /\ MaxShown \in Nat
  /\ \A b \in Boots :
       /\ b.start \in Nat \ {0} /\ b.start % 8 = 0
       /\ Len(b.tags) \in Nat /\ DOMAIN b.tags = 1 .. Len(b.tags)
       /\ \A k \in DOMAIN b.tags :
            /\ b.tags[k].size \in Nat /\ b.tags[k].size >= 8
            /\ b.tags[k].type = 0 <=> k = Len(b.tags)
       /\ \A j, k \in DOMAIN b.tags :
            b.tags[j].type = b.tags[k].type /\ b.tags[j].type \in KeptTypes => j = k
       /\ \E k \in DOMAIN b.tags : b.tags[k].type = 9

\* What the two tags with lists say of them: the areas and the headers have
\* the sizes multiboot.h gives them, and the section of names is one of those
\* listed.  All of the output is remembered.
ASSUME ListsAssumption ==
  \A b \in Boots :
    /\ \A k \in DOMAIN b.tags :
         LET tag == b.tags[k]
         IN  /\ tag.type = 6 => /\ tag.areas \in Nat /\ tag.entry_size = 24
                               /\ tag.size = 16 + 24 * tag.areas
             /\ tag.type = 9 => /\ tag.num \in Nat /\ tag.entsize = 64
                               /\ DOMAIN tag.headers = 1 .. tag.num
                               /\ tag.shndx \in 0 .. tag.num - 1
    /\ \A j, k \in DOMAIN b.tags :
         b.tags[k].type = 9 =>
           Len(b.tags) + b.tags[k].num + (IF b.tags[j].type = 6 THEN b.tags[j].areas ELSE 0)
             <= MaxShown

VARIABLES
  boot,      \* what the loader left in memory
  pc,
  curr_tag,
  kept,      \* the file's pointers to tags
  data,      \* the structure shared with the rest of the kernel
  i,         \* index of the loop over areas or section headers
  printed    \* what has been read and shown so far

vars == <<boot, pc, curr_tag, kept, data, i, printed>>

NULL == 0

-----------------------------------------------------------------------------
(* The loader's side *)

\* Tags lie at multiples of 8, as close as they fit.
Placed(b) ==
  LET at[k \in DOMAIN b.tags] ==
        IF k = 1 THEN b.start + 8
        ELSE LET end == at[k - 1] + b.tags[k - 1].size
             IN  CHOOSE a \in end .. end + 7 : a % 8 = 0
  IN  [start |-> b.start, tags |-> b.tags, at |-> at]

\* What is read at a tag's address; between the tags all is zero.
TagAt(a) ==
  IF \E k \in DOMAIN boot.tags : boot.at[k] = a
  THEN boot.tags[CHOOSE k \in DOMAIN boot.tags : boot.at[k] = a]
  ELSE [type |-> 0, size |-> 0]

AddrOfType(type) ==
  IF \E k \in DOMAIN boot.tags : boot.tags[k].type = type
  THEN boot.at[CHOOSE k \in DOMAIN boot.tags : boot.tags[k].type = type]
  ELSE NULL

\* Headers of sections are 64 bytes each, behind 20 bytes of their tag.
HeaderAt(a) ==
  LET symbols == AddrOfType(9)
      headers == TagAt(symbols).headers
  IN  IF \E k \in DOMAIN headers : symbols + 20 + 64 * (k - 1) = a
      THEN headers[(a - symbols - 20) \div 64 + 1]
      ELSE [sh_name |-> 0, sh_addr |-> 0, sh_flags |-> {}]

-----------------------------------------------------------------------------

\* The enumeration multiboot_tags, of the types whose tags are kept.
Pointer ==
  [t \in KeptTypes |->
     CASE t = 1 -> "command_line" [] t = 2 -> "name" [] t = 4 -> "info"
       [] t = 5 -> "device" [] t = 6 -> "maps" [] t = 9 -> "symbols"]

Init ==
  /\ \E b \in Boots : boot = Placed(b)
  /\ pc = "init"
  /\ curr_tag = NULL
  /\ kept = [p \in {Pointer[t] : t \in DOMAIN Pointer} |-> NULL]
  /\ data = [start |-> NULL, memory_map |-> NULL, elf_symbols |-> NULL]
  /\ i = 0
  /\ printed = <<>>

Show(item) ==
  printed' = IF Len(printed) < MaxShown THEN Append(printed, item) ELSE printed

SizeOfStart == 8

init_multiboot_data ==
  /\ pc = "init"
  /\ data' = [data EXCEPT !.start = boot.start]
  /\ curr_tag' = boot.start + SizeOfStart
  /\ pc' = "walk"
  /\ UNCHANGED <<boot, kept, i, printed>>

\* One turn of parse_multiboot_data's loop up to the switch's break, for the
\* memory map up to its loop.  Types without a pointer are only printed.
VisitTag ==
  LET type == TagAt(curr_tag).type
  IN  /\ pc = "walk"
      /\ Show(<<"tag", curr_tag>>)
      /\ kept' = IF type \in DOMAIN Pointer
                 THEN [kept EXCEPT ![Pointer[type]] = curr_tag] ELSE kept
      /\ data' = [start |-> data.start, memory_map |-> kept'.maps,
                   elf_symbols |-> kept'.symbols]
      /\ i' = 0
      /\ pc' = IF type = 6 THEN "areas" ELSE "next"
      /\ UNCHANGED <<boot, curr_tag>>

\* Mutant: the fields in front of the areas are counted as another one.
num_of_maps_Header(maps) == (maps.size + maps.entry_size - 16) \div maps.entry_size

num_of_maps(maps) == (maps.size - 4 * 4) \div maps.entry_size

SizeOfArea == 24

PrintArea ==
  /\ pc = "areas"
  /\ i < num_of_maps(TagAt(kept.maps))
  /\ Show(<<"area", kept.maps + 4 * 4 + i * SizeOfArea>>)
  /\ i' = i + 1
  /\ UNCHANGED <<boot, pc, curr_tag, kept, data>>

\* Mutant: the end tag is not recognised.
find_next_tag_address_NoEnd(a) ==
  LET next == a + TagAt(a).size
  IN  IF next % 8 = 0 THEN next ELSE next + 8 - (next % 8)

find_next_tag_address(a) ==
  LET next == a + TagAt(a).size
  IN  IF TagAt(a).type = 0 THEN NULL
      ELSE IF next % 8 = 0 THEN next ELSE next + 8 - (next % 8)

\* The condition of the loop; behind the last tag the sections are printed.
NextTag ==
  /\ \/ pc = "next"
     \/ pc = "areas" /\ i >= num_of_maps(TagAt(kept.maps))
  /\ curr_tag' = find_next_tag_address(curr_tag)
  /\ pc' = IF curr_tag' = NULL THEN "sections" ELSE "walk"
  /\ i' = 0
  /\ UNCHANGED <<boot, kept, data, printed>>

\* get_sh_flag_string, by the number of the flag's bit.
FlagNames ==
  [b \in (0 .. 10 \ {3}) \cup {26, 27} |->
     CASE b = 0 -> "W" [] b = 1 -> "A" [] b = 2 -> "X" [] b = 4 -> "M" [] b = 5 -> "S"
       [] b = 6 -> "IL" [] b = 7 -> "LO" [] b = 8 -> "OS" [] b = 9 -> "G" [] b = 10 -> "T"
       [] b = 26 -> "ORD" [] b = 27 -> "EXC"]

\* The loop over bits: a flag is an int, so the upper half is never shown; a
\* bit without a name, also of the two masks, shows an empty string.
get_sh_flag_strings(flags) == {FlagNames[b] : b \in flags \cap 0 .. 31 \cap DOMAIN FlagNames}

SectionHeader(k) == kept.symbols + 5 * 4 + k * TagAt(kept.symbols).entsize

\* One turn of print_elf_symbols; the name is looked up in the string table.
PrintSection ==
  LET symbols == TagAt(kept.symbols)
      string_table == HeaderAt(SectionHeader(symbols.shndx))
      elf_header == HeaderAt(SectionHeader(i))
  IN  /\ pc = "sections"
      /\ i < symbols.num
      /\ Show(<<"section", SectionHeader(i), string_table.sh_addr + elf_header.sh_name,
               get_sh_flag_strings(elf_header.sh_flags)>>)
      /\ i' = i + 1
      /\ UNCHANGED <<boot, pc, curr_tag, kept, data>>

Return ==
  /\ pc = "sections"
  /\ i >= TagAt(kept.symbols).num
  /\ pc' = "done"
  /\ UNCHANGED <<boot, curr_tag, kept, data, i, printed>>

parse_multiboot_data == VisitTag \/ PrintArea \/ NextTag \/ PrintSection \/ Return

Next == init_multiboot_data \/ parse_multiboot_data

Spec == Init /\ [][Next]_vars /\ WF_vars(Next)

-----------------------------------------------------------------------------
(* What paging.c asks of a section. *)

elf_section_is_writable(header) == 0 \in header.sh_flags
elf_section_is_allocated(header) == 1 \in header.sh_flags
elf_section_is_exectuable(header) == 2 \in header.sh_flags

-----------------------------------------------------------------------------
(* Properties *)

\* What the loader stored, in the order the code should come across it.
TagContents(k) ==
  LET tag == boot.tags[k]
      areas == IF tag.type = 6 THEN tag.areas ELSE 0
  IN  <<<<"tag", boot.at[k]>>>>
        \o [n \in 1 .. areas |-> <<"area", boot.at[k] + 24 * n - 8>>]

Contents ==
  LET a == AddrOfType(9)
      headers == TagAt(a).headers
      names == headers[TagAt(a).shndx + 1]
  IN  FlattenSeq([k \in DOMAIN boot.tags |-> TagContents(k)])
        \o [n \in DOMAIN headers |->
              <<"section", a + 64 * n - 44, names.sh_addr + headers[n].sh_name,
                get_sh_flag_strings(headers[n].sh_flags)>>]

\* The walk comes across every tag, every memory area and every section header
\* of the loader, each once and in order, looks every section's name up in the
\* section of names, and reads nothing that is none of these: no padding taken
\* for a tag, nothing behind the last one.  The letters printed for a section
\* promise what paging.c then does with it: A for mapped, W for writeable, X
\* for executable.
ReadsWhatWasStored ==
  /\ IsPrefix(printed, Contents)
  /\ pc = "done" => printed = Contents
  /\ \A k \in DOMAIN printed :
       printed[k][1] = "section" =>
         LET header == HeaderAt(printed[k][2])
             Shown(letter) == letter \in printed[k][4]
         IN  /\ Shown("W") <=> elf_section_is_writable(header)
             /\ Shown("A") <=> elf_section_is_allocated(header)
             /\ Shown("X") <=> elf_section_is_exectuable(header)

\* From the end of the walk on, the pointers the frame allocator and the
\* remapping use are the loader's tags of their types, NULL where it has none.
PointersKept ==
  pc \in {"sections", "done"} =>
    /\ data = [start |-> boot.start, memory_map |-> AddrOfType(6),
               elf_symbols |-> AddrOfType(9)]
    /\ kept = [command_line |-> AddrOfType(1), name |-> AddrOfType(2),
               info |-> AddrOfType(4), device |-> AddrOfType(5),
               maps |-> AddrOfType(6), symbols |-> AddrOfType(9)]

\* The walk ends: the end tag is found and the kernel goes on.
WalkEnds == <>(pc = "done")
=============================================================================
