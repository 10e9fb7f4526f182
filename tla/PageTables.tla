---------------------------- MODULE PageTables -----------------------------
(***************************************************************************)
(* Four-level page tables as paging.c and the memory management unit see   *)
(* them: entries, the index of a page at each level, the walk from a root, *)
(* and the addressing of tables through the last entry of the root, which  *)
(* points to the root itself.                                              *)
(*                                                                         *)
(* A table pointer of the C code is a virtual address at a page boundary,  *)
(* here the number of that virtual page.                                   *)
(***************************************************************************)
EXTENDS Integers, FiniteSets

CONSTANT PAGE_TABLE_ENTRY_COUNT

ASSUME EntryCountAssumption == PAGE_TABLE_ENTRY_COUNT \in Nat /\ PAGE_TABLE_ENTRY_COUNT > 1

R == PAGE_TABLE_ENTRY_COUNT

Indices == 0 .. R - 1
Pages == 0 .. R * R * R * R - 1
RecursiveIndex == R - 1

\* get_p4_index to get_p1_index
IndexAt(level, page) ==
  CASE level = 4 -> (page \div (R * R * R)) % R
    [] level = 3 -> (page \div (R * R)) % R
    [] level = 2 -> (page \div R) % R
    [] level = 1 -> page % R

\* set_unused
Unused == [frame |-> 0, flags |-> {}]

EmptyTable == [i \in Indices |-> Unused]

Present(entry) == "present" \in entry.flags

\* set_page_table_entry
EntryFor(f, flags) == [frame |-> f, flags |-> flags]

\* The page at which the code finds the root table.
p4_table == R * R * R * R - 1

\* Mutant: the shift does not drop the bits it pushes out.
descened_page_table_NoWrap(t, index) == t * R + index

\* The page of the table that the entry at index of the table at page t
\* points to.
descened_page_table(t, index) == (t * R + index) % (R * R * R * R)

-----------------------------------------------------------------------------
(* The memory management unit.  m maps a frame to the table in it.  A walk   *)
(* yields the leaf frame and what the entries on the way allow.              *)

NoLeaf == [frame |-> -1, write |-> FALSE, exec |-> FALSE]

Allowed(flags, entry) ==
  (flags \cap entry.flags \cap {"present", "writeable"})
     \cup ((flags \cup entry.flags) \cap {"no_exec"})

LeafOf(f, flags) ==
  [frame |-> f, write |-> "writeable" \in flags, exec |-> "no_exec" \notin flags]

Walk(m, root, page) ==
  LET e4 == m[root][IndexAt(4, page)]
      e3 == m[e4.frame][IndexAt(3, page)]
      e2 == m[e3.frame][IndexAt(2, page)]
      e1 == m[e2.frame][IndexAt(1, page)]
      flags2 == Allowed(Allowed(e4.flags, e3), e2)
  IN  IF ~(Present(e4) /\ Present(e3) /\ Present(e2)) THEN NoLeaf
      ELSE IF "huge" \in e2.flags
      THEN LeafOf(e2.frame + IndexAt(1, page), flags2)
      ELSE IF ~Present(e1) THEN NoLeaf
      ELSE LeafOf(e1.frame, Allowed(flags2, e1))

\* The frames of the tables below the root, itself included; a huge entry
\* points to no table, nor does the root's entry for itself.
TableFrames(m, root) ==
  LET Children(F, S) ==
        {e.frame : e \in {x \in {m[f][i] : f \in F, i \in S} :
                            Present(x) /\ "huge" \notin x.flags}}
      level3 == Children({root}, Indices \ {RecursiveIndex})
      level2 == Children(level3, Indices)
      level1 == Children(level2, Indices)
  IN  {root} \cup level3 \cup level2 \cup level1
=============================================================================
