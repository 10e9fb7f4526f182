---------------------------- MODULE MCMultiboot ----------------------------
(***************************************************************************)
(* Loaders that put the end tag behind up to three tags in any order: a     *)
(* command line and a loader name, of sizes with and without padding, a    *)
(* memory map of none to two areas, and a tag of a type that is not kept.  *)
(* The kernel file's sections are always passed.                           *)
(***************************************************************************)
EXTENDS Multiboot

EndTag == [type |-> 0, size |-> 8]
Text(type, length) == [type |-> type, size |-> 8 + length]
Map(n) == [type |-> 6, size |-> 16 + 24 * n, entry_size |-> 24, areas |-> n]

Header(name, a, flags) == [sh_name |-> name, sh_addr |-> a, sh_flags |-> flags]

\* The second section holds the names; bit 8 and bit 40 stand for flags of
\* the system and of the upper half.
Headers == <<Header(0, 0, {}), Header(1, 4096, {}), Header(7, 8192, {1, 2, 8}),
             Header(13, 12288, {0, 1, 11, 40})>>

Elf(n) ==
  [type |-> 9, size |-> 20 + 64 * n, num |-> n, entsize |-> 64, shndx |-> 1,
   headers |-> SubSeq(Headers, 1, n)]

Tags == {Text(1, 1), Text(1, 8), Text(2, 13), Text(10, 3), Map(0), Map(1), Map(2),
         Elf(2), Elf(4)}

\* Sequences of tags of different types, the end tag behind them.
Passed(n) ==
  {Append(s, EndTag) :
     s \in {t \in [1 .. n -> Tags] :
              /\ \A j, k \in 1 .. n : j # k => t[j].type # t[k].type
              /\ \E k \in 1 .. n : t[k].type = 9}}

MCBoots ==
  {[start |-> a, tags |-> t] : a \in {8, 48}, t \in UNION {Passed(n) : n \in 1 .. 3}}
=============================================================================
