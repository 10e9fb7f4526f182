---------------------------- MODULE KmallocProofs ---------------------------
(***************************************************************************)
(* Proofs about Kmalloc, for every heap size, every set of request sizes   *)
(* and every content.                                                      *)
(*                                                                         *)
(* The inductive invariant, HeapInvariant, has three parts of substance.   *)
(* The headers tile the heap below the head (Tiling), the free list is a   *)
(* numbering of the freed nodes, of which the walk has passed only nodes   *)
(* that do not fit (IsList, FreeList), and what krealloc remembers across  *)
(* its call of kmalloc still holds when it copies (Locals).  What a split, *)
(* an insertion or a removal does to a tiling or to a list is stated once, *)
(* about any memory, and each action cites it.                             *)
(***************************************************************************)
EXTENDS Kmalloc, FiniteSetTheorems, WellFoundedInduction, TLAPS

-----------------------------------------------------------------------------
(* Natural numbers *)

(* Every set of natural numbers has a least one: what proofs by induction   *)
(* over the steps of the free list's walk rest on.                          *)
LEMMA LeastNumber ==
  ASSUME NEW T, T \subseteq Nat, T # {}
  PROVE  \E x \in T : \A y \in T : x <= y
<1> DEFINE R == {ss \in Nat \X Nat : ss[1] < ss[2]}
<1>1. R = OpToRel(<, Nat)
  BY DEF OpToRel
<1>2. IsWellFoundedOn(R, Nat)
  BY <1>1, NatLessThanWellFounded
<1>3. PICK x \in T : \A y \in T : <<y, x>> \notin R
  <2> HIDE DEF R
  <2> QED
    BY <1>2, WFMin
<1>4. ASSUME NEW y \in T PROVE x <= y
  <2>1. x \in Nat /\ y \in Nat
    OBVIOUS
  <2>2. <<y, x>> \in Nat \X Nat
    BY <2>1
  <2>3. y < x => <<y, x>> \in R
    BY <2>2, Zenon
  <2> QED
    BY <1>3, <2>1, <2>3
<1> QED
  BY <1>4

-----------------------------------------------------------------------------
(* Tiling: how headers partition a memory m below a head h *)

\* The first word behind the block of header n.
EndIn(m, n) == n + HeaderSize + m[n + 1]

\* The blocks of the headers N fill the words below h, each word once, and the
\* rest of the heap is h's.
Tiling(m, h, N) ==
  /\ m \in [Addresses -> Int]
  /\ h \in Nat /\ h + 1 < heap_size /\ h + m[h + 1] = heap_size
  /\ \A n \in N : n \in Nat /\ m[n + 1] \in Nat /\ EndIn(m, n) <= h
  /\ \A n, k \in N : n # k => EndIn(m, n) <= k \/ EndIn(m, k) <= n
  /\ \A a \in 0 .. h - 1 : \E n \in N : n <= a /\ a < EndIn(m, n)

(* Only sizes matter to a tiling.                                           *)
LEMMA TilingKept ==
  ASSUME NEW m, NEW h, NEW N, Tiling(m, h, N),
         NEW w \in [Addresses -> Int],
         \A n \in N \cup {h} : w[n + 1] = m[n + 1]
  PROVE  Tiling(w, h, N)
BY DEF Tiling, EndIn, HeaderSize

(* A block cut off the head, with the rest as the new head.                 *)
LEMMA TilingGrown ==
  ASSUME NEW m, NEW h, NEW N, Tiling(m, h, N),
         NEW w \in [Addresses -> Int], NEW bytes \in Nat, NEW g,
         g = h + HeaderSize + bytes, g + 1 < heap_size,
         w[h + 1] = bytes, w[g + 1] = heap_size - g,
         \A n \in N : w[n + 1] = m[n + 1]
  PROVE  Tiling(w, g, N \cup {h}) /\ h \notin N /\ g \notin N \cup {h}
<1> USE HeapSizeAssumption DEF Tiling, EndIn, HeaderSize
<1>1. /\ h \notin N /\ g \notin N \cup {h}
      /\ g \in Nat /\ g + w[g + 1] = heap_size
      /\ EndIn(w, h) = g
  OBVIOUS
<1>2. \A n \in N : n \in Nat /\ w[n + 1] \in Nat /\ EndIn(w, n) = EndIn(m, n)
                     /\ EndIn(w, n) <= h
  OBVIOUS
<1>3. \A n \in N \cup {h} : n \in Nat /\ w[n + 1] \in Nat /\ EndIn(w, n) <= g
  BY <1>1, <1>2
<1>4. \A n, k \in N \cup {h} : n # k => EndIn(w, n) <= k \/ EndIn(w, k) <= n
  BY <1>2
<1>5. ASSUME NEW a \in 0 .. g - 1
      PROVE  \E n \in N \cup {h} : n <= a /\ a < EndIn(w, n)
  <2>1. CASE a < h
    <3>1. PICK n \in N : n <= a /\ a < EndIn(m, n)
      BY <2>1
    <3> QED
      BY <1>2, <3>1
  <2>2. CASE h <= a
    BY <1>1, <2>2
  <2> QED
    BY <2>1, <2>2
<1> QED
  BY <1>1, <1>3, <1>4, <1>5

(* A block split in two.                                                    *)
LEMMA TilingSplit ==
  ASSUME NEW m, NEW h, NEW N, Tiling(m, h, N), NEW old \in N,
         NEW w \in [Addresses -> Int], NEW bytes \in Nat, NEW rest,
         rest = old + HeaderSize + bytes,
         m[old + 1] - bytes >= HeaderSize,
         w[old + 1] = bytes, w[rest + 1] = m[old + 1] - bytes - HeaderSize,
         \A n \in (N \ {old}) \cup {h} : w[n + 1] = m[n + 1]
  PROVE  Tiling(w, h, N \cup {rest}) /\ rest \notin N \cup {h}
<1> USE DEF EndIn, HeaderSize
<1>1. /\ rest \in Nat /\ rest \notin N \cup {h} /\ w[rest + 1] \in Nat
      /\ EndIn(w, old) = rest /\ EndIn(w, rest) = EndIn(m, old)
  BY DEF Tiling
<1>2. \A n \in N \ {old} : EndIn(w, n) = EndIn(m, n)
  OBVIOUS
<1>3. \A n \in N \cup {rest} : n \in Nat /\ w[n + 1] \in Nat /\ EndIn(w, n) <= h
  BY <1>1, <1>2 DEF Tiling
<1>4. ASSUME NEW n \in N \cup {rest}, NEW k \in N \cup {rest}, n # k
      PROVE  EndIn(w, n) <= k \/ EndIn(w, k) <= n
  <2>1. CASE n \in N \ {old} /\ k \in N \ {old}
    BY <1>2, <1>4, <2>1 DEF Tiling
  <2>2. CASE n \in {old, rest} /\ k \in {old, rest}
    BY <1>1, <1>4, <2>2 DEF Tiling
  <2>3. ASSUME NEW p \in N \ {old}
        PROVE  /\ EndIn(w, p) <= old \/ EndIn(w, rest) <= p
               /\ old \in Nat /\ p \in Nat /\ EndIn(w, p) \in Nat
    BY <1>1, <1>2 DEF Tiling
  <2>4. old < rest /\ EndIn(w, old) = rest /\ rest <= EndIn(w, rest) /\ EndIn(w, rest) \in Nat
    BY <1>1 DEF Tiling
  <2>5. CASE n \in N \ {old} /\ k \in {old, rest}
    BY <1>1, <2>3, <2>4, <2>5
  <2>6. CASE k \in N \ {old} /\ n \in {old, rest}
    BY <1>1, <2>3, <2>4, <2>6
  <2> QED
    BY <2>1, <2>2, <2>5, <2>6
<1>5. ASSUME NEW a \in 0 .. h - 1
      PROVE  \E n \in N \cup {rest} : n <= a /\ a < EndIn(w, n)
  <2>1. PICK n \in N : n <= a /\ a < EndIn(m, n)
    BY DEF Tiling
  <2>2. CASE n # old
    BY <1>2, <2>1, <2>2
  <2>3. CASE n = old /\ a < rest
    BY <1>1, <2>1, <2>3
  <2>4. CASE n = old /\ rest <= a
    BY <1>1, <2>1, <2>4
  <2> QED
    BY <1>1, <2>2, <2>3, <2>4
<1>6. h \in Nat /\ h + 1 < heap_size /\ h + w[h + 1] = heap_size
  <2>1. w[h + 1] = m[h + 1]
    OBVIOUS
  <2> QED
    BY <2>1 DEF Tiling
<1> QED
  BY <1>1, <1>3, <1>4, <1>5, <1>6 DEF Tiling

-----------------------------------------------------------------------------
(* The free list: s numbers its nodes, the head h first *)

\* The list of memory m begins at h, goes on through each of F once, and ends.
IsList(m, h, F, s, len) ==
  /\ len \in Nat /\ DOMAIN s = 0 .. len /\ s[0] = h
  /\ \A i \in 1 .. len : s[i] \in F
  /\ \A n \in F : \E i \in 1 .. len : s[i] = n
  /\ \A i, j \in 0 .. len : i # j => s[i] # s[j]
  /\ \A i \in 0 .. len - 1 : m[s[i]] = s[i + 1]
  /\ m[s[len]] = NULL

(* Only the links matter to a list.                                         *)
LEMMA ListKept ==
  ASSUME NEW m, NEW h, NEW F, NEW s, NEW len, IsList(m, h, F, s, len),
         NEW w, \A n \in F \cup {h} : w[n] = m[n]
  PROVE  IsList(w, h, F, s, len)
BY DEF IsList

(* A list has its head, and the head is none of the others.                 *)
LEMMA ListHead ==
  ASSUME NEW m, NEW h, NEW F, NEW s, NEW len, IsList(m, h, F, s, len)
  PROVE  /\ \A i \in 0 .. len : s[i] \in F \cup {h}
         /\ h \notin F
BY DEF IsList

(* A node put behind the head.                                              *)
LEMMA ListInserted ==
  ASSUME NEW m, NEW h, NEW F, NEW s, NEW len, IsList(m, h, F, s, len),
         NEW n, n \notin F \cup {h},
         NEW w, w[n] = m[h], w[h] = n, \A k \in F : w[k] = m[k]
  PROVE  \E t : IsList(w, h, F \cup {n}, t, len + 1)
<1> DEFINE t == [i \in 0 .. len + 1 |->
                   IF i = 0 THEN h ELSE IF i = 1 THEN n ELSE s[i - 1]]
<1>1. /\ len \in Nat /\ len + 1 \in Nat /\ DOMAIN t = 0 .. len + 1
      /\ t[0] = h /\ t[1] = n
  BY DEF IsList
<1>2. \A i \in 2 .. len + 1 : i - 1 \in 1 .. len /\ t[i] = s[i - 1]
  BY <1>1
<1> HIDE DEF t
<1>3. \A i \in 2 .. len + 1 : t[i] \in F
  BY <1>2 DEF IsList
<1>4. \A i \in 1 .. len + 1 : t[i] \in F \cup {n}
  BY <1>1, <1>3
<1>5. ASSUME NEW k \in F \cup {n} PROVE \E i \in 1 .. len + 1 : t[i] = k
  <2>1. CASE k = n
    BY <1>1, <2>1
  <2>2. CASE k \in F
    <3>1. PICK i \in 1 .. len : s[i] = k
      BY <2>2 DEF IsList
    <3>2. i + 1 \in 2 .. len + 1 /\ (i + 1) - 1 = i
      BY <1>1
    <3> QED
      BY <1>2, <3>1, <3>2
  <2> QED
    BY <2>1, <2>2
<1>6. ASSUME NEW i \in 0 .. len + 1, NEW j \in 0 .. len + 1, i # j
      PROVE  t[i] # t[j]
  <2>1. h \notin F
    BY ListHead
  <2>2. CASE i \in 2 .. len + 1 /\ j \in 2 .. len + 1
    BY <1>1, <1>2, <1>6, <2>2 DEF IsList
  <2>3. CASE i \in {0, 1} /\ j \in {0, 1}
    BY <1>1, <1>6, <2>3
  <2>4. CASE i \in 2 .. len + 1 /\ j \in {0, 1}
    BY <1>1, <1>3, <2>1, <2>4
  <2>5. CASE j \in 2 .. len + 1 /\ i \in {0, 1}
    BY <1>1, <1>3, <2>1, <2>5
  <2> QED
    BY <1>1, <2>2, <2>3, <2>4, <2>5
<1>7. ASSUME NEW i \in 0 .. len PROVE w[t[i]] = t[i + 1]
  <2>1. CASE i = 0
    BY <1>1, <2>1
  <2>2. CASE i = 1
    <3>1. m[s[0]] = s[1] /\ s[0] = h /\ t[2] = s[1]
      BY <1>1, <1>2, <2>2 DEF IsList
    <3> QED
      BY <1>1, <2>2, <3>1
  <2>3. CASE i > 1
    <3>1. /\ i \in 2 .. len + 1 /\ i + 1 \in 2 .. len + 1 /\ (i + 1) - 1 = i
          /\ i - 1 \in 0 .. len - 1 /\ (i - 1) + 1 = i
      BY <1>1, <2>3
    <3>2. t[i] = s[i - 1] /\ t[i + 1] = s[i] /\ m[s[i - 1]] = s[i]
      BY <1>2, <3>1 DEF IsList
    <3>3. w[t[i]] = m[t[i]]
      BY <1>3, <3>1
    <3> QED
      BY <3>2, <3>3
  <2> QED
    BY <1>1, <2>1, <2>2, <2>3
<1>8. w[t[len + 1]] = NULL
  <2>1. CASE len = 0
    BY <1>1, <2>1 DEF IsList
  <2>2. CASE len # 0
    <3>1. len + 1 \in 2 .. len + 1 /\ (len + 1) - 1 = len
      BY <1>1, <2>2
    <3>2. t[len + 1] = s[len] /\ t[len + 1] \in F
      BY <1>2, <1>3, <3>1
    <3> QED
      BY <3>2 DEF IsList
  <2> QED
    BY <2>1, <2>2
<1>9. \A i \in 0 .. (len + 1) - 1 : w[t[i]] = t[i + 1]
  BY <1>1, <1>7
<1> QED
  BY <1>1, <1>4, <1>5, <1>6, <1>8, <1>9 DEF IsList

(* The node behind s[k] taken out.                                          *)
LEMMA ListRemoved ==
  ASSUME NEW m, NEW h, NEW F, NEW s, NEW len, IsList(m, h, F, s, len),
         NEW k \in 0 .. len - 1,
         NEW w, w[s[k]] = m[s[k + 1]],
         \A n \in (F \cup {h}) \ {s[k], s[k + 1]} : w[n] = m[n]
  PROVE  \E t : IsList(w, h, F \ {s[k + 1]}, t, len - 1)
<1> DEFINE t == [i \in 0 .. len - 1 |-> IF i <= k THEN s[i] ELSE s[i + 1]]
           old == s[k + 1]
<1>1. /\ len \in Nat /\ len - 1 \in Nat /\ k + 1 \in 1 .. len
      /\ DOMAIN t = 0 .. len - 1 /\ t[0] = h
  BY DEF IsList
<1>2. /\ \A i \in 0 .. k : i \in 0 .. len - 1 /\ t[i] = s[i]
      /\ \A i \in k + 1 .. len - 1 : i + 1 \in 1 .. len /\ t[i] = s[i + 1]
  BY <1>1
<1>3. /\ old \in F
      /\ \A i \in 0 .. len : s[i] = old => i = k + 1
  BY <1>1 DEF IsList
<1>4. \A i \in 0 .. len - 1 : \E j \in 0 .. len :
        /\ t[i] = s[j] /\ j # k + 1
        /\ j = IF i <= k THEN i ELSE i + 1
  BY <1>1, <1>2
<1> HIDE DEF t, old
<1>5. ASSUME NEW i \in 1 .. len - 1 PROVE t[i] \in F \ {old}
  <2>1. PICK j \in 0 .. len :
          t[i] = s[j] /\ j # k + 1 /\ j = IF i <= k THEN i ELSE i + 1
    <3>1. i \in 0 .. len - 1
      OBVIOUS
    <3> QED
      BY <1>4, <3>1, Zenon
  <2>2. s[j] \in F
    <3>1. j \in 1 .. len
      BY <1>1, <2>1
    <3> QED
      BY <3>1 DEF IsList
  <2>3. s[j] # old
    BY <1>3, <2>1
  <2> QED
    BY <2>1, <2>2, <2>3
<1>6. ASSUME NEW n \in F \ {old} PROVE \E i \in 1 .. len - 1 : t[i] = n
  <2>1. PICK j \in 1 .. len : s[j] = n
    BY DEF IsList
  <2>2. j # k + 1
    BY <2>1 DEF old
  <2>3. CASE j <= k
    BY <1>1, <1>2, <2>1, <2>3
  <2>4. CASE j > k
    <3>1. j - 1 \in k + 1 .. len - 1 /\ (j - 1) + 1 = j /\ j - 1 \in 1 .. len - 1
      BY <1>1, <2>2, <2>4
    <3> QED
      BY <1>2, <2>1, <3>1
  <2> QED
    BY <1>1, <2>3, <2>4
<1>7. ASSUME NEW i \in 0 .. len - 1, NEW j \in 0 .. len - 1, i # j
      PROVE  t[i] # t[j]
  <2>1. PICK p \in 0 .. len : t[i] = s[p] /\ p = IF i <= k THEN i ELSE i + 1
    BY <1>4
  <2>2. PICK q \in 0 .. len : t[j] = s[q] /\ q = IF j <= k THEN j ELSE j + 1
    BY <1>4
  <2>3. p # q
    BY <1>1, <1>7, <2>1, <2>2
  <2> QED
    BY <2>1, <2>2, <2>3 DEF IsList
<1>8. ASSUME NEW i \in 0 .. len, i # k, i # k + 1
      PROVE  w[s[i]] = m[s[i]]
  <2>1. s[i] \in F \cup {h}
    BY ListHead
  <2>2. k \in 0 .. len /\ k + 1 \in 0 .. len
    BY <1>1
  <2>3. s[i] # s[k] /\ s[i] # s[k + 1]
    BY <1>8, <2>2 DEF IsList
  <2> QED
    BY <2>1, <2>3
<1>9. ASSUME NEW i \in 0 .. (len - 1) - 1 PROVE w[t[i]] = t[i + 1]
  <2>1. CASE i < k
    <3>1. t[i] = s[i] /\ t[i + 1] = s[i + 1] /\ m[s[i]] = s[i + 1]
      BY <1>1, <1>2, <2>1 DEF IsList
    <3> QED
      BY <1>1, <1>8, <2>1, <3>1
  <2>2. CASE i = k
    <3>1. t[i] = s[k] /\ t[i + 1] = s[(k + 1) + 1] /\ m[s[k + 1]] = s[(k + 1) + 1]
      BY <1>1, <1>2, <2>2 DEF IsList
    <3> QED
      BY <3>1
  <2>3. CASE i > k
    <3>1. /\ t[i] = s[i + 1] /\ t[i + 1] = s[(i + 1) + 1]
          /\ m[s[i + 1]] = s[(i + 1) + 1]
      <4>1. /\ i \in k + 1 .. len - 1 /\ i + 1 \in k + 1 .. len - 1
            /\ i + 1 \in 0 .. len - 1
        BY <1>1, <2>3
      <4>2. m[s[i + 1]] = s[(i + 1) + 1]
        BY <4>1 DEF IsList
      <4> QED
        BY <1>2, <4>1, <4>2
    <3>2. i + 1 \in 0 .. len /\ i + 1 # k /\ i + 1 # k + 1
      BY <1>1, <2>3
    <3> QED
      BY <1>8, <3>1, <3>2
  <2> QED
    BY <1>1, <2>1, <2>2, <2>3
<1>10. w[t[len - 1]] = NULL
  <2>1. CASE k = len - 1
    <3>1. t[len - 1] = s[k] /\ k + 1 = len
      BY <1>1, <1>2, <2>1
    <3> QED
      BY <3>1 DEF IsList
  <2>2. CASE k < len - 1
    <3>1. t[len - 1] = s[len] /\ len # k /\ len # k + 1 /\ len \in 0 .. len
      BY <1>1, <1>2, <2>2
    <3> QED
      BY <1>8, <3>1 DEF IsList
  <2> QED
    BY <1>1, <2>1, <2>2
<1> QED
  BY <1>1, <1>5, <1>6, <1>7, <1>9, <1>10 DEF IsList, old

(* The node behind s[k] replaced by another.                                *)
LEMMA ListReplaced ==
  ASSUME NEW m, NEW h, NEW F, NEW s, NEW len, IsList(m, h, F, s, len),
         NEW k \in 0 .. len - 1,
         NEW rest, rest \notin F \cup {h},
         NEW w, w[s[k]] = rest, w[rest] = m[s[k + 1]],
         \A n \in (F \cup {h}) \ {s[k], s[k + 1]} : w[n] = m[n]
  PROVE  \E t : IsList(w, h, (F \ {s[k + 1]}) \cup {rest}, t, len)
<1> DEFINE t == [s EXCEPT ![k + 1] = rest]
<1>1. /\ len \in Nat /\ k + 1 \in 1 .. len /\ DOMAIN t = 0 .. len
      /\ t[k + 1] = rest /\ t[0] = h
      /\ \A i \in 0 .. len : i # k + 1 => t[i] = s[i]
  BY DEF IsList
<1>2. \A i \in 0 .. len : s[i] \in F \cup {h} /\ (i # k + 1 => s[i] # s[k + 1])
  BY <1>1, ListHead DEF IsList
<1> HIDE DEF t
<1>3. \A i \in 1 .. len : t[i] \in (F \ {s[k + 1]}) \cup {rest}
  BY <1>1, <1>2 DEF IsList
<1>4. \A n \in (F \ {s[k + 1]}) \cup {rest} : \E i \in 1 .. len : t[i] = n
  BY <1>1 DEF IsList
<1>5. \A i, j \in 0 .. len : i # j => t[i] # t[j]
  BY <1>1, <1>2 DEF IsList
<1>6. ASSUME NEW i \in 0 .. len - 1 PROVE w[t[i]] = t[i + 1]
  <2>1. m[s[i]] = s[i + 1] /\ i \in 0 .. len /\ i + 1 \in 0 .. len
    BY <1>1 DEF IsList
  <2>2. CASE i = k
    BY <1>1, <2>1, <2>2
  <2>3. CASE i = k + 1
    BY <1>1, <2>1, <2>3
  <2>4. CASE i # k /\ i # k + 1
    <3>1. t[i] = s[i] /\ t[i + 1] = s[i + 1]
      BY <1>1, <2>1, <2>4
    <3>2. s[i] \in (F \cup {h}) \ {s[k], s[k + 1]}
      BY <1>1, <1>2, <2>1, <2>4 DEF IsList
    <3> QED
      BY <2>1, <3>1, <3>2
  <2> QED
    BY <2>2, <2>3, <2>4
<1>7. w[t[len]] = NULL
  <2>1. CASE len = k + 1
    BY <1>1, <2>1 DEF IsList
  <2>2. CASE len # k + 1
    <3>1. len \in 0 .. len /\ len # k
      BY <1>1
    <3>2. t[len] = s[len] /\ s[len] \in (F \cup {h}) \ {s[k], s[k + 1]}
      BY <1>1, <1>2, <2>2, <3>1 DEF IsList
    <3> QED
      BY <3>2 DEF IsList
  <2> QED
    BY <2>1, <2>2
<1> QED
  BY <1>1, <1>3, <1>4, <1>5, <1>6, <1>7 DEF IsList

(* A new head.                                                              *)
LEMMA ListMoved ==
  ASSUME NEW m, NEW h, NEW F, NEW s, NEW len, IsList(m, h, F, s, len),
         NEW g, g \notin F,
         NEW w, w[g] = m[h], \A n \in F : w[n] = m[n]
  PROVE  \E t : IsList(w, g, F, t, len)
<1> DEFINE t == [s EXCEPT ![0] = g]
<1>1. /\ len \in Nat /\ DOMAIN t = 0 .. len /\ t[0] = g
      /\ \A i \in 1 .. len : t[i] = s[i] /\ s[i] \in F
  BY DEF IsList
<1> HIDE DEF t
<1>2. \A i, j \in 0 .. len : i # j => t[i] # t[j]
  BY <1>1 DEF IsList
<1>3. \A n \in F : \E i \in 1 .. len : t[i] = n
  BY <1>1 DEF IsList
<1>4. \A i \in 0 .. len - 1 : w[t[i]] = t[i + 1]
  BY <1>1 DEF IsList
<1>5. w[t[len]] = NULL
  BY <1>1 DEF IsList
<1> QED
  BY <1>1, <1>2, <1>3, <1>4, <1>5 DEF IsList

(* The two words of a header lie in no block's body.                        *)
LEMMA HeadersOutsideBodies ==
  ASSUME NEW m, NEW h, NEW N, Tiling(m, h, N), NEW n \in N, NEW k \in N \cup {h},
         NEW a \in {k, k + 1}
  PROVE  /\ a \in Addresses
         /\ ~ (AddressOf(n) <= a /\ a < EndIn(m, n))
<1> USE HeapSizeAssumption DEF EndIn, HeaderSize, AddressOf, Addresses
<1>1. /\ n \in Nat /\ m[n + 1] \in Nat /\ EndIn(m, n) <= h
      /\ h \in Nat /\ h + 1 < heap_size
  BY DEF Tiling
<1>2. CASE k = h
  BY <1>1, <1>2
<1>3. CASE k = n
  BY <1>1, <1>3
<1>4. CASE k \in N /\ k # n
  <2>1. /\ k \in Nat /\ m[k + 1] \in Nat /\ EndIn(m, k) <= h
        /\ EndIn(m, n) <= k \/ EndIn(m, k) <= n
    BY <1>4 DEF Tiling
  <2> QED
    BY <1>1, <2>1
<1> QED
  BY <1>2, <1>3, <1>4

-----------------------------------------------------------------------------
(* The invariant *)

(* The list, and where on it the walk is: no node it passed fits.           *)
FreeList ==
  \E len, s :
    /\ IsList(mem, free_list_head, freed, s, len)
    /\ pc = "walk" =>
         \E k \in 0 .. len :
           /\ node = s[k]
           /\ \A i \in 1 .. k : SizeOf(s[i]) < required_bytes

(* Until init_heap has run there is no heap.                                *)
BeforeBoot ==
  /\ DOMAIN held = {} /\ freed = {}
  /\ free_list_head = NULL

(* The blocks tile the heap, none in use is free, and each has room for what *)
(* its owner was promised.                                                  *)
Blocks ==
  /\ Tiling(mem, free_list_head, Nodes)
  /\ HeldNodes \cap freed = {}
  /\ \A a \in DOMAIN held : held[a] <= SizeOf(get_free_node_from_addr(a))

(* What krealloc remembers over its call of kmalloc is true until it copies. *)
Locals ==
  /\ resize # NULL =>
       /\ pc \in {"walk", "copy", "fault"}
       /\ resize \in DOMAIN held
       /\ SizeOf(get_free_node_from_addr(resize)) < required_bytes
  /\ pc = "copy" =>
       /\ resize # NULL
       /\ result \notin HeldNodes \cup freed
       /\ required_bytes <= SizeOf(result)
  /\ pc # "copy" => result = NULL

(* The inductive invariant.                                                 *)
HeapInvariant ==
  /\ mem \in [Addresses -> Int]
  /\ pc \in {"boot", "idle", "walk", "copy", "fault"}
  /\ node \in Addresses \cup {NULL}
  /\ required_bytes \in Nat
  /\ held \in [DOMAIN held -> Nat]
  /\ DOMAIN held \subseteq Int
  /\ Locals
  /\ pc = "boot" => BeforeBoot
  /\ pc # "boot" => Blocks /\ FreeList
  /\ FaultMeansExhausted

(* Before init_heap nothing is claimed of the heap.                         *)
LEMMA HeapInit == Init => HeapInvariant
<1> SUFFICES ASSUME Init PROVE HeapInvariant
  OBVIOUS
<1>1. DOMAIN held = {} /\ held \in [DOMAIN held -> Nat]
  BY DEF Init
<1>2. mem \in [Addresses -> Int]
  BY DEF Init
<1> QED
  BY <1>1, <1>2
     DEF Init, HeapInvariant, Locals, BeforeBoot, FaultMeansExhausted, NULL

(* The two fields of a header assigned.                                     *)
LEMMA NodeWritten ==
  ASSUME NEW m \in [Addresses -> Int], NEW n \in Addresses, n + 1 \in Addresses,
         NEW next \in Int, NEW size \in Int
  PROVE  LET w == WithNode(m, n, next, size) IN
         /\ w \in [Addresses -> Int]
         /\ w[n] = next /\ w[n + 1] = size
         /\ \A a \in Addresses : a # n /\ a # n + 1 => w[a] = m[a]
BY DEF WithNode, Addresses

(* One node, the whole heap.                                                *)
LEMMA HeapInitHeap == HeapInvariant /\ init_heap => HeapInvariant'
<1> SUFFICES ASSUME HeapInvariant, init_heap PROVE HeapInvariant'
  OBVIOUS
<1> USE DEF init_heap
<1>1. /\ DOMAIN held = {} /\ freed = {} /\ free_list_head' = 0 /\ pc' = "idle"
      /\ resize = NULL /\ result = NULL
  BY DEF HeapInvariant, Locals, BeforeBoot
<1>2. /\ mem' \in [Addresses -> Int] /\ mem'[0] = NULL /\ mem'[1] = heap_size
  <2>1. 0 \in Addresses /\ 0 + 1 \in Addresses /\ NULL \in Int /\ heap_size \in Int
    BY HeapSizeAssumption DEF Addresses, NULL
  <2>2. mem \in [Addresses -> Int]
    BY DEF HeapInvariant
  <2> QED
    BY <2>1, <2>2 DEF WithNode
<1>3. HeldNodes' = {} /\ Nodes' = {}
  BY <1>1 DEF HeldNodes, Nodes
<1>4. Blocks'
  BY <1>1, <1>2, <1>3, HeapSizeAssumption DEF Blocks, Tiling
<1>5. FreeList'
  <2>1. IsList(mem', 0, {}, [i \in 0 .. 0 |-> 0], 0)
    BY <1>2 DEF IsList
  <2> QED
    BY <1>1, <2>1 DEF FreeList
<1> QED
  BY <1>1, <1>2, <1>4, <1>5
     DEF HeapInvariant, Locals, FaultMeansExhausted

(* Headers lie in the heap, those of blocks below the head, with their ends. *)
LEMMA BlocksFacts ==
  ASSUME HeapInvariant, pc # "boot"
  PROVE  /\ free_list_head \in Addresses /\ free_list_head + 1 \in Addresses
         /\ free_list_head + SizeOf(free_list_head) = heap_size
         /\ free_list_head \notin Nodes
         /\ \A n \in Nodes : /\ n \in Addresses /\ n + 1 \in Addresses
                             /\ SizeOf(n) \in Nat
                             /\ EndIn(mem, n) <= free_list_head
         /\ HeldNodes \subseteq Nodes /\ freed \subseteq Nodes
         /\ HeldNodes \cap freed = {}
<1>1. Tiling(mem, free_list_head, Nodes) /\ HeldNodes \cap freed = {}
  BY DEF HeapInvariant, Blocks
<1>2. HeldNodes \subseteq Nodes /\ freed \subseteq Nodes
  BY DEF Nodes
<1>3. /\ free_list_head \in Nat /\ free_list_head + 1 < heap_size
      /\ free_list_head + SizeOf(free_list_head) = heap_size
  BY <1>1 DEF Tiling, SizeOf
<1>4. ASSUME NEW n \in Nodes
      PROVE  /\ n \in Nat /\ SizeOf(n) \in Nat /\ EndIn(mem, n) <= free_list_head
             /\ n < free_list_head /\ n + 1 < free_list_head
  BY <1>1, <1>3 DEF Tiling, EndIn, HeaderSize, SizeOf
<1> QED
  BY <1>1, <1>2, <1>3, <1>4, HeapSizeAssumption DEF Addresses

(* A call of kmalloc begins its walk at the head.                           *)
LEMMA HeapStartWalk ==
  ASSUME HeapInvariant, pc = "idle", NEW bytes \in Requests, StartWalk(bytes),
         UNCHANGED <<mem, free_list_head, result, held, freed>>,
         \/ resize' = NULL
         \/ /\ resize' \in DOMAIN held
            /\ SizeOf(get_free_node_from_addr(resize')) < bytes
  PROVE  HeapInvariant'
<1>1. /\ pc' = "walk" /\ node' = free_list_head /\ required_bytes' = bytes
      /\ bytes \in Nat
  BY RequestsAssumption DEF StartWalk
<1>2. HeldNodes' = HeldNodes /\ Nodes' = Nodes
  BY <1>1 DEF HeldNodes, Nodes
<1>3. Blocks'
  BY <1>2 DEF HeapInvariant, Blocks, SizeOf
<1>4. FreeList'
  <2>1. PICK len, s : IsList(mem, free_list_head, freed, s, len)
    BY DEF HeapInvariant, FreeList
  <2>2. 0 \in 0 .. len /\ node' = s[0] /\ 1 .. 0 = {}
    BY <1>1, <2>1 DEF IsList
  <2>3. \E k \in 0 .. len : /\ node' = s[k]
                            /\ \A i \in 1 .. k : SizeOf(s[i])' < required_bytes'
    BY <2>2
  <2> QED
    BY <2>1, <2>3 DEF FreeList
<1>5. Locals'
  BY <1>1 DEF HeapInvariant, Locals, SizeOf
<1> QED
  BY <1>1, <1>3, <1>4, <1>5, BlocksFacts
     DEF HeapInvariant, FaultMeansExhausted

(* The walk passes a node that does not fit.                                *)
LEMMA HeapAdvance == HeapInvariant /\ AdvanceCursor => HeapInvariant'
<1> SUFFICES ASSUME HeapInvariant, AdvanceCursor PROVE HeapInvariant'
  OBVIOUS
<1> USE DEF AdvanceCursor
<1>1. HeldNodes' = HeldNodes /\ Nodes' = Nodes
  BY DEF HeldNodes, Nodes
<1>2. Blocks' /\ Locals'
  BY <1>1 DEF HeapInvariant, Blocks, Locals, SizeOf
<1>3. PICK len, s : /\ IsList(mem, free_list_head, freed, s, len)
                    /\ \E k \in 0 .. len :
                         /\ node = s[k]
                         /\ \A i \in 1 .. k : SizeOf(s[i]) < required_bytes
  BY DEF HeapInvariant, FreeList
<1>4. PICK k \in 0 .. len : /\ node = s[k]
                            /\ \A i \in 1 .. k : SizeOf(s[i]) < required_bytes
  BY <1>3
<1>5. k \in 0 .. len - 1 /\ node' = s[k + 1] /\ k + 1 \in 1 .. len
  BY <1>3, <1>4 DEF IsList, NextOf
<1>6. SizeOf(s[k + 1]) < required_bytes /\ s[k + 1] \in Addresses
  <2>1. s[k + 1] \in freed /\ ~Fits(s[k + 1])
    BY <1>3, <1>5 DEF IsList
  <2> QED
    BY <2>1, BlocksFacts DEF Fits, HeapInvariant
<1>7. FreeList'
  <2>1. \A i \in 1 .. k + 1 : SizeOf(s[i])' < required_bytes'
    BY <1>4, <1>5, <1>6 DEF SizeOf
  <2>2. k + 1 \in 0 .. len
    BY <1>3, <1>5 DEF IsList
  <2> QED
    BY <1>3, <1>5, <2>1, <2>2 DEF FreeList
<1> QED
  BY <1>2, <1>5, <1>6, <1>7
     DEF HeapInvariant, FaultMeansExhausted

(* Headers are two words wide and do not overlap.                           *)
LEMMA HeadersApart ==
  ASSUME NEW m, NEW h, NEW N, Tiling(m, h, N), NEW n \in N \cup {h},
         NEW k \in N \cup {h}
  PROVE  /\ n \in Addresses /\ n + 1 \in Addresses
         /\ n + 1 # k /\ (n # k => n + 1 # k + 1)
<1>1. /\ h \in Nat /\ h + 1 < heap_size
      /\ \A i \in N : i \in Nat /\ i + 2 <= h
      /\ \A i, j \in N : i # j => i + 2 <= j \/ j + 2 <= i
  BY DEF Tiling, EndIn, HeaderSize
<1> QED
  BY <1>1, HeapSizeAssumption DEF Addresses

(* At the end of the list the walk has seen every freed node.               *)
LEMMA ListEndNoFit ==
  ASSUME HeapInvariant, pc = "walk", NextOf(node) = NULL
  PROVE  \A n \in freed : SizeOf(n) < required_bytes
<1>1. PICK len, s : /\ IsList(mem, free_list_head, freed, s, len)
                    /\ \E k \in 0 .. len :
                         /\ node = s[k]
                         /\ \A i \in 1 .. k : SizeOf(s[i]) < required_bytes
  BY DEF HeapInvariant, FreeList
<1>2. PICK k \in 0 .. len : /\ node = s[k]
                            /\ \A i \in 1 .. k : SizeOf(s[i]) < required_bytes
  BY <1>1
<1>3. k = len
  <2>1. SUFFICES ASSUME k # len PROVE FALSE
    OBVIOUS
  <2>2. k + 1 \in 1 .. len /\ mem[s[k]] = s[k + 1]
    BY <1>1, <2>1 DEF IsList
  <2>3. s[k + 1] \in freed
    BY <1>1, <2>2 DEF IsList
  <2> QED
    BY <1>2, <2>2, <2>3, BlocksFacts DEF NextOf, NULL, Addresses
<1> QED
  BY <1>1, <1>2, <1>3 DEF IsList

(* What remains when a node was allocated: the three ways to find one differ *)
(* in the tiling and the list they leave behind.                            *)
LEMMA HeapAllocated ==
  ASSUME HeapInvariant, pc = "walk", NEW n \in Addresses, Allocated(n),
         n \notin HeldNodes \cup freed', HeldNodes \cap freed' = {},
         Tiling(mem', free_list_head', HeldNodes \cup freed' \cup {n}),
         required_bytes <= mem'[n + 1],
         \A k \in HeldNodes : mem'[k + 1] = mem[k + 1],
         \E len, s : IsList(mem', free_list_head', freed', s, len)
  PROVE  HeapInvariant'
<1> USE DEF Allocated, LocalsGone, get_free_node_from_addr, AddressOf, HeaderSize
<1>1. /\ pc' \in {"idle", "copy"} /\ required_bytes' \in Nat
      /\ node' \in Addresses \cup {NULL} /\ mem' \in [Addresses -> Int]
      /\ n \in Int
  BY DEF HeapInvariant, Tiling, Addresses
<1>2. FreeList'
  BY <1>1 DEF FreeList
<1>3. ASSUME NEW a \in DOMAIN held
      PROVE  /\ a - 2 \in HeldNodes /\ mem'[(a - 2) + 1] = mem[(a - 2) + 1]
             /\ a \in Int /\ held[a] \in Nat /\ held[a] <= mem[(a - 2) + 1]
             /\ a # n + 2
  <2>1. a - 2 \in HeldNodes
    BY DEF HeldNodes
  <2>2. a \in Int /\ held[a] \in Nat /\ held[a] <= mem[(a - 2) + 1]
    BY DEF HeapInvariant, Blocks, SizeOf
  <2> QED
    BY <1>1, <2>1, <2>2
<1>4. CASE pc' = "idle"
  <2>1. /\ resize = NULL /\ resize' = NULL /\ result' = NULL
        /\ DOMAIN held' = DOMAIN held \cup {n + 2}
        /\ held'[n + 2] = required_bytes
        /\ \A a \in DOMAIN held : held'[a] = held[a]
    BY <1>3, <1>4
  <2>2. HeldNodes' = HeldNodes \cup {n}
    BY <1>1, <2>1 DEF HeldNodes
  <2>3. Nodes' = HeldNodes \cup freed' \cup {n}
    BY <1>4, <2>2 DEF Nodes
  <2>4. held' \in [DOMAIN held' -> Nat] /\ DOMAIN held' \subseteq Int
    <3>1. required_bytes \in Nat
      BY DEF HeapInvariant
    <3>2. \A a \in DOMAIN held' : held'[a] \in Nat /\ a \in Int
      BY <1>1, <1>3, <2>1, <3>1
    <3> QED
      BY <1>4, <3>2
  <2>5. \A a \in DOMAIN held' : held'[a] <= mem'[(a - 2) + 1]
    BY <1>1, <1>3, <2>1
  <2>6. Blocks'
    BY <2>2, <2>3, <2>5 DEF Blocks, SizeOf
  <2> QED
    BY <1>1, <1>2, <1>4, <2>1, <2>4, <2>6
       DEF HeapInvariant, Locals, FaultMeansExhausted
<1>5. CASE pc' = "copy"
  <2>1. /\ resize # NULL /\ result' = n
        /\ UNCHANGED <<held, node, required_bytes, resize>>
    BY <1>5
  <2>2. HeldNodes' = HeldNodes /\ Nodes' = HeldNodes \cup freed' \cup {n}
    BY <1>5, <2>1 DEF HeldNodes, Nodes
  <2>3. \A a \in DOMAIN held : held[a] <= mem'[(a - 2) + 1]
    BY <1>3
  <2>4. Blocks'
    BY <2>1, <2>2, <2>3 DEF Blocks, SizeOf
  <2>5. Locals'
    <3>1. resize \in DOMAIN held /\ mem[(resize - 2) + 1] < required_bytes
      BY <2>1 DEF HeapInvariant, Locals, SizeOf
    <3> QED
      BY <1>3, <1>5, <2>1, <2>2, <3>1 DEF Locals, SizeOf
  <2> QED
    BY <1>1, <1>2, <1>5, <2>1, <2>4, <2>5
       DEF HeapInvariant, FaultMeansExhausted
<1> QED
  BY <1>1, <1>4, <1>5

(* The node behind the cursor, when there is one.                           *)
LEMMA NextIsFreed ==
  ASSUME HeapInvariant, pc = "walk", NextOf(node) # NULL
  PROVE  /\ NextOf(node) \in freed /\ NextOf(node) # node
         /\ node \in freed \cup {free_list_head}
         /\ node \notin HeldNodes
         /\ \E len, s : /\ IsList(mem, free_list_head, freed, s, len)
                        /\ \E k \in 0 .. len - 1 :
                             node = s[k] /\ NextOf(node) = s[k + 1]
<1>1. PICK len, s : /\ IsList(mem, free_list_head, freed, s, len)
                    /\ \E k \in 0 .. len : node = s[k]
  BY DEF HeapInvariant, FreeList
<1>2. PICK k \in 0 .. len : node = s[k]
  BY <1>1
<1>3. /\ k \in 0 .. len - 1 /\ NextOf(node) = s[k + 1]
      /\ k + 1 \in 1 .. len /\ k + 1 # k /\ k + 1 \in 0 .. len
  BY <1>1, <1>2 DEF IsList, NextOf
<1>4. NextOf(node) \in freed /\ NextOf(node) # node
  BY <1>1, <1>2, <1>3 DEF IsList
<1>5. node \in freed \cup {free_list_head}
  BY <1>1, <1>2, ListHead
<1> QED
  BY <1>1, <1>2, <1>3, <1>4, <1>5, BlocksFacts

(* A fitting node is taken out of the list whole, its size kept.            *)
LEMMA HeapTakeWhole == HeapInvariant /\ TakeWholeNode => HeapInvariant'
<1> SUFFICES ASSUME HeapInvariant, TakeWholeNode PROVE HeapInvariant'
  OBVIOUS
<1> DEFINE old == NextOf(node)
<1>1. /\ old \in freed /\ old # node /\ pc = "walk"
      /\ node \in Addresses /\ node + 1 \in Addresses
      /\ old \in Addresses /\ old + 1 \in Addresses
      /\ old \notin HeldNodes /\ old # free_list_head
  BY NextIsFreed, BlocksFacts DEF TakeWholeNode
<1>2. mem \in [Addresses -> Int] /\ mem[old] \in Int /\ mem[old + 1] \in Int
  BY <1>1 DEF HeapInvariant
<1> DEFINE w == WithNode(mem, old, NULL, SizeOf(old))
<1>3. /\ w \in [Addresses -> Int] /\ w[old + 1] = mem[old + 1]
      /\ \A a \in Addresses : a # old /\ a # old + 1 => w[a] = mem[a]
  BY <1>1, <1>2, NodeWritten DEF SizeOf, NULL
<1>4. mem' = [w EXCEPT ![node] = mem[old]] /\ freed' = freed \ {old}
  BY DEF TakeWholeNode, NextOf
<1> HIDE DEF w
<1>5. /\ mem' \in [Addresses -> Int] /\ mem'[node] = mem[old]
      /\ \A a \in Addresses : a # old /\ a # node => mem'[a] = mem[a]
  BY <1>1, <1>2, <1>3, <1>4
<1>6. \A n \in Nodes \cup {free_list_head} :
        /\ mem'[n + 1] = mem[n + 1]
        /\ n # old /\ n # node => mem'[n] = mem[n]
  <2>1. ASSUME NEW n \in Nodes \cup {free_list_head}
        PROVE  n + 1 # old /\ n + 1 # node /\ n \in Addresses /\ n + 1 \in Addresses
    <3>1. Tiling(mem, free_list_head, Nodes)
      BY <1>1 DEF HeapInvariant, Blocks
    <3>2. old \in Nodes /\ node \in Nodes \cup {free_list_head}
      BY <1>1, NextIsFreed, BlocksFacts DEF TakeWholeNode
    <3> HIDE DEF old
    <3> QED
      BY <3>1, <3>2, HeadersApart
  <2> QED
    BY <1>5, <2>1
<1>7. Nodes = HeldNodes \cup freed' \cup {old} /\ HeldNodes \cap freed' = {}
  BY <1>1, <1>4, BlocksFacts DEF Nodes
<1>8. Tiling(mem', free_list_head, Nodes)
  BY <1>1, <1>5, <1>6, TilingKept DEF HeapInvariant, Blocks
<1>9. \E len, s : IsList(mem', free_list_head', freed', s, len)
  <2>1. PICK len, s : /\ IsList(mem, free_list_head, freed, s, len)
                      /\ \E k \in 0 .. len - 1 : node = s[k] /\ old = s[k + 1]
    BY NextIsFreed DEF TakeWholeNode
  <2>2. PICK k \in 0 .. len - 1 : node = s[k] /\ old = s[k + 1]
    BY <2>1
  <2>3. \A n \in (freed \cup {free_list_head}) \ {s[k], s[k + 1]} : mem'[n] = mem[n]
    BY <1>1, <1>6, <2>2, BlocksFacts
  <2>4. mem'[s[k]] = mem[s[k + 1]]
    BY <1>5, <2>2
  <2>5. \E t : IsList(mem', free_list_head, freed \ {s[k + 1]}, t, len - 1)
    <3> HIDE DEF old
    <3> QED
      BY <2>1, <2>3, <2>4, ListRemoved
  <2>6. freed' = freed \ {s[k + 1]} /\ free_list_head' = free_list_head
    BY <1>4, <2>2 DEF TakeWholeNode
  <2> QED
    BY <2>5, <2>6
<1>10. required_bytes <= mem'[old + 1]
  <2>1. old \in Nodes
    BY <1>1, BlocksFacts
  <2> QED
    BY <1>6, <2>1 DEF TakeWholeNode, Fits, SizeOf
<1>11. Allocated(old) /\ free_list_head' = free_list_head
  BY DEF TakeWholeNode
<1>12. \A k \in HeldNodes : mem'[k + 1] = mem[k + 1]
  BY <1>1, <1>6, BlocksFacts
<1>13. old \notin HeldNodes \cup freed'
  BY <1>1, <1>4
<1> HIDE DEF old
<1> QED
  BY <1>1, <1>7, <1>8, <1>9, <1>10, <1>11, <1>12, <1>13, HeapAllocated

(* A fitting node is split; its tail takes its place in the list.           *)
LEMMA HeapSplit == HeapInvariant /\ SplitNode => HeapInvariant'
<1> SUFFICES ASSUME HeapInvariant, SplitNode PROVE HeapInvariant'
  OBVIOUS
<1> DEFINE old == NextOf(node)
           rest == old + HeaderSize + required_bytes
<1>1. /\ old \in freed /\ old # node /\ pc = "walk"
      /\ node \in Nodes \cup {free_list_head} /\ old \in Nodes
      /\ node \in Addresses /\ node + 1 \in Addresses
      /\ old \in Addresses /\ old + 1 \in Addresses
      /\ old \notin HeldNodes /\ old # free_list_head
      /\ free_list_head' = free_list_head
  BY NextIsFreed, BlocksFacts DEF SplitNode
<1>2. /\ mem \in [Addresses -> Int] /\ mem[old] \in Int /\ mem[old + 1] \in Int
      /\ mem[old + 1] - required_bytes >= minimum_alloc_size
      /\ required_bytes \in Nat
      /\ Tiling(mem, free_list_head, Nodes)
  BY <1>1 DEF HeapInvariant, SplitNode, SizeOf, Blocks
<1>3. /\ rest \in Addresses /\ rest + 1 \in Addresses /\ rest \in Int
      /\ \A n \in Nodes \cup {free_list_head} : n # rest /\ n # rest + 1 /\ n + 1 # rest
  <2>1. /\ old \in Nat /\ rest \in Nat /\ old + 2 <= rest
        /\ rest + 2 <= EndIn(mem, old) /\ EndIn(mem, old) \in Nat
    BY <1>1, <1>2 DEF Addresses, EndIn, HeaderSize, minimum_alloc_size
  <2>2. EndIn(mem, old) <= free_list_head
    BY <1>1, <1>2 DEF Tiling
  <2>3. ASSUME NEW n \in Nodes \cup {free_list_head}
        PROVE  n # rest /\ n # rest + 1 /\ n + 1 # rest
    <3>1. CASE n = old
      BY <1>1, <2>1, <3>1 DEF Addresses
    <3>2. CASE n # old
      <4>1. /\ n \in Nat
            /\ EndIn(mem, old) <= n \/ n + 2 <= old
        BY <1>1, <1>2, <2>2, <3>2 DEF Tiling, EndIn, HeaderSize
      <4> QED
        BY <2>1, <4>1
    <3> QED
      BY <3>1, <3>2
  <2>4. rest + 1 < heap_size
    BY <1>2, <2>1, <2>2, HeapSizeAssumption DEF Tiling
  <2> QED
    BY <2>1, <2>3, <2>4, HeapSizeAssumption DEF Addresses
<1> DEFINE v == WithNode(mem, rest, NextOf(old), RestSize(old))
           w == WithNode(v, old, NULL, required_bytes)
<1>4. /\ RestSize(old) = mem[old + 1] - required_bytes - HeaderSize
      /\ RestSize(old) \in Int /\ NextOf(old) = mem[old]
  BY <1>2 DEF RestSize, SizeOf, NextOf, HeaderSize
<1>5. /\ v \in [Addresses -> Int] /\ v[rest] = mem[old]
      /\ v[rest + 1] = mem[old + 1] - required_bytes - HeaderSize
      /\ \A a \in Addresses : a # rest /\ a # rest + 1 => v[a] = mem[a]
  BY <1>2, <1>3, <1>4, NodeWritten
<1> HIDE DEF v
<1>6. /\ w \in [Addresses -> Int] /\ w[old + 1] = required_bytes
      /\ \A a \in Addresses : a # old /\ a # old + 1 => w[a] = v[a]
  BY <1>1, <1>2, <1>5, NodeWritten DEF NULL
<1> HIDE DEF w
<1>7. /\ mem' = [w EXCEPT ![node] = rest]
      /\ freed' = (freed \ {old}) \cup {rest}
      /\ Allocated(old)
  BY DEF SplitNode, v, w
<1> HIDE DEF old, rest
<1>8. /\ mem' \in [Addresses -> Int] /\ mem'[node] = rest
      /\ \A a \in Addresses : a # node => mem'[a] = w[a]
  BY <1>1, <1>3, <1>6, <1>7
<1>9. /\ mem'[rest] = mem[old] /\ mem'[old + 1] = required_bytes
      /\ mem'[rest + 1] = mem[old + 1] - required_bytes - HeaderSize
  <2>1. /\ rest # node /\ rest + 1 # node /\ rest # old /\ rest + 1 # old
        /\ old + 1 # rest /\ rest + 1 # old + 1
    BY <1>1, <1>3 DEF Addresses
  <2>2. old + 1 # node
    BY <1>1, <1>2, HeadersApart
  <2> QED
    BY <1>1, <1>3, <1>5, <1>6, <1>8, <2>1, <2>2
<1>10. ASSUME NEW n \in (Nodes \ {old}) \cup {free_list_head}
       PROVE  /\ mem'[n + 1] = mem[n + 1]
              /\ n # node => mem'[n] = mem[n]
  <2>1. /\ n \in Addresses /\ n + 1 \in Addresses
        /\ n + 1 # node /\ n + 1 # old /\ n + 1 # old + 1 /\ n # old
        /\ n # old + 1
    BY <1>1, <1>2, HeadersApart
  <2>2. /\ n # rest /\ n # rest + 1 /\ n + 1 # rest
        /\ n + 1 # rest + 1
    BY <1>3, <2>1 DEF Addresses
  <2>3. w[n + 1] = v[n + 1] /\ v[n + 1] = mem[n + 1]
    BY <1>5, <1>6, <2>1, <2>2
  <2>4. w[n] = v[n] /\ v[n] = mem[n]
    BY <1>5, <1>6, <2>1, <2>2
  <2> QED
    BY <1>8, <2>1, <2>3, <2>4
<1>11. /\ Tiling(mem', free_list_head, Nodes \cup {rest})
       /\ rest \notin Nodes \cup {free_list_head}
  <2>1. \A n \in (Nodes \ {old}) \cup {free_list_head} : mem'[n + 1] = mem[n + 1]
    BY <1>10
  <2>2. mem[old + 1] - required_bytes >= HeaderSize
    BY <1>2 DEF minimum_alloc_size, HeaderSize
  <2> QED
    BY <1>1, <1>2, <1>8, <1>9, <2>1, <2>2, TilingSplit DEF rest
<1>12. Nodes \cup {rest} = HeldNodes \cup freed' \cup {old}
  BY <1>1, <1>7 DEF Nodes
<1>13. old \notin HeldNodes \cup freed' /\ HeldNodes \cap freed' = {}
  BY <1>1, <1>3, <1>7, <1>11, BlocksFacts
<1>14. \E len, s : IsList(mem', free_list_head', freed', s, len)
  <2>1. PICK len, s : /\ IsList(mem, free_list_head, freed, s, len)
                      /\ \E k \in 0 .. len - 1 : node = s[k] /\ old = s[k + 1]
    BY NextIsFreed DEF SplitNode, old
  <2>2. PICK k \in 0 .. len - 1 : node = s[k] /\ old = s[k + 1]
    BY <2>1
  <2>3. \A n \in (freed \cup {free_list_head}) \ {s[k], s[k + 1]} : mem'[n] = mem[n]
    BY <1>1, <1>10, <2>2, BlocksFacts
  <2>4. mem'[s[k]] = rest /\ mem'[rest] = mem[s[k + 1]]
    BY <1>8, <1>9, <2>2
  <2>5. rest \notin freed \cup {free_list_head}
    BY <1>1, <1>11, BlocksFacts
  <2>6. \E t : IsList(mem', free_list_head, (freed \ {s[k + 1]}) \cup {rest}, t, len)
    BY <2>1, <2>3, <2>4, <2>5, ListReplaced
  <2>7. freed' = (freed \ {s[k + 1]}) \cup {rest}
    BY <1>7, <2>2
  <2> QED
    BY <1>1, <2>6, <2>7
<1>15. \A k \in HeldNodes : mem'[k + 1] = mem[k + 1]
  BY <1>1, <1>10, BlocksFacts
<1>16. required_bytes <= mem'[old + 1]
  BY <1>2, <1>9
<1> QED
  BY <1>1, <1>7, <1>11, <1>12, <1>13, <1>14, <1>15, <1>16, HeapAllocated

(* The request is cut off the head, and the list starts at what is left.    *)
LEMMA HeapTakeFromHead == HeapInvariant /\ TakeFromHead => HeapInvariant'
<1> SUFFICES ASSUME HeapInvariant, TakeFromHead PROVE HeapInvariant'
  OBVIOUS
<1> DEFINE h == free_list_head
<1>1. /\ pc = "walk" /\ h \in Addresses /\ h + 1 \in Addresses
      /\ NewHead = h + HeaderSize + required_bytes /\ NewHead + 1 \in Addresses
      /\ required_bytes \in Nat
      /\ mem \in [Addresses -> Int] /\ mem[h] \in Int /\ mem[h + 1] \in Int
      /\ Tiling(mem, h, Nodes) /\ h + mem[h + 1] = heap_size
      /\ h \notin Nodes
      /\ free_list_head' = NewHead /\ freed' = freed /\ Allocated(h)
  BY BlocksFacts DEF TakeFromHead, NewHead, HeapInvariant, Blocks, SizeOf
<1>2. /\ NewHead \in Addresses /\ h + 2 <= NewHead /\ NewHead + 1 < heap_size
      /\ h \in Int /\ NewHead \in Int
  BY <1>1, HeapSizeAssumption DEF Addresses, HeaderSize
<1>3. /\ NextOf(h) = mem[h] /\ RestSize(h) = heap_size - NewHead
      /\ RestSize(h) \in Int
  BY <1>1, <1>2, HeapSizeAssumption DEF NextOf, RestSize, SizeOf, HeaderSize
<1> DEFINE v == WithNode(mem, NewHead, NextOf(h), RestSize(h))
<1>4. mem' = WithNode(v, h, NULL, required_bytes)
  BY DEF TakeFromHead
<1>5. /\ v \in [Addresses -> Int] /\ v[NewHead] = mem[h]
      /\ v[NewHead + 1] = heap_size - NewHead
      /\ \A a \in Addresses : a # NewHead /\ a # NewHead + 1 => v[a] = mem[a]
  BY <1>1, <1>2, <1>3, NodeWritten
<1> HIDE DEF v, h
<1>6. /\ mem' \in [Addresses -> Int] /\ mem'[h + 1] = required_bytes
      /\ \A a \in Addresses : a # h /\ a # h + 1 => mem'[a] = v[a]
  BY <1>1, <1>4, <1>5, NodeWritten DEF NULL
<1>7. mem'[NewHead] = mem[h] /\ mem'[NewHead + 1] = heap_size - NewHead
  BY <1>1, <1>2, <1>5, <1>6
<1>8. ASSUME NEW n \in Nodes
      PROVE  /\ mem'[n] = mem[n] /\ mem'[n + 1] = mem[n + 1] /\ n # NewHead
  <2>1. /\ n \in Addresses /\ n + 1 \in Addresses /\ n \in Int
        /\ n + 2 <= h
    <3>1. n \in Nat /\ mem[n + 1] \in Nat /\ EndIn(mem, n) <= h
      BY <1>1 DEF Tiling
    <3>2. n \in Addresses /\ n + 1 \in Addresses
      BY <1>1, HeadersApart
    <3> QED
      BY <1>2, <3>1, <3>2 DEF EndIn, HeaderSize
  <2> QED
    BY <1>2, <1>5, <1>6, <2>1
<1>9. /\ Tiling(mem', NewHead, Nodes \cup {h}) /\ h \notin Nodes
      /\ NewHead \notin Nodes \cup {h}
  <2>1. \A n \in Nodes : mem'[n + 1] = mem[n + 1]
    BY <1>8
  <2> QED
    BY <1>1, <1>2, <1>6, <1>7, <2>1, TilingGrown
<1>10. /\ Nodes \cup {h} = HeldNodes \cup freed' \cup {h}
       /\ h \notin HeldNodes \cup freed' /\ HeldNodes \cap freed' = {}
  BY <1>1, BlocksFacts DEF Nodes
<1>11. \E len, s : IsList(mem', free_list_head', freed', s, len)
  <2>1. PICK len, s : IsList(mem, h, freed, s, len)
    BY <1>1 DEF HeapInvariant, FreeList, h
  <2>2. /\ NewHead \notin freed
        /\ \A n \in freed : mem'[n] = mem[n]
    BY <1>8, BlocksFacts, <1>1
  <2> QED
    BY <1>1, <1>7, <2>1, <2>2, ListMoved
<1>12. \A k \in HeldNodes : mem'[k + 1] = mem[k + 1]
  BY <1>1, <1>8, BlocksFacts
<1>13. required_bytes <= mem'[h + 1]
  BY <1>1, <1>6
<1> QED
  BY <1>1, <1>9, <1>10, <1>11, <1>12, <1>13, HeapAllocated

(* A fault comes at the end of the list only, when the head has no room.    *)
LEMMA HeapFault == HeapInvariant /\ HeapOverrun => HeapInvariant'
<1> SUFFICES ASSUME HeapInvariant, HeapOverrun PROVE HeapInvariant'
  OBVIOUS
<1> USE DEF HeapOverrun
<1>1. HeldNodes' = HeldNodes /\ Nodes' = Nodes
  BY DEF HeldNodes, Nodes
<1>2. Blocks' /\ Locals'
  BY <1>1 DEF HeapInvariant, Blocks, Locals, SizeOf
<1>3. PICK len, s : /\ IsList(mem, free_list_head, freed, s, len)
                    /\ \E k \in 0 .. len :
                         /\ node = s[k]
                         /\ \A i \in 1 .. k : SizeOf(s[i]) < required_bytes
  BY DEF HeapInvariant, FreeList
<1>4. FreeList'
  BY <1>3 DEF FreeList
<1>5. FaultMeansExhausted'
  <2>1. \A n \in freed : SizeOf(n) < required_bytes
    BY ListEndNoFit
  <2>2. SizeOf(free_list_head) < HeaderSize + required_bytes + HeaderSize
    <3>1. /\ free_list_head \in Nat /\ required_bytes \in Nat
          /\ free_list_head + SizeOf(free_list_head) = heap_size
      BY BlocksFacts DEF Addresses, HeapInvariant
    <3>2. SizeOf(free_list_head) \in Int
      BY BlocksFacts DEF HeapInvariant, SizeOf
    <3>3. ~ (free_list_head + HeaderSize + required_bytes + 1 < heap_size)
      BY <3>1, HeapSizeAssumption DEF NewHead, Addresses, HeaderSize
    <3> QED
      BY <3>1, <3>2, <3>3, HeapSizeAssumption DEF HeaderSize
  <2> QED
    BY <2>1, <2>2 DEF FaultMeansExhausted, SizeOf
<1> QED
  BY <1>2, <1>4, <1>5 DEF HeapInvariant

(* A step that keeps the headers and the calls' locals keeps the rest.      *)
LEMMA HeapHeadersKept ==
  ASSUME HeapInvariant, pc = "idle", pc' = "idle",
         NEW w \in [Addresses -> Int], mem' = w,
         UNCHANGED <<free_list_head, node, required_bytes, resize, result, freed>>,
         DOMAIN held' = DOMAIN held, held' \in [DOMAIN held' -> Nat],
         \A a \in DOMAIN held : held'[a] <= SizeOf(get_free_node_from_addr(a)),
         \A n \in Nodes \cup {free_list_head} : w[n] = mem[n] /\ w[n + 1] = mem[n + 1]
  PROVE  HeapInvariant'
<1>1. HeldNodes' = HeldNodes /\ Nodes' = Nodes
  BY DEF HeldNodes, Nodes
<1>2. Tiling(mem', free_list_head, Nodes)
  BY TilingKept DEF HeapInvariant, Blocks
<1>3. \A a \in DOMAIN held : /\ get_free_node_from_addr(a) \in Nodes
                             /\ SizeOf(get_free_node_from_addr(a))'
                                  = SizeOf(get_free_node_from_addr(a))
  BY DEF HeldNodes, Nodes, SizeOf
<1>4. Blocks'
  <2>1. \A a \in DOMAIN held' : held'[a] <= SizeOf(get_free_node_from_addr(a))'
    BY <1>3
  <2> QED
    BY <1>1, <1>2, <2>1 DEF HeapInvariant, Blocks
<1>5. FreeList'
  <2>1. PICK len, s : IsList(mem, free_list_head, freed, s, len)
    BY DEF HeapInvariant, FreeList
  <2>2. IsList(mem', free_list_head, freed, s, len)
    BY <2>1, BlocksFacts, ListKept
  <2> QED
    BY <2>2 DEF FreeList
<1>6. Locals'
  BY DEF HeapInvariant, Locals
<1> QED
  BY <1>4, <1>5, <1>6 DEF HeapInvariant, FaultMeansExhausted

(* krealloc may be content with the block.                                  *)
LEMMA HeapReallocInPlace ==
  ASSUME HeapInvariant, NEW addr \in DOMAIN held, NEW bytes \in Requests,
         ReallocInPlace(addr, bytes)
  PROVE  HeapInvariant'
<1> USE DEF ReallocInPlace
<1>1. bytes \in Nat /\ held \in [DOMAIN held -> Nat]
  BY RequestsAssumption DEF HeapInvariant
<1>2. /\ DOMAIN held' = DOMAIN held /\ held' \in [DOMAIN held' -> Nat]
      /\ held'[addr] = bytes
      /\ \A a \in DOMAIN held : a # addr => held'[a] = held[a]
  BY <1>1
<1>3. \A a \in DOMAIN held : held'[a] <= SizeOf(get_free_node_from_addr(a))
  BY <1>2 DEF HeapInvariant, Blocks
<1>4. mem \in [Addresses -> Int] /\ mem' = mem
  BY DEF HeapInvariant
<1> QED
  BY <1>2, <1>3, <1>4, HeapHeadersKept

(* The body of a block in use.                                              *)
LEMMA BodyInBlock ==
  ASSUME HeapInvariant, pc # "boot", NEW a \in DOMAIN held,
         NEW k \in Nodes \cup {free_list_head}
  PROVE  /\ k \in Addresses /\ k + 1 \in Addresses
         /\ a \in Int /\ held[a] \in Nat
         /\ ~ (a <= k /\ k < a + held[a])
         /\ ~ (a <= k + 1 /\ k + 1 < a + held[a])
<1> DEFINE n == get_free_node_from_addr(a)
<1>1. /\ a \in Int /\ held[a] \in Nat /\ held[a] <= SizeOf(n)
      /\ Tiling(mem, free_list_head, Nodes) /\ n \in Nodes
  BY DEF HeapInvariant, Blocks, Nodes, HeldNodes
<1>2. AddressOf(n) = a /\ SizeOf(n) \in Nat /\ EndIn(mem, n) = a + SizeOf(n)
  BY <1>1, BlocksFacts
     DEF AddressOf, get_free_node_from_addr, HeaderSize, EndIn, SizeOf
<1>3. /\ k \in Addresses /\ k + 1 \in Addresses
      /\ ~ (AddressOf(n) <= k /\ k < EndIn(mem, n))
      /\ ~ (AddressOf(n) <= k + 1 /\ k + 1 < EndIn(mem, n))
  BY <1>1, HeadersOutsideBodies
<1> QED
  BY <1>1, <1>2, <1>3 DEF Addresses

(* Clients write to the bodies of their blocks only.                        *)
LEMMA HeapClientStores ==
  ASSUME HeapInvariant, NEW addr \in DOMAIN held, NEW v \in Values,
         ClientStores(addr, v)
  PROVE  HeapInvariant'
<1> USE DEF ClientStores
<1>1. mem \in [Addresses -> Int] /\ v \in Int
  BY ValuesAssumption DEF HeapInvariant
<1>2. /\ mem' \in [Addresses -> Int]
      /\ \A a \in Addresses : ~ (addr <= a /\ a < addr + held[addr])
                                => mem'[a] = mem[a]
  BY <1>1
<1>3. \A n \in Nodes \cup {free_list_head} : mem'[n] = mem[n] /\ mem'[n + 1] = mem[n + 1]
  BY <1>2, BodyInBlock
<1>4. /\ DOMAIN held' = DOMAIN held /\ held' \in [DOMAIN held' -> Nat]
      /\ \A a \in DOMAIN held : held'[a] <= SizeOf(get_free_node_from_addr(a))
  BY DEF HeapInvariant, Blocks
<1> QED
  BY <1>2, <1>3, <1>4, HeapHeadersKept

(* A block in use put behind the head of the list.                          *)
LEMMA NodeInserted ==
  ASSUME HeapInvariant, pc # "boot", NEW n \in HeldNodes,
         NEW m \in [Addresses -> Int],
         \A k \in Nodes \cup {free_list_head} : m[k] = mem[k] /\ m[k + 1] = mem[k + 1]
  PROVE  LET w == Inserted(m, n) IN
         /\ w \in [Addresses -> Int]
         /\ \A k \in Nodes \cup {free_list_head} : w[k + 1] = mem[k + 1]
         /\ \A k \in Addresses : k # n /\ k # free_list_head => w[k] = m[k]
         /\ \E len, s : IsList(w, free_list_head, freed \cup {n}, s, len)
<1> DEFINE h == free_list_head
           w == Inserted(m, n)
<1>1. /\ n \in Nodes /\ n \in Addresses /\ h \in Addresses
      /\ n # h /\ n \notin freed
      /\ Tiling(mem, h, Nodes)
  BY BlocksFacts DEF HeapInvariant, Blocks
<1>2. /\ w \in [Addresses -> Int] /\ w[n] = m[h] /\ w[h] = n
      /\ \A k \in Addresses : k # n /\ k # h => w[k] = m[k]
  BY <1>1 DEF Inserted, Addresses
<1> HIDE DEF w, h
<1>3. ASSUME NEW k \in Nodes \cup {h} PROVE w[k + 1] = mem[k + 1]
  <2>1. k + 1 \in Addresses /\ k + 1 # n /\ k + 1 # h
    BY <1>1, HeadersApart
  <2> QED
    BY <1>2, <2>1 DEF h
<1>4. PICK len, s : IsList(mem, h, freed, s, len)
  BY DEF HeapInvariant, FreeList, h
<1>5. /\ w[n] = mem[h] /\ \A k \in freed : w[k] = mem[k]
  BY <1>1, <1>2, BlocksFacts DEF h
<1>6. \E t : IsList(w, h, freed \cup {n}, t, len + 1)
  BY <1>1, <1>2, <1>4, <1>5, ListInserted
<1> QED
  BY <1>2, <1>3, <1>6 DEF w, h

(* A freed block changes hands and nothing else.                            *)
LEMMA HeapFree ==
  ASSUME HeapInvariant, NEW addr \in DOMAIN held, kfree(addr)
  PROVE  HeapInvariant'
<1> USE DEF kfree
<1> DEFINE n == get_free_node_from_addr(addr)
<1>1. n \in HeldNodes /\ addr \in Int /\ mem \in [Addresses -> Int]
  BY DEF HeldNodes, HeapInvariant
<1>2. /\ mem' \in [Addresses -> Int]
      /\ \A k \in Nodes \cup {free_list_head} : mem'[k + 1] = mem[k + 1]
      /\ \E len, s : IsList(mem', free_list_head, freed \cup {n}, s, len)
  BY <1>1, NodeInserted
<1>3. /\ DOMAIN held' = DOMAIN held \ {addr}
      /\ \A a \in DOMAIN held' : held'[a] = held[a] /\ held[a] \in Nat /\ a \in Int
      /\ held' \in [DOMAIN held' -> Nat]
  BY DEF HeapInvariant
<1>4. HeldNodes' = HeldNodes \ {n}
  BY <1>1, <1>3 DEF HeldNodes, get_free_node_from_addr, HeaderSize, HeapInvariant
<1>5. Nodes' = Nodes
  BY <1>1, <1>4 DEF Nodes
<1>6. Blocks'
  <2>1. Tiling(mem', free_list_head, Nodes)
    BY <1>2, TilingKept DEF HeapInvariant, Blocks
  <2>2. ASSUME NEW a \in DOMAIN held'
        PROVE  held'[a] <= SizeOf(get_free_node_from_addr(a))'
    <3>1. /\ get_free_node_from_addr(a) \in Nodes
          /\ held[a] <= SizeOf(get_free_node_from_addr(a))
      BY <1>3 DEF HeapInvariant, Blocks, Nodes, HeldNodes
    <3> QED
      BY <1>2, <1>3, <3>1 DEF SizeOf
  <2>3. HeldNodes' \cap freed' = {}
    BY <1>4, BlocksFacts
  <2> QED
    BY <1>5, <2>1, <2>2, <2>3 DEF Blocks
<1>7. FreeList'
  BY <1>2 DEF FreeList
<1>8. Locals'
  BY DEF HeapInvariant, Locals
<1> QED
  BY <1>2, <1>3, <1>6, <1>7, <1>8 DEF HeapInvariant, FaultMeansExhausted

(* What is copied fits the new block, and lies in the old one.              *)
LEMMA CopyFacts ==
  ASSUME HeapInvariant, CopyAndFree
  PROVE  LET old == get_free_node_from_addr(resize)
             w == kmemcpy(AddressOf(result), resize, SizeOf(old))
         IN  /\ old \in HeldNodes /\ old \notin freed
             /\ result \in Nodes \ (HeldNodes \cup freed)
             /\ resize \in Int /\ resize # AddressOf(result)
             /\ SizeOf(old) \in Nat /\ SizeOf(old) < SizeOf(result)
             /\ Nodes = HeldNodes \cup freed \cup {result}
             /\ w \in [Addresses -> Int]
             /\ \A k \in Addresses :
                  ~ (AddressOf(result) <= k /\ k < AddressOf(result) + SizeOf(old))
                    => w[k] = mem[k]
             /\ \A k \in Nodes \cup {free_list_head} :
                  w[k] = mem[k] /\ w[k + 1] = mem[k + 1]
<1> DEFINE old == get_free_node_from_addr(resize)
           dest == AddressOf(result)
           w == kmemcpy(dest, resize, SizeOf(old))
<1>1. /\ pc = "copy" /\ resize \in DOMAIN held /\ resize \in Int
      /\ mem \in [Addresses -> Int]
      /\ Tiling(mem, free_list_head, Nodes)
      /\ SizeOf(old) < required_bytes /\ required_bytes <= SizeOf(result)
      /\ result \notin HeldNodes \cup freed
      /\ required_bytes \in Nat
  BY DEF CopyAndFree, HeapInvariant, Locals, Blocks
<1>2. /\ Nodes = HeldNodes \cup freed \cup {result} /\ old \in HeldNodes
      /\ old \notin freed /\ old # result
  BY <1>1, BlocksFacts DEF Nodes, HeldNodes
<1>3. /\ old \in Nodes /\ result \in Nodes
      /\ SizeOf(old) \in Nat /\ SizeOf(result) \in Nat
      /\ result \in Nat /\ old \in Nat
      /\ EndIn(mem, result) <= heap_size /\ EndIn(mem, old) <= heap_size
      /\ free_list_head \in Nat /\ free_list_head + 1 < heap_size
  <2>1. /\ free_list_head \in Nat /\ free_list_head + 1 < heap_size
        /\ \A n \in Nodes : /\ n \in Nat /\ mem[n + 1] \in Nat
                            /\ EndIn(mem, n) <= free_list_head
    BY <1>1 DEF Tiling
  <2>2. old \in Nodes /\ result \in Nodes
    BY <1>2
  <2>3. \A n \in Nodes : EndIn(mem, n) \in Nat /\ SizeOf(n) \in Nat
    BY <2>1 DEF EndIn, HeaderSize, SizeOf
  <2> QED
    BY <2>1, <2>2, <2>3, HeapSizeAssumption
<1>4. /\ resize = old + 2 /\ dest = result + 2 /\ resize # dest
      /\ EndIn(mem, result) = dest + SizeOf(result)
      /\ EndIn(mem, old) = resize + SizeOf(old)
  BY <1>1, <1>2, <1>3
     DEF get_free_node_from_addr, AddressOf, HeaderSize, EndIn, SizeOf
<1>5. SizeOf(old) < SizeOf(result)
  BY <1>1, <1>3
<1>6. ASSUME NEW k \in Addresses
      PROVE  /\ w[k] \in Int
             /\ ~ (dest <= k /\ k < dest + SizeOf(old)) => w[k] = mem[k]
  <2>1. CASE dest <= k /\ k < dest + SizeOf(old)
    <3>1. resize + (k - dest) \in Addresses
      BY <1>3, <1>4, <2>1, HeapSizeAssumption DEF Addresses
    <3> QED
      BY <1>1, <2>1, <3>1 DEF kmemcpy
  <2>2. CASE ~ (dest <= k /\ k < dest + SizeOf(old))
    BY <1>1, <2>2 DEF kmemcpy
  <2> QED
    BY <2>1, <2>2
<1>7. w \in [Addresses -> Int]
  <2>1. w = [k \in Addresses |-> w[k]]
    BY DEF kmemcpy
  <2> HIDE DEF w
  <2> QED
    BY <1>6, <2>1
<1>8. ASSUME NEW k \in Nodes \cup {free_list_head}
      PROVE  w[k] = mem[k] /\ w[k + 1] = mem[k + 1]
  <2>1. /\ k \in Addresses /\ k + 1 \in Addresses
        /\ ~ (dest <= k /\ k < EndIn(mem, result))
        /\ ~ (dest <= k + 1 /\ k + 1 < EndIn(mem, result))
    BY <1>1, <1>3, HeadersOutsideBodies
  <2>2. k \in Int
    BY <2>1 DEF Addresses
  <2>3. /\ ~ (dest <= k /\ k < dest + SizeOf(old))
        /\ ~ (dest <= k + 1 /\ k + 1 < dest + SizeOf(old))
    BY <1>3, <1>4, <1>5, <2>1, <2>2
  <2> QED
    BY <1>6, <2>1, <2>3
<1> HIDE DEF w, dest
<1> QED
  BY <1>1, <1>2, <1>3, <1>4, <1>5, <1>6, <1>7, <1>8 DEF w, dest

(* krealloc's second half: the block moves, and the old one is freed.       *)
LEMMA HeapCopy == HeapInvariant /\ CopyAndFree => HeapInvariant'
<1> SUFFICES ASSUME HeapInvariant, CopyAndFree PROVE HeapInvariant'
  OBVIOUS
<1> DEFINE n == get_free_node_from_addr(resize)
           b == AddressOf(result)
           w == kmemcpy(b, resize, SizeOf(n))
<1>1. /\ n \in HeldNodes /\ n \notin freed /\ resize \in Int
      /\ result \in Nodes \ (HeldNodes \cup freed)
      /\ Nodes = HeldNodes \cup freed \cup {result}
      /\ w \in [Addresses -> Int]
      /\ \A k \in Nodes \cup {free_list_head} : w[k] = mem[k] /\ w[k + 1] = mem[k + 1]
  BY CopyFacts
<1>2. /\ pc = "copy" /\ pc' = "idle" /\ free_list_head' = free_list_head
      /\ resize' = NULL /\ result' = NULL /\ node' = NULL /\ required_bytes' = 0
      /\ freed' = freed \cup {n} /\ mem' = Inserted(w, n)
      /\ DOMAIN held' = (DOMAIN held \ {resize}) \cup {b}
      /\ held' = [a \in DOMAIN held' |-> IF a = b THEN required_bytes ELSE held[a]]
      /\ resize \in DOMAIN held
  BY DEF CopyAndFree, LocalsGone, HeapInvariant, Locals
<1> HIDE DEF w
<1>3. /\ mem' \in [Addresses -> Int]
      /\ \A k \in Nodes \cup {free_list_head} : mem'[k + 1] = mem[k + 1]
      /\ \E len, s : IsList(mem', free_list_head, freed', s, len)
  <2>1. n \in HeldNodes /\ pc # "boot"
    BY <1>1, <1>2
  <2>2. LET v == Inserted(w, n) IN
        /\ v \in [Addresses -> Int]
        /\ \A k \in Nodes \cup {free_list_head} : v[k + 1] = mem[k + 1]
        /\ \E len, s : IsList(v, free_list_head, freed \cup {n}, s, len)
    BY <1>1, <2>1, NodeInserted, Zenon
  <2>3. mem' = Inserted(w, n) /\ freed' = freed \cup {n}
    BY <1>2
  <2> QED
    BY <2>2, <2>3
<1>4. /\ required_bytes \in Nat /\ required_bytes <= SizeOf(result)
      /\ result \in Int /\ b = result + 2 /\ b \in Int
      /\ get_free_node_from_addr(b) = result
      /\ n = resize - 2
  <2>1. result \in Int
    BY <1>1, <1>2, BlocksFacts DEF Addresses
  <2>2. required_bytes \in Nat /\ required_bytes <= SizeOf(result)
    BY <1>2 DEF HeapInvariant, Locals
  <2> QED
    BY <2>1, <2>2 DEF AddressOf, get_free_node_from_addr, HeaderSize
<1>5. \A a \in DOMAIN held : /\ a \in Int /\ held[a] \in Nat
                             /\ held[a] <= SizeOf(get_free_node_from_addr(a))
                             /\ get_free_node_from_addr(a) \in HeldNodes
                             /\ get_free_node_from_addr(a) = a - 2
  BY <1>2 DEF HeapInvariant, Blocks, HeldNodes, get_free_node_from_addr, HeaderSize
<1> HIDE DEF b, n
<1>6. /\ held' \in [DOMAIN held' -> Nat] /\ DOMAIN held' \subseteq Int
      /\ \A a \in DOMAIN held' : held'[a] = IF a = b THEN required_bytes ELSE held[a]
  BY <1>2, <1>4, <1>5
<1>7. HeldNodes' = (HeldNodes \ {n}) \cup {result}
  <2>1. HeldNodes' = {get_free_node_from_addr(a) : a \in DOMAIN held'}
    BY DEF HeldNodes
  <2>2. ASSUME NEW a \in DOMAIN held, a # resize
        PROVE  get_free_node_from_addr(a) \in HeldNodes \ {n}
    BY <1>1, <1>4, <1>5, <2>2
  <2>3. ASSUME NEW k \in HeldNodes \ {n}
        PROVE  \E a \in DOMAIN held' : k = get_free_node_from_addr(a)
    <3>1. PICK a \in DOMAIN held : k = get_free_node_from_addr(a)
      BY DEF HeldNodes
    <3> QED
      BY <1>2, <3>1 DEF n
  <2> QED
    BY <1>2, <1>4, <2>1, <2>2, <2>3
<1>8. Nodes' = Nodes
  BY <1>1, <1>2, <1>7 DEF Nodes
<1>9. Blocks'
  <2>1. Tiling(mem', free_list_head, Nodes)
    BY <1>2, <1>3, TilingKept DEF HeapInvariant, Blocks
  <2>2. ASSUME NEW a \in DOMAIN held'
        PROVE  held'[a] <= SizeOf(get_free_node_from_addr(a))'
    <3>1. CASE a = b
      BY <1>1, <1>3, <1>4, <1>6, <3>1 DEF SizeOf
    <3>2. CASE a # b
      <4>1. a \in DOMAIN held /\ get_free_node_from_addr(a) \in Nodes
        BY <1>1, <1>2, <1>5, <3>2
      <4> QED
        BY <1>3, <1>5, <1>6, <3>2, <4>1 DEF SizeOf
    <3> QED
      BY <3>1, <3>2
  <2>3. HeldNodes' \cap freed' = {}
    BY <1>1, <1>2, <1>7, BlocksFacts
  <2> QED
    BY <1>2, <1>8, <2>1, <2>2, <2>3 DEF Blocks
<1>10. FreeList'
  BY <1>2, <1>3 DEF FreeList
<1>11. Locals'
  BY <1>2 DEF Locals
<1> QED
  BY <1>2, <1>3, <1>6, <1>9, <1>10, <1>11 DEF HeapInvariant, FaultMeansExhausted

(* Every step keeps the invariant.                                          *)
LEMMA HeapNext == HeapInvariant /\ [Next]_vars => HeapInvariant'
<1> SUFFICES ASSUME HeapInvariant, [Next]_vars PROVE HeapInvariant'
  OBVIOUS
<1>1. ASSUME NEW bytes \in Requests, kmalloc(bytes) PROVE HeapInvariant'
  BY <1>1, HeapStartWalk DEF kmalloc
<1>2. ASSUME NEW addr \in DOMAIN held, NEW bytes \in Requests,
             ReallocMove(addr, bytes)
      PROVE  HeapInvariant'
  BY <1>2, HeapStartWalk DEF ReallocMove
<1>3. CASE UNCHANGED vars
  <2>1. HeldNodes' = HeldNodes /\ Nodes' = Nodes
    BY <1>3 DEF vars, HeldNodes, Nodes
  <2>2. Blocks' = Blocks /\ FreeList' = FreeList /\ Locals' = Locals
    BY <1>3, <2>1 DEF vars, Blocks, FreeList, Locals, SizeOf
  <2> QED
    BY <1>3, <2>2 DEF vars, HeapInvariant, BeforeBoot, FaultMeansExhausted, SizeOf
<1> QED
  BY <1>1, <1>2, <1>3, HeapInitHeap, HeapAdvance, HeapTakeWhole, HeapSplit,
     HeapTakeFromHead, HeapFault, HeapFree, HeapReallocInPlace, HeapCopy,
     HeapClientStores
     DEF Next, page_fault_handler

(* The headers partition the heap, the free list passes all freed blocks    *)
(* once, and the walk has passed no block that fits.                        *)
THEOREM HeapCorrect == Spec => []HeapInvariant
BY HeapInit, HeapNext, PTL DEF Spec

(* The variables keep their types, and no size wraps below zero.            *)
THEOREM TypeCorrect == Spec => []TypeOK
<1>1. HeapInvariant => TypeOK
  <2> SUFFICES ASSUME HeapInvariant PROVE TypeOK
    OBVIOUS
  <2>1. CASE pc = "boot"
    <3>1. Nodes = {} /\ resize = NULL /\ result = NULL
      BY <2>1 DEF HeapInvariant, BeforeBoot, Locals, Nodes, HeldNodes
    <3> QED
      BY <2>1, <3>1 DEF HeapInvariant, BeforeBoot, TypeOK
  <2>2. CASE pc # "boot"
    <3>1. result \in Addresses \cup {NULL}
      BY <2>2, BlocksFacts DEF HeapInvariant, Locals, Nodes
    <3>2. resize \in Addresses \cup {NULL, heap_size}
      <4>1. CASE resize # NULL
        <5>1. /\ get_free_node_from_addr(resize) \in HeldNodes
              /\ resize \in Int
          BY <4>1 DEF HeapInvariant, Locals, HeldNodes
        <5> QED
          BY <2>2, <5>1, BlocksFacts, HeapSizeAssumption
             DEF Addresses, get_free_node_from_addr, HeaderSize
      <4> QED
        BY <4>1
    <3>3. freed \subseteq Addresses
      BY <2>2, BlocksFacts
    <3> QED
      BY <2>2, <3>1, <3>2, <3>3, BlocksFacts DEF HeapInvariant, TypeOK
  <2> QED
    BY <2>1, <2>2
<1> QED
  BY <1>1, HeapCorrect, PTL

(* Blocks in use, freed blocks and the head partition the heap.             *)
THEOREM HeapTiledCorrect == Spec => []HeapTiled
<1>1. HeapInvariant => HeapTiled
  <2> SUFFICES ASSUME HeapInvariant, pc # "boot" PROVE HeapTiled
    BY DEF HeapTiled
  <2>1. Tiling(mem, free_list_head, Nodes) /\ HeldNodes \cap freed = {}
    BY DEF HeapInvariant, Blocks
  <2>2. \A n \in Nodes : EndOf(n) = EndIn(mem, n)
    BY DEF EndOf, EndIn, SizeOf
  <2>3. \A a \in DOMAIN held : held[a] <= SizeOf(get_free_node_from_addr(a))
    BY DEF HeapInvariant, Blocks
  <2>4. pc = "copy" => result \notin HeldNodes \cup freed
    BY DEF HeapInvariant, Locals
  <2> QED
    BY <2>1, <2>2, <2>3, <2>4 DEF HeapTiled, Tiling, SizeOf
<1> QED
  BY <1>1, HeapCorrect, PTL

(* kmalloc faults only when nothing it could give out is left.              *)
THEOREM FaultCorrect == Spec => []FaultMeansExhausted
<1>1. HeapInvariant => FaultMeansExhausted
  BY DEF HeapInvariant
<1> QED
  BY <1>1, HeapCorrect, PTL

(* The head is cut only when no freed block is large enough.                *)
THEOREM GrowthCorrect == Spec => GrowsOnlyWhenNothingFits
<1>1. HeapInvariant /\ [Next]_vars =>
        [pc = "walk" /\ free_list_head' # free_list_head
           => \A n \in freed : SizeOf(n) < required_bytes]_vars
  <2> SUFFICES ASSUME HeapInvariant, Next, pc = "walk",
                      free_list_head' # free_list_head
               PROVE  \A n \in freed : SizeOf(n) < required_bytes
    BY DEF vars
  <2>1. TakeFromHead
    BY DEF Next, init_heap, kmalloc, AdvanceCursor, TakeWholeNode, SplitNode,
           HeapOverrun, page_fault_handler, kfree, ReallocInPlace, ReallocMove,
           CopyAndFree, ClientStores, vars
  <2> QED
    BY <2>1, ListEndNoFit DEF TakeFromHead
<1> QED
  BY <1>1, HeapCorrect, PTL DEF Spec, GrowsOnlyWhenNothingFits

-----------------------------------------------------------------------------
(* The nodes the list passes *)

(* A list of distinct nodes is shorter than the heap.                       *)
LEMMA ListShort ==
  ASSUME HeapInvariant, pc # "boot", NEW s, NEW len,
         IsList(mem, free_list_head, freed, s, len)
  PROVE  len \in Addresses
<1>1. len \in Nat
  BY DEF IsList
<1>2. IsFiniteSet(0 .. len) /\ Cardinality(0 .. len) = len + 1
  BY <1>1, FS_Interval
<1>3. IsFiniteSet(Addresses) /\ Cardinality(Addresses) = heap_size
  <2>1. heap_size - 1 \in Int /\ ~ (0 > heap_size - 1)
    BY HeapSizeAssumption
  <2> QED
    BY <2>1, FS_Interval, HeapSizeAssumption DEF Addresses
<1>4. \A i \in 0 .. len : s[i] \in Addresses
  BY ListHead, BlocksFacts
<1>5. ASSUME heap_size < len + 1 PROVE FALSE
  <2> DEFINE t == [i \in 0 .. len |-> s[i]]
  <2>1. t \in [0 .. len -> Addresses]
    BY <1>4
  <2>2. \E i, j \in 0 .. len : i # j /\ t[i] = t[j]
    <3> HIDE DEF t
    <3> QED
      BY <1>2, <1>3, <1>5, <2>1, FS_PigeonHole
  <2> QED
    BY <2>2 DEF IsList
<1> QED
  BY <1>1, <1>5, HeapSizeAssumption DEF Addresses

(* Following the links from the head passes s[1], s[2] and so on, then      *)
(* stays at NULL: by induction over the number of steps.                    *)
LEMMA ListedNodes ==
  ASSUME HeapInvariant, pc # "boot"
  PROVE  Listed = freed \cup {NULL}
<1> DEFINE Follows(f) ==
             [k \in Addresses |->
                IF k = 0 THEN NextOf(free_list_head)
                ELSE IF f[k - 1] = NULL THEN NULL
                ELSE NextOf(f[k - 1])]
           nth == CHOOSE f : f = Follows(f)
<1>1. Listed = {nth[k] : k \in Addresses}
  BY DEF Listed
<1>2. PICK len, s : IsList(mem, free_list_head, freed, s, len)
  BY DEF HeapInvariant, FreeList
<1>3. len \in Nat /\ len \in Addresses
  BY <1>2, ListShort DEF IsList
<1> DEFINE g == [k \in Addresses |-> IF k < len THEN s[k + 1] ELSE NULL]
<1>4. \A k \in Addresses : k \in Nat /\ (k # 0 => k - 1 \in Addresses)
  BY HeapSizeAssumption DEF Addresses
<1>5. \A i \in 1 .. len : s[i] # NULL /\ s[i] \in freed
  BY <1>2, BlocksFacts DEF IsList, NULL, Addresses
<1>6. /\ \A k \in Addresses : k < len => g[k] = s[k + 1]
      /\ \A k \in Addresses : ~ (k < len) => g[k] = NULL
  OBVIOUS
<1>7. ASSUME NEW k \in Addresses
      PROVE  g[k] = IF k = 0 THEN NextOf(free_list_head)
                    ELSE IF g[k - 1] = NULL THEN NULL
                    ELSE NextOf(g[k - 1])
  <2>1. CASE k = 0
    BY <1>2, <1>3, <1>6, <2>1 DEF IsList, NextOf
  <2>2. CASE k # 0 /\ k - 1 < len
    <3>1. /\ k \in 1 .. len /\ k - 1 \in Addresses /\ (k - 1) + 1 = k
          /\ k \in 0 .. len
      BY <1>3, <1>4, <2>2
    <3>2. g[k - 1] = s[k] /\ s[k] # NULL
      BY <1>5, <1>6, <2>2, <3>1
    <3>3. NextOf(s[k]) = IF k < len THEN s[k + 1] ELSE NULL
      BY <1>2, <1>3, <3>1 DEF IsList, NextOf
    <3> QED
      BY <1>6, <2>2, <3>2, <3>3
  <2>3. CASE k # 0 /\ ~ (k - 1 < len)
    <3>1. k - 1 \in Addresses /\ ~ (k < len)
      BY <1>3, <1>4, <2>3
    <3> QED
      BY <1>6, <2>3, <3>1
  <2> QED
    BY <2>1, <2>2, <2>3
<1>8. g = Follows(g)
  <2>1. g = [k \in Addresses |-> g[k]]
    OBVIOUS
  <2> HIDE DEF g
  <2> QED
    BY <1>7, <2>1
<1>9. nth = Follows(nth)
  <2> HIDE DEF g, Follows
  <2> QED
    BY <1>8, Zenon
<1>10. \A k \in Addresses :
         nth[k] = IF k = 0 THEN NextOf(free_list_head)
                  ELSE IF nth[k - 1] = NULL THEN NULL
                  ELSE NextOf(nth[k - 1])
  <2> HIDE DEF nth
  <2> QED
    BY <1>9
<1> HIDE DEF nth, g, Follows
<1>11. \A k \in Addresses : nth[k] = g[k]
  <2> DEFINE D == {k \in Addresses : nth[k] # g[k]}
  <2>1. SUFFICES ASSUME D # {} PROVE FALSE
    OBVIOUS
  <2>2. PICK k \in D : \A j \in D : k <= j
    <3>1. D \subseteq Nat
      BY <1>4
    <3> QED
      BY <2>1, <3>1, LeastNumber
  <2>3. k \in Addresses /\ nth[k] # g[k]
    OBVIOUS
  <2>4. k # 0 => k - 1 \in Addresses /\ nth[k - 1] = g[k - 1]
    BY <1>4, <2>2, <2>3
  <2> QED
    BY <1>7, <1>10, <2>3, <2>4
<1>12. \A k \in Addresses : g[k] \in freed \cup {NULL}
  BY <1>3, <1>4, <1>5, <1>6
<1>13. ASSUME NEW n \in freed PROVE \E k \in Addresses : g[k] = n
  <2>1. PICK i \in 1 .. len : s[i] = n
    BY <1>2 DEF IsList
  <2>2. i - 1 \in Addresses /\ i - 1 < len /\ (i - 1) + 1 = i
    BY <1>3, HeapSizeAssumption DEF Addresses
  <2> QED
    BY <1>6, <2>1, <2>2
<1>14. g[len] = NULL
  BY <1>3, <1>6
<1> QED
  BY <1>1, <1>3, <1>11, <1>12, <1>13, <1>14

(* Every freed block is on the list, no other is, and the list ends.        *)
THEOREM FreeListCorrect == Spec => []FreeListComplete
<1>1. HeapInvariant => FreeListComplete
  BY ListedNodes DEF FreeListComplete
<1> QED
  BY <1>1, HeapCorrect, PTL

-----------------------------------------------------------------------------
(* Refinement of the heap service *)

(* Blocks in use share no word.                                             *)
LEMMA HeldApart ==
  ASSUME NEW m, NEW h, NEW N, Tiling(m, h, N), NEW u,
         \A a \in DOMAIN u : /\ a \in Int /\ u[a] \in Nat
                             /\ get_free_node_from_addr(a) \in N
                             /\ u[a] <= m[get_free_node_from_addr(a) + 1],
         NEW a \in DOMAIN u, NEW b \in DOMAIN u, a # b
  PROVE  a + u[a] <= b \/ b + u[b] <= a
<1> DEFINE n == get_free_node_from_addr(a)
           k == get_free_node_from_addr(b)
<1>1. /\ n \in N /\ k \in N /\ n = a - 2 /\ k = b - 2 /\ n # k
      /\ a \in Int /\ b \in Int /\ u[a] \in Nat /\ u[b] \in Nat
      /\ u[a] <= m[n + 1] /\ u[b] <= m[k + 1]
  BY DEF get_free_node_from_addr, HeaderSize
<1>2. /\ n \in Nat /\ k \in Nat /\ m[n + 1] \in Nat /\ m[k + 1] \in Nat
      /\ n + 2 + m[n + 1] <= k \/ k + 2 + m[k + 1] <= n
  BY <1>1 DEF Tiling, EndIn, HeaderSize
<1> HIDE DEF n, k
<1> QED
  BY <1>1, <1>2

(* The facts about blocks in use, in one place.                             *)
LEMMA HeldFacts ==
  ASSUME HeapInvariant, pc # "boot"
  PROVE  \A a \in DOMAIN held :
           /\ a \in Int /\ held[a] \in Nat
           /\ get_free_node_from_addr(a) \in Nodes
           /\ held[a] <= mem[get_free_node_from_addr(a) + 1]
BY DEF HeapInvariant, Blocks, Nodes, HeldNodes, SizeOf

(* What two clients may use does not overlap.                               *)
DisjointBlocks ==
  \A a, b \in DOMAIN held : a # b => a + held[a] <= b \/ b + held[b] <= a

(* In every state of the heap the blocks in use share no word.              *)
LEMMA BlocksDisjoint == HeapInvariant /\ pc # "boot" => DisjointBlocks
<1> SUFFICES ASSUME HeapInvariant, pc # "boot" PROVE DisjointBlocks
  OBVIOUS
<1>1. Tiling(mem, free_list_head, Nodes)
  BY DEF HeapInvariant, Blocks
<1> QED
  BY <1>1, HeldFacts, HeldApart DEF DisjointBlocks

(* A block whose size and words stay is the same to its owner.              *)
LEMMA BlockSame ==
  ASSUME NEW a, a \in DOMAIN held, a \in DOMAIN held', held'[a] = held[a],
         \A i \in 0 .. held[a] - 1 : mem'[a + i] = mem[a + i]
  PROVE  BlocksInUse'[a] = BlocksInUse[a]
<1>1. [i \in 0 .. held'[a] - 1 |-> mem'[a + i]] = [i \in 0 .. held[a] - 1 |-> mem[a + i]]
  OBVIOUS
<1> QED
  BY <1>1 DEF BlocksInUse

(* A step that keeps the blocks and their words is a stutter.               *)
LEMMA BlocksSame ==
  ASSUME held' = held,
         \A a \in DOMAIN held : \A i \in 0 .. held[a] - 1 : mem'[a + i] = mem[a + i]
  PROVE  UNCHANGED BlocksInUse
<1>1. \A a \in DOMAIN held : BlocksInUse'[a] = BlocksInUse[a]
  BY BlockSame
<1>2. /\ BlocksInUse = [a \in DOMAIN held |-> BlocksInUse[a]]
      /\ BlocksInUse' = [a \in DOMAIN held' |-> BlocksInUse'[a]]
  BY DEF BlocksInUse
<1> HIDE DEF BlocksInUse
<1> QED
  BY <1>1, <1>2

(* No word of a block in use is in another block or in the head.            *)
LEMMA WordsApart ==
  ASSUME HeapInvariant, pc # "boot", NEW a \in DOMAIN held,
         NEW i \in 0 .. held[a] - 1
  PROVE  /\ a + i \in Addresses /\ a + i < free_list_head
         /\ \A k \in Nodes \cup {free_list_head} : a + i # k /\ a + i # k + 1
         /\ \A k \in Nodes :
              k # get_free_node_from_addr(a) => ~ (k <= a + i /\ a + i < EndIn(mem, k))
<1> DEFINE n == get_free_node_from_addr(a)
<1>1. /\ a \in Int /\ held[a] \in Nat /\ n \in Nodes /\ n = a - 2
      /\ held[a] <= mem[n + 1]
      /\ Tiling(mem, free_list_head, Nodes)
  BY HeldFacts DEF HeapInvariant, Blocks, get_free_node_from_addr, HeaderSize
<1>2. /\ n \in Nat /\ mem[n + 1] \in Nat /\ n + 2 + mem[n + 1] <= free_list_head
      /\ free_list_head \in Nat /\ free_list_head + 1 < heap_size
  BY <1>1 DEF Tiling, EndIn, HeaderSize
<1>3. \A k \in Nodes : k # n => /\ k \in Nat /\ EndIn(mem, k) = k + 2 + mem[k + 1]
                                /\ mem[k + 1] \in Nat
                                /\ n + 2 + mem[n + 1] <= k \/ EndIn(mem, k) <= n
  BY <1>1 DEF Tiling, EndIn, HeaderSize
<1> HIDE DEF n
<1>4. /\ a + i \in Int /\ n + 2 <= a + i /\ a + i < n + 2 + mem[n + 1]
  BY <1>1, <1>2
<1>5. a + i \in Addresses /\ a + i < free_list_head
  BY <1>2, <1>4, HeapSizeAssumption DEF Addresses
<1>6. ASSUME NEW k \in Nodes, k # n
      PROVE  ~ (k <= a + i /\ a + i < EndIn(mem, k))
  BY <1>2, <1>3, <1>4, <1>6
<1>7. ASSUME NEW k \in Nodes \cup {free_list_head}
      PROVE  a + i # k /\ a + i # k + 1
  BY <1>1, <1>2, <1>4, <1>5, BodyInBlock
<1> QED
  BY <1>5, <1>6, <1>7 DEF n

(* Allocation writes to headers, and inside the block it gives out.         *)
LEMMA AllocationKeepsWords ==
  ASSUME HeapInvariant, TakeWholeNode \/ SplitNode \/ TakeFromHead,
         NEW a \in DOMAIN held, NEW i \in 0 .. held[a] - 1
  PROVE  mem'[a + i] = mem[a + i]
<1>1. pc = "walk" /\ mem \in [Addresses -> Int]
  BY DEF TakeWholeNode, SplitNode, TakeFromHead, HeapInvariant
<1>2. /\ a + i \in Addresses /\ a + i < free_list_head /\ a + i \in Int
      /\ \A k \in Nodes \cup {free_list_head} : a + i # k /\ a + i # k + 1
      /\ \A k \in Nodes :
           k # get_free_node_from_addr(a) => ~ (k <= a + i /\ a + i < EndIn(mem, k))
  BY <1>1, WordsApart DEF Addresses
<1> DEFINE old == NextOf(node)
<1>3. NextOf(node) # NULL => /\ node \in Nodes \cup {free_list_head}
                             /\ old \in Nodes
                             /\ old # get_free_node_from_addr(a)
  <2>1. get_free_node_from_addr(a) \in HeldNodes
    BY DEF HeldNodes
  <2> QED
    BY <1>1, <2>1, NextIsFreed, BlocksFacts
<1>4. CASE TakeWholeNode
  BY <1>1, <1>2, <1>3, <1>4 DEF TakeWholeNode, WithNode
<1>5. CASE SplitNode
  <2> DEFINE rest == old + HeaderSize + required_bytes
  <2>1. /\ a + i # node /\ a + i # old /\ a + i # old + 1
        /\ ~ (old <= a + i /\ a + i < EndIn(mem, old))
    BY <1>2, <1>3, <1>5 DEF SplitNode
  <2>2. a + i # rest /\ a + i # rest + 1
    <3>1. /\ old \in Nat /\ SizeOf(old) \in Nat /\ required_bytes \in Nat
          /\ SizeOf(old) - required_bytes >= 4
          /\ EndIn(mem, old) = old + 2 + SizeOf(old)
      BY <1>1, <1>3, <1>5, BlocksFacts
         DEF SplitNode, Addresses, HeapInvariant, minimum_alloc_size, HeaderSize,
             EndIn, SizeOf
    <3> HIDE DEF old
    <3> QED
      BY <1>2, <2>1, <3>1 DEF HeaderSize
  <2> QED
    BY <1>1, <1>2, <1>5, <2>1, <2>2 DEF SplitNode, WithNode
<1>6. CASE TakeFromHead
  <2>1. /\ a + i # free_list_head /\ a + i # free_list_head + 1
        /\ a + i # NewHead /\ a + i # NewHead + 1
    <3>1. /\ free_list_head \in Nat /\ required_bytes \in Nat
      BY <1>1, BlocksFacts DEF Addresses, HeapInvariant
    <3> QED
      BY <1>2, <3>1 DEF NewHead, HeaderSize
  <2> QED
    BY <1>1, <1>2, <1>6, <2>1 DEF TakeFromHead, WithNode
<1> QED
  BY <1>4, <1>5, <1>6

(* kmalloc's last step gives out a block; krealloc's first half gives out   *)
(* none yet.                                                                *)
LEMMA AllocationRefines ==
  ASSUME HeapInvariant, HeapInvariant', NEW n \in Addresses, n \notin HeldNodes,
         TakeWholeNode \/ SplitNode \/ TakeFromHead, Allocated(n)
  PROVE  Service!Allocate \/ UNCHANGED BlocksInUse
<1>1. \A a \in DOMAIN held : \A i \in 0 .. held[a] - 1 : mem'[a + i] = mem[a + i]
  BY AllocationKeepsWords
<1>2. CASE pc' = "copy"
  BY <1>1, <1>2, BlocksSame DEF Allocated
<1>3. CASE pc' = "idle"
  <2> DEFINE b == AddressOf(n)
  <2>1. n \in Int /\ b = n + 2
    BY DEF Addresses, AddressOf, HeaderSize
  <2>2. b \notin DOMAIN held
    <3>1. get_free_node_from_addr(b) = n
      BY <2>1 DEF get_free_node_from_addr, HeaderSize
    <3> QED
      BY <3>1 DEF HeldNodes
  <2> HIDE DEF b
  <2>3. /\ DOMAIN held' = DOMAIN held \cup {b}
        /\ \A a \in DOMAIN held : held'[a] = held[a]
    BY <1>3, <2>2 DEF Allocated, b
  <2>4. /\ DOMAIN BlocksInUse = DOMAIN held
        /\ DOMAIN BlocksInUse' = DOMAIN held'
        /\ \A a \in DOMAIN held : BlocksInUse[a].size = held[a]
        /\ \A a \in DOMAIN held' : BlocksInUse'[a].size = held'[a]
    BY DEF BlocksInUse
  <2>5. \A a \in DOMAIN held : BlocksInUse'[a] = BlocksInUse[a]
    BY <1>1, <2>3, BlockSame
  <2>6. \A a \in DOMAIN held : b + held'[b] <= a \/ a + held[a] <= b
    <3>1. (HeapInvariant /\ pc # "boot" => DisjointBlocks)'
      BY BlocksDisjoint, PTL
    <3> QED
      BY <1>3, <2>2, <2>3, <3>1 DEF DisjointBlocks
  <2>7. Service!Kept(DOMAIN held) /\ Service!ClearOf(b, DOMAIN held)
    BY <2>3, <2>4, <2>5, <2>6 DEF Service!Kept, Service!ClearOf
  <2>8. b \in DOMAIN held' \ DOMAIN held
    BY <2>2, <2>3
  <2> QED
    BY <2>3, <2>4, <2>7, <2>8 DEF Service!Allocate, Service!Used
<1> QED
  BY <1>2, <1>3 DEF Allocated

(* Storing touches the block it is for.                                     *)
LEMMA StoreRefines ==
  ASSUME HeapInvariant, NEW addr \in DOMAIN held, NEW v \in Values,
         ClientStores(addr, v)
  PROVE  Service!Store
<1>1. /\ pc # "boot" /\ held' = held /\ mem \in [Addresses -> Int]
  BY DEF ClientStores, HeapInvariant
<1>2. ASSUME NEW b \in DOMAIN held, b # addr PROVE BlocksInUse'[b] = BlocksInUse[b]
  <2>1. ASSUME NEW i \in 0 .. held[b] - 1 PROVE mem'[b + i] = mem[b + i]
    <3>1. /\ b + i \in Addresses
          /\ b \in Int /\ addr \in Int /\ held[b] \in Nat /\ held[addr] \in Nat
      BY <1>1, HeldFacts, WordsApart
    <3>2. b + held[b] <= addr \/ addr + held[addr] <= b
      BY <1>1, <1>2, BlocksDisjoint DEF DisjointBlocks
    <3>3. ~ (addr <= b + i /\ b + i < addr + held[addr])
      BY <3>1, <3>2
    <3> QED
      BY <3>1, <3>3 DEF ClientStores
  <2> QED
    BY <1>1, <2>1, BlockSame
<1>3. /\ DOMAIN BlocksInUse = DOMAIN held /\ DOMAIN BlocksInUse' = DOMAIN held
      /\ BlocksInUse'[addr].size = BlocksInUse[addr].size
  BY <1>1 DEF BlocksInUse
<1> QED
  BY <1>2, <1>3 DEF Service!Store, Service!Kept, Service!Used

(* kfree takes one block from its owner and writes to two headers.          *)
LEMMA FreeRefines ==
  ASSUME HeapInvariant, NEW addr \in DOMAIN held, kfree(addr)
  PROVE  Service!Release
<1>1. /\ pc # "boot" /\ DOMAIN held' = DOMAIN held \ {addr}
      /\ \A b \in DOMAIN held' : held'[b] = held[b]
      /\ mem \in [Addresses -> Int]
      /\ get_free_node_from_addr(addr) \in Nodes
  BY DEF kfree, HeapInvariant, Nodes, HeldNodes
<1>2. ASSUME NEW b \in DOMAIN held, b # addr PROVE BlocksInUse'[b] = BlocksInUse[b]
  <2>1. ASSUME NEW i \in 0 .. held[b] - 1 PROVE mem'[b + i] = mem[b + i]
    BY <1>1, WordsApart DEF kfree, Inserted
  <2>2. b \in DOMAIN held' /\ held'[b] = held[b]
    BY <1>1, <1>2
  <2> QED
    BY <2>1, <2>2, BlockSame
<1>3. DOMAIN BlocksInUse = DOMAIN held /\ DOMAIN BlocksInUse' = DOMAIN held'
  BY DEF BlocksInUse
<1> QED
  BY <1>1, <1>2, <1>3 DEF Service!Release, Service!Kept, Service!Used

(* krealloc in place: the owner may use more or fewer words than before.    *)
LEMMA ReallocInPlaceRefines ==
  ASSUME HeapInvariant, HeapInvariant', NEW addr \in DOMAIN held,
         NEW bytes \in Requests, ReallocInPlace(addr, bytes)
  PROVE  Service!Reallocate
<1>1. /\ pc # "boot" /\ pc' # "boot" /\ mem' = mem
      /\ DOMAIN held' = DOMAIN held
      /\ held'[addr] = bytes
      /\ \A b \in DOMAIN held : b # addr => held'[b] = held[b]
  BY DEF ReallocInPlace, HeapInvariant
<1>2. ASSUME NEW b \in DOMAIN held, b # addr
      PROVE  /\ BlocksInUse'[b] = BlocksInUse[b]
             /\ addr + held'[addr] <= b \/ b + held[b] <= addr
  <2>1. BlocksInUse'[b] = BlocksInUse[b]
    BY <1>1, <1>2, BlockSame
  <2>2. (HeapInvariant /\ pc # "boot" => DisjointBlocks)'
    BY BlocksDisjoint, PTL
  <2>3. addr + held'[addr] <= b \/ b + held'[b] <= addr
    BY <1>1, <1>2, <2>2 DEF DisjointBlocks
  <2> QED
    BY <1>1, <1>2, <2>1, <2>3
<1>3. /\ DOMAIN BlocksInUse = DOMAIN held /\ DOMAIN BlocksInUse' = DOMAIN held
      /\ BlocksInUse'[addr].size = held'[addr]
      /\ \A b \in DOMAIN held : BlocksInUse[b].size = held[b]
      /\ DOMAIN BlocksInUse[addr].words = 0 .. held[addr] - 1
      /\ DOMAIN BlocksInUse'[addr].words = 0 .. held'[addr] - 1
      /\ \A i \in 0 .. held[addr] - 1 : BlocksInUse[addr].words[i] = mem[addr + i]
      /\ \A i \in 0 .. held'[addr] - 1 : BlocksInUse'[addr].words[i] = mem[addr + i]
  BY <1>1 DEF BlocksInUse
<1>4. /\ Service!Kept(DOMAIN held \ {addr})
      /\ Service!ClearOf(addr, DOMAIN held \ {addr})
  BY <1>2, <1>3 DEF Service!Kept, Service!ClearOf
<1>5. \A i \in (DOMAIN BlocksInUse[addr].words) \cap (DOMAIN BlocksInUse'[addr].words) :
         BlocksInUse'[addr].words[i] = BlocksInUse[addr].words[i]
  BY <1>3
<1>6. DOMAIN held = (DOMAIN held \ {addr}) \cup {addr}
  OBVIOUS
<1> QED
  BY <1>3, <1>4, <1>5, <1>6 DEF Service!Reallocate, Service!Used

(* krealloc's second half: the words of the old block are in the new one.   *)
LEMMA CopyRefines ==
  ASSUME HeapInvariant, HeapInvariant', CopyAndFree
  PROVE  Service!Reallocate
<1> DEFINE old == get_free_node_from_addr(resize)
           b == AddressOf(result)
           w == kmemcpy(b, resize, SizeOf(old))
<1>1. /\ old \in HeldNodes /\ old \notin freed
      /\ result \in Nodes \ (HeldNodes \cup freed)
      /\ resize \in Int /\ resize # b
      /\ SizeOf(old) \in Nat /\ SizeOf(old) < SizeOf(result)
      /\ w \in [Addresses -> Int]
      /\ \A k \in Addresses :
           ~ (b <= k /\ k < b + SizeOf(old)) => w[k] = mem[k]
      /\ \A k \in Nodes \cup {free_list_head} :
                  w[k] = mem[k] /\ w[k + 1] = mem[k + 1]
  BY CopyFacts
<1>2. /\ pc = "copy" /\ pc' = "idle" /\ mem' = Inserted(w, old)
      /\ DOMAIN held' = (DOMAIN held \ {resize}) \cup {b}
      /\ held' = [a \in DOMAIN held' |-> IF a = b THEN required_bytes ELSE held[a]]
      /\ resize \in DOMAIN held
      /\ mem \in [Addresses -> Int]
  BY DEF CopyAndFree, HeapInvariant, Locals
<1>3. /\ old \in Nodes /\ result \in Nodes /\ result \in Addresses
      /\ result \in Int /\ b = result + 2 /\ b \in Int
      /\ EndIn(mem, result) = b + SizeOf(result) /\ SizeOf(result) \in Nat
      /\ get_free_node_from_addr(b) = result
  <2>1. old \in Nodes /\ result \in Nodes
    BY <1>1 DEF Nodes
  <2>2. result \in Addresses /\ result \in Int /\ SizeOf(result) \in Nat
    BY <1>2, <2>1, BlocksFacts DEF Addresses
  <2> QED
    BY <2>1, <2>2 DEF AddressOf, HeaderSize, EndIn, SizeOf, get_free_node_from_addr
<1>4. b \notin DOMAIN held
  BY <1>1, <1>3 DEF HeldNodes
<1>5. \A k \in Addresses : k # old /\ k # free_list_head => mem'[k] = w[k]
  BY <1>1, <1>2 DEF Inserted
<1> HIDE DEF b, w, old
<1>6. ASSUME NEW a \in DOMAIN held, a # resize PROVE BlocksInUse'[a] = BlocksInUse[a]
  <2>1. a \in DOMAIN held' /\ held'[a] = held[a]
    BY <1>2, <1>4, <1>6
  <2>2. ASSUME NEW i \in 0 .. held[a] - 1 PROVE mem'[a + i] = mem[a + i]
    <3>1. /\ a + i \in Addresses /\ a + i # old /\ a + i # free_list_head
          /\ result # get_free_node_from_addr(a)
          /\ ~ (result <= a + i /\ a + i < EndIn(mem, result))
      <4>1. get_free_node_from_addr(a) \in HeldNodes
        BY DEF HeldNodes
      <4>2. result # get_free_node_from_addr(a)
        BY <1>1, <4>1
      <4> QED
        BY <1>2, <1>3, <4>2, WordsApart
    <3>2. a + i \in Int
      BY <3>1 DEF Addresses
    <3>3. ~ (b <= a + i /\ a + i < b + SizeOf(old))
      BY <1>1, <1>3, <3>1, <3>2
    <3> QED
      BY <1>1, <1>5, <3>1, <3>3
  <2> QED
    BY <2>1, <2>2, BlockSame
<1>7. held[resize] \in Nat /\ held[resize] <= SizeOf(old)
  BY <1>2, HeldFacts DEF SizeOf, old
<1>8. ASSUME NEW i \in 0 .. held[resize] - 1 PROVE mem'[b + i] = mem[resize + i]
  <2>1. b + i \in Addresses /\ b + i # old /\ b + i # free_list_head /\ b + i \in Int
    <3>1. /\ Tiling(mem, free_list_head, Nodes)
          /\ EndIn(mem, result) <= free_list_head /\ free_list_head \in Nat
          /\ free_list_head < heap_size /\ result \in Nat
      <4>1. Tiling(mem, free_list_head, Nodes)
        BY <1>2 DEF HeapInvariant, Blocks
      <4>2. free_list_head \in Nat /\ free_list_head + 1 < heap_size
        BY <4>1 DEF Tiling
      <4>3. result \in Nat /\ EndIn(mem, result) <= free_list_head
        BY <1>3, <4>1 DEF Tiling
      <4> QED
        BY <4>1, <4>2, <4>3, HeapSizeAssumption
    <3>2. i \in Nat /\ i < SizeOf(result) /\ result + 2 <= b + i
          /\ b + i < EndIn(mem, result)
      BY <1>1, <1>3, <1>7
    <3>3. b + i \in Addresses /\ b + i # free_list_head
      BY <1>3, <3>1, <3>2, HeapSizeAssumption DEF Addresses
    <3>4. old \in Nodes \cup {free_list_head}
      BY <1>3
    <3>5. ~ (AddressOf(result) <= old /\ old < EndIn(mem, result))
      BY <1>3, <3>1, <3>4, HeadersOutsideBodies
    <3> QED
      BY <1>3, <3>2, <3>3, <3>5 DEF b
  <2>2. mem'[b + i] = w[b + i]
    BY <1>5, <2>1
  <2>3. b <= b + i /\ b + i < b + SizeOf(old) /\ (b + i) - b = i
    BY <1>1, <1>3, <1>7
  <2>4. w[b + i] = mem[resize + i]
    BY <2>1, <2>3 DEF w, kmemcpy
  <2> QED
    BY <2>2, <2>4
<1>9. ASSUME NEW a \in DOMAIN held \ {resize}
      PROVE  b + held'[b] <= a \/ a + held[a] <= b
  <2>1. (HeapInvariant /\ pc # "boot" => DisjointBlocks)'
    BY BlocksDisjoint, PTL
  <2>2. /\ a \in DOMAIN held' /\ b \in DOMAIN held' /\ a # b /\ held'[a] = held[a]
    BY <1>2, <1>4
  <2> QED
    BY <1>2, <2>1, <2>2 DEF DisjointBlocks
<1>10. /\ DOMAIN BlocksInUse = DOMAIN held /\ DOMAIN BlocksInUse' = DOMAIN held'
       /\ BlocksInUse'[b].size = held'[b]
       /\ \A a \in DOMAIN held : BlocksInUse[a].size = held[a]
       /\ DOMAIN BlocksInUse[resize].words = 0 .. held[resize] - 1
       /\ \A i \in 0 .. held[resize] - 1 : BlocksInUse[resize].words[i] = mem[resize + i]
       /\ DOMAIN BlocksInUse'[b].words = 0 .. held'[b] - 1
       /\ \A i \in 0 .. held'[b] - 1 : BlocksInUse'[b].words[i] = mem'[b + i]
  BY <1>2 DEF BlocksInUse
<1>11. /\ Service!Kept(DOMAIN held \ {resize})
       /\ Service!ClearOf(b, DOMAIN held \ {resize})
  BY <1>6, <1>9, <1>10 DEF Service!Kept, Service!ClearOf
<1>12. \A i \in (DOMAIN BlocksInUse[resize].words) \cap (DOMAIN BlocksInUse'[b].words) :
         BlocksInUse'[b].words[i] = BlocksInUse[resize].words[i]
  BY <1>8, <1>10
<1>13. /\ b \in DOMAIN BlocksInUse' /\ resize \in DOMAIN BlocksInUse
       /\ DOMAIN BlocksInUse' = (DOMAIN BlocksInUse \ {resize}) \cup {b}
  BY <1>2, <1>10
<1>14. /\ Service!Kept(DOMAIN BlocksInUse \ {resize})
       /\ Service!ClearOf(b, DOMAIN BlocksInUse \ {resize})
  BY <1>10, <1>11
<1> QED
  BY <1>12, <1>13, <1>14, Zenon DEF Service!Reallocate, Service!Used

(* Every step of the heap is one of the service, or its clients see none.   *)
THEOREM Refinement == Spec => ImplementsHeapService
<1>1. Init => Service!Init
  <2> SUFFICES ASSUME Init PROVE BlocksInUse = << >>
    BY DEF Service!Init
  <2>1. DOMAIN held = {}
    BY DEF Init
  <2> QED
    BY <2>1 DEF BlocksInUse
<1>2. HeapInvariant /\ HeapInvariant' /\ [Next]_vars => [Service!Next]_BlocksInUse
  <2> SUFFICES ASSUME HeapInvariant, HeapInvariant', [Next]_vars
               PROVE  Service!Next \/ UNCHANGED BlocksInUse
    OBVIOUS
  <2> USE DEF Service!Next
  <2>1. CASE UNCHANGED <<mem, held>>
    BY <2>1, BlocksSame
  <2>2. CASE init_heap
    BY <2>2, BlocksSame DEF init_heap, HeapInvariant, BeforeBoot
  <2>3. CASE TakeWholeNode \/ SplitNode
    <3>1. /\ Allocated(NextOf(node)) /\ NextOf(node) \in freed
          /\ NextOf(node) \in Addresses /\ NextOf(node) \notin HeldNodes
      BY <2>3, NextIsFreed, BlocksFacts DEF TakeWholeNode, SplitNode
    <3> QED
      BY <2>3, <3>1, AllocationRefines
  <2>4. CASE TakeFromHead
    <3>1. /\ Allocated(free_list_head) /\ free_list_head \in Addresses
          /\ free_list_head \notin HeldNodes
      BY <2>4, BlocksFacts DEF TakeFromHead
    <3> QED
      BY <2>4, <3>1, AllocationRefines
  <2>5. CASE \E addr \in DOMAIN held : kfree(addr)
    BY <2>5, FreeRefines
  <2>6. CASE \E addr \in DOMAIN held, bytes \in Requests : ReallocInPlace(addr, bytes)
    BY <2>6, ReallocInPlaceRefines
  <2>7. CASE CopyAndFree
    BY <2>7, CopyRefines
  <2>8. CASE \E addr \in DOMAIN held, v \in Values : ClientStores(addr, v)
    BY <2>8, StoreRefines
  <2> QED
    BY <2>1, <2>2, <2>3, <2>4, <2>5, <2>6, <2>7, <2>8
       DEF Next, kmalloc, ReallocMove, AdvanceCursor, HeapOverrun,
           page_fault_handler, vars
<1> QED
  BY <1>1, <1>2, HeapCorrect, PTL DEF Spec, ImplementsHeapService, Service!Spec

=============================================================================
