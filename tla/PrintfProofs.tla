---------------------------- MODULE PrintfProofs ----------------------------
(***************************************************************************)
(* Proofs about Printf, for every format and every list of arguments.      *)
(*                                                                         *)
(* What a directive is, IsDirective says of a text by its parts;           *)
(* get_format finds the parts one after the other, each as long as it can  *)
(* be.  That the two agree is the substance (ParsedIsDirective,            *)
(* DirectiveIsParsed): no character that may continue one part may begin   *)
(* the next, but for the 0 that is a flag as well as a digit, and there it *)
(* does not matter.  The invariants are then that the texts passed make up *)
(* the format up to i (FormatInvariant), that next_arg is ahead by what    *)
(* they needed (ArgumentInvariant), and that the numbers shown read back   *)
(* (NumberInvariant): the lowest n digits add up to the remainder by 16^n  *)
(* (DigitsAddUp), and the ones left out are zeros (LeadingZeros).          *)
(***************************************************************************)
EXTENDS Printf, SequenceTheorems, FiniteSetTheorems, WellFoundedInduction, TLAPS

-----------------------------------------------------------------------------
(* Natural numbers *)

(* Every set of natural numbers has a least one: what the proofs by         *)
(* induction below rest on.                                                 *)
LEMMA LeastNumber ==
  ASSUME NEW T, T \subseteq Nat, T # {}
  PROVE  \E x \in T : \A y \in T : x <= y
<1> DEFINE R == {ss \in Nat \X Nat : ss[1] < ss[2]}
<1>1. R = OpToRel(<, Nat)
  BY DEF OpToRel
<1>2. IsWellFoundedOn(R, Nat)
  BY <1>1, NatLessThanWellFounded
<1>3. PICK x \in T : \A y \in T : <<y, x>> \notin R
  <2> HIDE DEF R
  <2> QED
    BY <1>2, WFMin
<1>4. ASSUME NEW y \in T PROVE x <= y
  <2>1. x \in Nat /\ y \in Nat
    OBVIOUS
  <2>2. <<y, x>> \in Nat \X Nat
    BY <2>1
  <2>3. y < x => <<y, x>> \in R
    BY <2>2, Zenon
  <2> QED
    BY <1>3, <2>1, <2>3
<1> QED
  BY <1>4

-----------------------------------------------------------------------------
(* Sequences *)

(* One more sequence behind those put together.                             *)
Joined(s, k, f) == IF k = 1 THEN s[k] ELSE f \o s[k]

(* What FlattenSeq defines by recursion: the first n put together.          *)
Flat(s, n, f) == f = [k \in 1 .. n |-> Joined(s, k, f[k - 1])]

(* There are such sequences.                                                *)
LEMMA FlatExists ==
  ASSUME NEW s
  PROVE  \A n \in Nat : \E f : Flat(s, n, f)
<1> DEFINE T == {n \in Nat : ~ \E f : Flat(s, n, f)}
<1>1. SUFFICES ASSUME T # {} PROVE FALSE
  OBVIOUS
<1>2. PICK n \in T : \A m \in T : n <= m
  BY <1>1, LeastNumber
<1>3. n \in Nat /\ ~ \E f : Flat(s, n, f)
  OBVIOUS
<1>4. CASE n = 0
  <2> DEFINE f == [k \in 1 .. 0 |-> 0]
  <2>1. Flat(s, 0, f)
    BY DEF Flat
  <2> QED
    BY <1>3, <1>4, <2>1
<1>5. CASE n # 0
  <2>1. n - 1 \in Nat /\ n - 1 \notin T
    BY <1>2, <1>3, <1>5
  <2>2. PICK f : Flat(s, n - 1, f)
    BY <2>1
  <2> DEFINE g == [k \in 1 .. n |->
                     IF k < n THEN f[k] ELSE Joined(s, n, f[n - 1])]
  <2>3. ASSUME NEW k \in 1 .. n PROVE g[k] = Joined(s, k, g[k - 1])
    <3>1. k = 1 \/ (k - 1 \in 1 .. n - 1 /\ k - 1 \in 1 .. n /\ k - 1 < n)
      BY <1>3
    <3>2. k = 1 \/ g[k - 1] = f[k - 1]
      BY <3>1
    <3>3. Joined(s, k, g[k - 1]) = Joined(s, k, f[k - 1])
      <4> HIDE DEF g
      <4>1. CASE k = 1
        BY <4>1 DEF Joined
      <4>2. CASE k # 1
        BY <3>2, <4>2
      <4> QED
        BY <4>1, <4>2
    <3>4. CASE k < n
      <4>1. k \in 1 .. n - 1
        BY <1>3, <3>4
      <4>2. f[k] = Joined(s, k, f[k - 1])
        BY <2>2, <4>1 DEF Flat
      <4>3. g[k] = f[k]
        BY <3>4
      <4> QED
        BY <3>3, <4>2, <4>3, Zenon
    <3>5. CASE k = n
      <4>1. g[k] = Joined(s, k, f[k - 1])
        BY <1>3, <3>5
      <4> QED
        BY <3>3, <4>1, Zenon
    <3> QED
      BY <1>3, <3>4, <3>5
  <2>4. g = [k \in 1 .. n |-> Joined(s, k, g[k - 1])]
    <3>1. g = [k \in 1 .. n |-> g[k]]
      OBVIOUS
    <3> HIDE DEF g
    <3> QED
      BY <2>3, <3>1
  <2>5. Flat(s, n, g)
    <3> HIDE DEF g
    <3> QED
      BY <2>4 DEF Flat
  <2> QED
    BY <1>3, <2>5, Zenon
<1> QED
  BY <1>4, <1>5

(* One more sequence behind what FlattenSeq puts together.                  *)
LEMMA FlattenAppend ==
  ASSUME NEW S, NEW s \in Seq(Seq(S)), NEW t \in Seq(S)
  PROVE  FlattenSeq(Append(s, t)) = FlattenSeq(s) \o t
<1> DEFINE r == Append(s, t)
           n == Len(s)
           f == CHOOSE h : Flat(s, Len(s), h)
           g == CHOOSE h : Flat(r, Len(r), h)
<1>1. /\ n \in Nat /\ r \in Seq(Seq(S)) /\ Len(r) = n + 1
      /\ \A k \in 1 .. n : r[k] = s[k]
      /\ r[n + 1] = t
  BY AppendProperties, LenProperties
<1>2. Flat(s, Len(s), f) /\ Flat(r, Len(r), g)
  <2>1. Len(s) \in Nat /\ Len(r) \in Nat
    BY <1>1
  <2> HIDE DEF r
  <2>2. (\E h : Flat(s, Len(s), h)) /\ \E h : Flat(r, Len(r), h)
    BY <2>1, FlatExists
  <2> QED
    BY <2>2, Zenon
<1>3. FlattenSeq(s) = IF n = 0 THEN s ELSE f[n]
  BY Zenon DEF FlattenSeq, Flat, Joined
<1>4. FlattenSeq(r) = IF Len(r) = 0 THEN r ELSE g[Len(r)]
  <2> HIDE DEF r
  <2> QED
    BY Zenon DEF FlattenSeq, Flat, Joined
<1> HIDE DEF f, g, r
<1>5. /\ \A k \in 1 .. n : f[k] = Joined(s, k, f[k - 1])
      /\ \A k \in 1 .. n + 1 : g[k] = Joined(r, k, g[k - 1])
  BY <1>1, <1>2 DEF Flat
<1>6. \A k \in 1 .. n : g[k] = f[k]
  <2> DEFINE T == {k \in 1 .. n : g[k] # f[k]}
  <2>1. SUFFICES ASSUME T # {} PROVE FALSE
    OBVIOUS
  <2>2. PICK k \in T : \A j \in T : k <= j
    <3>1. T \subseteq Nat
      BY <1>1
    <3> HIDE DEF T
    <3> QED
      BY <2>1, <3>1, LeastNumber
  <2>3. k \in 1 .. n /\ g[k] # f[k]
    OBVIOUS
  <2>4. k = 1 \/ (k - 1 \in 1 .. n /\ k - 1 \notin T)
    BY <1>1, <2>2, <2>3
  <2>5. k = 1 \/ g[k - 1] = f[k - 1]
    BY <2>4
  <2>6. k \in 1 .. n + 1 /\ r[k] = s[k]
    BY <1>1, <2>3
  <2>7. Joined(r, k, g[k - 1]) = Joined(s, k, f[k - 1])
    BY <2>5, <2>6 DEF Joined
  <2> QED
    BY <1>5, <2>3, <2>6, <2>7
<1>7. n + 1 \in 1 .. n + 1 /\ (n + 1) - 1 = n /\ n + 1 # 0
  BY <1>1
<1>8. FlattenSeq(r) = Joined(r, n + 1, g[n])
  BY <1>1, <1>4, <1>5, <1>7
<1>9. CASE n = 0
  <2>1. s = <<>>
    BY <1>9, EmptySeq
  <2>2. FlattenSeq(s) = <<>> /\ FlattenSeq(r) = t
    BY <1>1, <1>3, <1>8, <1>9, <2>1 DEF Joined
  <2> QED
    BY <2>2, ConcatEmptySeq DEF r
<1>10. CASE n # 0
  <2>1. n \in 1 .. n /\ n + 1 # 1
    BY <1>1, <1>10
  <2>2. FlattenSeq(r) = g[n] \o t /\ g[n] = f[n]
    BY <1>1, <1>6, <1>8, <2>1 DEF Joined
  <2> QED
    BY <1>3, <1>10, <2>2 DEF r
<1> QED
  BY <1>9, <1>10

(* Appending to a sequence of anything.                                     *)
LEMMA AppendAny ==
  ASSUME NEW s, s \in Seq({s[k] : k \in DOMAIN s}), NEW e
  PROVE  LET r == Append(s, e)
         IN  /\ r \in Seq({r[k] : k \in DOMAIN r})
             /\ Len(s) \in Nat /\ DOMAIN s = 1 .. Len(s)
             /\ Len(r) = Len(s) + 1 /\ DOMAIN r = 1 .. Len(s) + 1
             /\ \A k \in 1 .. Len(s) : r[k] = s[k]
             /\ r[Len(s) + 1] = e
<1> DEFINE r == Append(s, e)
           A == {s[k] : k \in DOMAIN s} \cup {e}
<1>1. /\ s \in Seq(A) /\ e \in A
  BY SeqMonotonic
<1> HIDE DEF A
<1>2. /\ r \in Seq(A) /\ Len(r) = Len(s) + 1
      /\ \A k \in 1 .. Len(s) : r[k] = s[k]
      /\ r[Len(s) + 1] = e
  BY <1>1, AppendProperties
<1>3. /\ Len(s) \in Nat /\ DOMAIN s = 1 .. Len(s) /\ DOMAIN r = 1 .. Len(r)
      /\ Len(r) \in Nat
  BY <1>1, <1>2, LenProperties
<1> HIDE DEF r
<1>4. r \in [1 .. Len(r) -> {r[k] : k \in DOMAIN r}]
  <2>1. r = [k \in 1 .. Len(r) |-> r[k]]
    BY <1>2, <1>3
  <2>2. \A k \in 1 .. Len(r) : r[k] \in {r[j] : j \in DOMAIN r}
    BY <1>3
  <2> QED
    BY <2>1, <2>2, Zenon
<1>5. r \in Seq({r[k] : k \in DOMAIN r})
  <2> DEFINE B == {r[k] : k \in DOMAIN r}
  <2> HIDE DEF B
  <2>1. r \in [1 .. Len(r) -> B]
    BY <1>4 DEF B
  <2>2. r \in Seq(B)
    BY <1>3, <2>1
  <2> QED
    BY <2>2 DEF B
<1> QED
  BY <1>2, <1>3, <1>5 DEF r

-----------------------------------------------------------------------------
(* Sums *)

(* The element a sum takes first.                                           *)
Pick(s) == CHOOSE x \in s : TRUE

(* What SumFunctionOnSet defines by recursion, on some family of sets.      *)
Summand(g, h, s) == IF s = {} THEN 0 ELSE g[Pick(s)] + h[s \ {Pick(s)}]
Summing(g, F, h) == h = [s \in F |-> Summand(g, h, s)]

LEMMA SumUnfolds ==
  ASSUME NEW g, NEW S
  PROVE  SumFunctionOnSet(g, S) = (CHOOSE h : Summing(g, SUBSET S, h))[S]
BY Zenon DEF SumFunctionOnSet, FoldFunctionOnSet, MapThenFoldSet, Summing, Summand, Pick

(* Taking an element away.                                                  *)
LEMMA PickLeaves ==
  ASSUME NEW s, IsFiniteSet(s), s # {}
  PROVE  /\ Pick(s) \in s
         /\ IsFiniteSet(s \ {Pick(s)})
         /\ Cardinality(s) \in Nat /\ Cardinality(s \ {Pick(s)}) = Cardinality(s) - 1
<1>1. Pick(s) \in s
  BY DEF Pick
<1>2. Cardinality(s) \in Nat
  BY FS_CardinalityType
<1>3. IsFiniteSet(s \ {Pick(s)}) /\ Cardinality(s \ {Pick(s)}) = Cardinality(s) - 1
  BY <1>1, FS_RemoveElement
<1> QED
  BY <1>1, <1>2, <1>3

(* There are such sums.                                                     *)
LEMMA SumExists ==
  ASSUME NEW g, NEW S, IsFiniteSet(S)
  PROVE  \E h : Summing(g, SUBSET S, h)
<1> DEFINE Small(n) == {s \in SUBSET S : Cardinality(s) <= n}
           T == {n \in Nat : ~ \E h : Summing(g, Small(n), h)}
<1>0. ASSUME NEW s \in SUBSET S PROVE IsFiniteSet(s) /\ Cardinality(s) \in Nat
  BY FS_Subset, FS_CardinalityType
<1>1. CASE T = {}
  <2>1. Cardinality(S) \in Nat
    BY FS_CardinalityType
  <2>2. \E h : Summing(g, Small(Cardinality(S)), h)
    BY <1>1, <2>1
  <2>3. Small(Cardinality(S)) = SUBSET S
    BY FS_Subset
  <2> QED
    BY <2>2, <2>3
<1>2. CASE T # {}
  <2>1. PICK n \in T : \A m \in T : n <= m
    BY <1>2, LeastNumber
  <2>2. n \in Nat /\ ~ \E h : Summing(g, Small(n), h)
    OBVIOUS
  <2>3. CASE n = 0
    <3> DEFINE h == [s \in Small(0) |-> 0]
    <3>1. ASSUME NEW s \in Small(0) PROVE Summand(g, h, s) = 0
      <4>1. s = {}
        <5>1. IsFiniteSet(s) /\ Cardinality(s) \in Nat /\ Cardinality(s) <= 0
          BY <1>0
        <5>2. Cardinality(s) = 0
          BY <5>1
        <5> QED
          BY <5>1, <5>2, FS_EmptySet
      <4> QED
        BY <4>1 DEF Summand
    <3>2. h = [s \in Small(0) |-> Summand(g, h, s)]
      <4>1. \A s \in Small(0) : h[s] = Summand(g, h, s)
        BY <3>1
      <4>2. h = [s \in Small(0) |-> h[s]]
        OBVIOUS
      <4> HIDE DEF h, Small
      <4> QED
        BY <4>1, <4>2
    <3>3. Summing(g, Small(0), h)
      <4> HIDE DEF h, Small
      <4> QED
        BY <3>2 DEF Summing
    <3> QED
      BY <2>2, <2>3, <3>3
  <2>4. CASE n # 0
    <3>1. n - 1 \in Nat /\ n - 1 \notin T
      <4>1. n - 1 \in Nat /\ ~ n <= n - 1
        BY <2>2, <2>4
      <4> HIDE DEF T
      <4> QED
        BY <2>1, <4>1
    <3>2. PICK f : Summing(g, Small(n - 1), f)
      BY <3>1
    <3> DEFINE h == [s \in Small(n) |-> Summand(g, f, s)]
    <3>3. ASSUME NEW s \in Small(n - 1)
          PROVE  s \in Small(n) /\ f[s] = Summand(g, f, s) /\ h[s] = f[s]
      <4>1. s \in Small(n)
        <5>1. s \in SUBSET S /\ Cardinality(s) <= n - 1 /\ Cardinality(s) \in Nat
          BY <1>0
        <5> QED
          BY <2>2, <5>1
      <4>2. f[s] = Summand(g, f, s)
        <5> HIDE DEF Small
        <5>1. f = [x \in Small(n - 1) |-> Summand(g, f, x)]
          BY <3>2 DEF Summing
        <5>2. [x \in Small(n - 1) |-> Summand(g, f, x)][s] = Summand(g, f, s)
          OBVIOUS
        <5> QED
          BY <5>1, <5>2, Zenon
      <4> HIDE DEF Small
      <4> QED
        BY <4>1, <4>2
    <3>4. ASSUME NEW s \in Small(n) PROVE Summand(g, h, s) = Summand(g, f, s)
      <4>1. CASE s = {}
        BY <4>1 DEF Summand
      <4>2. CASE s # {}
        <5> DEFINE r == s \ {Pick(s)}
        <5>1. /\ IsFiniteSet(s) /\ s \in SUBSET S /\ Cardinality(s) <= n
              /\ Cardinality(s) \in Nat /\ Cardinality(r) = Cardinality(s) - 1
          BY <1>0, <4>2, PickLeaves
        <5>2. r \in SUBSET S /\ Cardinality(r) <= n - 1
          BY <2>2, <5>1
        <5>3. h[r] = f[r]
          BY <3>3, <5>2
        <5> HIDE DEF h
        <5> QED
          BY <4>2, <5>3 DEF Summand
      <4> QED
        BY <4>1, <4>2
    <3>5. Summing(g, Small(n), h)
      <4>1. h = [s \in Small(n) |-> Summand(g, h, s)]
        <5>1. \A s \in Small(n) : h[s] = Summand(g, h, s)
          <6>1. \A s \in Small(n) : h[s] = Summand(g, f, s)
            OBVIOUS
          <6> HIDE DEF h, Small
          <6> QED
            BY <3>4, <6>1
        <5>2. h = [s \in Small(n) |-> h[s]]
          OBVIOUS
        <5> HIDE DEF h, Small
        <5> QED
          BY <5>1, <5>2
      <4> HIDE DEF h, Small
      <4> QED
        BY <4>1 DEF Summing
    <3> QED
      BY <2>2, <3>5
  <2> QED
    BY <2>3, <2>4
<1> QED
  BY <1>1, <1>2

(* So the sum is one of them.                                               *)
LEMMA SumIs ==
  ASSUME NEW g, NEW S, IsFiniteSet(S)
  PROVE  \E h : Summing(g, SUBSET S, h) /\ SumFunctionOnSet(g, S) = h[S]
<1>1. \E h : Summing(g, SUBSET S, h)
  BY SumExists
<1>2. Summing(g, SUBSET S, CHOOSE h : Summing(g, SUBSET S, h))
  BY <1>1, Zenon
<1> QED
  BY <1>2, SumUnfolds

(* It takes the elements one by one.                                        *)
LEMMA SummingAt ==
  ASSUME NEW g, NEW F, NEW h, Summing(g, F, h), NEW s \in F
  PROVE  h[s] = Summand(g, h, s)
<1>1. h = [x \in F |-> Summand(g, h, x)]
  BY DEF Summing
<1>2. [x \in F |-> Summand(g, h, x)][s] = Summand(g, h, s)
  OBVIOUS
<1> QED
  BY <1>1, <1>2, Zenon

(* A least set among those with a property.                                 *)
LEMMA LeastSet ==
  ASSUME NEW S, IsFiniteSet(S), NEW B, B \subseteq SUBSET S, B # {}
  PROVE  \E s \in B : \A r \in B : Cardinality(s) <= Cardinality(r)
<1> DEFINE T == {Cardinality(s) : s \in B}
<1>1. T \subseteq Nat
  <2>1. \A s \in B : Cardinality(s) \in Nat
    BY FS_Subset, FS_CardinalityType
  <2> QED
    BY <2>1
<1>2. T # {}
  OBVIOUS
<1>3. PICK x \in T : \A y \in T : x <= y
  <2> HIDE DEF T
  <2> QED
    BY <1>1, <1>2, LeastNumber
<1>4. PICK s \in B : x = Cardinality(s)
  OBVIOUS
<1>5. \A r \in B : Cardinality(r) \in T
  OBVIOUS
<1> QED
  BY <1>3, <1>4, <1>5

(* It is a number.                                                          *)
LEMMA SumType ==
  ASSUME NEW S, IsFiniteSet(S), NEW g, \A x \in S : g[x] \in Int,
         NEW h, Summing(g, SUBSET S, h)
  PROVE  \A s \in SUBSET S : h[s] \in Int
<1> DEFINE B == {s \in SUBSET S : h[s] \notin Int}
<1>1. SUFFICES ASSUME B # {} PROVE FALSE
  OBVIOUS
<1>2. PICK s \in B : \A r \in B : Cardinality(s) <= Cardinality(r)
  <2>1. B \subseteq SUBSET S
    OBVIOUS
  <2> HIDE DEF B
  <2> QED
    BY <1>1, <2>1, LeastSet
<1>3. s \in SUBSET S /\ h[s] \notin Int /\ IsFiniteSet(s)
  BY FS_Subset
<1>4. h[s] = Summand(g, h, s)
  BY <1>3, SummingAt
<1>5. s # {}
  BY <1>3, <1>4 DEF Summand
<1> DEFINE r == s \ {Pick(s)}
<1>6. /\ Pick(s) \in s
      /\ Cardinality(s) \in Nat /\ Cardinality(r) = Cardinality(s) - 1
  BY <1>3, <1>5, PickLeaves
<1>7. r \in SUBSET S /\ r \notin B
  <2>1. r \in SUBSET S
    BY <1>3
  <2>2. ~ Cardinality(s) <= Cardinality(r)
    BY <1>6
  <2> HIDE DEF r, B
  <2> QED
    BY <1>2, <2>1, <2>2
<1>8. h[r] \in Int /\ g[Pick(s)] \in Int
  BY <1>3, <1>6, <1>7
<1>9. h[s] = g[Pick(s)] + h[r]
  BY <1>4, <1>5 DEF Summand
<1> QED
  BY <1>3, <1>8, <1>9

(* Any element may be taken first.                                          *)
LEMMA SumTakes ==
  ASSUME NEW S, IsFiniteSet(S), NEW g, \A x \in S : g[x] \in Int,
         NEW h, Summing(g, SUBSET S, h)
  PROVE  \A s \in SUBSET S : \A x \in s : h[s] = g[x] + h[s \ {x}]
<1> DEFINE B == {s \in SUBSET S : \E x \in s : h[s] # g[x] + h[s \ {x}]}
<1>1. SUFFICES ASSUME B # {} PROVE FALSE
  OBVIOUS
<1>2. PICK s \in B : \A r \in B : Cardinality(s) <= Cardinality(r)
  <2>1. B \subseteq SUBSET S
    OBVIOUS
  <2> HIDE DEF B
  <2> QED
    BY <1>1, <2>1, LeastSet
<1>3. s \in SUBSET S /\ IsFiniteSet(s)
  BY FS_Subset
<1>4. PICK x \in s : h[s] # g[x] + h[s \ {x}]
  OBVIOUS
<1> DEFINE c == Pick(s)
<1>5. /\ c \in s /\ Cardinality(s) \in Nat
  BY <1>3, <1>4, PickLeaves
<1>6. h[s] = g[c] + h[s \ {c}]
  <2>1. h[s] = Summand(g, h, s)
    BY <1>3, SummingAt
  <2> QED
    BY <1>4, <2>1 DEF Summand
<1>7. ASSUME NEW y \in s PROVE s \ {y} \in SUBSET S /\ s \ {y} \notin B
  <2>1. s \ {y} \in SUBSET S
    BY <1>3
  <2>2. ~ Cardinality(s) <= Cardinality(s \ {y})
    <3>1. Cardinality(s \ {y}) = Cardinality(s) - 1
      BY <1>3, FS_RemoveElement
    <3> QED
      BY <1>5, <3>1
  <2> HIDE DEF B
  <2> QED
    BY <1>2, <2>1, <2>2
<1> HIDE DEF c
<1>8. c # x
  BY <1>4, <1>6
<1>9. h[s \ {c}] = g[x] + h[(s \ {c}) \ {x}]
  BY <1>5, <1>7, <1>8
<1>10. h[s \ {x}] = g[c] + h[(s \ {x}) \ {c}]
  BY <1>5, <1>7, <1>8
<1>11. (s \ {c}) \ {x} = (s \ {x}) \ {c} /\ (s \ {x}) \ {c} \in SUBSET S
  BY <1>3
<1> DEFINE rest == (s \ {x}) \ {c}
<1>12. g[x] \in Int /\ g[c] \in Int /\ h[rest] \in Int
  BY <1>3, <1>5, <1>11, SumType
<1>13. h[s \ {c}] = g[x] + h[rest] /\ h[s \ {x}] = g[c] + h[rest]
  BY <1>9, <1>10, <1>11
<1> HIDE DEF rest
<1> QED
  BY <1>4, <1>6, <1>12, <1>13

(* Sums of the same numbers are the same.                                   *)
LEMMA SameSums ==
  ASSUME NEW S, IsFiniteSet(S), NEW g, NEW h, NEW gg, NEW hh, NEW SS,
         S \subseteq SS,
         Summing(g, SUBSET S, h), Summing(gg, SUBSET SS, hh), \A x \in S : g[x] = gg[x]
  PROVE  \A s \in SUBSET S : h[s] = hh[s]
<1> DEFINE B == {s \in SUBSET S : h[s] # hh[s]}
<1>1. SUFFICES ASSUME B # {} PROVE FALSE
  OBVIOUS
<1>2. PICK s \in B : \A r \in B : Cardinality(s) <= Cardinality(r)
  <2>1. B \subseteq SUBSET S
    OBVIOUS
  <2> HIDE DEF B
  <2> QED
    BY <1>1, <2>1, LeastSet
<1>3. s \in SUBSET S /\ IsFiniteSet(s) /\ h[s] # hh[s] /\ s \in SUBSET SS
  BY FS_Subset
<1>4. h[s] = Summand(g, h, s) /\ hh[s] = Summand(gg, hh, s)
  BY <1>3, SummingAt
<1>5. s # {}
  BY <1>3, <1>4 DEF Summand
<1> DEFINE r == s \ {Pick(s)}
<1>6. /\ Pick(s) \in s
      /\ Cardinality(s) \in Nat /\ Cardinality(r) = Cardinality(s) - 1
  BY <1>3, <1>5, PickLeaves
<1>7. r \in SUBSET S /\ r \notin B
  <2>1. r \in SUBSET S
    BY <1>3
  <2>2. ~ Cardinality(s) <= Cardinality(r)
    BY <1>6
  <2> HIDE DEF r, B
  <2> QED
    BY <1>2, <2>1, <2>2
<1>8. h[r] = hh[r] /\ g[Pick(s)] = gg[Pick(s)]
  BY <1>3, <1>6, <1>7
<1>9. h[s] = g[Pick(s)] + h[r] /\ hh[s] = gg[Pick(s)] + hh[r]
  BY <1>4, <1>5 DEF Summand
<1> HIDE DEF r
<1> QED
  BY <1>3, <1>8, <1>9

LEMMA SumsAgree ==
  ASSUME NEW S, IsFiniteSet(S), NEW g, NEW SS, S \subseteq SS,
         NEW h, Summing(g, SUBSET S, h), NEW hh, Summing(g, SUBSET SS, hh)
  PROVE  h[S] = hh[S]
<1>1. \A x \in S : g[x] = g[x]
  OBVIOUS
<1>2. \A s \in SUBSET S : h[s] = hh[s]
  BY <1>1, SameSums
<1> QED
  BY <1>2

(* What the invariants use: the sum over no elements, over one more, and    *)
(* of numbers that have not changed.                                        *)
LEMMA SumOverNone ==
  ASSUME NEW g
  PROVE  SumFunctionOnSet(g, {}) = 0
<1>1. IsFiniteSet({})
  BY FS_EmptySet
<1>2. PICK h : Summing(g, SUBSET {}, h) /\ SumFunctionOnSet(g, {}) = h[{}]
  BY <1>1, SumIs
<1>3. h[{}] = Summand(g, h, {})
  BY <1>2, SummingAt
<1> QED
  BY <1>2, <1>3 DEF Summand

LEMMA SumOverSame ==
  ASSUME NEW S, IsFiniteSet(S), NEW g, NEW gg, \A x \in S : g[x] = gg[x]
  PROVE  SumFunctionOnSet(g, S) = SumFunctionOnSet(gg, S)
<1>1. PICK h : Summing(g, SUBSET S, h) /\ SumFunctionOnSet(g, S) = h[S]
  BY SumIs
<1>2. PICK hh : Summing(gg, SUBSET S, hh) /\ SumFunctionOnSet(gg, S) = hh[S]
  BY SumIs
<1>3. h[S] = hh[S]
  BY <1>1, <1>2, SameSums
<1> QED
  BY <1>1, <1>2, <1>3

LEMMA SumOverMore ==
  ASSUME NEW S, IsFiniteSet(S), NEW g, \A x \in S : g[x] \in Int,
         NEW x, x \notin S, g[x] \in Int
  PROVE  /\ SumFunctionOnSet(g, S) \in Int
         /\ SumFunctionOnSet(g, S \cup {x}) = g[x] + SumFunctionOnSet(g, S)
<1> DEFINE SS == S \cup {x}
<1>1. IsFiniteSet(SS) /\ \A y \in SS : g[y] \in Int
  BY FS_AddElement
<1>2. S \subseteq SS /\ S \in SUBSET SS /\ SS \in SUBSET SS /\ x \in SS /\ SS \ {x} = S
  OBVIOUS
<1> HIDE DEF SS
<1>3. PICK h : Summing(g, SUBSET S, h) /\ SumFunctionOnSet(g, S) = h[S]
  BY SumIs
<1>4. PICK hh : Summing(g, SUBSET SS, hh) /\ SumFunctionOnSet(g, SS) = hh[SS]
  BY <1>1, SumIs
<1>5. h[S] = hh[S]
  BY <1>2, <1>3, <1>4, SumsAgree
<1>6. hh[SS] = g[x] + hh[S]
  BY <1>1, <1>2, <1>4, SumTakes
<1>7. h[S] \in Int
  BY <1>3, SumType
<1> QED
  BY <1>3, <1>4, <1>5, <1>6, <1>7 DEF SS

-----------------------------------------------------------------------------
(* The language of formats *)

Digits == DOMAIN DigitValue
LengthLetters == {"h", "l", "j", "z", "t", "L"}
Specifiers == {"d", "i", "u", "o", "x", "X", "c", "s"} \cup Floating

(* A format as the caller passes it.                                        *)
IsFormat ==
  /\ Len(fmt) \in Nat /\ DOMAIN fmt = 1 .. Len(fmt)
  /\ \A k \in 1 .. Len(fmt) : fmt[k] \notin {"nul", "nothing", "number", "string"}

(* What may stand at a place of a directive tells the place.                *)
LEMMA Letters ==
  /\ Digits = {"0", "1", "2", "3", "4", "5", "6", "7", "8", "9"}
  /\ Digits \cap (LengthLetters \cup Specifiers \cup {"*", ".", "%", "nul"}) = {}
  /\ FlagChars \cap Digits = {"0"}
  /\ FlagChars \cap (LengthLetters \cup Specifiers \cup {"*", ".", "%", "nul"}) = {}
  /\ LengthLetters \cap (Specifiers \cup {"*", ".", "%", "nul"}) = {}
  /\ Specifiers \cap {"*", ".", "%", "nul"} = {}
  /\ \A c \in Specifiers : <<c>> \notin Lengths /\ \A d : <<d, c>> \notin Lengths
<1>1. Digits = {"0", "1", "2", "3", "4", "5", "6", "7", "8", "9"}
  BY DEF Digits, DigitValue
<1>2. \A c \in Specifiers : <<c>> \notin Lengths /\ \A d : <<d, c>> \notin Lengths
  BY DEF Specifiers, Lengths, Floating
<1>3. /\ Digits \cap (LengthLetters \cup Specifiers \cup {"*", ".", "%", "nul"}) = {}
      /\ FlagChars \cap Digits = {"0"}
  BY <1>1 DEF LengthLetters, Specifiers, Floating, FlagChars
<1>4. /\ FlagChars \cap (LengthLetters \cup Specifiers \cup {"*", ".", "%", "nul"}) = {}
      /\ LengthLetters \cap (Specifiers \cup {"*", ".", "%", "nul"}) = {}
      /\ Specifiers \cap {"*", ".", "%", "nul"} = {}
  BY DEF LengthLetters, Specifiers, Floating, FlagChars
<1> QED
  BY <1>1, <1>2, <1>3, <1>4

(* Which letters make a length.                                             *)
LEMMA LengthsAre ==
  /\ \A a : <<a>> \in Lengths <=> a \in LengthLetters
  /\ \A a, b : <<a, b>> \in Lengths <=> a = b /\ a \in {"h", "l"}
  /\ <<>> \in Lengths
  /\ \A t \in Lengths : \/ t = <<>>
                        \/ \E a \in LengthLetters : t = <<a>>
                        \/ \E a \in {"h", "l"} : t = <<a, a>>
<1>1. \A a : <<a>> \in Lengths <=> a \in LengthLetters
  BY DEF Lengths, LengthLetters
<1>2. \A a, b : <<a, b>> \in Lengths <=> a = b /\ a \in {"h", "l"}
  BY DEF Lengths
<1>3. /\ <<>> \in Lengths
      /\ \A t \in Lengths : \/ t = <<>>
                            \/ \E a \in LengthLetters : t = <<a>>
                            \/ \E a \in {"h", "l"} : t = <<a, a>>
  BY DEF Lengths, LengthLetters
<1> QED
  BY <1>1, <1>2, <1>3

(* The assertions accept the lengths and specifiers of the language.        *)
LEMMA AcceptedIsSpecified ==
  ASSUME NEW t \in Lengths, NEW c
  PROVE  /\ Accepted(LengthType[t], c) <=> <<t, c>> \in Specified
         /\ Accepted(LengthType[t], c) => c \in Specifiers
<1>1. /\ LengthType[t] = "INT" <=> t = <<>>
      /\ LengthType[t] = "LONG_INT" <=> t = <<"l">>
      /\ LengthType[t] = "LONG_DOUBLE" <=> t = <<"L">>
  <2>1. \A x \in Lengths : LengthType[x] = "INT" <=> x = <<>>
    BY DEF LengthType, Lengths
  <2>2. \A x \in Lengths : LengthType[x] = "LONG_INT" <=> x = <<"l">>
    BY DEF LengthType, Lengths
  <2>3. \A x \in Lengths : LengthType[x] = "LONG_DOUBLE" <=> x = <<"L">>
    BY DEF LengthType, Lengths
  <2> QED
    BY <2>1, <2>2, <2>3
<1>2. Accepted(LengthType[t], c) => c \in Specifiers
  BY DEF Accepted, Specifiers
<1>3. <<t, c>> \in Specified <=>
        \/ t # <<"L">> /\ c \in {"d", "i"}
        \/ c \in {"u", "o", "x", "X"}
        \/ t \in {<<>>, <<"L">>} /\ c \in Floating
        \/ t \in {<<>>, <<"l">>} /\ c \in {"c", "s"}
  BY DEF Specified
<1>4. Accepted(LengthType[t], c) <=>
        \/ t # <<"L">> /\ c \in {"d", "i"}
        \/ c \in {"u", "o", "x", "X"}
        \/ t \in {<<>>, <<"L">>} /\ c \in Floating
        \/ t \in {<<>>, <<"l">>} /\ c \in {"c", "s"}
  BY <1>1 DEF Accepted
<1> QED
  BY <1>2, <1>3, <1>4

(* read_decimal reads all the digits there are.                             *)
LEMMA DigitsRead ==
  ASSUME IsFormat, NEW k \in Nat \ {0}
  PROVE  /\ DigitsFrom(k) \in Nat
         /\ \A j \in k .. k + DigitsFrom(k) - 1 : Char(j) \in Digits
         /\ Char(k + DigitsFrom(k)) \notin Digits
<1> DEFINE Ends(n) == Char(k + n) \notin Digits
           T == {n \in Nat : Ends(n)}
<1>1. Len(fmt) \in Nat
  BY DEF IsFormat
<1>2. Len(fmt) \in T
  <2>1. Char(k + Len(fmt)) = "nul"
    BY <1>1 DEF Char
  <2> QED
    BY <1>1, <2>1, Letters
<1>3. PICK m \in T : \A n \in T : m <= n
  <2>1. T \subseteq Nat /\ T # {}
    BY <1>2
  <2> HIDE DEF T
  <2> QED
    BY <2>1, LeastNumber
<1>4. m \in 0 .. Len(fmt) /\ Ends(m)
  BY <1>1, <1>2, <1>3
<1>5. \A j \in k .. k + m - 1 : Char(j) \in Digits
  <2> SUFFICES ASSUME NEW j \in k .. k + m - 1, Char(j) \notin Digits PROVE FALSE
    OBVIOUS
  <2>1. j - k \in Nat /\ j - k < m /\ k + (j - k) = j
    BY <1>4
  <2>2. j - k \in T
    BY <2>1
  <2> QED
    BY <1>3, <1>4, <2>1, <2>2
<1> HIDE DEF T
<1>6. DigitsFrom(k) = CHOOSE n \in 0 .. Len(fmt) :
                        /\ \A j \in k .. k + n - 1 : Char(j) \in Digits
                        /\ Char(k + n) \notin Digits
  BY DEF DigitsFrom, Digits
<1>7. /\ DigitsFrom(k) \in 0 .. Len(fmt)
      /\ \A j \in k .. k + DigitsFrom(k) - 1 : Char(j) \in Digits
      /\ Char(k + DigitsFrom(k)) \notin Digits
  BY <1>4, <1>5, <1>6, Zenon
<1> QED
  BY <1>1, <1>7

(* As many digits as there are before something else are read.              *)
LEMMA DigitsCounted ==
  ASSUME IsFormat, NEW k \in Nat \ {0}, NEW n \in Nat,
         \A j \in k .. k + n - 1 : Char(j) \in Digits, Char(k + n) \notin Digits
  PROVE  DigitsFrom(k) = n
<1> DEFINE d == DigitsFrom(k)
<1>1. /\ d \in Nat /\ Char(k + d) \notin Digits
      /\ \A j \in k .. k + d - 1 : Char(j) \in Digits
  BY DigitsRead
<1> HIDE DEF d
<1>2. ~ d < n
  <2> SUFFICES ASSUME d < n PROVE FALSE
    OBVIOUS
  <2>1. k + d \in k .. k + n - 1
    BY <1>1
  <2> QED
    BY <1>1, <2>1
<1>3. ~ n < d
  <2> SUFFICES ASSUME n < d PROVE FALSE
    OBVIOUS
  <2>1. k + n \in k .. k + d - 1
    BY <1>1
  <2> QED
    BY <1>1, <2>1
<1>4. d = n
  BY <1>1, <1>2, <1>3
<1> QED
  BY <1>4 DEF d

(* The length found is one of the language, made of the letters there.      *)
LEMMA LengthRead ==
  ASSUME NEW k \in Nat
  PROVE  /\ get_length(k) \in Lengths
         /\ get_length(k) \in {<<>>, <<Char(k)>>, <<Char(k), Char(k + 1)>>}
BY LengthsAre, Zenon DEF get_length

(* A length in front of a specifier is found.                               *)
LEMMA LengthCounted ==
  ASSUME NEW k \in Nat, NEW t \in Lengths,
         \A j \in 1 .. Len(t) : Char(k + j - 1) = t[j], Char(k + Len(t)) \in Specifiers
  PROVE  get_length(k) = t
<1>1. CASE t = <<>>
  <2>1. Char(k) \in Specifiers
    <3>1. k + Len(t) = k
      BY <1>1
    <3> QED
      BY <3>1
  <2>2. Char(k) \notin LengthLetters
    BY <2>1, Letters
  <2>3. <<Char(k)>> \notin Lengths /\ <<Char(k), Char(k + 1)>> \notin Lengths
    BY <2>2, LengthsAre DEF LengthLetters
  <2> QED
    BY <1>1, <2>3, Zenon DEF get_length
<1>2. ASSUME NEW a \in LengthLetters, t = <<a>>
      PROVE  get_length(k) = t
  <2>1. Len(t) = 1 /\ t[1] = a /\ k + 1 - 1 = k /\ 1 \in 1 .. 1
    BY <1>2
  <2>2. Char(k) = a
    BY <2>1
  <2>3. Char(k + 1) \in Specifiers
    BY <2>1
  <2>4. <<Char(k), Char(k + 1)>> \notin Lengths /\ <<Char(k)>> \in Lengths
    BY <2>2, <2>3, Letters, LengthsAre
  <2> QED
    BY <1>2, <2>2, <2>4, Zenon DEF get_length
<1>3. ASSUME NEW a \in {"h", "l"}, t = <<a, a>>
      PROVE  get_length(k) = t
  <2>1. /\ Len(t) = 2 /\ t[1] = a /\ t[2] = a /\ k + 1 - 1 = k /\ k + 2 - 1 = k + 1
        /\ 1 \in 1 .. 2 /\ 2 \in 1 .. 2
    BY <1>3
  <2>2. Char(k) = a /\ Char(k + 1) = a
    BY <2>1
  <2>3. <<Char(k), Char(k + 1)>> \in Lengths
    BY <2>2, LengthsAre
  <2> QED
    BY <1>3, <2>2, <2>3, Zenon DEF get_length
<1> QED
  BY <1>1, <1>2, <1>3, LengthsAre

-----------------------------------------------------------------------------
(* Pieces of a format *)

(* A part of any sequence.                                                  *)
LEMMA PartOf ==
  ASSUME NEW t, NEW a \in Nat \ {0}, NEW b \in Nat
  PROVE  LET p == SubSeq(t, a, b)
         IN  /\ p \in Seq({t[k] : k \in a .. b})
             /\ Len(p) = IF a <= b THEN b - a + 1 ELSE 0
             /\ DOMAIN p = 1 .. Len(p)
             /\ \A j \in 1 .. Len(p) : p[j] = t[a + j - 1]
<1> DEFINE S == {t[k] : k \in a .. b}
           p == SubSeq(t, a, b)
<1>1. \A k \in a .. b : t[k] \in S
  OBVIOUS
<1> HIDE DEF S
<1>2. /\ p \in Seq(S) /\ Len(p) = IF a <= b THEN b - a + 1 ELSE 0
      /\ \A j \in 1 .. b - a + 1 : p[j] = t[a + j - 1]
  BY <1>1, SubSeqProperties
<1> HIDE DEF p
<1>3. DOMAIN p = 1 .. Len(p)
  BY <1>2, LenProperties
<1>4. \A j \in 1 .. Len(p) : p[j] = t[a + j - 1]
  BY <1>2
<1> QED
  BY <1>2, <1>3, <1>4 DEF S, p

(* A piece of the format, by its characters.                                *)
LEMMA Piece ==
  ASSUME IsFormat, NEW a \in 1 .. Len(fmt), NEW b \in a .. Len(fmt)
  PROVE  LET t == SubSeq(fmt, a, b)
         IN  /\ Len(t) = b - a + 1 /\ DOMAIN t = 1 .. b - a + 1
             /\ \A j \in 1 .. b - a + 1 : t[j] = Char(a + j - 1)
<1> DEFINE t == SubSeq(fmt, a, b)
<1>1. a \in Nat \ {0} /\ b \in Nat /\ a <= b /\ b <= Len(fmt) /\ Len(fmt) \in Nat
  BY DEF IsFormat
<1>2. /\ Len(t) = b - a + 1 /\ DOMAIN t = 1 .. Len(t)
      /\ \A j \in 1 .. Len(t) : t[j] = fmt[a + j - 1]
  BY <1>1, PartOf
<1> HIDE DEF t
<1>3. \A j \in 1 .. b - a + 1 : a + j - 1 <= Len(fmt)
  BY <1>1
<1>4. \A j \in 1 .. b - a + 1 : t[j] = Char(a + j - 1)
  BY <1>2, <1>3 DEF Char
<1> QED
  BY <1>2, <1>4 DEF t

(* Where get_format finds the parts of the directive at k.                  *)
WidthAt(k) == k + get_flags(k)
PrecisionAt(k) == WidthAt(k) + get_width(WidthAt(k))
LengthAt(k) == PrecisionAt(k) + get_precision(PrecisionAt(k))
EndAt(k) == LengthAt(k) + Len(get_length(LengthAt(k)))

(* It finds its end and whether it is accepted there.                       *)
LEMMA FormatAt ==
  ASSUME NEW k
  PROVE  /\ get_format(k).end = EndAt(k)
         /\ get_format(k).ok
              <=> Accepted(LengthType[get_length(LengthAt(k))], Char(EndAt(k)))
BY DEF get_format, EndAt, LengthAt, PrecisionAt, WidthAt

(* The places follow each other.                                            *)
LEMMA PlacesFollow ==
  ASSUME IsFormat, NEW k \in Nat \ {0}
  PROVE  /\ WidthAt(k) \in Nat /\ WidthAt(k) \in k .. k + 1
         /\ PrecisionAt(k) \in Nat /\ PrecisionAt(k) >= WidthAt(k)
         /\ LengthAt(k) \in Nat /\ LengthAt(k) >= PrecisionAt(k)
         /\ get_length(LengthAt(k)) \in Lengths
         /\ Len(get_length(LengthAt(k))) \in 0 .. 2
         /\ EndAt(k) \in Nat /\ EndAt(k) >= LengthAt(k)
<1>1. WidthAt(k) \in Nat \ {0} /\ WidthAt(k) \in k .. k + 1
  BY DEF WidthAt, get_flags
<1>2. get_width(WidthAt(k)) \in Nat
  BY <1>1, DigitsRead DEF get_width
<1>3. PrecisionAt(k) \in Nat /\ PrecisionAt(k) >= WidthAt(k)
  BY <1>1, <1>2 DEF PrecisionAt
<1>4. get_precision(PrecisionAt(k)) \in Nat
  <2>1. DigitsFrom(PrecisionAt(k) + 2) \in Nat
    <3>1. PrecisionAt(k) + 2 \in Nat \ {0}
      BY <1>3
    <3> QED
      BY <3>1, DigitsRead
  <2> QED
    BY <2>1 DEF get_precision
<1>5. LengthAt(k) \in Nat /\ LengthAt(k) >= PrecisionAt(k)
  BY <1>3, <1>4 DEF LengthAt
<1>6. /\ get_length(LengthAt(k)) \in Lengths
      /\ Len(get_length(LengthAt(k))) \in 0 .. 2
  <2> DEFINE t == get_length(LengthAt(k))
  <2>1. t \in Lengths
    BY <1>5, LengthRead
  <2> HIDE DEF t
  <2>2. Len(t) \in 0 .. 2
    BY <2>1 DEF Lengths
  <2> QED
    BY <2>1, <2>2 DEF t
<1>7. EndAt(k) \in Nat /\ EndAt(k) >= LengthAt(k)
  BY <1>5, <1>6 DEF EndAt
<1> QED
  BY <1>1, <1>3, <1>5, <1>6, <1>7

(* A character of a part of a piece that begins at n.                       *)
LEMMA PartOfPiece ==
  ASSUME IsFormat, NEW n \in 1 .. Len(fmt), NEW m \in n .. Len(fmt),
         NEW a \in Nat \ {0}, NEW b \in Nat, b <= m - n + 1, NEW j \in 1 .. b - a + 1
  PROVE  SubSeq(SubSeq(fmt, n, m), a, b)[j] = Char(n + a - 1 + j - 1)
<1> DEFINE t == SubSeq(fmt, n, m)
<1>0. Len(fmt) \in Nat
  BY DEF IsFormat
<1>1. \A x \in 1 .. m - n + 1 : t[x] = Char(n + x - 1)
  BY Piece
<1> HIDE DEF t
<1>2. j \in 1 .. Len(SubSeq(t, a, b))
  <2>1. Len(SubSeq(t, a, b)) = IF a <= b THEN b - a + 1 ELSE 0
    BY PartOf
  <2> QED
    BY <2>1
<1>3. SubSeq(t, a, b)[j] = t[a + j - 1]
  BY <1>2, PartOf
<1>4. a + j - 1 \in 1 .. m - n + 1 /\ n + (a + j - 1) - 1 = n + a - 1 + j - 1
  BY <1>0
<1> QED
  BY <1>1, <1>3, <1>4 DEF t

(* A short sequence is told by its length and elements.                     *)
LEMMA ShortSequence ==
  ASSUME NEW S, NEW p \in Seq(S)
  PROVE  /\ Len(p) = 0 => p = <<>>
         /\ Len(p) = 1 => p = <<p[1]>>
         /\ Len(p) = 2 => p = <<p[1], p[2]>>
<1>1. Len(p) = 0 => p = <<>>
  BY EmptySeq
<1>2. Len(p) = 1 => p = <<p[1]>>
  OBVIOUS
<1>3. Len(p) = 2 => p = <<p[1], p[2]>>
  OBVIOUS
<1> QED
  BY <1>1, <1>2, <1>3

(* What is accepted without a point is a directive of the language, and it  *)
(* lies within the format.                                                  *)
LEMMA ParsedIsDirective ==
  ASSUME IsFormat, i \in Nat \ {0}, AtDirective, get_format(i + 1).ok
  PROVE  LET e == get_format(i + 1).end
         IN  /\ e \in i + 1 .. Len(fmt)
             /\ ~Contains(SubSeq(fmt, i, e), ".") => IsDirective(SubSeq(fmt, i, e))
<1> DEFINE k == i + 1
           e == EndAt(k)
           P == PrecisionAt(k)
           fl == get_flags(k)
           wd == get_width(WidthAt(k))
           t == SubSeq(fmt, i, e)
<1>0. /\ Len(fmt) \in Nat /\ k \in Nat \ {0} /\ k # 0
      /\ i \in 1 .. Len(fmt) /\ Char(i) = "%"
  BY DEF IsFormat, AtDirective, More
<1>1. /\ WidthAt(k) \in Nat /\ WidthAt(k) \in k .. k + 1
      /\ P \in Nat /\ P >= WidthAt(k)
      /\ LengthAt(k) \in Nat /\ LengthAt(k) >= P
      /\ get_length(LengthAt(k)) \in Lengths
      /\ Len(get_length(LengthAt(k))) \in 0 .. 2
      /\ e \in Nat /\ e >= LengthAt(k)
  BY <1>0, PlacesFollow
<1>2. /\ get_format(k).end = e
      /\ Accepted(LengthType[get_length(LengthAt(k))], Char(e))
  BY FormatAt
<1>3. /\ Char(e) \in Specifiers
      /\ <<get_length(LengthAt(k)), Char(e)>> \in Specified
  BY <1>1, <1>2, AcceptedIsSpecified
<1>4. e \in i + 1 .. Len(fmt)
  <2>1. Char(e) # "nul"
    BY <1>3, Letters
  <2>2. e <= Len(fmt)
    BY <2>1 DEF Char
  <2> QED
    BY <1>0, <1>1, <2>2
<1>5. ASSUME ~Contains(t, ".") PROVE IsDirective(t)
  <2>1. /\ Len(t) = e - i + 1 /\ DOMAIN t = 1 .. e - i + 1
        /\ \A j \in 1 .. e - i + 1 : t[j] = Char(i + j - 1)
    <3>1. e \in i .. Len(fmt)
      BY <1>0, <1>4
    <3> QED
      BY <1>0, <3>1, Piece
  <2>2. LengthAt(k) = P
    <3>1. P - i + 1 \in 1 .. e - i + 1 /\ i + (P - i + 1) - 1 = P
      BY <1>0, <1>1
    <3>2. t[P - i + 1] # "."
      BY <1>5, <2>1, <3>1 DEF Contains
    <3>3. Char(P) # "."
      BY <2>1, <3>1, <3>2
    <3>4. get_precision(P) = 0
      BY <3>3 DEF get_precision
    <3> QED
      BY <1>1, <3>4 DEF LengthAt
  <2> DEFINE f == 1 + fl
             w == P - i
             width == SubSeq(t, f + 1, w)
             rest == SubSeq(t, w + 1, Len(t) - 1)
  <2>3. /\ fl \in 0 .. 1 /\ WidthAt(k) = i + f
        /\ f \in 1 .. 2 /\ w \in 1 .. Len(t) - 1 /\ f <= w
        /\ wd = w - f /\ wd \in Nat
    <3>1. fl \in 0 .. 1 /\ WidthAt(k) = k + fl
      BY DEF WidthAt, get_flags
    <3>2. wd \in Nat
      BY <1>1, <1>0, DigitsRead DEF get_width
    <3>3. P = WidthAt(k) + wd
      BY DEF PrecisionAt
    <3>4. Len(t) = e - i + 1 /\ P <= e
      BY <1>1, <2>1
    <3> HIDE DEF fl, wd, P, e, t
    <3>5. WidthAt(k) = i + f /\ w = f + wd
      BY <1>0, <1>1, <3>1, <3>2, <3>3
    <3>6. f \in 1 .. 2 /\ w \in Int
      BY <1>0, <1>1, <3>1
    <3> HIDE DEF f
    <3>7. w \in 1 .. Len(t) - 1
      BY <1>0, <1>1, <3>2, <3>4, <3>5, <3>6
    <3> HIDE DEF w
    <3> QED
      BY <3>1, <3>2, <3>5, <3>6, <3>7
  <2>4. t[1] = "%"
    BY <1>0, <1>4, <2>1
  <2>5. f = 2 => t[2] \in FlagChars
    <3>1. t[2] = Char(k)
      <4>1. 2 \in 1 .. e - i + 1 /\ i + 2 - 1 = k
        BY <1>0, <1>4
      <4> QED
        BY <2>1, <4>1
    <3>2. f = 2 => fl = 1
      BY <2>3
    <3>3. fl = 1 => Char(k) \in FlagChars
      BY DEF get_flags
    <3> QED
      BY <3>1, <3>2, <3>3
  <2>6. /\ Len(width) = w - f /\ DOMAIN width = 1 .. w - f
        /\ \A j \in 1 .. w - f : width[j] = Char(i + f + j - 1)
        /\ \E S : width \in Seq(S)
    <3>1. e \in i .. Len(fmt) /\ f + 1 \in Nat \ {0} /\ w \in Nat /\ w <= e - i + 1
      BY <1>0, <1>4, <2>1, <2>3
    <3>2. /\ Len(width) = IF f + 1 <= w THEN w - (f + 1) + 1 ELSE 0
          /\ DOMAIN width = 1 .. Len(width)
          /\ \E S : width \in Seq(S)
      <4> HIDE DEF f, w, t
      <4> QED
        BY <3>1, PartOf
    <3>3. \A j \in 1 .. w - (f + 1) + 1 : width[j] = Char(i + (f + 1) - 1 + j - 1)
      <4> HIDE DEF f, w, e
      <4> QED
        BY <1>0, <3>1, PartOfPiece
    <3> HIDE DEF f, w, e, width
    <3>4. Len(width) = w - f
      BY <2>3, <3>1, <3>2
    <3>5. i + (f + 1) - 1 = i + f /\ w - (f + 1) + 1 = w - f
      BY <1>0, <2>3, <3>1
    <3> QED
      BY <3>2, <3>3, <3>4, <3>5
  <2>7. width = <<"*">> \/ Range(width) \subseteq DOMAIN DigitValue
    <3>1. CASE Char(WidthAt(k)) = "*"
      <4>1. w - f = 1
        BY <2>3, <3>1 DEF get_width
      <4>2. Len(width) = 1 /\ width[1] = "*"
        <5>1. 1 \in 1 .. w - f /\ i + f + 1 - 1 = i + f
          BY <1>0, <2>3, <4>1
        <5> HIDE DEF f, w, width
        <5> QED
          BY <2>3, <2>6, <3>1, <4>1, <5>1
      <4> HIDE DEF width
      <4>3. width = <<"*">>
        BY <2>6, <4>2, ShortSequence
      <4> QED
        BY <4>3
    <3>2. CASE Char(WidthAt(k)) # "*"
      <4>1. w - f = DigitsFrom(i + f)
        BY <2>3, <3>2 DEF get_width
      <4>2. i + f \in Nat \ {0}
        BY <1>0, <2>3
      <4>3. \A j \in i + f .. i + f + (w - f) - 1 : Char(j) \in Digits
        BY <4>1, <4>2, DigitsRead
      <4> HIDE DEF f, w, width
      <4>4. \A j \in 1 .. w - f : width[j] \in Digits
        <5> SUFFICES ASSUME NEW j \in 1 .. w - f PROVE width[j] \in Digits
          OBVIOUS
        <5>1. i + f + j - 1 \in i + f .. i + f + (w - f) - 1
          BY <1>0, <2>3, <4>2
        <5> QED
          BY <2>6, <4>3, <5>1
      <4> QED
        BY <2>6, <4>4 DEF Range, Digits
    <3> QED
      BY <3>1, <3>2
  <2>8. rest = get_length(P)
    <3>1. /\ Len(rest) = e - P
          /\ \A j \in 1 .. e - P : rest[j] = Char(P + j - 1)
          /\ \E S : rest \in Seq(S)
      <4> DEFINE b == Len(t) - 1
      <4>1. /\ e \in i .. Len(fmt) /\ w + 1 \in Nat \ {0}
            /\ b \in Nat /\ b <= e - i + 1
        BY <1>0, <1>4, <2>1, <2>3
      <4>2. /\ Len(rest) = IF w + 1 <= b THEN b - (w + 1) + 1 ELSE 0
            /\ \E S : rest \in Seq(S)
        <5> HIDE DEF w, t
        <5>1. rest = SubSeq(t, w + 1, b)
          OBVIOUS
        <5> HIDE DEF b, rest
        <5> QED
          BY <4>1, <5>1, PartOf
      <4>3. \A j \in 1 .. b - (w + 1) + 1 : rest[j] = Char(i + (w + 1) - 1 + j - 1)
        <5>1. rest = SubSeq(SubSeq(fmt, i, e), w + 1, b)
          OBVIOUS
        <5> HIDE DEF w, e, b, rest
        <5> QED
          BY <1>0, <4>1, <5>1, PartOfPiece
      <4>4. b - (w + 1) + 1 = e - P /\ e - P >= 0 /\ i + (w + 1) - 1 = P
        <5>1. P <= e /\ b = e - i /\ w = P - i
          BY <1>1, <2>1
        <5> HIDE DEF b, w, e, P
        <5> QED
          BY <1>0, <1>1, <5>1
      <4>5. w + 1 <= b <=> e - P > 0
        <5>1. P <= e /\ b = e - i /\ w = P - i
          BY <1>1, <2>1
        <5> HIDE DEF b, w, e, P
        <5> QED
          BY <1>0, <1>1, <5>1
      <4>6. e \in Int /\ P \in Int
        BY <1>1
      <4> HIDE DEF rest, b, w, e, P
      <4> QED
        BY <4>2, <4>3, <4>4, <4>5, <4>6
    <3>2. /\ get_length(P) \in {<<>>, <<Char(P)>>, <<Char(P), Char(P + 1)>>}
          /\ Len(get_length(P)) = e - P
      <4>1. e = P + Len(get_length(P)) /\ Len(get_length(P)) \in Nat
        BY <1>1, <2>2 DEF EndAt
      <4>2. Len(get_length(P)) = e - P
        <5> HIDE DEF e, P
        <5> QED
          BY <1>1, <4>1
      <4> QED
        BY <1>1, <4>2, LengthRead
    <3> HIDE DEF rest, e, P
    <3>3. CASE get_length(P) = <<>>
      <4>1. Len(rest) = 0
        BY <3>1, <3>2, <3>3
      <4> QED
        BY <3>1, <3>3, <4>1, ShortSequence
    <3>4. CASE get_length(P) = <<Char(P)>>
      <4>1. e - P = 1 /\ P + 1 - 1 = P /\ 1 \in 1 .. 1
        BY <1>1, <3>2, <3>4
      <4>2. Len(rest) = 1 /\ rest[1] = Char(P)
        BY <3>1, <4>1
      <4> QED
        BY <3>1, <3>4, <4>2, ShortSequence
    <3>5. CASE get_length(P) = <<Char(P), Char(P + 1)>>
      <4>1. /\ e - P = 2 /\ P + 1 - 1 = P /\ P + 2 - 1 = P + 1
            /\ 1 \in 1 .. 2 /\ 2 \in 1 .. 2
        BY <1>1, <3>2, <3>5
      <4>2. Len(rest) = 2 /\ rest[1] = Char(P) /\ rest[2] = Char(P + 1)
        BY <3>1, <4>1
      <4> QED
        BY <3>1, <3>5, <4>2, ShortSequence
    <3> QED
      BY <3>2, <3>3, <3>4, <3>5
  <2>9. Last(t) = Char(e)
    <3>1. Len(t) = e - i + 1 /\ e - i + 1 \in 1 .. e - i + 1 /\ i + (e - i + 1) - 1 = e
      <4>1. e \in i + 1 .. Len(fmt) /\ Len(t) = e - i + 1
        BY <1>4, <2>1
      <4> HIDE DEF e, t
      <4> QED
        BY <1>0, <4>1
    <3> QED
      BY <2>1, <3>1 DEF Last
  <2>10. <<rest, Last(t)>> \in Specified
    BY <1>3, <2>2, <2>8, <2>9
  <2> HIDE DEF f, w, t
  <2> QED
    BY <2>3, <2>4, <2>5, <2>7, <2>10 DEF IsDirective
<1> QED
  BY <1>2, <1>4, <1>5

(* What a directive ends with.                                              *)
LEMMA SpecifiedEnds ==
  ASSUME NEW r, NEW c, <<r, c>> \in Specified
  PROVE  r \in Lengths /\ c \in Specifiers
<1>1. r \in Lengths
  BY LengthsAre DEF Specified, Lengths
<1>2. c \in Specifiers
  BY DEF Specified, Specifiers
<1> QED
  BY <1>1, <1>2

(* Where a directive of the language begins, what is found is accepted.     *)
LEMMA DirectiveIsParsed ==
  ASSUME IsFormat, i \in Nat \ {0}, AtDirective,
         NEW n \in i .. Len(fmt), IsDirective(SubSeq(fmt, i, n))
  PROVE  get_format(i + 1).ok
<1> DEFINE k == i + 1
           t == SubSeq(fmt, i, n)
           m == n - i + 1
<1>0. /\ Len(fmt) \in Nat /\ k \in Nat \ {0}
      /\ i \in 1 .. Len(fmt) /\ n \in Nat /\ n >= i /\ m \in Nat \ {0}
  BY DEF IsFormat, AtDirective, More
<1>1. /\ Len(t) = m /\ \A j \in 1 .. m : t[j] = Char(i + j - 1)
  BY <1>0, Piece
<1>2. PICK f \in 1 .. 2, w \in 1 .. Len(t) - 1 :
        /\ t[1] = "%" /\ f <= w
        /\ f = 2 => t[2] \in FlagChars
        /\ SubSeq(t, f + 1, w) = <<"*">> \/ Range(SubSeq(t, f + 1, w)) \subseteq DOMAIN DigitValue
        /\ <<SubSeq(t, w + 1, Len(t) - 1), Last(t)>> \in Specified
  BY DEF IsDirective
<1> DEFINE width == SubSeq(t, f + 1, w)
           rest == SubSeq(t, w + 1, m - 1)
           e == i + w
<1>3. /\ w \in Nat \ {0} /\ f \in Nat \ {0} /\ w <= m - 1 /\ m >= 2
      /\ e \in Nat \ {0} /\ e >= k /\ e <= n /\ n - e = m - 1 - w
  BY <1>0, <1>1, <1>2
<1>4. rest \in Lengths /\ Last(t) \in Specifiers /\ <<rest, Last(t)>> \in Specified
  BY <1>1, <1>2, SpecifiedEnds
<1>5. Char(n) = Last(t)
  <2>1. Last(t) = t[m] /\ m \in 1 .. m /\ i + m - 1 = n
    BY <1>0, <1>1 DEF Last
  <2> HIDE DEF t, m
  <2> QED
    BY <1>1, <2>1
<1>6. Len(rest) = n - e /\ \A j \in 1 .. n - e : Char(e + j - 1) = rest[j]
  <2>1. w + 1 \in Nat \ {0} /\ m - 1 \in Nat /\ m - 1 <= n - i + 1
    BY <1>0, <1>3
  <2>2. Len(rest) = IF w + 1 <= m - 1 THEN m - 1 - (w + 1) + 1 ELSE 0
    <3> DEFINE b == m - 1
    <3> HIDE DEF t, b
    <3> QED
      BY <2>1, PartOf DEF b
  <2>3. Len(rest) = n - e
    <3> HIDE DEF rest, m, e
    <3> QED
      BY <1>0, <1>3, <2>2
  <2>4. \A j \in 1 .. m - 1 - (w + 1) + 1 : rest[j] = Char(i + (w + 1) - 1 + j - 1)
    <3> DEFINE b == m - 1
    <3>1. b \in Nat /\ b <= n - i + 1
      BY <2>1
    <3> HIDE DEF b
    <3>2. \A j \in 1 .. b - (w + 1) + 1 :
            SubSeq(t, w + 1, b)[j] = Char(i + (w + 1) - 1 + j - 1)
      BY <1>0, <2>1, <3>1, PartOfPiece
    <3> QED
      BY <3>2 DEF b
  <2>5. m - 1 - (w + 1) + 1 = n - e /\ i + (w + 1) - 1 = e
    BY <1>0, <1>3
  <2> HIDE DEF rest, m, e
  <2> QED
    BY <2>3, <2>4, <2>5
<1>7. Char(e) \in LengthLetters \cup Specifiers
  <2> HIDE DEF rest, e, t
  <2>1. CASE rest = <<>>
    <3>1. n = e
      BY <1>0, <1>3, <1>6, <2>1
    <3> QED
      BY <1>4, <1>5, <3>1
  <2>2. CASE rest # <<>>
    <3>1. Len(rest) # 0 /\ rest[1] \in LengthLetters
      BY <1>4, <2>2, LengthsAre DEF LengthLetters
    <3>2. 1 \in 1 .. n - e /\ e + 1 - 1 = e
      BY <1>0, <1>3, <1>6, <3>1
    <3> QED
      BY <1>6, <3>1, <3>2
  <2> QED
    BY <2>1, <2>2
<1>8. get_length(e) = rest
  <2>1. e + Len(rest) = n /\ Len(rest) = n - e /\ e \in Nat
    <3> HIDE DEF rest, e
    <3> QED
      BY <1>0, <1>3, <1>6
  <2>2. Char(e + Len(rest)) \in Specifiers /\ \A j \in 1 .. Len(rest) : Char(e + j - 1) = rest[j]
    BY <1>4, <1>5, <1>6, <2>1
  <2> HIDE DEF rest, e
  <2> QED
    BY <1>4, <2>1, <2>2, LengthCounted
<1>9. /\ Len(width) = w - f /\ DOMAIN width = 1 .. w - f
      /\ \A j \in 1 .. w - f : width[j] = Char(i + f + j - 1)
  <2>1. f + 1 \in Nat \ {0} /\ w \in Nat /\ w <= n - i + 1
    BY <1>0, <1>3
  <2>2. /\ Len(width) = IF f + 1 <= w THEN w - (f + 1) + 1 ELSE 0
        /\ DOMAIN width = 1 .. Len(width)
    <3> HIDE DEF t
    <3> QED
      BY <2>1, PartOf
  <2>3. \A j \in 1 .. w - (f + 1) + 1 : width[j] = Char(i + (f + 1) - 1 + j - 1)
    BY <1>0, <2>1, PartOfPiece
  <2>4. w - (f + 1) + 1 = w - f /\ i + (f + 1) - 1 = i + f /\ f <= w
    BY <1>0, <1>2, <1>3
  <2> HIDE DEF width
  <2>5. Len(width) = w - f
    BY <1>3, <2>1, <2>2, <2>4
  <2> QED
    BY <2>2, <2>3, <2>4, <2>5
<1>10. /\ WidthAt(k) = k \/ (Char(k) \in FlagChars /\ WidthAt(k) = k + 1)
       /\ Char(k) \in FlagChars => WidthAt(k) = k + 1
  BY <1>0 DEF WidthAt, get_flags
<1>11. f = 2 => Char(k) \in FlagChars
  <2>1. 2 \in 1 .. m /\ i + 2 - 1 = k
    BY <1>0, <1>3
  <2>2. t[2] = Char(k)
    BY <1>1, <2>1
  <2> QED
    BY <1>2, <2>2
<1>12. PrecisionAt(k) = e
  <2>1. CASE width = <<"*">>
    <3>1. Len(width) = 1 /\ width[1] = "*"
      <4> HIDE DEF width
      <4>1. Len(<<"*">>) = 1 /\ <<"*">>[1] = "*"
        OBVIOUS
      <4> QED
        BY <2>1, <4>1
    <3>2. w = f + 1 /\ 1 \in 1 .. w - f /\ i + f + 1 - 1 = i + f
      <4>1. w - f = 1 /\ w \in Nat /\ f \in Nat /\ i \in Nat
        BY <1>0, <1>3, <1>9, <3>1, Zenon
      <4> HIDE DEF width
      <4>2. w = f + 1
        BY <4>1
      <4>3. 1 \in 1 .. w - f
        BY <4>1
      <4>4. i + f + 1 - 1 = i + f
        BY <4>1
      <4> QED
        BY <4>2, <4>3, <4>4
    <3>3. Char(i + f) = "*"
      <4> HIDE DEF width
      <4> QED
        BY <1>9, <3>1, <3>2
    <3>4. WidthAt(k) = i + f
      <4>1. CASE f = 1
        <5>1. Char(k) \notin FlagChars
          BY <3>3, <4>1, Letters
        <5> QED
          BY <1>10, <4>1, <5>1
      <4>2. CASE f = 2
        BY <1>0, <1>10, <1>11, <4>2
      <4> QED
        BY <1>2, <4>1, <4>2
    <3> QED
      BY <1>0, <1>3, <3>2, <3>3, <3>4 DEF PrecisionAt, get_width
  <2>2. CASE Range(width) \subseteq DOMAIN DigitValue
    <3> DEFINE W == WidthAt(k)
    <3>1. \A j \in i + f .. e - 1 : Char(j) \in Digits
      <4> SUFFICES ASSUME NEW j \in i + f .. e - 1 PROVE Char(j) \in Digits
        OBVIOUS
      <4>1. j - i - f + 1 \in 1 .. w - f /\ i + f + (j - i - f + 1) - 1 = j
        BY <1>0, <1>3
      <4> HIDE DEF width
      <4>2. width[j - i - f + 1] \in Range(width)
        BY <1>9, <4>1 DEF Range
      <4> QED
        BY <1>9, <2>2, <4>1, <4>2 DEF Digits
    <3>2. W \in Nat \ {0} /\ W >= i + f /\ W <= e
      <4>1. CASE f = 2
        BY <1>0, <1>2, <1>3, <1>10, <1>11, <4>1
      <4>2. CASE f = 1 /\ W = k
        BY <1>0, <1>3, <4>2
      <4>3. CASE f = 1 /\ Char(k) \in FlagChars /\ W = k + 1
        <5>1. e # k
          BY <1>7, <4>3, Letters
        <5> HIDE DEF W
        <5> QED
          BY <1>0, <1>3, <4>3, <5>1
      <4> QED
        BY <1>2, <1>10, <4>1, <4>2, <4>3
    <3> HIDE DEF W, e
    <3>3. e - W \in Nat /\ W + (e - W) = e /\ \A j \in W .. W + (e - W) - 1 : j \in i + f .. e - 1
      BY <1>0, <1>3, <3>2
    <3>4. Char(e) \notin Digits
      BY <1>7, Letters
    <3>5. DigitsFrom(W) = e - W
      BY <3>1, <3>2, <3>3, <3>4, DigitsCounted
    <3>6. Char(W) # "*"
      <4>1. CASE W = e
        BY <1>7, <4>1, Letters
      <4>2. CASE W # e
        <5>1. W \in i + f .. e - 1
          BY <1>0, <1>3, <3>2, <4>2
        <5> QED
          BY <3>1, <5>1, Letters
      <4> QED
        BY <4>1, <4>2
    <3>7. PrecisionAt(k) = W + (e - W)
      BY <3>5, <3>6 DEF PrecisionAt, get_width, W
    <3> QED
      BY <3>3, <3>7
  <2> QED
    BY <1>2, <2>1, <2>2
<1>13. LengthAt(k) = e
  <2>1. Char(e) # "."
    BY <1>7, Letters
  <2> QED
    BY <1>3, <1>12, <2>1 DEF LengthAt, get_precision
<1>14. EndAt(k) = n
  <2> HIDE DEF rest, e
  <2> QED
    BY <1>0, <1>3, <1>6, <1>8, <1>13 DEF EndAt
<1>15. Accepted(LengthType[get_length(LengthAt(k))], Char(EndAt(k)))
  BY <1>4, <1>5, <1>8, <1>13, <1>14, AcceptedIsSpecified
<1> QED
  BY <1>15, FormatAt

-----------------------------------------------------------------------------
(* The turns of the loop *)

Texts == [k \in DOMAIN out |-> out[k].text]

\* Whatever a text may be made of: the 0 behind the format is passed with a
\* backslash at its end.
Characters == {fmt[k] : k \in Nat}

(* Each turn passed a piece of the format, and the next begins where they   *)
(* end.                                                                     *)
InPieces ==
  /\ i \in Nat \ {0}
  /\ out \in Seq({out[k] : k \in DOMAIN out})
  /\ Texts \in Seq(Seq(Characters))
  /\ FlattenSeq(Texts) = SubSeq(fmt, 1, i - 1)

(* What took an argument is a directive, unless there was a point in it.    *)
TakenAreDirectives ==
  \A k \in DOMAIN out :
    out[k].shown \in {"nothing", "number", "string"} /\ ~Contains(out[k].text, ".") =>
      IsDirective(out[k].text)

(* The loop stops where no directive begins.                                *)
StoppedRightly ==
  pc = "assert" => \A n \in i .. Len(fmt) : ~IsDirective(SubSeq(fmt, i, n))

FormatInvariant == IsFormat /\ InPieces /\ TakenAreDirectives /\ StoppedRightly

(* Two pieces one behind the other.                                         *)
LEMMA PiecesJoin ==
  ASSUME NEW a \in Nat \ {0}, NEW b \in Nat, a <= b
  PROVE  /\ SubSeq(fmt, 1, a - 1) \in Seq(Characters)
         /\ SubSeq(fmt, a, b) \in Seq(Characters)
         /\ SubSeq(fmt, 1, a - 1) \o SubSeq(fmt, a, b) = SubSeq(fmt, 1, b)
<1> DEFINE p == SubSeq(fmt, 1, a - 1)
           q == SubSeq(fmt, a, b)
           r == SubSeq(fmt, 1, b)
           c == a - 1
<1>0. c \in Nat /\ 1 \in Nat \ {0}
  OBVIOUS
<1>1. \A k \in Nat : fmt[k] \in Characters
  BY DEF Characters
<1>2. /\ p \in Seq(Characters) /\ Len(p) = a - 1
      /\ \A j \in 1 .. a - 1 : p[j] = fmt[j]
  <2>1. \A k \in 1 .. c : fmt[k] \in Characters
    BY <1>0, <1>1
  <2> HIDE DEF c
  <2>2. /\ SubSeq(fmt, 1, c) \in Seq(Characters)
        /\ Len(SubSeq(fmt, 1, c)) = IF 1 <= c THEN c - 1 + 1 ELSE 0
        /\ \A j \in 1 .. c - 1 + 1 : SubSeq(fmt, 1, c)[j] = fmt[1 + j - 1]
    BY <1>0, <2>1, SubSeqProperties
  <2>3. \A j \in 1 .. c : SubSeq(fmt, 1, c)[j] = fmt[j]
    BY <1>0, <2>2
  <2> QED
    BY <1>0, <2>2, <2>3 DEF c
<1>3. /\ q \in Seq(Characters) /\ Len(q) = b - a + 1
      /\ \A j \in 1 .. b - a + 1 : q[j] = fmt[a + j - 1]
  <2>1. \A k \in a .. b : fmt[k] \in Characters
    BY <1>1
  <2> QED
    BY <2>1, SubSeqProperties
<1>4. /\ r \in Seq(Characters) /\ Len(r) = b
      /\ \A j \in 1 .. b : r[j] = fmt[j]
  <2>1. \A k \in 1 .. b : fmt[k] \in Characters
    BY <1>1
  <2>2. /\ r \in Seq(Characters) /\ Len(r) = IF 1 <= b THEN b - 1 + 1 ELSE 0
        /\ \A j \in 1 .. b - 1 + 1 : r[j] = fmt[1 + j - 1]
    BY <1>0, <2>1, SubSeqProperties
  <2> HIDE DEF r
  <2>3. \A j \in 1 .. b : r[j] = fmt[j]
    BY <2>2
  <2> QED
    BY <2>2, <2>3
<1> HIDE DEF p, q, r
<1>5. /\ p \o q \in Seq(Characters) /\ Len(p \o q) = Len(p) + Len(q)
      /\ \A j \in 1 .. Len(p) + Len(q) :
           (p \o q)[j] = IF j <= Len(p) THEN p[j] ELSE q[j - Len(p)]
  BY <1>2, <1>3, ConcatProperties
<1>6. Len(p \o q) = Len(r)
  BY <1>2, <1>3, <1>4, <1>5
<1>7. ASSUME NEW j \in 1 .. Len(r) PROVE (p \o q)[j] = r[j]
  <2>1. j \in 1 .. b /\ j \in 1 .. Len(p) + Len(q)
    BY <1>2, <1>3, <1>4
  <2>2. CASE j <= Len(p)
    <3>1. j \in 1 .. a - 1
      BY <1>2, <2>1, <2>2
    <3> QED
      BY <1>2, <1>4, <1>5, <2>1, <2>2, <3>1
  <2>3. CASE ~ j <= Len(p)
    <3>1. j - Len(p) \in 1 .. b - a + 1 /\ a + (j - Len(p)) - 1 = j
      BY <1>2, <2>1, <2>3
    <3>2. q[j - Len(p)] = fmt[j]
      BY <1>3, <3>1
    <3> QED
      BY <1>4, <1>5, <2>1, <2>3, <3>2
  <2> QED
    BY <2>2, <2>3
<1>8. p \o q = r
  BY <1>4, <1>5, <1>6, <1>7, SeqEqual
<1> QED
  BY <1>2, <1>3, <1>8 DEF p, q, r

(* A turn that passes the text up to last.                                  *)
LEMMA PiecePassed ==
  ASSUME InPieces, NEW last \in Nat, last >= i, NEW e, e.text = SubSeq(fmt, i, last),
         out' = Append(out, e), i' = last + 1, fmt' = fmt
  PROVE  /\ InPieces'
         /\ DOMAIN out' = 1 .. Len(out) + 1 /\ DOMAIN out = 1 .. Len(out)
         /\ Len(out) \in Nat
         /\ \A k \in 1 .. Len(out) : out'[k] = out[k]
         /\ out'[Len(out) + 1] = e
<1> DEFINE n == Len(out)
<1>1. /\ out' \in Seq({out'[k] : k \in DOMAIN out'})
      /\ n \in Nat /\ DOMAIN out = 1 .. n
      /\ DOMAIN out' = 1 .. n + 1
      /\ \A k \in 1 .. n : out'[k] = out[k]
      /\ out'[n + 1] = e
  <2> DEFINE r == Append(out, e)
  <2>1. out \in Seq({out[k] : k \in DOMAIN out})
    BY DEF InPieces
  <2>2. r \in Seq({r[k] : k \in DOMAIN r})
    BY <2>1, AppendAny
  <2>4. n \in Nat /\ DOMAIN out = 1 .. n
    BY <2>1, AppendAny, Zenon
  <2>5. DOMAIN r = 1 .. n + 1
    BY <2>1, AppendAny, Zenon
  <2>6. \A k \in 1 .. n : r[k] = out[k]
    BY <2>1, AppendAny, Zenon
  <2>7. r[n + 1] = e
    BY <2>1, AppendAny, Zenon
  <2>3. out' = r
    OBVIOUS
  <2> HIDE DEF r
  <2> QED
    BY <2>2, <2>3, <2>4, <2>5, <2>6, <2>7
<1>2. i \in Nat \ {0} /\ i' \in Nat \ {0} /\ i' - 1 = last
  BY DEF InPieces
<1>3. /\ SubSeq(fmt, i, last) \in Seq(Characters)
      /\ SubSeq(fmt, 1, i - 1) \o SubSeq(fmt, i, last) = SubSeq(fmt, 1, last)
  BY <1>2, PiecesJoin
<1> DEFINE x == e.text
           T == Texts'
<1>4. Characters' = Characters
  BY DEF Characters
<1>5. Texts \in Seq(Seq(Characters)) /\ FlattenSeq(Texts) = SubSeq(fmt, 1, i - 1)
  BY DEF InPieces
<1>6. x \in Seq(Characters)
  BY <1>3
<1>7. /\ T = [k \in 1 .. n + 1 |-> out'[k].text]
      /\ Texts = [k \in 1 .. n |-> out[k].text]
  BY <1>1 DEF Texts
<1>8. Len(Texts) = n
  <2>1. DOMAIN Texts = 1 .. Len(Texts) /\ Len(Texts) \in Nat /\ DOMAIN Texts = 1 .. n
    BY <1>5, <1>7, LenProperties
  <2> DEFINE l == Len(Texts)
  <2>2. 1 .. l = 1 .. n /\ l \in Nat
    BY <2>1, Zenon
  <2> HIDE DEF l, n
  <2>3. l = n
    BY <1>1, <2>2
  <2> QED
    BY <2>3 DEF l
<1>9. T = Append(Texts, x)
  <2>1. /\ Append(Texts, x) \in Seq(Seq(Characters)) /\ Len(Append(Texts, x)) = n + 1
        /\ \A k \in 1 .. n : Append(Texts, x)[k] = Texts[k]
        /\ Append(Texts, x)[n + 1] = x
    BY <1>5, <1>6, <1>8, AppendProperties
  <2>2. DOMAIN Append(Texts, x) = 1 .. n + 1
    BY <2>1, LenProperties
  <2>3. ASSUME NEW k \in 1 .. n + 1 PROVE T[k] = Append(Texts, x)[k]
    <3>1. T[k] = out'[k].text
      BY <1>7
    <3>2. CASE k = n + 1
      BY <1>1, <2>1, <3>1, <3>2
    <3>3. CASE k # n + 1
      <4>1. k \in 1 .. n
        BY <1>1, <3>3
      <4>2. Texts[k] = out[k].text
        BY <1>7, <4>1
      <4> QED
        BY <1>1, <2>1, <3>1, <4>1, <4>2
    <3> QED
      BY <3>2, <3>3
  <2>4. DOMAIN T = 1 .. n + 1
    BY <1>7
  <2>5. Append(Texts, x) = [k \in 1 .. n + 1 |-> Append(Texts, x)[k]]
    BY <2>1, <2>2
  <2>6. T = [k \in 1 .. n + 1 |-> T[k]]
    BY <1>7
  <2> HIDE DEF T, x, n
  <2> QED
    BY <2>3, <2>5, <2>6
<1>10. T \in Seq(Seq(Characters))
  <2> HIDE DEF T, x
  <2> QED
    BY <1>5, <1>6, <1>9, AppendProperties
<1>11. FlattenSeq(T) = SubSeq(fmt, 1, last)
  <2>1. FlattenSeq(Append(Texts, x)) = FlattenSeq(Texts) \o x
    <3> HIDE DEF x
    <3> QED
      BY <1>5, <1>6, FlattenAppend
  <2> HIDE DEF T
  <2> QED
    BY <1>3, <1>5, <1>9, <2>1
<1>12. InPieces'
  BY <1>1, <1>2, <1>4, <1>10, <1>11 DEF InPieces
<1> QED
  BY <1>1, <1>12

(* A turn that passes a directive, or shows a character.                    *)
LEMMA TurnPassed ==
  ASSUME InPieces, TakenAreDirectives,
         NEW last \in Nat, last >= i, NEW e, e.text = SubSeq(fmt, i, last),
         out' = Append(out, e), i' = last + 1, fmt' = fmt,
         e.shown \in {"nothing", "number", "string"} /\ ~Contains(e.text, ".") =>
           IsDirective(e.text)
  PROVE  InPieces' /\ TakenAreDirectives'
<1> DEFINE n == Len(out)
           Fits(x) == x.shown \in {"nothing", "number", "string"} /\ ~Contains(x.text, ".") =>
                        IsDirective(x.text)
<1>1. InPieces'
  BY PiecePassed
<1>2. /\ n \in Nat /\ DOMAIN out = 1 .. n /\ DOMAIN out' = 1 .. n + 1
      /\ \A k \in 1 .. n : out'[k] = out[k]
      /\ out'[n + 1] = e
  BY PiecePassed
<1>3. Fits(e) /\ \A k \in 1 .. n : Fits(out[k])
  BY <1>2 DEF TakenAreDirectives
<1> HIDE DEF Fits, n
<1>4. \A k \in 1 .. n + 1 : Fits(out'[k])
  <2> SUFFICES ASSUME NEW k \in 1 .. n + 1 PROVE Fits(out'[k])
    OBVIOUS
  <2>1. CASE k = n + 1
    BY <1>2, <1>3, <2>1
  <2>2. CASE k # n + 1
    <3>1. k \in 1 .. n
      BY <1>2, <2>2
    <3> QED
      BY <1>2, <1>3, <3>1
  <2> QED
    BY <2>1, <2>2
<1>5. TakenAreDirectives'
  BY <1>2, <1>4 DEF TakenAreDirectives, Fits
<1> QED
  BY <1>1, <1>5

(* The call begins before the first piece.                                  *)
LEMMA FormatInit == Init => FormatInvariant
<1> SUFFICES ASSUME Init PROVE FormatInvariant
  OBVIOUS
<1>1. IsFormat
  <2>1. PICK c \in Calls : fmt = c.fmt
    BY DEF Init
  <2>2. /\ Len(c.fmt) \in Nat /\ DOMAIN c.fmt = 1 .. Len(c.fmt)
        /\ \A k \in DOMAIN c.fmt : c.fmt[k] \notin {"nul", "nothing", "number", "string"}
    BY PrintfAssumption
  <2> QED
    BY <2>1, <2>2 DEF IsFormat
<1>2. out = <<>> /\ i = 1 /\ pc = "run"
  BY DEF Init
<1>3. DOMAIN out = {} /\ Texts = <<>>
  <2>1. DOMAIN out = {}
    BY <1>2
  <2> QED
    BY <2>1 DEF Texts
<1>4. out \in Seq({out[k] : k \in DOMAIN out})
  BY <1>2
<1>5. Texts \in Seq(Seq(Characters))
  BY <1>3
<1>6. FlattenSeq(Texts) = SubSeq(fmt, 1, i - 1)
  <2>1. FlattenSeq(<<>>) = <<>>
    BY DEF FlattenSeq
  <2>2. SubSeq(fmt, 1, 0) = <<>>
    <3>1. /\ Len(SubSeq(fmt, 1, 0)) = 0
          /\ SubSeq(fmt, 1, 0) \in Seq({fmt[k] : k \in 1 .. 0})
      BY PartOf
    <3> QED
      BY <3>1, EmptySeq
  <2>3. i - 1 = 0
    BY <1>2
  <2>4. FlattenSeq(Texts) = <<>>
    BY <1>3, <2>1
  <2> QED
    BY <2>2, <2>3, <2>4
<1>7. InPieces
  BY <1>2, <1>4, <1>5, <1>6 DEF InPieces
<1>8. TakenAreDirectives
  BY <1>3 DEF TakenAreDirectives
<1>9. StoppedRightly
  BY <1>2 DEF StoppedRightly
<1> QED
  BY <1>1, <1>7, <1>8, <1>9 DEF FormatInvariant

(* A character shown is none of the words for what a directive does.        *)
LEMMA CharacterShown ==
  ASSUME IsFormat, NEW last \in Nat \ {0}
  PROVE  Char(last) \notin {"nothing", "number", "string"}
<1>1. /\ Len(fmt) \in Nat
      /\ \A k \in 1 .. Len(fmt) : fmt[k] \notin {"nul", "nothing", "number", "string"}
  BY DEF IsFormat
<1>2. CASE last <= Len(fmt)
  <2>1. last \in 1 .. Len(fmt)
    BY <1>1, <1>2
  <2> QED
    BY <1>1, <1>2, <2>1 DEF Char
<1>3. CASE ~ last <= Len(fmt)
  BY <1>3 DEF Char
<1> QED
  BY <1>2, <1>3

(* A character, or two that stand for one.                                  *)
LEMMA PrintCharTurn ==
  ASSUME FormatInvariant, PrintChar
  PROVE  FormatInvariant'
<1> DEFINE two == Char(i) = "\\" \/ (Char(i) = "%" /\ Char(i + 1) = "%")
           last == IF two THEN i + 1 ELSE i
           e == [Nothing EXCEPT !.text = SubSeq(fmt, i, last), !.shown = Char(last)]
<1>1. /\ out' = Append(out, e) /\ i' = last + 1
      /\ fmt' = fmt /\ pc' = pc /\ pc = "run"
  BY DEF PrintChar, More
<1>2. i \in Nat \ {0} /\ last \in Nat \ {0} /\ last >= i
  BY DEF FormatInvariant, InPieces
<1> HIDE DEF two, last
<1>3. e.text = SubSeq(fmt, i, last) /\ e.shown = Char(last)
  BY DEF Nothing
<1>4. Char(last) \notin {"nothing", "number", "string"}
  BY <1>2, CharacterShown DEF FormatInvariant
<1> HIDE DEF e
<1>5. InPieces' /\ TakenAreDirectives'
  BY <1>1, <1>2, <1>3, <1>4, TurnPassed DEF FormatInvariant
<1>6. IsFormat'
  BY <1>1 DEF FormatInvariant, IsFormat
<1>7. StoppedRightly'
  BY <1>1 DEF StoppedRightly
<1> QED
  BY <1>5, <1>6, <1>7 DEF FormatInvariant

(* A directive passes the text get_format found.                            *)
LEMMA DirectiveTurn ==
  ASSUME FormatInvariant, Directive
  PROVE  FormatInvariant'
<1> DEFINE f == get_format(i + 1)
           v == Arg(ValueArg(f))
           width == IF f.star THEN Signed(Arg(next_arg), IntDigits) ELSE f.width
           c == Converted(f, width, v)
           last == f.end
           e == [c EXCEPT !.text = SubSeq(fmt, i, last), !.width = width, !.arg = v]
<1>1. /\ out' = Append(out, e) /\ i' = last + 1
      /\ fmt' = fmt /\ pc' = pc /\ pc = "run"
      /\ AtDirective /\ f.ok
  BY DEF Directive, AtDirective, More
<1>2. DOMAIN c = DOMAIN Nothing
  <2> HIDE DEF f, v, width
  <2> QED
    BY DEF Converted
<1>3. "text" \in DOMAIN Nothing
  BY DEF Nothing
<1> HIDE DEF c, width, v
<1>4. e.text = SubSeq(fmt, i, last)
  BY <1>2, <1>3
<1>5. i \in Nat \ {0} /\ IsFormat
  BY DEF FormatInvariant, InPieces
<1>6. /\ last \in i + 1 .. Len(fmt)
      /\ ~Contains(SubSeq(fmt, i, last), ".") => IsDirective(SubSeq(fmt, i, last))
  BY <1>1, <1>5, ParsedIsDirective
<1> HIDE DEF f, last, e
<1>7. last \in Nat /\ last >= i
  BY <1>5, <1>6 DEF IsFormat
<1>8. InPieces' /\ TakenAreDirectives'
  BY <1>1, <1>4, <1>6, <1>7, TurnPassed DEF FormatInvariant
<1>9. IsFormat'
  BY <1>1 DEF FormatInvariant, IsFormat
<1>10. StoppedRightly'
  BY <1>1 DEF StoppedRightly
<1> QED
  BY <1>8, <1>9, <1>10 DEF FormatInvariant

(* No directive begins where the specifier found is not accepted.           *)
LEMMA AssertTurn ==
  ASSUME FormatInvariant, AssertFails
  PROVE  FormatInvariant'
<1>1. UNCHANGED <<fmt, out, i>> /\ AtDirective /\ ~get_format(i + 1).ok
  BY DEF AssertFails
<1>2. IsFormat /\ i \in Nat \ {0} /\ InPieces /\ TakenAreDirectives
  BY DEF FormatInvariant, InPieces
<1>3. \A n \in i .. Len(fmt) : ~IsDirective(SubSeq(fmt, i, n))
  BY <1>1, <1>2, DirectiveIsParsed
<1>4. StoppedRightly'
  BY <1>1, <1>3 DEF StoppedRightly
<1>5. IsFormat'
  BY <1>1, <1>2 DEF IsFormat
<1>6. InPieces'
  BY <1>1, <1>2 DEF InPieces, Texts, Characters
<1>7. TakenAreDirectives'
  BY <1>1, <1>2 DEF TakenAreDirectives
<1> QED
  BY <1>4, <1>5, <1>6, <1>7 DEF FormatInvariant

(* The end of the call, and no turn at all.                                 *)
LEMMA FormatRest ==
  ASSUME FormatInvariant, Return \/ UNCHANGED vars
  PROVE  FormatInvariant'
<1>1. UNCHANGED <<fmt, out, i>> /\ (pc' = "done" \/ pc' = pc)
  BY DEF Return, vars
<1>2. IsFormat' /\ InPieces' /\ TakenAreDirectives'
  <2>1. IsFormat'
    BY <1>1 DEF FormatInvariant, IsFormat
  <2>2. InPieces'
    BY <1>1 DEF FormatInvariant, InPieces, Texts, Characters
  <2>3. TakenAreDirectives'
    BY <1>1 DEF FormatInvariant, TakenAreDirectives
  <2> QED
    BY <2>1, <2>2, <2>3
<1>3. StoppedRightly'
  BY <1>1 DEF FormatInvariant, StoppedRightly
<1> QED
  BY <1>2, <1>3 DEF FormatInvariant

(* What terminal_printf passes is the format, piece by piece; what took an   *)
(* argument is a directive of the language unless there was a point in it;  *)
(* and it stops in an assertion only where no directive begins: for every    *)
(* format and every list of arguments.                                      *)
THEOREM FormatsCorrect == Spec => []FormatUnderstood
<1>1. FormatInvariant /\ [Next]_vars => FormatInvariant'
  BY PrintCharTurn, DirectiveTurn, AssertTurn, FormatRest DEF Next
<1>2. FormatInvariant => FormatUnderstood
  <2> SUFFICES ASSUME FormatInvariant PROVE FormatUnderstood
    OBVIOUS
  <2>1. FlattenSeq([k \in DOMAIN out |-> out[k].text]) = SubSeq(fmt, 1, i - 1)
    BY DEF FormatInvariant, InPieces, Texts
  <2>2. \A k \in DOMAIN out :
          out[k].shown \in {"nothing", "number", "string"} /\ ~Contains(out[k].text, ".") =>
            k \in Taken
    BY DEF FormatInvariant, TakenAreDirectives, Taken
  <2>3. pc = "assert" => \A n \in i .. Len(fmt) : ~IsDirective(SubSeq(fmt, i, n))
    BY DEF FormatInvariant, StoppedRightly
  <2> QED
    BY <2>1, <2>2, <2>3 DEF FormatUnderstood
<1> QED
  BY FormatInit, <1>1, <1>2, PTL DEF Spec

-----------------------------------------------------------------------------
(* Powers of 16 *)

(* The powers up to the size of a word are positive.                        *)
LEMMA Powers ==
  ASSUME NEW m \in 0 .. WordDigits
  PROVE  16 ^ m \in Nat \ {0}
<1> DEFINE B == {n \in 0 .. WordDigits : 16 ^ n \notin Nat \ {0}}
<1>0. WordDigits \in Nat
  BY PrintfAssumption
<1>1. SUFFICES ASSUME B # {} PROVE FALSE
  OBVIOUS
<1>2. PICK n \in B : \A x \in B : n <= x
  <2>1. B \subseteq Nat
    BY <1>0
  <2> HIDE DEF B
  <2> QED
    BY <1>1, <2>1, LeastNumber
<1>3. n \in 0 .. WordDigits /\ 16 ^ n \notin Nat \ {0}
  OBVIOUS
<1>4. CASE n = 0
  <2>1. 16 ^ 0 = 1
    OBVIOUS
  <2> QED
    BY <1>3, <1>4, <2>1
<1>5. CASE n # 0
  <2> DEFINE y == n - 1
  <2>1. y \in 0 .. WordDigits - 1 /\ y \in 0 .. WordDigits /\ ~ n <= y /\ y + 1 = n
    BY <1>0, <1>3, <1>5
  <2> HIDE DEF y
  <2>2. y \notin B
    BY <1>2, <2>1
  <2>3. 16 ^ y \in Nat \ {0}
    BY <2>1, <2>2
  <2>4. 16 ^ (y + 1) = 16 * 16 ^ y
    BY <2>1, PowersAssumption
  <2>5. 16 ^ (y + 1) \in Nat \ {0}
    BY <2>3, <2>4
  <2> QED
    BY <1>3, <2>1, <2>5
<1> QED
  BY <1>4, <1>5

(* The larger ones are multiples of the smaller ones.                       *)
LEMMA PowerDivides ==
  ASSUME NEW m \in 0 .. WordDigits
  PROVE  \E q \in Nat \ {0} : 16 ^ WordDigits = q * 16 ^ m
<1> DEFINE Divides(n) == \E q \in Nat \ {0} : 16 ^ WordDigits = q * 16 ^ n
           B == {d \in 0 .. WordDigits : ~Divides(WordDigits - d)}
<1>0. WordDigits \in Nat
  BY PrintfAssumption
<1>1. CASE B = {}
  <2>1. WordDigits - m \in 0 .. WordDigits /\ WordDigits - (WordDigits - m) = m
    BY <1>0
  <2>2. Divides(WordDigits - (WordDigits - m))
    BY <1>1, <2>1
  <2> HIDE DEF Divides
  <2>3. Divides(m)
    BY <2>1, <2>2
  <2> QED
    BY <2>3 DEF Divides
<1>2. CASE B # {}
  <2>1. PICK d \in B : \A x \in B : d <= x
    <3>1. B \subseteq Nat
      BY <1>0
    <3> HIDE DEF B
    <3> QED
      BY <1>2, <3>1, LeastNumber
  <2>2. d \in 0 .. WordDigits /\ ~Divides(WordDigits - d)
    OBVIOUS
  <2>3. CASE d = 0
    <3>1. WordDigits - d = WordDigits /\ 16 ^ WordDigits \in Nat
      BY <1>0, <2>3, Powers
    <3>2. 16 ^ WordDigits = 1 * 16 ^ WordDigits
      BY <3>1
    <3> QED
      BY <2>2, <3>1, <3>2
  <2>4. CASE d # 0
    <3> DEFINE n == WordDigits - d
    <3>1. /\ d - 1 \in 0 .. WordDigits /\ ~ d <= d - 1
          /\ n \in 0 .. WordDigits - 1 /\ n \in 0 .. WordDigits
          /\ WordDigits - (d - 1) = n + 1
      BY <1>0, <2>2, <2>4
    <3>2. Divides(WordDigits - (d - 1))
      <4>1. d - 1 \notin B
        <5> HIDE DEF B
        <5> QED
          BY <2>1, <3>1
      <4> HIDE DEF Divides
      <4> QED
        BY <3>1, <4>1
    <3> HIDE DEF n
    <3>3. PICK q \in Nat \ {0} : 16 ^ WordDigits = q * 16 ^ (n + 1)
      BY <3>1, <3>2
    <3>4. 16 ^ (n + 1) = 16 * 16 ^ n
      BY <3>1, PowersAssumption
    <3> DEFINE p == 16 ^ n
    <3>5. p \in Nat \ {0}
      BY <3>1, Powers
    <3>6. 16 ^ WordDigits = q * (16 * p)
      BY <3>3, <3>4
    <3> HIDE DEF p
    <3>7. q * (16 * p) = (16 * q) * p /\ 16 * q \in Nat \ {0}
      BY <3>5
    <3>8. 16 ^ WordDigits = (16 * q) * 16 ^ n
      BY <3>6, <3>7 DEF p
    <3>9. Divides(n)
      BY <3>7, <3>8
    <3> HIDE DEF Divides
    <3> QED
      BY <2>2, <3>9 DEF n
  <2> QED
    BY <2>3, <2>4
<1> QED
  BY <1>1, <1>2

(* A quotient and its remainder are the only ones of their kind.            *)
LEMMA DivUnique ==
  ASSUME NEW n \in Nat \ {0}, NEW q \in Int, NEW r \in 0 .. n - 1
  PROVE  (n * q + r) \div n = q /\ (n * q + r) % n = r
<1> DEFINE x == n * q + r
           k == x \div n
           m == x % n
<1>1. x \in Int
  OBVIOUS
<1>2. k \in Int /\ m \in 0 .. n - 1 /\ x = n * k + m
  BY <1>1, SMT
<1>3. ~ (k < q)
  <2>1. SUFFICES ASSUME k + 1 <= q PROVE FALSE
    BY <1>2
  <2>2. n * (k + 1) <= n * q
    BY <1>2, <2>1, SMT
  <2> QED
    BY <1>2, <2>2
<1>4. ~ (q < k)
  <2>1. SUFFICES ASSUME q + 1 <= k PROVE FALSE
    BY <1>2
  <2>2. n * (q + 1) <= n * k
    BY <1>2, <2>1, SMT
  <2> QED
    BY <1>2, <2>2
<1>5. k = q
  BY <1>2, <1>3, <1>4
<1> QED
  BY <1>2, <1>5

(* One more digit.                                                          *)
LEMMA DigitOnTop ==
  ASSUME NEW a \in Nat, NEW p \in Nat \ {0}
  PROVE  /\ a % (16 * p) = ((a \div p) % 16) * p + (a % p)
         /\ a \div p \in Nat /\ (a \div p) % 16 \in 0 .. 15 /\ a % p \in 0 .. p - 1
<1> DEFINE q == a \div p
           r == a % p
           s == q \div 16
           d == q % 16
           n == 16 * p
           t == d * p + r
<1>1. q \in Nat /\ r \in 0 .. p - 1 /\ a = p * q + r
  OBVIOUS
<1> HIDE DEF q, r
<1>2. s \in Nat /\ d \in 0 .. 15 /\ q = 16 * s + d
  BY <1>1
<1> HIDE DEF s, d
<1>3. n \in Nat \ {0}
  OBVIOUS
<1>4. t \in 0 .. n - 1
  <2>1. \A x \in 0 .. 15 : x * p >= 0 /\ x * p <= 15 * p /\ x * p \in Int
    OBVIOUS
  <2>2. d * p >= 0 /\ d * p <= 15 * p /\ d * p \in Int
    BY <1>2, <2>1
  <2> QED
    BY <1>1, <2>2
<1>5. a = n * s + t
  <2>1. a = p * (16 * s + d) + r
    BY <1>1, <1>2
  <2>2. p * (16 * s + d) = (16 * p) * s + d * p
    BY <1>2
  <2>3. (16 * p) * s \in Int /\ d * p \in Int
    BY <1>2
  <2> QED
    BY <1>1, <2>1, <2>2, <2>3
<1> HIDE DEF n, t
<1>6. a % n = t
  BY <1>2, <1>3, <1>4, <1>5, DivUnique
<1>7. a % (16 * p) = d * p + r
  BY <1>6 DEF n, t
<1>8. (a \div p) % 16 = d /\ a % p = r /\ a \div p = q
  BY DEF d, q, r
<1>9. a % (16 * p) = ((a \div p) % 16) * p + (a % p)
  BY <1>7, <1>8, Zenon
<1>10. a \div p \in Nat /\ (a \div p) % 16 \in 0 .. 15 /\ a % p \in 0 .. p - 1
  BY <1>1, <1>2, <1>8, Zenon
<1> QED
  BY <1>9, <1>10, Zenon

-----------------------------------------------------------------------------
(* The arguments *)

\* The directives whose argument is not taken, or might not be.
LeavesArgument(t) ==
  \/ Last(t) \in Floating \cup {"L"}
  \/ Contains(t, "L")
  \/ IsSuffix(<<"l", "c">>, t)
  \/ IsSuffix(<<"h", "h", Last(t)>>, t)

(* What stands where in a directive that is accepted.                       *)
LEMMA ParsedShape ==
  ASSUME IsFormat, i \in Nat \ {0}, AtDirective, get_format(i + 1).ok
  PROVE  LET k == i + 1
             W == WidthAt(k)
             P == PrecisionAt(k)
             L == LengthAt(k)
             e == EndAt(k)
         IN  /\ Char(i) = "%" /\ e \in i + 1 .. Len(fmt)
             /\ W \in Nat /\ P \in Nat /\ L \in Nat
             /\ W >= k /\ W <= P /\ P <= L /\ L <= e
             /\ W <= k \/ (W = k + 1 /\ Char(k) \in FlagChars)
             /\ Char(W) = "*" => P = W + 1
             /\ Char(W) # "*" => \A j \in W .. P - 1 : Char(j) \in Digits
             /\ L = P \/ (L = P + 1 /\ Char(P) = ".")
             /\ get_length(L) \in Lengths /\ e = L + Len(get_length(L))
             /\ get_length(L) \in {<<>>, <<Char(L)>>, <<Char(L), Char(L + 1)>>}
             /\ Char(e) \in Specifiers
<1> DEFINE k == i + 1
           W == WidthAt(k)
           P == PrecisionAt(k)
           L == LengthAt(k)
           e == EndAt(k)
<1>0. /\ Len(fmt) \in Nat /\ k \in Nat \ {0} /\ k # 0
      /\ i \in 1 .. Len(fmt) /\ Char(i) = "%"
  BY DEF IsFormat, AtDirective, More
<1>1. /\ W \in Nat /\ W \in k .. k + 1
      /\ P \in Nat /\ P >= W
      /\ L \in Nat /\ L >= P
      /\ get_length(L) \in Lengths
      /\ Len(get_length(L)) \in 0 .. 2
      /\ e \in Nat /\ e >= L
  BY <1>0, PlacesFollow
<1>2. Accepted(LengthType[get_length(L)], Char(e))
  BY FormatAt
<1>3. Char(e) \in Specifiers
  BY <1>1, <1>2, AcceptedIsSpecified
<1>4. e = L + Len(get_length(L))
  BY DEF EndAt
<1>5. get_length(L) \in {<<>>, <<Char(L)>>, <<Char(L), Char(L + 1)>>}
  BY <1>1, LengthRead
<1>6. e \in i + 1 .. Len(fmt)
  <2>1. Char(e) # "nul"
    BY <1>3, Letters
  <2>2. e <= Len(fmt)
    BY <2>1 DEF Char
  <2> QED
    BY <1>0, <1>1, <2>2
<1>7. W <= k \/ (W = k + 1 /\ Char(k) \in FlagChars)
  BY <1>0 DEF WidthAt, get_flags
<1>8. P = W + get_width(W)
  BY DEF PrecisionAt
<1>9. Char(W) = "*" => P = W + 1
  BY <1>8 DEF get_width
<1>10. Char(W) # "*" => \A j \in W .. P - 1 : Char(j) \in Digits
  <2> SUFFICES ASSUME Char(W) # "*" PROVE \A j \in W .. P - 1 : Char(j) \in Digits
    OBVIOUS
  <2>1. P = W + DigitsFrom(W) /\ W \in Nat \ {0}
    BY <1>0, <1>1, <1>8 DEF get_width
  <2> QED
    BY <2>1, DigitsRead
<1>11. L = P \/ (L = P + 1 /\ Char(P) = ".")
  <2> DEFINE d == DigitsFrom(P + 2)
  <2>1. L = P + get_precision(P)
    BY DEF LengthAt
  <2>2. CASE Char(P) # "."
    BY <1>1, <2>1, <2>2 DEF get_precision
  <2>3. CASE Char(P) = "."
    <3>1. L = P + (1 + d)
      BY <2>1, <2>3 DEF get_precision
    <3>2. P + 2 \in Nat \ {0}
      BY <1>1
    <3>3. d \in Nat /\ \A j \in P + 2 .. P + 2 + d - 1 : Char(j) \in Digits
      BY <3>2, DigitsRead
    <3>4. d = 0
      <4> SUFFICES ASSUME d # 0 PROVE FALSE
        BY <3>3
      <4> HIDE DEF d, P, L
      <4>1. L \in P + 2 .. P + 2 + d - 1
        BY <1>1, <3>1, <3>3
      <4>2. Char(L) \in Digits
        BY <3>3, <4>1
      <4>3. Char(L) \notin LengthLetters
        BY <4>2, Letters
      <4>4. <<Char(L)>> \notin Lengths /\ <<Char(L), Char(L + 1)>> \notin Lengths
        BY <4>3, LengthsAre DEF LengthLetters
      <4>5. get_length(L) = <<>>
        BY <4>4, Zenon DEF get_length
      <4>6. e = L
        BY <1>1, <1>4, <4>5
      <4> QED
        BY <1>3, <4>2, <4>6, Letters
    <3> HIDE DEF d, P, L
    <3> QED
      BY <1>1, <2>3, <3>1, <3>4
  <2> QED
    BY <2>2, <2>3
<1>12. W >= k /\ W <= P /\ P <= L /\ L <= e
  BY <1>0, <1>1
<1> QED
  BY <1>0, <1>1, <1>3, <1>4, <1>5, <1>6, <1>7, <1>9, <1>10, <1>11, <1>12

(* The directive has a star where its width is one.                         *)
LEMMA StarFound ==
  ASSUME IsFormat, i \in Nat \ {0}, AtDirective, get_format(i + 1).ok
  PROVE  Contains(SubSeq(fmt, i, get_format(i + 1).end), "*") <=> get_format(i + 1).star
<1> DEFINE k == i + 1
           W == WidthAt(k)
           P == PrecisionAt(k)
           L == LengthAt(k)
           e == EndAt(k)
           t == SubSeq(fmt, i, e)
           len == get_length(L)
<1>1. /\ Char(i) = "%" /\ e \in i + 1 .. Len(fmt)
      /\ W \in Nat /\ P \in Nat /\ L \in Nat
      /\ W >= k /\ W <= P /\ P <= L /\ L <= e
      /\ W <= k \/ (W = k + 1 /\ Char(k) \in FlagChars)
      /\ Char(W) = "*" => P = W + 1
      /\ Char(W) # "*" => \A j \in W .. P - 1 : Char(j) \in Digits
      /\ L = P \/ (L = P + 1 /\ Char(P) = ".")
      /\ len \in Lengths /\ e = L + Len(len)
      /\ len \in {<<>>, <<Char(L)>>, <<Char(L), Char(L + 1)>>}
      /\ Char(e) \in Specifiers
  BY ParsedShape
<1>2. /\ Len(fmt) \in Nat /\ i \in 1 .. Len(fmt)
  BY DEF IsFormat, AtDirective, More
<1>3. Len(t) = e - i + 1 /\ \A j \in 1 .. e - i + 1 : t[j] = Char(i + j - 1)
  <2>1. e \in i .. Len(fmt)
    BY <1>1, <1>2
  <2> HIDE DEF e
  <2> QED
    BY <1>2, <2>1, Piece
<1>4. get_format(k).star <=> Char(W) = "*"
  BY DEF get_format, WidthAt
<1>5. get_format(k).end = e
  BY FormatAt
<1>6. \A j \in L .. e - 1 : Char(j) \in LengthLetters
  <2> HIDE DEF L, e
  <2>1. CASE len = <<>>
    <3>1. e = L
      BY <1>1, <2>1
    <3> QED
      BY <1>1, <3>1
  <2>2. CASE len = <<Char(L)>>
    <3>1. e = L + 1
      BY <1>1, <2>2
    <3>2. Char(L) \in LengthLetters
      BY <1>1, <2>2, LengthsAre
    <3>3. \A j \in L .. e - 1 : j = L
      BY <1>1, <3>1
    <3> QED
      BY <3>2, <3>3
  <2>3. CASE len = <<Char(L), Char(L + 1)>>
    <3>1. e = L + 2
      BY <1>1, <2>3
    <3>2. Char(L) \in LengthLetters /\ Char(L + 1) \in LengthLetters
      BY <1>1, <2>3, LengthsAre DEF LengthLetters
    <3>3. \A j \in L .. e - 1 : j = L \/ j = L + 1
      BY <1>1, <3>1
    <3> QED
      BY <3>2, <3>3
  <2> QED
    BY <1>1, <2>1, <2>2, <2>3
<1> HIDE DEF len, W, P, L, e, t
<1>7. ASSUME Char(W) = "*" PROVE Contains(t, "*")
  <2>1. W - i + 1 \in 1 .. e - i + 1 /\ i + (W - i + 1) - 1 = W
    BY <1>1, <1>2, <1>7
  <2>2. t[W - i + 1] = "*"
    BY <1>3, <1>7, <2>1
  <2> QED
    BY <1>3, <2>1, <2>2 DEF Contains
<1>8. ASSUME Char(W) # "*", Contains(t, "*") PROVE FALSE
  <2>1. PICK j \in 1 .. e - i + 1 : t[j] = "*"
    BY <1>3, <1>8 DEF Contains
  <2> DEFINE x == i + j - 1
  <2>2. x \in i .. e /\ Char(x) = "*"
    BY <1>1, <1>2, <1>3, <2>1
  <2> HIDE DEF x
  <2>3. x # i /\ x # e
    BY <1>1, <2>2, Letters
  <2>4. x \in L .. e - 1 => FALSE
    BY <1>6, <2>2, Letters
  <2>5. x \in W .. P - 1 => FALSE
    BY <1>1, <1>8, <2>2, Letters
  <2>6. x \in i + 1 .. W - 1 => FALSE
    <3>1. x \in i + 1 .. W - 1 => x = k /\ Char(k) \in FlagChars
      BY <1>1, <1>2, <2>2
    <3> QED
      BY <2>2, <3>1, Letters
  <2>7. x \in P .. L - 1 => FALSE
    <3>1. x \in P .. L - 1 => x = P /\ Char(P) = "."
      BY <1>1, <2>2
    <3> QED
      BY <2>2, <3>1
  <2> QED
    BY <1>1, <1>2, <2>2, <2>3, <2>4, <2>5, <2>6, <2>7
<1> QED
  BY <1>4, <1>5, <1>7, <1>8 DEF t

(* The beginning of any sequence.                                           *)
LEMMA FirstOnes ==
  ASSUME NEW r
  PROVE  SubSeq(r, 1, 2) = <<r[1], r[2]>> /\ SubSeq(r, 1, 3) = <<r[1], r[2], r[3]>>
<1>1. SubSeq(r, 1, 2) = <<r[1], r[2]>>
  <2> DEFINE p == SubSeq(r, 1, 2)
  <2>1. /\ p \in Seq({r[k] : k \in 1 .. 2}) /\ Len(p) = 2
        /\ \A j \in 1 .. Len(p) : p[j] = r[1 + j - 1]
    BY PartOf
  <2> HIDE DEF p
  <2>2. p[1] = r[1] /\ p[2] = r[2]
    BY <2>1
  <2>3. p = <<p[1], p[2]>>
    BY <2>1, ShortSequence
  <2> QED
    BY <2>2, <2>3 DEF p
<1>2. SubSeq(r, 1, 3) = <<r[1], r[2], r[3]>>
  <2> DEFINE p == SubSeq(r, 1, 3)
  <2>1. /\ p \in Seq({r[k] : k \in 1 .. 3}) /\ Len(p) = 3
        /\ \A j \in 1 .. Len(p) : p[j] = r[1 + j - 1]
    BY PartOf
  <2> HIDE DEF p
  <2>2. p[1] = r[1] /\ p[2] = r[2] /\ p[3] = r[3]
    BY <2>1
  <2>3. p = <<p[1], p[2], p[3]>>
    BY <2>1
  <2> QED
    BY <2>2, <2>3 DEF p
<1> QED
  BY <1>1, <1>2

(* A text that ends in certain letters has them as a suffix.                *)
LEMMA EndsInTwo ==
  ASSUME NEW S, NEW t \in Seq(S), Len(t) >= 2
  PROVE  IsSuffix(<<t[Len(t) - 1], t[Len(t)]>>, t)
<1> DEFINE a == t[Len(t) - 1]
           b == t[Len(t)]
           s == <<a, b>>
           r == Reverse(t)
<1>1. Len(t) \in Nat
  OBVIOUS
<1>2. Reverse(s) = <<b, a>>
  BY DEF Reverse
<1>3. r = [x \in 1 .. Len(t) |-> t[(Len(t) - x) + 1]]
  BY DEF Reverse
<1>4. Len(r) = Len(t) /\ r[1] = b /\ r[2] = a
  BY <1>1, <1>3
<1> HIDE DEF a, b, r
<1>5. Len(<<b, a>>) = 2 /\ SubSeq(<<b, a>>, 1, 2) = <<b, a>>
  <2>1. Len(<<b, a>>) = 2 /\ <<b, a>>[1] = b /\ <<b, a>>[2] = a
    OBVIOUS
  <2> QED
    BY <2>1, FirstOnes
<1>6. SubSeq(r, 1, 2) = <<b, a>>
  BY <1>4, FirstOnes
<1> QED
  BY <1>2, <1>4, <1>5, <1>6 DEF IsSuffix, IsPrefix, r, a, b

LEMMA EndsInThree ==
  ASSUME NEW S, NEW t \in Seq(S), Len(t) >= 3
  PROVE  IsSuffix(<<t[Len(t) - 2], t[Len(t) - 1], t[Len(t)]>>, t)
<1> DEFINE a == t[Len(t) - 2]
           b == t[Len(t) - 1]
           c == t[Len(t)]
           s == <<a, b, c>>
           r == Reverse(t)
<1>1. Len(t) \in Nat
  OBVIOUS
<1>2. Reverse(s) = <<c, b, a>>
  BY DEF Reverse
<1>3. r = [x \in 1 .. Len(t) |-> t[(Len(t) - x) + 1]]
  BY DEF Reverse
<1>4. Len(r) = Len(t) /\ r[1] = c /\ r[2] = b /\ r[3] = a
  BY <1>1, <1>3
<1> HIDE DEF a, b, c, r
<1>5. Len(<<c, b, a>>) = 3 /\ SubSeq(<<c, b, a>>, 1, 3) = <<c, b, a>>
  <2>1. /\ Len(<<c, b, a>>) = 3
        /\ <<c, b, a>>[1] = c /\ <<c, b, a>>[2] = b /\ <<c, b, a>>[3] = a
    OBVIOUS
  <2> QED
    BY <2>1, FirstOnes
<1>6. SubSeq(r, 1, 3) = <<c, b, a>>
  BY <1>4, FirstOnes
<1> QED
  BY <1>2, <1>4, <1>5, <1>6 DEF IsSuffix, IsPrefix, r, a, b, c

(* Which lengths and specifiers have no argument taken for them.            *)
LEMMA NoArgumentTypes ==
  ASSUME NEW len \in Lengths, NEW c, TypeFor(LengthType[len], c) \in NoArgument
  PROVE  c \in Floating \/ len = <<"L">> \/ len = <<"h", "h">> \/ (len = <<"l">> /\ c = "c")
<1> DEFINE type == LengthType[len]
<1>1. /\ type = "LONG_INT" => len = <<"l">>
      /\ type = "LONG_DOUBLE" => len = <<"L">>
      /\ type = "S_CHAR" => len = <<"h", "h">>
      /\ type \notin {"WINT_T", "DOUBLE"}
  <2>1. \A x \in Lengths :
          /\ LengthType[x] = "LONG_INT" => x = <<"l">>
          /\ LengthType[x] = "LONG_DOUBLE" => x = <<"L">>
    BY DEF LengthType, Lengths
  <2>2. \A x \in Lengths :
          /\ LengthType[x] = "S_CHAR" => x = <<"h", "h">>
          /\ LengthType[x] \notin {"WINT_T", "DOUBLE"}
    BY DEF LengthType, Lengths
  <2> QED
    BY <2>1, <2>2
<1> HIDE DEF type
<1>2. TypeFor(type, c) \in NoArgument
  BY DEF type
<1>3. CASE c \in Floating
  BY <1>3
<1>4. CASE c = "c" /\ type = "LONG_INT"
  BY <1>1, <1>4
<1>5. CASE c = "s"
  BY <1>2, <1>5 DEF TypeFor, NoArgument, Floating
<1>6. CASE c \notin Floating /\ ~(c = "c" /\ type = "LONG_INT") /\ c # "s"
  <2>1. TypeFor(type, c) = type
    BY <1>6 DEF TypeFor
  <2>2. type \in {"S_CHAR", "WINT_T", "DOUBLE", "LONG_DOUBLE"}
    BY <1>2, <2>1 DEF NoArgument
  <2> QED
    BY <1>1, <2>2
<1> QED
  BY <1>3, <1>4, <1>5, <1>6

(* Such a directive is seen by its text.                                    *)
LEMMA LeftIsSeen ==
  ASSUME IsFormat, i \in Nat \ {0}, AtDirective, get_format(i + 1).ok,
         get_format(i + 1).type \in NoArgument
  PROVE  LeavesArgument(SubSeq(fmt, i, get_format(i + 1).end))
<1> DEFINE k == i + 1
           L == LengthAt(k)
           e == EndAt(k)
           t == SubSeq(fmt, i, e)
           len == get_length(L)
<1>1. /\ e \in i + 1 .. Len(fmt)
      /\ L \in Nat /\ L >= k
      /\ len \in Lengths /\ e = L + Len(len)
      /\ len \in {<<>>, <<Char(L)>>, <<Char(L), Char(L + 1)>>}
  <2>1. /\ e \in i + 1 .. Len(fmt) /\ WidthAt(k) \in Nat /\ PrecisionAt(k) \in Nat
        /\ L \in Nat /\ WidthAt(k) >= k /\ WidthAt(k) <= PrecisionAt(k) /\ PrecisionAt(k) <= L
        /\ len \in Lengths /\ e = L + Len(len)
        /\ len \in {<<>>, <<Char(L)>>, <<Char(L), Char(L + 1)>>}
    BY ParsedShape
  <2> HIDE DEF e, L, len
  <2> QED
    BY <2>1
<1>2. /\ Len(fmt) \in Nat /\ i \in 1 .. Len(fmt)
  BY DEF IsFormat, AtDirective, More
<1>3. /\ Len(t) = e - i + 1 /\ \A j \in 1 .. e - i + 1 : t[j] = Char(i + j - 1)
      /\ \E S : t \in Seq(S)
  <2>1. e \in i .. Len(fmt) /\ e \in Nat /\ i \in Nat \ {0}
    BY <1>1, <1>2
  <2> HIDE DEF e
  <2>2. Len(t) = e - i + 1 /\ \A j \in 1 .. e - i + 1 : t[j] = Char(i + j - 1)
    BY <1>2, <2>1, Piece
  <2>3. \E S : t \in Seq(S)
    BY <2>1, PartOf
  <2> QED
    BY <2>2, <2>3
<1>4. get_format(k).type = TypeFor(LengthType[len], Char(e)) /\ get_format(k).end = e
  BY DEF get_format, EndAt, LengthAt, PrecisionAt, WidthAt
<1>5. \/ Char(e) \in Floating \/ len = <<"L">> \/ len = <<"h", "h">>
      \/ (len = <<"l">> /\ Char(e) = "c")
  BY <1>1, <1>4, NoArgumentTypes
<1> SUFFICES LeavesArgument(t)
  BY <1>4
<1>12. L \in Nat /\ i \in Nat /\ L >= i + 1 /\ Len(t) = e - i + 1
  <2>1. L \in Nat /\ L >= i + 1
    BY <1>1, Zenon
  <2>2. i \in Nat
    BY <1>2
  <2>3. Len(t) = e - i + 1
    BY <1>3, Zenon
  <2> QED
    BY <2>1, <2>2, <2>3, Zenon
<1> HIDE DEF len, L, e, t
<1>6. Last(t) = Char(e) /\ t[Len(t)] = Char(e)
  <2>1. e - i + 1 \in 1 .. e - i + 1 /\ i + (e - i + 1) - 1 = e
    BY <1>1, <1>2
  <2> QED
    BY <1>3, <2>1 DEF Last
<1>7. CASE Char(e) \in Floating
  BY <1>6, <1>7 DEF LeavesArgument
<1>8. ASSUME NEW c, len = <<c>>
      PROVE  Char(L) = c /\ e = L + 1 /\ Len(t) >= 2 /\ t[Len(t) - 1] = c /\ Contains(t, c)
  <2>1. Len(len) = 1
    BY <1>8
  <2>2. Char(L) = c
    BY <1>1, <1>8
  <2>3. e = L + 1
    BY <1>1, <2>1
  <2>4. Len(t) - 1 \in 1 .. e - i + 1 /\ i + (Len(t) - 1) - 1 = L /\ Len(t) >= 2
    BY <1>12, <2>3
  <2>5. t[Len(t) - 1] = c
    BY <1>3, <2>2, <2>4
  <2>6. Contains(t, c)
    BY <1>3, <2>4, <2>5 DEF Contains
  <2> QED
    BY <2>2, <2>3, <2>4, <2>5, <2>6
<1>9. CASE len = <<"L">>
  BY <1>8, <1>9 DEF LeavesArgument
<1>10. CASE len = <<"l">> /\ Char(e) = "c"
  <2>1. Len(t) >= 2 /\ t[Len(t) - 1] = "l" /\ t[Len(t)] = "c"
    BY <1>6, <1>8, <1>10
  <2>2. IsSuffix(<<t[Len(t) - 1], t[Len(t)]>>, t)
    BY <1>3, <2>1, EndsInTwo
  <2>3. IsSuffix(<<"l", "c">>, t)
    BY <2>1, <2>2
  <2> QED
    BY <2>3 DEF LeavesArgument
<1>11. CASE len = <<"h", "h">>
  <2>1. Len(len) = 2
    BY <1>11
  <2>2. Char(L) = "h" /\ Char(L + 1) = "h"
    BY <1>1, <1>11
  <2>3. e = L + 2
    BY <1>1, <2>1
  <2>4. /\ Len(t) - 1 \in 1 .. e - i + 1 /\ i + (Len(t) - 1) - 1 = L + 1 /\ Len(t) >= 3
        /\ Len(t) - 2 \in 1 .. e - i + 1 /\ i + (Len(t) - 2) - 1 = L
    BY <1>12, <2>3
  <2>5. t[Len(t) - 1] = "h" /\ t[Len(t) - 2] = "h" /\ t[Len(t)] = Last(t)
    BY <1>3, <2>2, <2>4 DEF Last
  <2>6. IsSuffix(<<t[Len(t) - 2], t[Len(t) - 1], t[Len(t)]>>, t)
    BY <1>3, <2>4, EndsInThree
  <2>7. IsSuffix(<<"h", "h", Last(t)>>, t)
    BY <2>5, <2>6
  <2> QED
    BY <2>7 DEF LeavesArgument
<1> QED
  BY <1>5, <1>7, <1>9, <1>10, <1>11

\* What each turn needs of the arguments, and which turns took some.
Due == [k \in DOMAIN out |-> IF Contains(out[k].text, "*") THEN 2 ELSE 1]
Took == {k \in DOMAIN out : out[k].shown \in {"nothing", "number", "string"}}

(* As long as none was left, as many arguments are taken as needed.         *)
Counted ==
  (\A k \in Took : ~LeavesArgument(out[k].text)) =>
    next_arg = 1 + SumFunctionOnSet(Due, Took)

\* An address in the lower half of an int is the one passed.
StringAt(x) ==
  x.shown = "string" /\ x.arg < 16 ^ IntDigits \div 2 => x.at = x.arg

ArgumentsAre ==
  /\ Len(args) \in Nat /\ DOMAIN args = 1 .. Len(args)
  /\ \A k \in 1 .. Len(args) : args[k] \in 0 .. 16 ^ WordDigits - 1

ArgumentInvariant ==
  /\ FormatInvariant
  /\ ArgumentsAre
  /\ next_arg \in Nat \ {0}
  /\ Counted
  /\ \A k \in DOMAIN out : StringAt(out[k])

(* The turns so far are numbered, so those that took arguments are finitely *)
(* many.                                                                    *)
LEMMA TookFinite ==
  ASSUME InPieces
  PROVE  IsFiniteSet(Took)
<1> DEFINE n == Len(out)
<1>1. n \in Nat /\ DOMAIN out = 1 .. n
  BY LenProperties DEF InPieces
<1> HIDE DEF n
<1>2. IsFiniteSet(1 .. n)
  BY <1>1, FS_Interval
<1>3. Took \subseteq 1 .. n
  BY <1>1 DEF Took
<1> QED
  BY <1>2, <1>3, FS_Subset

(* A turn that takes arguments, and one that takes none.                    *)
LEMMA TurnCounted ==
  ASSUME InPieces, NEW last \in Nat, last >= i, NEW e, e.text = SubSeq(fmt, i, last),
         out' = Append(out, e), i' = last + 1, fmt' = fmt
  PROVE  /\ DOMAIN out \subseteq DOMAIN out' /\ \A k \in DOMAIN out : out'[k] = out[k]
         /\ \A k \in DOMAIN out' : k \in DOMAIN out \/ out'[k] = e
         /\ Took \subseteq Took'
         /\ e.shown \notin {"nothing", "number", "string"} =>
              SumFunctionOnSet(Due', Took') = SumFunctionOnSet(Due, Took)
         /\ e.shown \in {"nothing", "number", "string"} =>
              /\ \E k \in Took' : out'[k] = e
              /\ SumFunctionOnSet(Due, Took) \in Int
              /\ SumFunctionOnSet(Due', Took')
                   = SumFunctionOnSet(Due, Took) + (IF Contains(e.text, "*") THEN 2 ELSE 1)
<1> DEFINE n == Len(out)
           words == {"nothing", "number", "string"}
           need == IF Contains(e.text, "*") THEN 2 ELSE 1
<1>1. /\ n \in Nat /\ DOMAIN out = 1 .. n /\ DOMAIN out' = 1 .. n + 1
      /\ \A k \in 1 .. n : out'[k] = out[k]
      /\ out'[n + 1] = e
  BY PiecePassed
<1> HIDE DEF n, words
<1>2. IsFiniteSet(Took) /\ Took \subseteq 1 .. n
  BY <1>1, TookFinite DEF Took
<1>3. /\ Took = {k \in 1 .. n : out[k].shown \in words}
      /\ Took' = {k \in 1 .. n + 1 : out'[k].shown \in words}
  BY <1>1 DEF Took, words
<1>4. \A k \in 1 .. n + 1 : k \in 1 .. n \/ k = n + 1
  BY <1>1
<1>5. 1 .. n \subseteq 1 .. n + 1 /\ n + 1 \in 1 .. n + 1 /\ n + 1 \notin 1 .. n
  BY <1>1
<1>6. /\ Due = [k \in 1 .. n |-> IF Contains(out[k].text, "*") THEN 2 ELSE 1]
      /\ Due' = [k \in 1 .. n + 1 |-> IF Contains(out'[k].text, "*") THEN 2 ELSE 1]
  BY <1>1 DEF Due
<1>7. \A k \in 1 .. n : Due'[k] = Due[k] /\ Due[k] \in Int
  BY <1>1, <1>5, <1>6
<1>8. Due'[n + 1] = need /\ need \in Int
  <2>1. Due'[n + 1] = IF Contains(out'[n + 1].text, "*") THEN 2 ELSE 1
    BY <1>5, <1>6
  <2>2. need \in Int
    OBVIOUS
  <2> QED
    BY <1>1, <2>1, <2>2
<1> HIDE DEF need
<1>9. Took \subseteq Took'
  BY <1>1, <1>3, <1>5
<1>10. SumFunctionOnSet(Due, Took) = SumFunctionOnSet(Due', Took)
  <2>1. \A k \in Took : Due[k] = Due'[k]
    BY <1>2, <1>7
  <2> QED
    BY <1>2, <2>1, SumOverSame
<1>11. ASSUME e.shown \notin words
       PROVE  SumFunctionOnSet(Due', Took') = SumFunctionOnSet(Due, Took)
  <2>1. Took' = Took
    BY <1>1, <1>3, <1>4, <1>5, <1>11
  <2> QED
    BY <1>10, <2>1
<1>12. ASSUME e.shown \in words
       PROVE  /\ \E k \in Took' : out'[k] = e
              /\ SumFunctionOnSet(Due, Took) \in Int
              /\ SumFunctionOnSet(Due', Took') = SumFunctionOnSet(Due, Took) + need
  <2>1. Took' = Took \cup {n + 1}
    BY <1>1, <1>3, <1>4, <1>5, <1>12
  <2>2. \E k \in Took' : out'[k] = e
    BY <1>1, <2>1
  <2>3. /\ \A k \in Took : Due'[k] \in Int
        /\ n + 1 \notin Took /\ Due'[n + 1] \in Int
    BY <1>2, <1>5, <1>7, <1>8
  <2>4. /\ SumFunctionOnSet(Due', Took) \in Int
        /\ SumFunctionOnSet(Due', Took \cup {n + 1}) = Due'[n + 1] + SumFunctionOnSet(Due', Took)
    BY <1>2, <2>3, SumOverMore
  <2>5. SumFunctionOnSet(Due', Took') = SumFunctionOnSet(Due, Took) + need
    BY <1>8, <1>10, <2>1, <2>4
  <2> QED
    BY <1>10, <2>2, <2>4, <2>5
<1>13. /\ DOMAIN out \subseteq DOMAIN out' /\ \A k \in DOMAIN out : out'[k] = out[k]
       /\ \A k \in DOMAIN out' : k \in DOMAIN out \/ out'[k] = e
  BY <1>1, <1>4, <1>5
<1> QED
  BY <1>9, <1>11, <1>12, <1>13 DEF words, need

(* A word that fits the lower half of an int passes it unchanged.           *)
LEMMA PointerKept ==
  ASSUME NEW v \in 0 .. 16 ^ WordDigits - 1, v < 16 ^ IntDigits \div 2
  PROVE  PointerArg(v) = v
<1> DEFINE w == 16 ^ WordDigits
           h == 16 ^ IntDigits
<1>1. w \in Nat \ {0} /\ h \in Nat \ {0}
  <2>1. WordDigits \in 0 .. WordDigits /\ IntDigits \in 0 .. WordDigits
    BY PrintfAssumption
  <2> QED
    BY <2>1, Powers
<1>2. v \in 0 .. w - 1 /\ v < h \div 2
  OBVIOUS
<1>3. PointerArg(v) = (LET low == v % h IN IF low < h \div 2 THEN low ELSE low - h) % w
  BY DEF PointerArg, Signed
<1> HIDE DEF w, h
<1>4. v % h = v
  <2>1. v < h /\ v \in Nat
    BY <1>1, <1>2
  <2> QED
    BY <1>1, <2>1
<1>5. v % w = v
  BY <1>1, <1>2
<1> QED
  BY <1>2, <1>3, <1>4, <1>5

(* Before the first turn nothing is taken.                                  *)
LEMMA ArgumentInit == Init => ArgumentInvariant
<1> SUFFICES ASSUME Init PROVE ArgumentInvariant
  OBVIOUS
<1>1. FormatInvariant
  BY FormatInit
<1>2. ArgumentsAre
  <2>1. PICK c \in Calls : args = c.args
    BY DEF Init
  <2>2. /\ Len(c.args) \in Nat /\ DOMAIN c.args = 1 .. Len(c.args)
        /\ \A k \in DOMAIN c.args : c.args[k] \in 0 .. 16 ^ WordDigits - 1
    BY PrintfAssumption
  <2> QED
    BY <2>1, <2>2 DEF ArgumentsAre
<1>3. out = <<>> /\ next_arg = 1
  BY DEF Init
<1>4. DOMAIN out = {} /\ Took = {}
  <2>1. DOMAIN out = {}
    BY <1>3
  <2> QED
    BY <2>1 DEF Took
<1>5. Counted
  <2>1. SumFunctionOnSet(Due, {}) = 0
    BY SumOverNone
  <2> QED
    BY <1>3, <1>4, <2>1 DEF Counted
<1> QED
  BY <1>1, <1>2, <1>3, <1>4, <1>5 DEF ArgumentInvariant

(* A character takes no argument.                                           *)
LEMMA PrintCharTakes ==
  ASSUME ArgumentInvariant, PrintChar
  PROVE  ArgumentInvariant'
<1> DEFINE two == Char(i) = "\\" \/ (Char(i) = "%" /\ Char(i + 1) = "%")
           last == IF two THEN i + 1 ELSE i
           e == [Nothing EXCEPT !.text = SubSeq(fmt, i, last), !.shown = Char(last)]
<1>1. /\ out' = Append(out, e) /\ i' = last + 1
      /\ fmt' = fmt /\ next_arg' = next_arg /\ args' = args
  BY DEF PrintChar, More
<1>2. i \in Nat \ {0} /\ last \in Nat \ {0} /\ last >= i /\ InPieces
  BY DEF ArgumentInvariant, FormatInvariant, InPieces
<1> HIDE DEF two, last
<1>3. e.text = SubSeq(fmt, i, last) /\ e.shown = Char(last)
  BY DEF Nothing
<1>4. Char(last) \notin {"nothing", "number", "string"}
  BY <1>2, CharacterShown DEF ArgumentInvariant, FormatInvariant
<1> HIDE DEF e
<1>5. /\ DOMAIN out \subseteq DOMAIN out' /\ \A k \in DOMAIN out : out'[k] = out[k]
      /\ \A k \in DOMAIN out' : k \in DOMAIN out \/ out'[k] = e
      /\ Took \subseteq Took'
      /\ SumFunctionOnSet(Due', Took') = SumFunctionOnSet(Due, Took)
  BY <1>1, <1>2, <1>3, <1>4, TurnCounted
<1>6. Counted'
  <2>1. (\A k \in Took' : ~LeavesArgument(out'[k].text)) =>
          \A k \in Took : ~LeavesArgument(out[k].text)
    BY <1>5 DEF Took
  <2>2. (\A k \in Took' : ~LeavesArgument(out'[k].text)) =>
          next_arg' = 1 + SumFunctionOnSet(Due', Took')
    BY <1>1, <1>5, <2>1 DEF ArgumentInvariant, Counted
  <2> QED
    BY <2>2 DEF Counted
<1>7. \A k \in DOMAIN out' : StringAt(out'[k])
  <2>1. StringAt(e)
    BY <1>3, <1>4 DEF StringAt
  <2>2. \A k \in DOMAIN out : StringAt(out[k])
    BY DEF ArgumentInvariant
  <2> QED
    BY <1>5, <2>1, <2>2
<1>8. FormatInvariant'
  BY PrintCharTurn DEF ArgumentInvariant
<1>9. ArgumentsAre' /\ next_arg' \in Nat \ {0}
  BY <1>1 DEF ArgumentInvariant, ArgumentsAre
<1>10. (\A k \in DOMAIN out : StringAt(out[k]))'
  BY <1>7 DEF StringAt
<1> QED
  BY <1>6, <1>8, <1>9, <1>10 DEF ArgumentInvariant

(* A directive takes one for a star and one for itself, unless it is seen   *)
(* to leave it.                                                             *)
LEMMA DirectiveTakes ==
  ASSUME ArgumentInvariant, Directive
  PROVE  ArgumentInvariant'
<1> DEFINE f == get_format(i + 1)
           v == Arg(ValueArg(f))
           width == IF f.star THEN Signed(Arg(next_arg), IntDigits) ELSE f.width
           c == Converted(f, width, v)
           last == f.end
           e == [c EXCEPT !.text = SubSeq(fmt, i, last), !.width = width, !.arg = v]
           need == IF Contains(e.text, "*") THEN 2 ELSE 1
<1>1. /\ out' = Append(out, e) /\ i' = last + 1
      /\ fmt' = fmt /\ args' = args
      /\ AtDirective /\ f.ok
      /\ next_arg' = IF f.type \in NoArgument THEN ValueArg(f) ELSE ValueArg(f) + 1
  BY DEF Directive, AtDirective, More
<1>2. DOMAIN c = DOMAIN Nothing /\ c.shown \in {"nothing", "number", "string"}
  <2> HIDE DEF f, v, width
  <2> QED
    BY DEF Converted, Nothing
<1>3. c.shown = "string" => c.at = PointerArg(v)
  <2> HIDE DEF f, v, width
  <2> QED
    BY DEF Converted, Nothing
<1>4. {"text", "arg", "shown", "at"} \subseteq DOMAIN Nothing
  BY DEF Nothing
<1>5. v \in 0 .. 16 ^ WordDigits - 1 /\ ValueArg(f) \in Nat \ {0}
  <2>1. ValueArg(f) \in Nat \ {0}
    BY DEF ValueArg, ArgumentInvariant
  <2> HIDE DEF f
  <2> DEFINE w == 16 ^ WordDigits
  <2>2. w \in Nat \ {0}
    <3>1. WordDigits \in 0 .. WordDigits
      BY PrintfAssumption
    <3> QED
      BY <3>1, Powers
  <2>3. ArgumentsAre
    BY DEF ArgumentInvariant
  <2>4. Len(args) \in Nat /\ \A k \in 1 .. Len(args) : args[k] \in 0 .. w - 1
    BY <2>3 DEF ArgumentsAre
  <2>5. 0 \in 0 .. w - 1
    BY <2>2
  <2> HIDE DEF w
  <2>6. v \in 0 .. w - 1
    BY <2>1, <2>4, <2>5 DEF Arg
  <2> QED
    BY <2>1, <2>6 DEF w
<1>6. i \in Nat \ {0} /\ IsFormat /\ InPieces
  BY DEF ArgumentInvariant, FormatInvariant, InPieces
<1>7. last \in i + 1 .. Len(fmt)
  BY <1>1, <1>6, ParsedIsDirective
<1>8. last \in Nat /\ last >= i
  <2> HIDE DEF last
  <2> QED
    BY <1>6, <1>7 DEF IsFormat
<1>9. Contains(SubSeq(fmt, i, last), "*") <=> f.star
  BY <1>1, <1>6, StarFound
<1>10. f.type \in NoArgument => LeavesArgument(SubSeq(fmt, i, last))
  BY <1>1, <1>6, LeftIsSeen
<1> HIDE DEF c, width, v
<1>11. /\ e.text = SubSeq(fmt, i, last) /\ e.arg = v
       /\ e.shown = c.shown /\ e.at = c.at
  BY <1>2, <1>4
<1> HIDE DEF f, last, e
<1>12. ValueArg(f) = next_arg + (need - 1) /\ need \in {1, 2} /\ next_arg \in Nat \ {0}
  BY <1>9, <1>11 DEF ValueArg, ArgumentInvariant
<1> HIDE DEF need
<1>13. /\ DOMAIN out \subseteq DOMAIN out' /\ \A k \in DOMAIN out : out'[k] = out[k]
       /\ \A k \in DOMAIN out' : k \in DOMAIN out \/ out'[k] = e
       /\ Took \subseteq Took'
       /\ \E k \in Took' : out'[k] = e
       /\ SumFunctionOnSet(Due, Took) \in Int
       /\ SumFunctionOnSet(Due', Took') = SumFunctionOnSet(Due, Took) + need
  BY <1>1, <1>2, <1>6, <1>8, <1>11, TurnCounted DEF need
<1>14. Counted'
  <2> SUFFICES ASSUME \A k \in Took' : ~LeavesArgument(out'[k].text)
               PROVE  next_arg' = 1 + SumFunctionOnSet(Due', Took')
    BY DEF Counted
  <2>1. \A k \in Took : ~LeavesArgument(out[k].text)
    BY <1>13 DEF Took
  <2>2. next_arg = 1 + SumFunctionOnSet(Due, Took)
    BY <2>1 DEF ArgumentInvariant, Counted
  <2>3. ~LeavesArgument(e.text)
    BY <1>13
  <2>4. f.type \notin NoArgument
    BY <1>10, <1>11, <2>3
  <2>5. next_arg' = next_arg + (need - 1) + 1
    BY <1>1, <1>12, <2>4
  <2> QED
    BY <1>12, <1>13, <2>2, <2>5
<1>15. \A k \in DOMAIN out' : StringAt(out'[k])
  <2>1. StringAt(e)
    BY <1>3, <1>5, <1>11, PointerKept DEF StringAt
  <2>2. \A k \in DOMAIN out : StringAt(out[k])
    BY DEF ArgumentInvariant
  <2> QED
    BY <1>13, <2>1, <2>2
<1>16. FormatInvariant'
  BY DirectiveTurn DEF ArgumentInvariant
<1>17. ArgumentsAre' /\ next_arg' \in Nat \ {0}
  <2>1. next_arg' \in Nat \ {0}
    BY <1>1, <1>5
  <2> QED
    BY <1>1, <2>1 DEF ArgumentInvariant, ArgumentsAre
<1>18. (\A k \in DOMAIN out : StringAt(out[k]))'
  BY <1>15 DEF StringAt
<1> QED
  BY <1>14, <1>16, <1>17, <1>18 DEF ArgumentInvariant

(* A failed assertion and the end of the call take nothing.                 *)
LEMMA RestTakes ==
  ASSUME ArgumentInvariant, AssertFails \/ Return \/ UNCHANGED vars
  PROVE  ArgumentInvariant'
<1>1. UNCHANGED <<out, next_arg, args>>
  BY DEF AssertFails, Return, vars
<1>2. FormatInvariant'
  BY AssertTurn, FormatRest DEF ArgumentInvariant
<1>3. Counted'
  BY <1>1 DEF ArgumentInvariant, Counted, Took, Due
<1>4. ArgumentsAre' /\ next_arg' \in Nat \ {0}
  BY <1>1 DEF ArgumentInvariant, ArgumentsAre
<1>5. (\A k \in DOMAIN out : StringAt(out[k]))'
  BY <1>1 DEF ArgumentInvariant, StringAt
<1> QED
  BY <1>2, <1>3, <1>4, <1>5 DEF ArgumentInvariant

(* As long as no directive came by that leaves its argument to the next,    *)
(* each takes the arguments meant for it, and the address of a string in    *)
(* the lower half of an int is the one passed: for every format and every   *)
(* list of arguments.                                                       *)
THEOREM ArgumentsCorrect == Spec => []ArgumentsInStep
<1>1. ArgumentInvariant /\ [Next]_vars => ArgumentInvariant'
  BY PrintCharTakes, DirectiveTakes, RestTakes DEF Next
<1>2. ArgumentInvariant => ArgumentsInStep
  <2> SUFFICES ASSUME ArgumentInvariant PROVE ArgumentsInStep
    OBVIOUS
  <2> DEFINE left == {k \in Took : \/ Last(out[k].text) \in Floating \cup {"L"}
                                   \/ Contains(out[k].text, "L")
                                   \/ IsSuffix(<<"l", "c">>, out[k].text)
                                   \/ IsSuffix(<<"h", "h", Last(out[k].text)>>, out[k].text)}
  <2>1. left = {} => next_arg = 1 + SumFunctionOnSet(Due, Took)
    BY DEF ArgumentInvariant, Counted, LeavesArgument
  <2>2. \A k \in DOMAIN out :
          out[k].shown = "string" /\ out[k].arg < 16 ^ IntDigits \div 2 =>
            out[k].at = out[k].arg
    BY DEF ArgumentInvariant, StringAt
  <2> QED
    BY <2>1, <2>2, Zenon DEF ArgumentsInStep, Due, Took
<1> QED
  BY ArgumentInit, <1>1, <1>2, PTL DEF Spec

-----------------------------------------------------------------------------
(* Numbers *)

\* The digits of a number, n of them, and what each stands for.
Digit(num, m) == (num \div 16 ^ m) % 16
Value(num, n) == [j \in 1 .. n |-> Digit(num, n - j) * 16 ^ (n - j)]

(* The lowest digits add up to the remainder.                               *)
LEMMA DigitsAddUp ==
  ASSUME NEW num \in Nat, NEW n \in 0 .. WordDigits
  PROVE  SumFunctionOnSet(Value(num, n), 1 .. n) = num % 16 ^ n
<1> DEFINE g == Value(num, n)
           S(m) == SumFunctionOnSet(g, n - m + 1 .. n)
           B == {m \in 0 .. n : S(m) # num % 16 ^ m}
<1>0. WordDigits \in Nat /\ n \in Nat /\ n <= WordDigits
  BY PrintfAssumption
<1>1. ASSUME NEW m \in 0 .. n
      PROVE  /\ 16 ^ m \in Nat \ {0} /\ num \div 16 ^ m \in Nat /\ Digit(num, m) \in 0 .. 15
             /\ Digit(num, m) * 16 ^ m \in Int
  <2> DEFINE p == 16 ^ m
  <2>1. m \in 0 .. WordDigits
    BY <1>0
  <2>2. p \in Nat \ {0}
    BY <2>1, Powers
  <2> HIDE DEF p
  <2>3. num \div p \in Nat /\ (num \div p) % 16 \in 0 .. 15
    BY <2>2, DigitOnTop
  <2>4. ((num \div p) % 16) * p \in Int
    BY <2>2, <2>3
  <2> QED
    BY <2>2, <2>3, <2>4 DEF p, Digit
<1>2. ASSUME NEW j \in 1 .. n PROVE g[j] = Digit(num, n - j) * 16 ^ (n - j) /\ g[j] \in Int
  <2>1. g[j] = Digit(num, n - j) * 16 ^ (n - j)
    BY DEF Value
  <2>2. n - j \in 0 .. n
    BY <1>0
  <2> QED
    BY <1>1, <2>1, <2>2
<1> HIDE DEF g
<1>3. B = {}
  <2> SUFFICES ASSUME B # {} PROVE FALSE
    OBVIOUS
  <2>1. PICK m \in B : \A x \in B : m <= x
    <3>1. B \subseteq Nat
      BY <1>0
    <3> HIDE DEF B
    <3> QED
      BY <3>1, LeastNumber
  <2>2. m \in 0 .. n /\ S(m) # num % 16 ^ m
    OBVIOUS
  <2>3. CASE m = 0
    <3>1. n - m + 1 .. n = {}
      BY <1>0, <2>3
    <3>2. S(m) = 0
      BY <3>1, SumOverNone
    <3>3. 16 ^ m = 1
      BY <2>3
    <3>4. num % 1 = 0
      OBVIOUS
    <3> HIDE DEF S
    <3> QED
      BY <2>2, <3>2, <3>3, <3>4
  <2>4. CASE m # 0
    <3> DEFINE y == m - 1
               x == n - m + 1
               T == n - y + 1 .. n
    <3>1. /\ y \in 0 .. n /\ ~ m <= y /\ y + 1 = m /\ y \in 0 .. WordDigits - 1
          /\ x \in 1 .. n /\ n - x = y /\ x \notin T /\ T \subseteq 1 .. n
          /\ n - m + 1 .. n = T \cup {x} /\ n - y + 1 \in Int /\ n \in Int
      BY <1>0, <2>2, <2>4
    <3>2. y \notin B
      <4> HIDE DEF B, y
      <4> QED
        BY <2>1, <3>1
    <3>3. SumFunctionOnSet(g, T) = num % 16 ^ y
      BY <3>1, <3>2
    <3>4. IsFiniteSet(T)
      BY <3>1, FS_Interval
    <3> HIDE DEF x, T, y, B
    <3>5. SumFunctionOnSet(g, T \cup {x}) = g[x] + SumFunctionOnSet(g, T)
      BY <1>2, <3>1, <3>4, SumOverMore
    <3>6. g[x] = Digit(num, y) * 16 ^ y
      BY <1>2, <3>1
    <3>7. 16 ^ m = 16 * 16 ^ y
      BY <3>1, PowersAssumption
    <3> DEFINE p == 16 ^ y
    <3>8. p \in Nat \ {0}
      BY <1>1, <3>1
    <3>9. num % (16 * p) = ((num \div p) % 16) * p + (num % p)
      <4> HIDE DEF p
      <4> QED
        BY <3>8, DigitOnTop
    <3>10. num % 16 ^ m = Digit(num, y) * 16 ^ y + (num % 16 ^ y)
      BY <3>7, <3>9 DEF Digit
    <3>11. S(m) = SumFunctionOnSet(g, T \cup {x})
      BY <3>1
    <3> HIDE DEF S
    <3> QED
      BY <2>2, <3>3, <3>5, <3>6, <3>10, <3>11, Zenon
  <2> QED
    BY <2>3, <2>4
<1>4. n \in 0 .. n /\ n - n + 1 = 1
  BY <1>0
<1>5. S(n) = num % 16 ^ n
  BY <1>3, <1>4
<1> QED
  BY <1>4, <1>5 DEF g

(* Where the higher digits are 0 that is the number.                        *)
LEMMA LeadingZeros ==
  ASSUME NEW num \in 0 .. 16 ^ WordDigits - 1, NEW n \in 0 .. WordDigits,
         \A m \in n .. WordDigits - 1 : Digit(num, m) = 0
  PROVE  num % 16 ^ n = num
<1> DEFINE B == {d \in 0 .. WordDigits - n : ~ num < 16 ^ (WordDigits - d)}
<1>0. WordDigits \in Nat /\ n \in Nat /\ n <= WordDigits /\ WordDigits \in 0 .. WordDigits
  BY PrintfAssumption
<1>1. 16 ^ WordDigits \in Nat \ {0} /\ num \in Nat /\ num < 16 ^ WordDigits
  <2> DEFINE w == 16 ^ WordDigits
  <2>1. w \in Nat \ {0}
    BY <1>0, Powers
  <2>2. num \in 0 .. w - 1
    OBVIOUS
  <2> HIDE DEF w
  <2>3. num \in Nat /\ num < w
    BY <2>1, <2>2
  <2> QED
    BY <2>1, <2>3 DEF w
<1>2. B = {}
  <2> SUFFICES ASSUME B # {} PROVE FALSE
    OBVIOUS
  <2>1. PICK d \in B : \A x \in B : d <= x
    <3>1. B \subseteq Nat
      BY <1>0
    <3> HIDE DEF B
    <3> QED
      BY <3>1, LeastNumber
  <2>2. d \in 0 .. WordDigits - n /\ ~ num < 16 ^ (WordDigits - d)
    OBVIOUS
  <2>3. CASE d = 0
    <3>1. WordDigits - d = WordDigits
      BY <1>0, <2>3
    <3> QED
      BY <1>1, <2>2, <3>1
  <2>4. CASE d # 0
    <3> DEFINE y == d - 1
               m == WordDigits - d
    <3>1. /\ y \in 0 .. WordDigits - n /\ ~ d <= y /\ WordDigits - y = m + 1
          /\ m \in n .. WordDigits - 1 /\ m \in 0 .. WordDigits - 1 /\ m \in 0 .. WordDigits
      BY <1>0, <2>2, <2>4
    <3>2. y \notin B
      <4> HIDE DEF B, y
      <4> QED
        BY <2>1, <3>1
    <3>3. num < 16 ^ (WordDigits - y)
      BY <3>1, <3>2
    <3> HIDE DEF y, m, B
    <3> DEFINE p == 16 ^ m
    <3>4. num < 16 * p
      <4>1. 16 ^ (m + 1) = 16 * p
        BY <3>1, PowersAssumption
      <4> QED
        BY <3>1, <3>3, <4>1
    <3>5. p \in Nat \ {0}
      BY <3>1, Powers
    <3>6. (num \div p) % 16 = 0
      BY <3>1 DEF Digit
    <3>7. ~ num < p
      BY <2>2 DEF m
    <3> HIDE DEF p
    <3> DEFINE q == num \div p
               r == num % p
    <3>8. q \in Nat /\ r \in 0 .. p - 1 /\ num = p * q + r
      BY <1>1, <3>5
    <3> HIDE DEF q, r
    <3>9. q < 16
      <4> SUFFICES ASSUME q >= 16 PROVE FALSE
        BY <3>8
      <4>1. p * q >= p * 16
        BY <3>5, <3>8
      <4> QED
        BY <3>4, <3>5, <3>8, <4>1
    <3>10. q = 0
      BY <3>6, <3>8, <3>9 DEF q
    <3>11. num = r
      BY <3>5, <3>8, <3>10
    <3> QED
      BY <3>5, <3>7, <3>8, <3>11
  <2> QED
    BY <2>3, <2>4
<1>3. WordDigits - n \in 0 .. WordDigits - n /\ WordDigits - (WordDigits - n) = n
  BY <1>0
<1>4. num < 16 ^ n
  BY <1>2, <1>3
<1> DEFINE p == 16 ^ n
<1>5. p \in Nat \ {0} /\ num < p
  BY <1>4, Powers
<1> HIDE DEF p
<1>6. num % p = num
  BY <1>1, <1>5
<1> QED
  BY <1>6 DEF p

(* What print_integer_as_hex is to show: the number's digits, none or one   *)
(* more than asked for, or rubbish if more are asked for than there can be. *)
HexOf(num, width, digits) ==
  \/ width >= WordDigits /\ digits = Junk
  \/ /\ width < WordDigits
     /\ Len(digits) \in 0 .. WordDigits
     /\ digits = [k \in 1 .. Len(digits) |-> Digit(num, Len(digits) - k)]
     /\ num % 16 ^ Len(digits) = num
     /\ \/ Len(digits) = width + 1
        \/ Len(digits) > width /\ (Len(digits) > 0 => digits[1] # 0)

LEMMA HexShown ==
  ASSUME NEW num \in 0 .. 16 ^ WordDigits - 1, NEW width \in Int
  PROVE  HexOf(num, width, print_integer_as_hex(num, width))
<1> DEFINE Z == {j \in 0 .. WordDigits - 1 : buf(num, j) # 0}
           C == {WordDigits, WordDigits - 1 - width} \cup Z
           from == StartOfText(num, width)
           r == print_integer_as_hex(num, width)
<1>0. WordDigits \in Nat /\ WordDigits # 0
  BY PrintfAssumption
<1>1. from \in C /\ \A y \in C : from <= y
  <2> DEFINE T == {WordDigits} \cup Z
  <2>1. PICK x \in T : \A y \in T : x <= y
    <3>1. T \subseteq Nat /\ T # {}
      BY <1>0
    <3> HIDE DEF T
    <3> QED
      BY <3>1, LeastNumber
  <2> DEFINE b == WordDigits - 1 - width
             c == IF x <= b THEN x ELSE b
  <2>2. C = T \cup {b} /\ x \in Int /\ b \in Int /\ \A y \in T : y \in Int
    BY <1>0
  <2> HIDE DEF C, T, b
  <2>3. c \in C /\ \A y \in C : c <= y
    BY <2>1, <2>2
  <2>4. from = Min(C)
    BY DEF StartOfText, C
  <2> HIDE DEF c
  <2>5. Min(C) \in C /\ \A y \in C : Min(C) <= y
    BY <2>3, Zenon DEF Min
  <2> HIDE DEF from
  <2> QED
    BY <2>4, <2>5
<1>2. /\ from \in Int /\ from <= WordDigits /\ from <= WordDigits - 1 - width
      /\ from \in {WordDigits, WordDigits - 1 - width} \/ (from \in 0 .. WordDigits - 1 /\ buf(num, from) # 0)
      /\ \A j \in 0 .. WordDigits - 1 : buf(num, j) = 0 \/ from <= j
  <2> DEFINE b == WordDigits - 1 - width
  <2> HIDE DEF from
  <2>1. C = {WordDigits, b} \cup Z /\ b \in Int /\ \A y \in Z : y \in Int
    BY <1>0
  <2>2. Z = {j \in 0 .. WordDigits - 1 : buf(num, j) # 0}
    OBVIOUS
  <2> HIDE DEF C, b, Z
  <2>3. from \in Int
    BY <1>0, <1>1, <2>1
  <2>4. from <= WordDigits /\ from <= b
    BY <1>1, <2>1
  <2>5. from \in {WordDigits, b} \/ from \in Z
    BY <1>1, <2>1
  <2>6. \A y \in Z : from <= y
    BY <1>1, <2>1
  <2>7. from \in {WordDigits, b} \/ (from \in 0 .. WordDigits - 1 /\ buf(num, from) # 0)
    BY <2>2, <2>5
  <2>8. \A j \in 0 .. WordDigits - 1 : buf(num, j) = 0 \/ from <= j
    BY <2>2, <2>6
  <2> QED
    BY <2>3, <2>4, <2>7, <2>8, Zenon DEF b
<1>3. r = IF from < 0 THEN Junk ELSE [k \in 1 .. WordDigits - from |-> buf(num, from + k - 1)]
  BY DEF print_integer_as_hex
<1>4. CASE width >= WordDigits
  <2>1. from < 0
    <3> HIDE DEF from
    <3> QED
      BY <1>0, <1>2, <1>4
  <2>2. r = Junk
    BY <1>3, <2>1
  <2> QED
    BY <1>4, <2>2 DEF HexOf
<1>5. CASE width < WordDigits
  <2> HIDE DEF from, r
  <2>1. from \in 0 .. WordDigits
    BY <1>0, <1>2, <1>5
  <2> DEFINE n == WordDigits - from
  <2>2. n \in 0 .. WordDigits /\ n \in Nat /\ from = WordDigits - n
    BY <1>0, <2>1
  <2>3. r = [k \in 1 .. n |-> buf(num, from + k - 1)]
    BY <1>3, <2>1
  <2> HIDE DEF n
  <2>4. \A j \in Int : buf(num, j) = Digit(num, WordDigits - 1 - j)
    BY DEF buf, Digit
  <2>5. \A k \in 1 .. n : buf(num, from + k - 1) = Digit(num, n - k)
    <3> SUFFICES ASSUME NEW k \in 1 .. n PROVE buf(num, from + k - 1) = Digit(num, n - k)
      OBVIOUS
    <3>1. from + k - 1 \in Int /\ WordDigits - 1 - (from + k - 1) = n - k
      BY <1>0, <2>2
    <3> QED
      BY <2>4, <3>1
  <2>6. r = [k \in 1 .. n |-> Digit(num, n - k)]
    BY <2>3, <2>5
  <2>7. Len(r) = n
    BY <2>2, <2>6
  <2>8. num % 16 ^ n = num
    <3>1. \A m \in n .. WordDigits - 1 : Digit(num, m) = 0
      <4> SUFFICES ASSUME NEW m \in n .. WordDigits - 1 PROVE Digit(num, m) = 0
        OBVIOUS
      <4> DEFINE j == WordDigits - 1 - m
      <4>1. j \in 0 .. WordDigits - 1 /\ ~ from <= j /\ WordDigits - 1 - j = m
        BY <1>0, <2>1, <2>2
      <4> HIDE DEF j
      <4>2. buf(num, j) = 0 /\ j \in Int
        BY <1>2, <4>1
      <4> QED
        BY <2>4, <4>1, <4>2
    <3> QED
      BY <2>2, <3>1, LeadingZeros
  <2>9. \/ n = width + 1
        \/ n > width /\ (n > 0 => r[1] # 0)
    <3>1. n >= width + 1
      BY <1>0, <1>2, <2>2
    <3>2. CASE from = WordDigits
      <4>1. n = 0
        BY <1>0, <2>2, <3>2
      <4> QED
        BY <3>1, <4>1
    <3>3. CASE from = WordDigits - 1 - width
      BY <1>0, <2>2, <3>3
    <3>4. CASE from \in 0 .. WordDigits - 1 /\ buf(num, from) # 0
      <4>1. n > 0 /\ 1 \in 1 .. n /\ from + 1 - 1 = from /\ n > width
        BY <1>0, <2>2, <3>1, <3>4
      <4>2. r[1] = buf(num, from)
        BY <2>3, <4>1
      <4> QED
        BY <3>4, <4>1, <4>2
    <3> QED
      BY <1>2, <3>2, <3>3, <3>4
  <2>10. HexOf(num, width, r)
    <3>1. r = [k \in 1 .. Len(r) |-> Digit(num, Len(r) - k)]
      BY <2>6, <2>7
    <3> QED
      BY <1>5, <2>2, <2>7, <2>8, <2>9, <3>1 DEF HexOf
  <2> QED
    BY <2>10 DEF r
<1> QED
  BY <1>0, <1>4, <1>5

(* Such digits read back as the number.                                     *)
LEMMA HexReadsBack ==
  ASSUME NEW num \in 0 .. 16 ^ WordDigits - 1, NEW width \in Int, NEW digits,
         HexOf(num, width, digits), digits # Junk
  PROVE  /\ width < WordDigits /\ Range(digits) \subseteq 0 .. 15
         /\ SumFunction([j \in 1 .. Len(digits) |-> digits[j] * 16 ^ (Len(digits) - j)]) = num
         /\ \/ Len(digits) = width + 1
            \/ Len(digits) > width /\ (Len(digits) > 0 => digits[1] # 0)
<1> DEFINE n == Len(digits)
           g == [j \in 1 .. n |-> digits[j] * 16 ^ (n - j)]
<1>1. /\ width < WordDigits /\ n \in 0 .. WordDigits
      /\ digits = [k \in 1 .. n |-> Digit(num, n - k)]
      /\ num % 16 ^ n = num
      /\ n = width + 1 \/ (n > width /\ (n > 0 => digits[1] # 0))
  BY DEF HexOf
<1>2. WordDigits \in Nat /\ WordDigits \in 0 .. WordDigits /\ num \in Nat
  <2>1. WordDigits \in Nat
    BY PrintfAssumption
  <2> DEFINE w == 16 ^ WordDigits
  <2>2. w \in Nat \ {0}
    BY <2>1, Powers
  <2>3. num \in 0 .. w - 1
    OBVIOUS
  <2> HIDE DEF w
  <2> QED
    BY <2>1, <2>2, <2>3
<1> HIDE DEF n
<1>3. \A k \in 1 .. n : digits[k] = Digit(num, n - k)
  BY <1>1
<1>4. Range(digits) \subseteq 0 .. 15
  <2> SUFFICES ASSUME NEW k \in 1 .. n PROVE digits[k] \in 0 .. 15
    BY <1>1 DEF Range
  <2>1. n - k \in 0 .. WordDigits
    BY <1>1, <1>2
  <2>2. 16 ^ (n - k) \in Nat \ {0}
    BY <2>1, Powers
  <2>3. Digit(num, n - k) \in 0 .. 15
    BY <1>2, <2>2, DigitOnTop DEF Digit
  <2> QED
    BY <1>3, <2>3
<1>5. g = Value(num, n)
  BY <1>3 DEF Value
<1>6. SumFunction(g) = SumFunctionOnSet(g, 1 .. n)
  BY DEF SumFunction
<1>7. SumFunctionOnSet(Value(num, n), 1 .. n) = num % 16 ^ n
  BY <1>1, <1>2, DigitsAddUp
<1>8. SumFunction(g) = num
  <2> HIDE DEF g
  <2> QED
    BY <1>1, <1>5, <1>6, <1>7
<1> QED
  BY <1>1, <1>4, <1>8 DEF n

(* A width of digits, and one from the arguments, is a number.              *)
LEMMA DecimalIsNumber ==
  ASSUME IsFormat, NEW k \in Nat \ {0}
  PROVE  read_decimal(k) \in Int
<1> DEFINE d == DigitsFrom(k)
           g == [j \in 0 .. d - 1 |-> DigitValue[Char(k + j)] * 10 ^ j]
<1>1. d \in Nat /\ \A j \in k .. k + d - 1 : Char(j) \in Digits
  BY DigitsRead
<1>2. \A c \in Digits : DigitValue[c] \in Nat
  BY DEF Digits, DigitValue
<1>3. read_decimal(k) = SumFunctionOnSet(g, 0 .. d - 1)
  BY DEF read_decimal, SumFunction
<1> HIDE DEF d
<1>4. \A j \in 0 .. d - 1 : g[j] \in Int
  <2> SUFFICES ASSUME NEW j \in 0 .. d - 1 PROVE g[j] \in Int
    OBVIOUS
  <2>1. k + j \in k .. k + d - 1 /\ j \in Nat
    BY <1>1
  <2>2. DigitValue[Char(k + j)] \in Nat
    BY <1>1, <1>2, <2>1
  <2>3. 10 ^ j \in Int
    BY <2>1
  <2>4. \A x, y \in Int : x * y \in Int
    OBVIOUS
  <2>5. DigitValue[Char(k + j)] * 10 ^ j \in Int
    BY <2>2, <2>3, <2>4
  <2> QED
    BY <2>5
<1> HIDE DEF g
<1>5. IsFiniteSet(0 .. d - 1)
  BY <1>1, FS_Interval
<1>6. PICK h : Summing(g, SUBSET (0 .. d - 1), h) /\ SumFunctionOnSet(g, 0 .. d - 1) = h[0 .. d - 1]
  BY <1>5, SumIs
<1>7. \A s \in SUBSET (0 .. d - 1) : h[s] \in Int
  BY <1>4, <1>5, <1>6, SumType
<1> QED
  BY <1>3, <1>6, <1>7

LEMMA SignedIsNumber ==
  ASSUME NEW v \in Int, NEW n \in 0 .. WordDigits
  PROVE  Signed(v, n) \in Int
<1> DEFINE p == 16 ^ n
<1>1. p \in Nat \ {0}
  BY Powers
<1>2. Signed(v, n) = LET low == v % p IN IF low < p \div 2 THEN low ELSE low - p
  BY DEF Signed
<1> HIDE DEF p
<1>3. v % p \in Int
  BY <1>1
<1> QED
  BY <1>2, <1>3, <1>1

(* The remainder of a remainder.                                            *)
LEMMA RestOfRest ==
  ASSUME NEW a \in Int, NEW p \in Nat \ {0}, NEW q \in Nat \ {0}
  PROVE  (a % (q * p)) % p = a % p
<1> DEFINE n == q * p
           r == a % n
           x == a \div n
           m == r % p
           y == r \div p
<1>1. n \in Nat \ {0} /\ n = q * p
  OBVIOUS
<1> HIDE DEF n
<1>2. x \in Int /\ r \in 0 .. n - 1 /\ a = n * x + r
  BY <1>1
<1> HIDE DEF x, r
<1>3. y \in Int /\ m \in 0 .. p - 1 /\ r = p * y + m
  BY <1>2
<1> HIDE DEF y, m
<1>4. a = p * (q * x + y) + m /\ q * x + y \in Int
  <2>1. n * x = p * (q * x) /\ q * x \in Int
    BY <1>1, <1>2
  <2>2. p * (q * x + y) = p * (q * x) + p * y
    BY <1>3, <2>1
  <2>3. p * (q * x) \in Int /\ p * y \in Int
    BY <1>3, <2>1
  <2> QED
    BY <1>2, <1>3, <2>1, <2>2, <2>3
<1>5. a % p = m
  BY <1>3, <1>4, DivUnique
<1> QED
  BY <1>5 DEF m, r, n

(* The word printed is the argument's, cut to the type.                     *)
LEMMA WordPrinted ==
  ASSUME NEW v \in 0 .. 16 ^ WordDigits - 1, NEW type \in Numbers
  PROVE  /\ Word(type, v) \in 0 .. 16 ^ WordDigits - 1
         /\ type = "INT" => Word(type, v) = v % 16 ^ IntDigits
         /\ type = "SHORT_INT" => Word(type, v) % 16 ^ ShortDigits = v % 16 ^ ShortDigits
         /\ type \notin {"INT", "SHORT_INT"} => Word(type, v) = v
<1> DEFINE w == 16 ^ WordDigits
           n == 16 ^ IntDigits
           s == 16 ^ ShortDigits
<1>0. WordDigits \in 0 .. WordDigits /\ IntDigits \in 0 .. WordDigits /\ ShortDigits \in 0 .. WordDigits
  BY PrintfAssumption
<1>1. w \in Nat \ {0} /\ n \in Nat \ {0} /\ s \in Nat \ {0}
  BY <1>0, Powers
<1>2. \E q \in Nat \ {0} : w = q * n
  BY <1>0, PowerDivides
<1>3. PICK q \in Nat \ {0} : w = q * s
  BY <1>0, PowerDivides
<1>4. /\ type = "INT" => Word(type, v) = v % n
      /\ type = "SHORT_INT" => Word(type, v) = Signed(v, ShortDigits) % w
      /\ type \notin {"INT", "SHORT_INT"} => Word(type, v) = v
  BY DEF Word
<1>5. Signed(v, ShortDigits) = LET low == v % s IN IF low < s \div 2 THEN low ELSE low - s
  BY DEF Signed
<1>6. v \in 0 .. w - 1
  OBVIOUS
<1> DEFINE g == Signed(v, ShortDigits)
<1>7. g \in Int
  <2> HIDE DEF w
  <2>1. v \in Int
    BY <1>1, <1>6
  <2> QED
    BY <1>0, <2>1, SignedIsNumber
<1> SUFFICES /\ Word(type, v) \in 0 .. w - 1
             /\ type = "INT" => Word(type, v) = v % n
             /\ type = "SHORT_INT" => Word(type, v) % s = v % s
             /\ type \notin {"INT", "SHORT_INT"} => Word(type, v) = v
  OBVIOUS
<1> HIDE DEF w, n, s, g
<1>8. CASE type = "INT"
  <2>1. v % n \in 0 .. n - 1 /\ n <= w
    <3>1. v % n \in 0 .. n - 1
      BY <1>1, <1>6
    <3>2. \A x \in Nat \ {0} : x * n >= n
      BY <1>1
    <3> QED
      BY <1>2, <3>1, <3>2
  <2>2. v % n \in 0 .. w - 1
    BY <1>1, <2>1
  <2> QED
    BY <1>4, <1>8, <2>2
<1>9. CASE type = "SHORT_INT"
  <2>1. g % w \in 0 .. w - 1
    BY <1>1, <1>7
  <2>2. (g % w) % s = g % s
    BY <1>1, <1>3, <1>7, RestOfRest
  <2>3. g % s = v % s
    <3> DEFINE low == v % s
               x == v \div s
    <3>1. v \in Int
      BY <1>1, <1>6
    <3>2. low \in 0 .. s - 1 /\ x \in Int /\ v = s * x + low
      BY <1>1, <3>1
    <3> HIDE DEF x
    <3>3. g = low \/ g = low - s
      BY <1>5 DEF g
    <3>4. g = s * 0 + low \/ g = s * (-1) + low
      BY <1>1, <3>2, <3>3
    <3>5. g % s = low
      <4> HIDE DEF low
      <4>1. (s * 0 + low) % s = low
        BY <1>1, <3>2, DivUnique
      <4>2. (s * (-1) + low) % s = low
        BY <1>1, <3>2, DivUnique
      <4> QED
        BY <3>4, <4>1, <4>2
    <3> QED
      BY <3>5
  <2>4. Word(type, v) = g % w
    BY <1>4, <1>9 DEF g
  <2>5. type # "INT" /\ type \in {"INT", "SHORT_INT"}
    BY <1>9
  <2> QED
    BY <2>1, <2>2, <2>3, <2>4, <2>5, Zenon
<1>10. CASE type \notin {"INT", "SHORT_INT"}
  BY <1>4, <1>6, <1>10
<1> QED
  BY <1>8, <1>9, <1>10

(* The lengths a number may have, by the type they stand for.               *)
LEMMA NumberLengths ==
  ASSUME NEW len \in Lengths, NEW c \in {"x", "X"}, TypeFor(LengthType[len], c) \in Numbers
  PROVE  \/ len = <<>> /\ TypeFor(LengthType[len], c) = "INT"
         \/ len = <<"h">> /\ TypeFor(LengthType[len], c) = "SHORT_INT"
         \/ /\ \E a \in {"l", "z", "j", "t"} : len = <<a>> \/ len = <<a, a>>
            /\ TypeFor(LengthType[len], c) \notin {"INT", "SHORT_INT"}
<1> DEFINE type == LengthType[len]
<1>1. TypeFor(type, c) = type
  <2> HIDE DEF type
  <2> QED
    BY DEF TypeFor, Floating
<1>2. \A x \in Lengths :
        LengthType[x] \in Numbers =>
          \/ x = <<>> /\ LengthType[x] = "INT"
          \/ x = <<"h">> /\ LengthType[x] = "SHORT_INT"
          \/ x \in {<<"l">>, <<"l", "l">>, <<"z">>, <<"j">>, <<"t">>}
               /\ LengthType[x] \notin {"INT", "SHORT_INT"}
  <2> SUFFICES ASSUME NEW x \in Lengths, LengthType[x] \in Numbers
               PROVE  \/ x = <<>> /\ LengthType[x] = "INT"
                      \/ x = <<"h">> /\ LengthType[x] = "SHORT_INT"
                      \/ x \in {<<"l">>, <<"l", "l">>, <<"z">>, <<"j">>, <<"t">>}
                           /\ LengthType[x] \notin {"INT", "SHORT_INT"}
    OBVIOUS
  <2>1. x \in {<<>>, <<"h">>, <<"h", "h">>, <<"l">>, <<"l", "l">>, <<"j">>, <<"z">>, <<"t">>, <<"L">>}
    BY DEF Lengths
  <2>2. CASE x = <<>>
    BY <2>2 DEF LengthType, Lengths
  <2>3. CASE x = <<"h">>
    BY <2>3 DEF LengthType, Lengths
  <2>4. CASE x = <<"h", "h">>
    BY <2>4 DEF LengthType, Lengths, Numbers
  <2>5. CASE x = <<"L">>
    BY <2>5 DEF LengthType, Lengths, Numbers
  <2>6. CASE x \in {<<"l">>, <<"l", "l">>, <<"z">>, <<"j">>, <<"t">>}
    <3>1. LengthType[x] \in {"LONG_INT", "LONG_LONG_INT", "INTMAX_T", "SIZE_T", "PTRDIFF_T"}
      BY <2>6 DEF LengthType, Lengths
    <3> QED
      BY <2>6, <3>1
  <2> QED
    BY <2>1, <2>2, <2>3, <2>4, <2>5, <2>6
<1>3. \/ len = <<>> /\ type = "INT"
      \/ len = <<"h">> /\ type = "SHORT_INT"
      \/ len \in {<<"l">>, <<"l", "l">>, <<"z">>, <<"j">>, <<"t">>}
           /\ type \notin {"INT", "SHORT_INT"}
  BY <1>1, <1>2
<1>4. len \in {<<"l">>, <<"l", "l">>, <<"z">>, <<"j">>, <<"t">>} =>
        \E a \in {"l", "z", "j", "t"} : len = <<a>> \/ len = <<a, a>>
  OBVIOUS
<1> QED
  BY <1>1, <1>3, <1>4, Zenon

(* The length is seen in the text: an h is one, and so is a letter in front *)
(* of the specifier.                                                        *)
LEMMA LengthSeen ==
  ASSUME IsFormat, i \in Nat \ {0}, AtDirective, get_format(i + 1).ok,
         get_format(i + 1).specifier \in {"x", "X"}, get_format(i + 1).type \in Numbers
  PROVE  LET f == get_format(i + 1)
             t == SubSeq(fmt, i, f.end)
         IN  \/ /\ f.type = "INT" /\ ~Contains(t, "h")
                /\ t[Len(t) - 1] \notin {"l", "z", "j", "t"}
             \/ /\ f.type = "SHORT_INT" /\ Contains(t, "h")
                /\ t[Len(t) - 1] \notin {"l", "z", "j", "t"}
             \/ /\ f.type \notin {"INT", "SHORT_INT"} /\ ~Contains(t, "h")
                /\ t[Len(t) - 1] \in {"l", "z", "j", "t"}
<1> DEFINE k == i + 1
           W == WidthAt(k)
           P == PrecisionAt(k)
           L == LengthAt(k)
           e == EndAt(k)
           t == SubSeq(fmt, i, e)
           len == get_length(L)
           type == get_format(k).type
<1>1. /\ Char(i) = "%" /\ e \in i + 1 .. Len(fmt)
      /\ W \in Nat /\ P \in Nat /\ L \in Nat
      /\ W >= k /\ W <= P /\ P <= L /\ L <= e
      /\ W <= k \/ (W = k + 1 /\ Char(k) \in FlagChars)
      /\ Char(W) = "*" => P = W + 1
      /\ Char(W) # "*" => \A j \in W .. P - 1 : Char(j) \in Digits
      /\ L = P \/ (L = P + 1 /\ Char(P) = ".")
      /\ len \in Lengths /\ e = L + Len(len)
      /\ len \in {<<>>, <<Char(L)>>, <<Char(L), Char(L + 1)>>}
      /\ Char(e) \in Specifiers
  BY ParsedShape
<1>2. /\ Len(fmt) \in Nat /\ i \in 1 .. Len(fmt)
  BY DEF IsFormat, AtDirective, More
<1>3. Len(t) = e - i + 1 /\ \A j \in 1 .. e - i + 1 : t[j] = Char(i + j - 1)
  <2>1. e \in i .. Len(fmt)
    BY <1>1, <1>2
  <2> HIDE DEF e
  <2> QED
    BY <1>2, <2>1, Piece
<1>4. /\ get_format(k).type = TypeFor(LengthType[len], Char(e)) /\ get_format(k).end = e
      /\ get_format(k).specifier = Char(e)
  BY DEF get_format, EndAt, LengthAt, PrecisionAt, WidthAt
<1>5. \/ len = <<>> /\ type = "INT"
      \/ len = <<"h">> /\ type = "SHORT_INT"
      \/ /\ \E a \in {"l", "z", "j", "t"} : len = <<a>> \/ len = <<a, a>>
         /\ type \notin {"INT", "SHORT_INT"}
  BY <1>1, <1>4, NumberLengths
<1> SUFFICES \/ type = "INT" /\ ~Contains(t, "h") /\ t[Len(t) - 1] \notin {"l", "z", "j", "t"}
             \/ type = "SHORT_INT" /\ Contains(t, "h") /\ t[Len(t) - 1] \notin {"l", "z", "j", "t"}
             \/ /\ type \notin {"INT", "SHORT_INT"} /\ ~Contains(t, "h")
                /\ t[Len(t) - 1] \in {"l", "z", "j", "t"}
  BY <1>4
<1> HIDE DEF len, W, P, L, e, t, type
<1>6. \A x \in i .. L - 1 : Char(x) \notin LengthLetters
  <2> SUFFICES ASSUME NEW x \in i .. L - 1 PROVE Char(x) \notin LengthLetters
    OBVIOUS
  <2>1. CASE x = i
    BY <1>1, <2>1 DEF LengthLetters
  <2>2. CASE x >= k /\ x < W
    <3>1. x = k /\ W = k + 1
      BY <1>1, <1>2, <2>2
    <3>2. Char(x) \in FlagChars
      BY <1>1, <3>1
    <3> QED
      BY <3>2, Letters
  <2>3. CASE x >= W /\ x < P
    <3>1. CASE Char(W) = "*"
      <4>1. x = W
        BY <1>1, <2>3, <3>1
      <4> QED
        BY <3>1, <4>1 DEF LengthLetters
    <3>2. CASE Char(W) # "*"
      <4>1. x \in W .. P - 1
        BY <1>1, <2>3
      <4>2. Char(x) \in Digits
        BY <1>1, <3>2, <4>1
      <4> QED
        BY <4>2, Letters
    <3> QED
      BY <3>1, <3>2
  <2>4. CASE x >= P
    <3>1. x = P /\ Char(P) = "."
      BY <1>1, <2>4
    <3> QED
      BY <3>1 DEF LengthLetters
  <2> QED
    BY <1>1, <1>2, <2>1, <2>2, <2>3, <2>4
<1>7. e - i >= 1 /\ Len(t) - 1 \in 1 .. e - i + 1 /\ t[Len(t) - 1] = Char(e - 1)
  <2>1. e - i >= 1 /\ e - i \in 1 .. e - i + 1 /\ i + (e - i) - 1 = e - 1 /\ Len(t) - 1 = e - i
    BY <1>1, <1>2, <1>3
  <2> QED
    BY <1>3, <2>1
<1>8. Contains(t, "h") => \E x \in L .. e - 1 : Char(x) = "h"
  <2> SUFFICES ASSUME Contains(t, "h") PROVE \E x \in L .. e - 1 : Char(x) = "h"
    OBVIOUS
  <2>1. PICK j \in 1 .. e - i + 1 : t[j] = "h"
    BY <1>3 DEF Contains
  <2> DEFINE x == i + j - 1
  <2>2. x \in i .. e /\ Char(x) = "h"
    BY <1>1, <1>2, <1>3, <2>1
  <2> HIDE DEF x
  <2>3. "h" \in LengthLetters
    BY DEF LengthLetters
  <2>4. x \notin i .. L - 1
    BY <1>6, <2>2, <2>3
  <2>5. x # e
    BY <1>1, <2>2, <2>3, Letters
  <2>6. x \in L .. e - 1
    BY <1>1, <1>2, <2>2, <2>4, <2>5
  <2> QED
    BY <2>2, <2>6
<1>9. CASE len = <<>> /\ type = "INT"
  <2>1. e = L
    BY <1>1, <1>9
  <2>2. e - 1 \in i .. L - 1 /\ ~ \E x \in L .. e - 1 : TRUE
    BY <1>1, <1>2, <2>1
  <2>3. Char(e - 1) \notin LengthLetters
    BY <1>6, <2>2
  <2>4. t[Len(t) - 1] \notin {"l", "z", "j", "t"}
    BY <1>7, <2>3 DEF LengthLetters
  <2>5. ~Contains(t, "h")
    BY <1>8, <2>2
  <2> QED
    BY <1>9, <2>4, <2>5
<1>10. CASE len = <<"h">> /\ type = "SHORT_INT"
  <2>1. Len(len) = 1
    BY <1>10
  <2>2. Char(L) = "h" /\ e = L + 1
    BY <1>1, <1>10, <2>1
  <2>3. t[Len(t) - 1] = "h"
    BY <1>1, <1>7, <2>2
  <2>4. Contains(t, "h")
    BY <1>3, <1>7, <2>3 DEF Contains
  <2> QED
    BY <1>10, <2>3, <2>4
<1>11. CASE /\ \E a \in {"l", "z", "j", "t"} : len = <<a>> \/ len = <<a, a>>
            /\ type \notin {"INT", "SHORT_INT"}
  <2>1. PICK a \in {"l", "z", "j", "t"} : len = <<a>> \/ len = <<a, a>>
    BY <1>11
  <2>2. \A x \in L .. e - 1 : Char(x) = a
    <3>1. CASE len = <<a>>
      <4>1. Len(len) = 1 /\ Char(L) = a
        BY <1>1, <3>1
      <4> QED
        BY <1>1, <4>1
    <3>2. CASE len = <<a, a>>
      <4>1. Len(len) = 2 /\ Char(L) = a /\ Char(L + 1) = a
        BY <1>1, <3>2
      <4>2. \A x \in L .. e - 1 : x = L \/ x = L + 1
        BY <1>1, <4>1
      <4> QED
        BY <4>1, <4>2
    <3> QED
      BY <2>1, <3>1, <3>2
  <2>3. e - 1 \in L .. e - 1
    <3>1. e >= L + 1
      <4>1. len = <<a>> => Len(len) = 1
        OBVIOUS
      <4>2. len = <<a, a>> => Len(len) = 2
        OBVIOUS
      <4>3. Len(len) = 1 \/ Len(len) = 2
        BY <2>1, <4>1, <4>2, Zenon
      <4>4. e = L + Len(len) /\ L \in Nat
        BY <1>1, Zenon
      <4>5. e = L + 1 \/ e = L + 2
        BY <4>3, <4>4, Zenon
      <4> QED
        BY <4>4, <4>5
    <3>2. L \in Nat /\ e \in Int
      BY <1>1
    <3> QED
      BY <3>1, <3>2
  <2>4. t[Len(t) - 1] = a
    BY <1>7, <2>2, <2>3
  <2>5. ~Contains(t, "h")
    BY <1>8, <2>2
  <2> QED
    BY <1>11, <2>4, <2>5
<1> QED
  BY <1>5, <1>9, <1>10, <1>11

\* What NumbersReadBack asks of a turn.
NumberOK(x) ==
  x.shown = "number" =>
    LET t == x.text
        n == Len(x.digits)
        value == SumFunction([j \in 1 .. n |-> x.digits[j] * 16 ^ (n - j)])
        width == x.width
    IN  IF x.digits = Junk THEN width >= WordDigits
        ELSE /\ width < WordDigits /\ Range(x.digits) \subseteq 0 .. 15
             /\ CASE Contains(t, "h") -> value % 16 ^ ShortDigits = x.arg % 16 ^ ShortDigits
                  [] t[Len(t) - 1] \in {"l", "z", "j", "t"} -> value = x.arg
                  [] OTHER -> value = x.arg % 16 ^ IntDigits
             /\ n = width + 1 \/ (n > width /\ (n > 0 => x.digits[1] # 0))

NumberInvariant == ArgumentInvariant /\ \A k \in DOMAIN out : NumberOK(out[k])

(* A number that is shown with the type its text asks for reads back.       *)
LEMMA NumberRight ==
  ASSUME NEW v \in 0 .. 16 ^ WordDigits - 1, NEW width \in Int, NEW type \in Numbers,
         NEW x, x.arg = v, x.width = width,
         x.digits = print_integer_as_hex(Word(type, v), width),
         \/ /\ type = "INT" /\ ~Contains(x.text, "h")
            /\ x.text[Len(x.text) - 1] \notin {"l", "z", "j", "t"}
         \/ /\ type = "SHORT_INT" /\ Contains(x.text, "h")
            /\ x.text[Len(x.text) - 1] \notin {"l", "z", "j", "t"}
         \/ /\ type \notin {"INT", "SHORT_INT"} /\ ~Contains(x.text, "h")
            /\ x.text[Len(x.text) - 1] \in {"l", "z", "j", "t"}
  PROVE  NumberOK(x)
<1> DEFINE num == Word(type, v)
           d == x.digits
           n == Len(d)
           value == SumFunction([j \in 1 .. n |-> d[j] * 16 ^ (n - j)])
<1>1. /\ num \in 0 .. 16 ^ WordDigits - 1
      /\ type = "INT" => num = v % 16 ^ IntDigits
      /\ type = "SHORT_INT" => num % 16 ^ ShortDigits = v % 16 ^ ShortDigits
      /\ type \notin {"INT", "SHORT_INT"} => num = v
  BY WordPrinted
<1> HIDE DEF num
<1>2. HexOf(num, width, d)
  <2>1. HexOf(num, width, print_integer_as_hex(num, width))
    BY <1>1, HexShown
  <2> QED
    BY <2>1 DEF num
<1>3. CASE d = Junk
  <2>1. width >= WordDigits
    <3> SUFFICES ASSUME ~ width >= WordDigits PROVE FALSE
      OBVIOUS
    <3>1. /\ Len(d) \in 0 .. WordDigits
          /\ d = [k \in 1 .. Len(d) |-> Digit(num, Len(d) - k)]
      BY <1>2 DEF HexOf
    <3>2. Len(d) = 1 /\ d[1] = -1
      BY <1>3 DEF Junk
    <3>3. d[1] = Digit(num, 0)
      <4>1. 1 \in 1 .. Len(d) /\ Len(d) - 1 = 0
        BY <3>2
      <4> HIDE DEF d
      <4>2. d[1] = Digit(num, Len(d) - 1)
        BY <3>1, <4>1
      <4> QED
        BY <4>1, <4>2
    <3>4. Digit(num, 0) \in 0 .. 15
      <4>1. 0 \in 0 .. WordDigits /\ WordDigits \in 0 .. WordDigits
        BY PrintfAssumption
      <4>2. 16 ^ 0 \in Nat \ {0} /\ 16 ^ WordDigits \in Nat \ {0}
        BY <4>1, Powers
      <4> DEFINE w == 16 ^ WordDigits
                 p == 16 ^ 0
      <4>3. num \in 0 .. w - 1 /\ w \in Nat \ {0} /\ p \in Nat \ {0}
        BY <1>1, <4>2
      <4> HIDE DEF w, p
      <4>4. num \in Nat
        BY <4>3
      <4>5. (num \div p) % 16 \in 0 .. 15
        BY <4>3, <4>4, DigitOnTop
      <4> QED
        BY <4>5 DEF Digit, p
    <3> QED
      BY <3>2, <3>3, <3>4
  <2> QED
    BY <1>3, <2>1 DEF NumberOK
<1>4. CASE d # Junk
  <2>1. /\ width < WordDigits /\ Range(d) \subseteq 0 .. 15
        /\ value = num
        /\ n = width + 1 \/ (n > width /\ (n > 0 => d[1] # 0))
    BY <1>1, <1>2, <1>4, HexReadsBack
  <2> HIDE DEF value
  <2>2. (CASE Contains(x.text, "h") -> value % 16 ^ ShortDigits = v % 16 ^ ShortDigits
           [] x.text[Len(x.text) - 1] \in {"l", "z", "j", "t"} -> value = v
           [] OTHER -> value = v % 16 ^ IntDigits)
    <3> DEFINE h == Contains(x.text, "h")
               l == x.text[Len(x.text) - 1] \in {"l", "z", "j", "t"}
    <3>1. \/ ~h /\ ~l /\ value = v % 16 ^ IntDigits
          \/ h /\ ~l /\ value % 16 ^ ShortDigits = v % 16 ^ ShortDigits
          \/ ~h /\ l /\ value = v
      BY <1>1, <2>1, Zenon
    <3> HIDE DEF h, l
    <3>2. (CASE h -> value % 16 ^ ShortDigits = v % 16 ^ ShortDigits
             [] l -> value = v
             [] OTHER -> value = v % 16 ^ IntDigits)
      BY <3>1
    <3> QED
      BY <3>2 DEF h, l
  <2> QED
    BY <1>4, <2>1, <2>2, Zenon DEF NumberOK, value, n, d
<1> QED
  BY <1>3, <1>4

(* The conversion that shows a number, and no other does.                   *)
LEMMA NumberConverted ==
  ASSUME NEW f, NEW width, NEW v, Converted(f, width, v).shown = "number"
  PROVE  /\ f.specifier \in {"x", "X"} /\ f.type \in Numbers
         /\ Converted(f, width, v).digits = print_integer_as_hex(Word(f.type, v), width)
<1> DEFINE hex == print_integer_as_hex(Word(f.type, v), width)
<1>1. CASE f.specifier \in {"x", "X"} /\ f.type \in Numbers
  <2>1. f.type # "CHAR"
    BY <1>1 DEF Numbers
  <2> DEFINE p == IF f.flag # "#" THEN "" ELSE IF f.specifier = "X" THEN "0X" ELSE "0x"
  <2>2. Converted(f, width, v) = [Nothing EXCEPT !.shown = "number", !.prefix = p, !.digits = hex]
    BY <1>1, <2>1 DEF Converted
  <2> HIDE DEF p, hex
  <2>3. Converted(f, width, v).digits = hex
    BY <2>2 DEF Nothing
  <2> QED
    BY <1>1, <2>3 DEF hex
<1>2. CASE ~(f.specifier \in {"x", "X"} /\ f.type \in Numbers)
  <2> DEFINE string == [Nothing EXCEPT !.shown = "string", !.at = PointerArg(v)]
  <2>1. Converted(f, width, v) = string \/ Converted(f, width, v) = Nothing
    <3>1. CASE f.type = "CHAR"
      BY <1>2, <3>1 DEF Converted
    <3>2. CASE f.type # "CHAR"
      BY <1>2, <3>2 DEF Converted
    <3> HIDE DEF string
    <3> QED
      BY <3>1, <3>2, Zenon
  <2>2. string.shown # "number" /\ Nothing.shown # "number"
    BY DEF Nothing
  <2> HIDE DEF string
  <2> QED
    BY <2>1, <2>2, Zenon
<1> QED
  BY <1>1, <1>2

(* A width is a number, and an argument a word.                             *)
LEMMA WidthIsNumber ==
  ASSUME ArgumentInvariant
  PROVE  /\ \A k \in Nat \ {0} : Arg(k) \in 0 .. 16 ^ WordDigits - 1
         /\ get_format(i + 1).width \in Int
         /\ Signed(Arg(next_arg), IntDigits) \in Int
<1> DEFINE w == 16 ^ WordDigits
<1>1. WordDigits \in 0 .. WordDigits /\ IntDigits \in 0 .. WordDigits
  BY PrintfAssumption
<1>2. w \in Nat \ {0}
  BY <1>1, Powers
<1>3. \A k \in Nat \ {0} : Arg(k) \in 0 .. w - 1
  <2>1. Len(args) \in Nat /\ \A k \in 1 .. Len(args) : args[k] \in 0 .. w - 1
    BY DEF ArgumentInvariant, ArgumentsAre
  <2>2. 0 \in 0 .. w - 1
    BY <1>2
  <2> HIDE DEF w
  <2> QED
    BY <2>1, <2>2 DEF Arg
<1>4. i \in Nat \ {0} /\ IsFormat /\ next_arg \in Nat \ {0}
  BY DEF ArgumentInvariant, FormatInvariant, InPieces
<1>5. get_format(i + 1).width \in Int
  <2>1. get_format(i + 1).width = read_decimal(WidthAt(i + 1))
    BY DEF get_format, WidthAt
  <2>2. WidthAt(i + 1) \in Nat \ {0}
    BY <1>4 DEF WidthAt, get_flags
  <2> QED
    BY <1>4, <2>1, <2>2, DecimalIsNumber
<1>6. Signed(Arg(next_arg), IntDigits) \in Int
  <2> HIDE DEF w
  <2>1. Arg(next_arg) \in Int
    BY <1>2, <1>3, <1>4
  <2> QED
    BY <1>1, <2>1, SignedIsNumber
<1> QED
  BY <1>3, <1>5, <1>6

(* A character shows no number.                                             *)
LEMMA PrintCharNumbers ==
  ASSUME NumberInvariant, PrintChar
  PROVE  NumberInvariant'
<1> DEFINE two == Char(i) = "\\" \/ (Char(i) = "%" /\ Char(i + 1) = "%")
           last == IF two THEN i + 1 ELSE i
           e == [Nothing EXCEPT !.text = SubSeq(fmt, i, last), !.shown = Char(last)]
<1>1. out' = Append(out, e) /\ i' = last + 1 /\ fmt' = fmt
  BY DEF PrintChar, More
<1>2. ArgumentInvariant /\ IsFormat /\ InPieces /\ i \in Nat \ {0}
  BY DEF NumberInvariant, ArgumentInvariant, FormatInvariant, InPieces
<1>3. last \in Nat \ {0} /\ last >= i
  BY <1>2
<1> HIDE DEF two, last
<1>4. e.text = SubSeq(fmt, i, last) /\ e.shown = Char(last)
  BY DEF Nothing
<1>5. NumberOK(e)
  <2>1. Char(last) # "number"
    BY <1>2, <1>3, CharacterShown
  <2> QED
    BY <1>4, <2>1 DEF NumberOK
<1> HIDE DEF e
<1>6. /\ \A k \in DOMAIN out : out'[k] = out[k]
      /\ \A k \in DOMAIN out' : k \in DOMAIN out \/ out'[k] = e
  BY <1>1, <1>2, <1>3, <1>4, TurnCounted
<1>7. \A k \in DOMAIN out' : NumberOK(out'[k])
  BY <1>5, <1>6 DEF NumberInvariant
<1>8. ArgumentInvariant'
  BY <1>2, PrintCharTakes
<1> QED
  BY <1>7, <1>8 DEF NumberInvariant, NumberOK

(* A directive shows the one its text asks for.                             *)
LEMMA DirectiveNumbers ==
  ASSUME NumberInvariant, Directive
  PROVE  NumberInvariant'
<1> DEFINE f == get_format(i + 1)
           v == Arg(ValueArg(f))
           width == IF f.star THEN Signed(Arg(next_arg), IntDigits) ELSE f.width
           c == Converted(f, width, v)
           last == f.end
           e == [c EXCEPT !.text = SubSeq(fmt, i, last), !.width = width, !.arg = v]
<1>1. out' = Append(out, e) /\ i' = last + 1 /\ fmt' = fmt /\ AtDirective /\ f.ok
  BY DEF Directive, AtDirective, More
<1>2. /\ ArgumentInvariant /\ IsFormat /\ InPieces /\ i \in Nat \ {0}
      /\ next_arg \in Nat \ {0}
  BY DEF NumberInvariant, ArgumentInvariant, FormatInvariant, InPieces
<1>3. v \in 0 .. 16 ^ WordDigits - 1 /\ width \in Int
  <2>1. ValueArg(f) \in Nat \ {0}
    BY <1>2 DEF ValueArg
  <2>2. /\ \A k \in Nat \ {0} : Arg(k) \in 0 .. 16 ^ WordDigits - 1
        /\ f.width \in Int /\ Signed(Arg(next_arg), IntDigits) \in Int
    BY <1>2, WidthIsNumber
  <2> HIDE DEF f
  <2> QED
    BY <2>1, <2>2
<1>4. last \in Nat /\ last >= i
  <2>1. last \in i + 1 .. Len(fmt)
    BY <1>1, <1>2, ParsedIsDirective
  <2> HIDE DEF last
  <2> QED
    BY <1>2, <2>1 DEF IsFormat
<1>5. DOMAIN c = DOMAIN Nothing
  <2> HIDE DEF f, v, width
  <2> QED
    BY DEF Converted, Nothing
<1>6. {"text", "arg", "shown", "width", "digits"} \subseteq DOMAIN Nothing
  BY DEF Nothing
<1>7. f.specifier \in {"x", "X"} /\ f.type \in Numbers =>
        LET t == SubSeq(fmt, i, last)
        IN  \/ /\ f.type = "INT" /\ ~Contains(t, "h")
               /\ t[Len(t) - 1] \notin {"l", "z", "j", "t"}
            \/ /\ f.type = "SHORT_INT" /\ Contains(t, "h")
               /\ t[Len(t) - 1] \notin {"l", "z", "j", "t"}
            \/ /\ f.type \notin {"INT", "SHORT_INT"} /\ ~Contains(t, "h")
               /\ t[Len(t) - 1] \in {"l", "z", "j", "t"}
  BY <1>1, <1>2, LengthSeen
<1>8. c.shown = "number" =>
        /\ f.specifier \in {"x", "X"} /\ f.type \in Numbers
        /\ c.digits = print_integer_as_hex(Word(f.type, v), width)
  <2> HIDE DEF f, v, width
  <2> QED
    BY NumberConverted
<1> HIDE DEF c, width, v
<1>9. /\ e.text = SubSeq(fmt, i, last) /\ e.arg = v /\ e.width = width
      /\ e.shown = c.shown /\ e.digits = c.digits
  BY <1>5, <1>6
<1> HIDE DEF f, last, e
<1>10. NumberOK(e)
  <2>1. CASE e.shown # "number"
    BY <2>1 DEF NumberOK
  <2>2. CASE e.shown = "number"
    BY <1>3, <1>7, <1>8, <1>9, <2>2, NumberRight
  <2> QED
    BY <2>1, <2>2
<1>11. /\ \A k \in DOMAIN out : out'[k] = out[k]
       /\ \A k \in DOMAIN out' : k \in DOMAIN out \/ out'[k] = e
  BY <1>1, <1>2, <1>4, <1>9, TurnCounted
<1>12. \A k \in DOMAIN out' : NumberOK(out'[k])
  BY <1>10, <1>11 DEF NumberInvariant
<1>13. ArgumentInvariant'
  BY <1>2, DirectiveTakes
<1> QED
  BY <1>12, <1>13 DEF NumberInvariant, NumberOK

(* Whatever the format and the arguments, a number shown reads back as its  *)
(* argument, cut to the type, and has the digits its width asks for.        *)
THEOREM NumbersCorrect == Spec => []NumbersReadBack
<1>1. Init => NumberInvariant
  <2> SUFFICES ASSUME Init PROVE NumberInvariant
    OBVIOUS
  <2>1. ArgumentInvariant
    BY ArgumentInit
  <2>2. DOMAIN out = {}
    <3>1. out = <<>>
      BY DEF Init
    <3> QED
      BY <3>1
  <2> QED
    BY <2>1, <2>2 DEF NumberInvariant
<1>2. NumberInvariant /\ [Next]_vars => NumberInvariant'
  <2> SUFFICES ASSUME NumberInvariant, [Next]_vars PROVE NumberInvariant'
    OBVIOUS
  <2>1. CASE PrintChar
    BY <2>1, PrintCharNumbers
  <2>2. CASE Directive
    BY <2>2, DirectiveNumbers
  <2>3. CASE AssertFails \/ Return \/ UNCHANGED vars
    <3>1. ArgumentInvariant'
      BY <2>3, RestTakes DEF NumberInvariant
    <3>2. UNCHANGED out
      BY <2>3 DEF AssertFails, Return, vars
    <3> QED
      BY <3>1, <3>2 DEF NumberInvariant, NumberOK
  <2> QED
    BY <2>1, <2>2, <2>3 DEF Next
<1>3. NumberInvariant => NumbersReadBack
  BY Zenon DEF NumberInvariant, NumberOK, NumbersReadBack
<1> QED
  BY <1>1, <1>2, <1>3, PTL DEF Spec
==============================================================================
