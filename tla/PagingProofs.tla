--------------------------- MODULE PagingProofs ----------------------------
(***************************************************************************)
(* Proofs about Paging, for every layout and any number of entries.        *)
(*                                                                         *)
(* The first part is about page numbers and the walk of the memory         *)
(* management unit alone.  A page is the number its four indices spell.    *)
(* descened_page_table drops the first of them and appends another, so the *)
(* page of a table has as its last indices the ones that lead to that      *)
(* table, behind as many recursive ones as the way is shorter than four.   *)
(***************************************************************************)
EXTENDS Paging, TLAPS

-----------------------------------------------------------------------------
(* Numbers *)

(* A quotient and its remainder.                                            *)
LEMMA Division ==
  ASSUME NEW a \in Nat, NEW n \in Nat \ {0}
  PROVE  /\ a \div n \in Nat
         /\ a % n \in 0 .. n - 1
         /\ a = n * (a \div n) + (a % n)
OBVIOUS

(* Quotient and remainder are the only ones of their kind.                  *)
LEMMA DivUnique ==
  ASSUME NEW n \in Nat \ {0}, NEW q \in Int, NEW r \in 0 .. n - 1
  PROVE  (n * q + r) \div n = q /\ (n * q + r) % n = r
<1> DEFINE x == n * q + r
           k == x \div n
           m == x % n
<1>1. x \in Int
  OBVIOUS
<1>2. k \in Int /\ m \in 0 .. n - 1 /\ x = n * k + m
  BY <1>1, SMT
<1>3. ~ (k < q)
  <2>1. SUFFICES ASSUME k + 1 <= q PROVE FALSE
    BY <1>2
  <2>2. n * (k + 1) <= n * q
    BY <1>2, <2>1, SMT
  <2> QED
    BY <1>2, <2>2
<1>4. ~ (q < k)
  <2>1. SUFFICES ASSUME q + 1 <= k PROVE FALSE
    BY <1>2
  <2>2. n * (q + 1) <= n * k
    BY <1>2, <2>1, SMT
  <2> QED
    BY <1>2, <2>2
<1>5. k = q
  BY <1>2, <1>3, <1>4
<1> QED
  BY <1>2, <1>5

(* A multiple of the divisor only adds to the quotient.                     *)
LEMMA DivisionOfSum ==
  ASSUME NEW n \in Nat \ {0}, NEW k \in Nat, NEW z \in Nat
  PROVE  /\ (n * k + z) \div n = k + (z \div n)
         /\ (n * k + z) % n = z % n
<1> DEFINE q == z \div n
           r == z % n
<1>1. q \in Nat /\ r \in 0 .. n - 1 /\ z = n * q + r
  BY Division
<1>2. n * k + z = n * (k + q) + r
  BY <1>1, SMT
<1>3. k + q \in Int
  BY <1>1
<1>4. (n * (k + q) + r) \div n = k + q /\ (n * (k + q) + r) % n = r
  <2> HIDE DEF q, r
  <2> QED
    BY <1>1, <1>3, DivUnique
<1> QED
  BY <1>2, <1>4

(* Division by a product is division by one factor, then by the other.      *)
LEMMA NestedDivision ==
  ASSUME NEW x \in Nat, NEW n \in Nat \ {0}, NEW m \in Nat \ {0}
  PROVE  x \div (n * m) = (x \div n) \div m
<1> DEFINE q == x \div n
           e == x % n
           k == q \div m
           f == q % m
<1>1. q \in Nat /\ e \in 0 .. n - 1 /\ x = n * q + e
  BY Division
<1>2. k \in Nat /\ f \in 0 .. m - 1 /\ q = m * k + f
  BY <1>1, Division
<1> HIDE DEF q, e, k, f
<1>3. n * m \in Nat \ {0}
  BY SMT
<1>4. n * f + e \in 0 .. n * m - 1
  <2>1. n * f <= n * (m - 1)
    BY <1>2, SMT
  <2>2. n * f >= 0
    BY <1>2, SMT
  <2> QED
    BY <1>1, <1>2, <2>1, <2>2, SMT
<1>5. x = (n * m) * k + (n * f + e)
  BY <1>1, <1>2, SMT
<1>6. x \div (n * m) = k
  <2>1. ASSUME NEW g \in Nat \ {0}, NEW r \in 0 .. g - 1
        PROVE  (g * k + r) \div g = k
    <3>1. k \in Int
      BY <1>2
    <3> QED
      BY <3>1, DivUnique
  <2> QED
    BY <1>3, <1>4, <1>5, <2>1
<1> QED
  BY <1>6 DEF k, q

-----------------------------------------------------------------------------
(* Pages and their digits *)

(* A table has more than one entry.                                         *)
LEMMA RType == R \in Nat \ {0} /\ R > 1
BY EntryCountAssumption DEF R

(* The quotient of a page by the count of entries is the page's number      *)
(* without its last digit.                                                  *)
Upper(x) == x \div R

(* What is left of a number without its last digit.                         *)
LEMMA UpperType ==
  ASSUME NEW x \in Nat
  PROVE  Upper(x) \in Nat /\ x % R \in Indices /\ x = R * Upper(x) + (x % R)
BY RType, Division DEF Upper, Indices

(* Quotient and last digit of a page written as such.                       *)
LEMMA DigitAppended ==
  ASSUME NEW q \in Nat, NEW r \in Indices
  PROVE  /\ R * q + r \in Nat
         /\ Upper(R * q + r) = q
         /\ (R * q + r) % R = r
<1>1. q \in Int /\ r \in 0 .. R - 1 /\ R \in Nat \ {0}
  BY RType DEF Indices
<1>2. (R * q + r) \div R = q /\ (R * q + r) % R = r
  BY <1>1, DivUnique
<1>3. R * q + r \in Nat
  BY <1>1, SMT
<1> QED
  BY <1>2, <1>3 DEF Upper

(* Digits in front of a page's number do not change its last one.           *)
LEMMA DigitsInFront ==
  ASSUME NEW k \in Nat, NEW z \in Nat
  PROVE  /\ Upper(R * k + z) = k + Upper(z)
         /\ (R * k + z) % R = z % R
<1>1. R \in Nat \ {0}
  BY RType
<1>2. (R * k + z) \div R = k + (z \div R) /\ (R * k + z) % R = z % R
  BY <1>1, DivisionOfSum
<1> QED
  BY <1>2 DEF Upper

(* A number below R is one digit.                                           *)
LEMMA OneDigit ==
  ASSUME NEW w \in Indices
  PROVE  w % R = w
<1>1. 0 \in Nat
  OBVIOUS
<1>2. (R * 0 + w) % R = w
  BY <1>1, DigitAppended
<1>3. R * 0 + w = w
  BY RType DEF Indices
<1> QED
  BY <1>2, <1>3

(* The indices of a page are its digits.                                    *)
LEMMA IndexAtDigits ==
  ASSUME NEW x \in Nat
  PROVE  /\ IndexAt(1, x) = x % R
         /\ IndexAt(2, x) = Upper(x) % R
         /\ IndexAt(3, x) = Upper(Upper(x)) % R
         /\ IndexAt(4, x) = Upper(Upper(Upper(x))) % R
<1>1. R * R \in Nat \ {0}
  BY RType, SMT
<1>2. x \div (R * R) = Upper(Upper(x))
  BY RType, NestedDivision DEF Upper
<1>3. x \div (R * R * R) = Upper(Upper(x)) \div R
  BY <1>1, <1>2, RType, NestedDivision
<1> QED
  BY <1>2, <1>3 DEF IndexAt, Upper

(* Each of them is an index.                                                *)
LEMMA IndexAtType ==
  ASSUME NEW x \in Nat, NEW level \in 1 .. 4
  PROVE  IndexAt(level, x) \in Indices
<1>1. Upper(x) \in Nat /\ Upper(Upper(x)) \in Nat /\ Upper(Upper(Upper(x))) \in Nat
  BY UpperType
<1>2. level \in {1, 2, 3, 4}
  OBVIOUS
<1> QED
  BY <1>1, <1>2, IndexAtDigits, UpperType

(* The first digit of a page is what is left of it after the others.        *)
LEMMA FirstDigit ==
  ASSUME NEW x \in Pages
  PROVE  x \in Nat /\ Upper(Upper(Upper(x))) = IndexAt(4, x)
<1> DEFINE u == Upper(x)
           v == Upper(u)
           w == Upper(v)
<1>0. x \in Nat /\ x < R * R * R * R
  BY RType, SMT DEF Pages
<1>1. /\ u \in Nat /\ x = R * u + (x % R) /\ x % R \in Indices
      /\ v \in Nat /\ u = R * v + (u % R) /\ u % R \in Indices
      /\ w \in Nat /\ v = R * w + (v % R) /\ v % R \in Indices
  BY <1>0, UpperType
<1> HIDE DEF u, v, w
<1>2. \A a, b, c \in Nat : R * a <= R * b /\ R * b < R * c => a < c
  BY RType, SMT
<1>2a. /\ R * R * R \in Nat /\ R * R \in Nat /\ R * R * R * R = R * (R * R * R) /\ R * R * R = R * (R * R)
  BY RType, SMT
<1>3. \A a \in Nat : \A c \in Nat : \A r \in Nat : R * a + r < R * c => a < c
  BY RType, SMT
<1>4. u < R * R * R
  BY <1>0, <1>1, <1>2a, <1>3 DEF Indices
<1>5. v < R * R
  BY <1>4, <1>1, <1>2a, <1>3 DEF Indices
<1>6. w < R
  BY <1>5, <1>1, <1>3, RType DEF Indices
<1>7. w % R = w
  <2>1. w \in Indices
    BY <1>1, <1>6, RType DEF Indices
  <2> QED
    BY <2>1, OneDigit
<1> QED
  BY <1>0, <1>7, IndexAtDigits DEF w, v, u

(* Two pages with the same indices are the same page.                       *)
LEMMA IndicesTellPages ==
  ASSUME NEW x \in Pages, NEW y \in Pages,
         \A level \in 1 .. 4 : IndexAt(level, x) = IndexAt(level, y)
  PROVE  x = y
<1>1. x \in Nat /\ y \in Nat
  BY FirstDigit
<1>2. IndexAt(1, x) = IndexAt(1, y) /\ IndexAt(2, x) = IndexAt(2, y)
      /\ IndexAt(3, x) = IndexAt(3, y) /\ IndexAt(4, x) = IndexAt(4, y)
  OBVIOUS
<1>3. Upper(Upper(Upper(x))) = Upper(Upper(Upper(y)))
  BY <1>2, FirstDigit
<1>4. Upper(Upper(x)) = Upper(Upper(y))
  BY <1>1, <1>2, <1>3, UpperType, IndexAtDigits
<1>5. Upper(x) = Upper(y)
  BY <1>1, <1>2, <1>4, UpperType, IndexAtDigits
<1> QED
  BY <1>1, <1>2, <1>5, UpperType, IndexAtDigits

(* A page that boot.s did not map has a first or a second index.            *)
LEMMA AboveBootPages ==
  ASSUME NEW x \in Pages, x >= R * R
  PROVE  IndexAt(4, x) # 0 \/ IndexAt(3, x) # 0
<1>0. x \in Nat
  BY FirstDigit
<1>1. SUFFICES ASSUME IndexAt(4, x) = 0, IndexAt(3, x) = 0 PROVE FALSE
  OBVIOUS
<1> DEFINE u == Upper(x)
           v == Upper(u)
<1>2. Upper(v) = 0 /\ v % R = 0
  BY <1>0, <1>1, FirstDigit, IndexAtDigits
<1>3. /\ u \in Nat /\ x = R * u + (x % R) /\ x % R \in Indices
      /\ v \in Nat /\ u = R * v + (u % R) /\ u % R \in Indices
  BY <1>0, UpperType
<1>4. v = 0
  BY <1>2, <1>3, UpperType, RType
<1> HIDE DEF u, v
<1>5. u < R
  BY <1>3, <1>4, RType DEF Indices
<1>6. R * (u + 1) <= R * R
  BY <1>3, <1>5, RType, SMT
<1>7. x < R * (u + 1)
  BY <1>3, RType, SMT DEF Indices
<1> QED
  BY <1>0, <1>3, <1>6, <1>7, RType

(* All indices of the root's own page lead back to the root.                *)
LEMMA RootPage ==
  /\ p4_table \in Pages
  /\ \A level \in 1 .. 4 : IndexAt(level, p4_table) = RecursiveIndex
<1> DEFINE n == RecursiveIndex
           x == R * n + n
           y == R * x + n
           z == R * y + n
<1>1. n \in Nat /\ n \in Indices
  BY RType DEF RecursiveIndex, Indices
<1>2. x \in Nat /\ y \in Nat /\ z \in Nat
  <2>1. \A a \in Nat : R * a + n \in Nat
    BY <1>1, DigitAppended
  <2> HIDE DEF n
  <2> QED
    BY <1>1, <2>1
<1>3. Upper(x) = n /\ x % R = n /\ Upper(y) = x /\ y % R = n
      /\ Upper(z) = y /\ z % R = n
  <2> HIDE DEF n
  <2>1. ASSUME NEW a \in Nat PROVE Upper(R * a + n) = a /\ (R * a + n) % R = n
    BY <1>1, DigitAppended
  <2>2. Upper(x) = n /\ x % R = n
    BY <1>1, <2>1
  <2>3. Upper(y) = x /\ y % R = n
    <3> HIDE DEF x
    <3> QED
      BY <1>2, <2>1
  <2>4. Upper(z) = y /\ z % R = n
    <3> HIDE DEF y
    <3> QED
      BY <1>2, <2>1
  <2> QED
    BY <2>2, <2>3, <2>4
<1>4. p4_table = z /\ p4_table \in Pages
  BY RType, SMT DEF p4_table, Pages, RecursiveIndex
<1>5. n % R = n
  BY <1>1, OneDigit
<1>6. /\ IndexAt(1, z) = n /\ IndexAt(2, z) = n
      /\ IndexAt(3, z) = n /\ IndexAt(4, z) = n
  <2> HIDE DEF n, x, y, z
  <2> QED
    BY <1>2, <1>3, <1>5, IndexAtDigits
<1>7. \A level \in 1 .. 4 : level \in {1, 2, 3, 4}
  OBVIOUS
<1> QED
  <2> HIDE DEF n, x, y, z
  <2>1. \A level \in 1 .. 4 : IndexAt(level, z) = n
    BY <1>6, <1>7
  <2> QED
    BY <1>4, <2>1 DEF n

(* A table's page has the indices of the page above it, shifted by one; the *)
(* first is lost.                                                           *)
LEMMA DescendedIndices ==
  ASSUME NEW t \in Pages, NEW i \in Indices
  PROVE  LET x == descened_page_table(t, i)
         IN  /\ x \in Pages
             /\ IndexAt(1, x) = i
             /\ IndexAt(2, x) = IndexAt(1, t)
             /\ IndexAt(3, x) = IndexAt(2, t)
             /\ IndexAt(4, x) = IndexAt(3, t)
<1> DEFINE R3 == R * R * R
           a == t \div R3
           y == t % R3
           x == R * y + i
           y1 == Upper(y)
           y2 == Upper(y1)
<1>0. t \in Nat /\ i \in Nat /\ i < R
  BY FirstDigit, RType DEF Indices
<1>1. R3 \in Nat \ {0} /\ R * R3 \in Nat \ {0} /\ R * R3 = R * R * R * R
      /\ R * R \in Nat
  BY RType, SMT
<1>2. a \in Nat /\ y \in 0 .. R3 - 1 /\ t = R3 * a + y
  <2> HIDE DEF R3
  <2> QED
    BY <1>0, <1>1, Division
<1>3. /\ y1 \in Nat /\ y = R * y1 + (y % R) /\ y % R \in Indices
      /\ y2 \in Nat /\ y1 = R * y2 + (y1 % R) /\ y1 % R \in Indices
  BY <1>2, UpperType
<1>4. x \in 0 .. R * R3 - 1
  <2> HIDE DEF R3, y
  <2>1. R * y <= R * (R3 - 1)
    BY <1>1, <1>2, RType, SMT
  <2>2. R * y >= 0
    BY <1>2, RType, SMT
  <2> QED
    BY <1>0, <1>1, <1>2, <2>1, <2>2, RType, SMT
<1>5. descened_page_table(t, i) = x
  <2> HIDE DEF R3, y, a
  <2>1. t * R + i = (R * R3) * a + x
    BY <1>0, <1>1, <1>2, RType, SMT
  <2>2. ASSUME NEW g \in Nat \ {0}, NEW r \in 0 .. g - 1
        PROVE  (g * a + r) % g = r
    <3>1. a \in Int
      BY <1>2
    <3> QED
      BY <3>1, DivUnique
  <2> QED
    BY <1>1, <1>4, <2>1, <2>2 DEF descened_page_table
<1>6. x \in Nat /\ x \in Pages
  BY <1>1, <1>4 DEF Pages
<1>7. Upper(x) = y /\ x % R = i
  <2>1. y \in Nat
    BY <1>2
  <2> HIDE DEF y
  <2> QED
    BY <2>1, DigitAppended
<1>8. Upper(t) = R * R * a + y1 /\ t % R = y % R
  <2> HIDE DEF y, a
  <2>1. t = R * (R * R * a) + y /\ R * R * a \in Nat
    BY <1>1, <1>2, RType, SMT
  <2>2. y \in Nat
    BY <1>2
  <2> HIDE DEF y1
  <2>3. ASSUME NEW k \in Nat
        PROVE  Upper(R * k + y) = k + Upper(y) /\ (R * k + y) % R = y % R
    BY <2>2, DigitsInFront
  <2> QED
    BY <2>1, <2>3 DEF y1
<1>9. Upper(Upper(t)) = R * a + y2 /\ Upper(t) % R = y1 % R
  <2> HIDE DEF y, a, y1
  <2>1. Upper(t) = R * (R * a) + y1 /\ R * a \in Nat
    BY <1>1, <1>2, <1>8, RType, SMT
  <2> HIDE DEF y2
  <2>3. ASSUME NEW k \in Nat
        PROVE  Upper(R * k + y1) = k + Upper(y1) /\ (R * k + y1) % R = y1 % R
    BY <1>3, DigitsInFront
  <2> QED
    BY <2>1, <2>3 DEF y2
<1>10. Upper(Upper(t)) % R = y2 % R
  <2> HIDE DEF y, a, y1, y2
  <2>1. (R * a + y2) % R = y2 % R
    BY <1>2, <1>3, DigitsInFront
  <2> QED
    BY <1>9, <2>1
<1>11. /\ IndexAt(1, t) = y % R /\ IndexAt(2, t) = y1 % R /\ IndexAt(3, t) = y2 % R
  BY <1>0, <1>8, <1>9, <1>10, IndexAtDigits
<1>12. /\ IndexAt(1, x) = i /\ IndexAt(2, x) = y % R
       /\ IndexAt(3, x) = y1 % R /\ IndexAt(4, x) = y2 % R
  BY <1>6, <1>7, IndexAtDigits
<1> QED
  BY <1>5, <1>6, <1>11, <1>12

-----------------------------------------------------------------------------
(* The entries a walk reads *)

E4(m, root, page) == m[root][IndexAt(4, page)]
E3(m, root, page) == m[E4(m, root, page).frame][IndexAt(3, page)]
E2(m, root, page) == m[E3(m, root, page).frame][IndexAt(2, page)]
E1(m, root, page) == m[E2(m, root, page).frame][IndexAt(1, page)]

(* What the memory management unit makes of them.                           *)
LEMMA WalkOfEntries ==
  ASSUME NEW m, NEW root, NEW page
  PROVE  LET e4 == E4(m, root, page)
             e3 == E3(m, root, page)
             e2 == E2(m, root, page)
             e1 == E1(m, root, page)
             flags2 == Allowed(Allowed(e4.flags, e3), e2)
         IN  Walk(m, root, page) =
               IF ~(Present(e4) /\ Present(e3) /\ Present(e2)) THEN NoLeaf
               ELSE IF "huge" \in e2.flags
               THEN LeafOf(e2.frame + IndexAt(1, page), flags2)
               ELSE IF ~Present(e1) THEN NoLeaf
               ELSE LeafOf(e1.frame, Allowed(flags2, e1))
BY Zenon DEF Walk, E4, E3, E2, E1

(* A walk over present entries, none of them huge, ends at the last one's   *)
(* frame.                                                                   *)
LEMMA WalkToEnd ==
  ASSUME NEW m, NEW root, NEW page,
         Present(E4(m, root, page)), Present(E3(m, root, page)),
         Present(E2(m, root, page)), "huge" \notin E2(m, root, page).flags,
         Present(E1(m, root, page))
  PROVE  Walk(m, root, page).frame = E1(m, root, page).frame
<1>1. \A f, flags : LeafOf(f, flags).frame = f
  BY DEF LeafOf
<1> QED
  BY <1>1, WalkOfEntries

-----------------------------------------------------------------------------
(* Tables and their places in the two trees *)

Flags == {"present", "writeable", "huge", "no_exec"}
Entries == [frame : Frames, flags : SUBSET Flags]
Tables == [Indices -> Entries]
Memory == [Frames -> Tables]

(* The place of a frame: level 4 for a root, 3 to 1 for the tables below,   *)
(* with the table and the index that lead to it, 0 for all other frames.    *)
Places == [level : 0 .. 4, up : Frames, at : Indices]
Child(place, f, i) == [level |-> place[f].level - 1, up |-> f, at |-> i]

(* An entry that points to a table, if it is present: one of the upper      *)
(* three levels, but not a root's entry for itself, and not one of the huge *)
(* entries of boot.s.                                                       *)
PointsToTable(place, l, f, i) ==
  /\ place[f].level \in 2 .. 4
  /\ f # l.p2
  /\ ~(place[f].level = 4 /\ i = RecursiveIndex)

(* Every table has one place: no two entries lead to the same table.        *)
Tree(m, place, l) ==
  \A f \in Frames, i \in Indices :
    PointsToTable(place, l, f, i) /\ Present(m[f][i]) =>
      /\ m[f][i].flags = Writeable
      /\ place[m[f][i].frame] = Child(place, f, i)

(* What boot.s has built is still there.                                    *)
BootTree(m, place, l) ==
  /\ place[l.p4].level = 4
  /\ m[l.p4][0] = EntryFor(l.p3, Writeable)
  /\ place[l.p3] = Child(place, l.p4, 0)
  /\ m[l.p3][0] = EntryFor(l.p2, Writeable)
  /\ place[l.p2] = Child(place, l.p3, 0)
  /\ m[l.p2] = BootTable(l, l.p2)

(* Free frames are no tables yet and hold nothing.                          *)
FreeFrames(m, place, free) ==
  \A f \in free : place[f].level = 0 /\ m[f] = EmptyTable

Shape(m, place, l, free) ==
  /\ m \in Memory
  /\ place \in [Frames -> Places]
  /\ free \subseteq l.free
  /\ LayoutOK(l)
  /\ Tree(m, place, l)
  /\ BootTree(m, place, l)
  /\ FreeFrames(m, place, free)

(* The tables on the way to a page are there, down to a level.              *)
Reached(m, root, level, page) ==
  /\ level <= 3 => Present(E4(m, root, page))
  /\ level <= 2 => Present(E3(m, root, page))
  /\ level <= 1 => Present(E2(m, root, page))

(* The frame of the table of a level on that way.                           *)
FrameAt(m, root, level, page) ==
  CASE level = 4 -> root
    [] level = 3 -> E4(m, root, page).frame
    [] level = 2 -> E3(m, root, page).frame
    [] level = 1 -> E2(m, root, page).frame

MapsTo(m, root, page, f) ==
  /\ Reached(m, root, 1, page)
  /\ Present(E1(m, root, page))
  /\ E1(m, root, page).frame = f

(* A page the code edits the tables for, below a root: none that boot.s has *)
(* mapped by a huge entry, and none in the window of the recursive entry.   *)
Editable(place, l, root, page) ==
  /\ root \in Frames /\ place[root].level = 4
  /\ page \in Pages /\ IndexAt(4, page) # RecursiveIndex
  /\ root # l.p4 \/ IndexAt(4, page) # 0 \/ IndexAt(3, page) # 0

-----------------------------------------------------------------------------
(* Ways through the tables *)

(* The flags of entries that point to tables.                               *)
LEMMA FlagsOfTables ==
  /\ "present" \in Writeable /\ "writeable" \in Writeable
  /\ "huge" \notin Writeable /\ "no_exec" \notin Writeable
  /\ Writeable \in SUBSET Flags
BY DEF Writeable, Flags

(* Entries of memory hold frames and flags.                                 *)
LEMMA EntryType ==
  ASSUME NEW m \in Memory, NEW f \in Frames, NEW i \in Indices
  PROVE  /\ m[f] \in Tables
         /\ m[f][i] \in Entries
         /\ m[f][i].frame \in Frames /\ m[f][i].flags \in SUBSET Flags
BY DEF Memory, Tables, Entries

(* An index of a page is an index.                                          *)
LEMMA IndexType ==
  ASSUME NEW page \in Pages, NEW level \in 1 .. 4
  PROVE  IndexAt(level, page) \in Indices
BY FirstDigit, IndexAtType

(* Places have a level, a table above and an index.                         *)
LEMMA PlaceType ==
  ASSUME NEW place \in [Frames -> Places], NEW f \in Frames
  PROVE  /\ place[f].level \in 0 .. 4
         /\ place[f].up \in Frames
         /\ place[f].at \in Indices
BY DEF Places

(* The place an entry of a table leads to.                                  *)
LEMMA ChildFields ==
  ASSUME NEW place, NEW f, NEW i
  PROVE  /\ Child(place, f, i).level = place[f].level - 1
         /\ Child(place, f, i).up = f
         /\ Child(place, f, i).at = i
BY DEF Child

(* The tables on the way to an editable page are in their places.           *)
LEMMA WayPlaces ==
  ASSUME NEW m, NEW place, NEW l, NEW free, Shape(m, place, l, free),
         NEW root, NEW page, Editable(place, l, root, page)
  PROVE  /\ E4(m, root, page).frame \in Frames
         /\ E3(m, root, page).frame \in Frames
         /\ E2(m, root, page).frame \in Frames
         /\ E1(m, root, page).frame \in Frames
         /\ Present(E4(m, root, page)) =>
              /\ E4(m, root, page).flags = Writeable
              /\ place[E4(m, root, page).frame] = Child(place, root, IndexAt(4, page))
         /\ Present(E4(m, root, page)) /\ Present(E3(m, root, page)) =>
              /\ E3(m, root, page).flags = Writeable
              /\ place[E3(m, root, page).frame]
                   = Child(place, E4(m, root, page).frame, IndexAt(3, page))
              /\ E3(m, root, page).frame # l.p2
         /\ Reached(m, root, 1, page) =>
              /\ E2(m, root, page).flags = Writeable
              /\ place[E2(m, root, page).frame]
                   = Child(place, E3(m, root, page).frame, IndexAt(2, page))
<1> DEFINE e4 == E4(m, root, page)
           e3 == E3(m, root, page)
           e2 == E2(m, root, page)
           e1 == E1(m, root, page)
           i4 == IndexAt(4, page)
           i3 == IndexAt(3, page)
           i2 == IndexAt(2, page)
           i1 == IndexAt(1, page)
<1>0. /\ m \in Memory /\ place \in [Frames -> Places]
      /\ Tree(m, place, l) /\ BootTree(m, place, l) /\ LayoutOK(l)
      /\ root \in Frames /\ place[root].level = 4
      /\ i4 \in Indices /\ i3 \in Indices /\ i2 \in Indices /\ i1 \in Indices
      /\ i4 # RecursiveIndex
      /\ root # l.p4 \/ i4 # 0 \/ i3 # 0
  BY IndexType DEF Shape, Editable
<1>1. /\ e4 = m[root][i4] /\ e3 = m[e4.frame][i3]
      /\ e2 = m[e3.frame][i2] /\ e1 = m[e2.frame][i1]
  BY DEF E4, E3, E2, E1
<1> HIDE DEF e4, e3, e2, e1, i4, i3, i2, i1
<1>2. e4.frame \in Frames /\ e3.frame \in Frames
      /\ e2.frame \in Frames /\ e1.frame \in Frames
  BY <1>0, <1>1, EntryType
<1>3. l.p4 # l.p2 /\ l.p3 # l.p2 /\ l.p4 \in Frames /\ l.p3 \in Frames /\ l.p2 \in Frames
  BY <1>0 DEF LayoutOK
<1>4. /\ place[l.p4].level = 4 /\ place[l.p3].level = 3 /\ place[l.p2].level = 2
      /\ place[l.p3].up = l.p4 /\ place[l.p3].at = 0
      /\ place[l.p2].up = l.p3 /\ place[l.p2].at = 0
  BY <1>0, ChildFields DEF BootTree
<1>5. ASSUME Present(e4)
      PROVE  e4.flags = Writeable /\ place[e4.frame] = Child(place, root, i4)
  <2>1. PointsToTable(place, l, root, i4)
    BY <1>0, <1>4 DEF PointsToTable
  <2> QED
    BY <1>0, <1>1, <1>5, <2>1 DEF Tree
<1>6. ASSUME Present(e4), Present(e3)
      PROVE  /\ e3.flags = Writeable
             /\ place[e3.frame] = Child(place, e4.frame, i3)
             /\ e3.frame # l.p2
  <2>1. /\ place[e4.frame].level = 3 /\ place[e4.frame].up = root
        /\ place[e4.frame].at = i4
    BY <1>0, <1>5, <1>6, ChildFields
  <2>2. PointsToTable(place, l, e4.frame, i3)
    BY <1>4, <2>1 DEF PointsToTable
  <2>3. e3.flags = Writeable /\ place[e3.frame] = Child(place, e4.frame, i3)
    BY <1>0, <1>1, <1>2, <1>6, <2>2 DEF Tree
  <2>4. place[e3.frame].up = e4.frame /\ place[e3.frame].at = i3
    BY <2>3, ChildFields
  <2>5. e3.frame # l.p2
    BY <1>0, <1>4, <2>1, <2>4
  <2> QED
    BY <2>3, <2>5
<1>7. ASSUME Present(e4), Present(e3), Present(e2)
      PROVE  e2.flags = Writeable /\ place[e2.frame] = Child(place, e3.frame, i2)
  <2>1. place[e4.frame].level = 3 /\ place[e3.frame].level = 2
    BY <1>0, <1>5, <1>6, <1>7, ChildFields
  <2>2. PointsToTable(place, l, e3.frame, i2)
    BY <1>6, <1>7, <2>1 DEF PointsToTable
  <2> QED
    BY <1>0, <1>1, <1>2, <1>7, <2>2 DEF Tree
<1>8. Reached(m, root, 1, page) <=> Present(e4) /\ Present(e3) /\ Present(e2)
  BY DEF Reached, e4, e3, e2
<1> QED
  BY <1>2, <1>5, <1>6, <1>7, <1>8 DEF e4, e3, e2, e1, i4, i3, i2, i1

(* So they have the levels that lead to them.                               *)
LEMMA WayLevels ==
  ASSUME NEW m, NEW place, NEW l, NEW free, Shape(m, place, l, free),
         NEW root, NEW page, Editable(place, l, root, page),
         NEW level \in 1 .. 4, Reached(m, root, level, page)
  PROVE  /\ FrameAt(m, root, level, page) \in Frames
         /\ place[FrameAt(m, root, level, page)].level = level
         /\ level >= 2 =>
              PointsToTable(place, l, FrameAt(m, root, level, page), IndexAt(level, page))
<1> DEFINE f4 == E4(m, root, page).frame
           f3 == E3(m, root, page).frame
           f2 == E2(m, root, page).frame
<1>0. /\ root \in Frames /\ place[root].level = 4 /\ IndexAt(4, page) # RecursiveIndex
      /\ LayoutOK(l) /\ BootTree(m, place, l)
  BY DEF Editable, Shape
<1>1. /\ place[l.p3].level = 3 /\ place[l.p2].level = 2
  BY <1>0, ChildFields DEF BootTree
<1>2. level \in {1, 2, 3, 4}
  OBVIOUS
<1>3. CASE level = 4
  BY <1>0, <1>1, <1>3 DEF FrameAt, PointsToTable
<1>4. CASE level = 3
  <2>1. Present(E4(m, root, page)) /\ FrameAt(m, root, level, page) = f4
    BY <1>4 DEF Reached, FrameAt
  <2>2. f4 \in Frames /\ place[f4].level = 3
    BY <1>0, <2>1, WayPlaces, ChildFields
  <2> QED
    BY <1>1, <1>4, <2>1, <2>2 DEF PointsToTable
<1>5. CASE level = 2
  <2>1. /\ Present(E4(m, root, page)) /\ Present(E3(m, root, page))
        /\ FrameAt(m, root, level, page) = f3
    BY <1>5 DEF Reached, FrameAt
  <2>2. f3 \in Frames /\ place[f3].level = 2 /\ f3 # l.p2
    BY <1>0, <2>1, WayPlaces, ChildFields
  <2> QED
    BY <1>5, <2>1, <2>2 DEF PointsToTable
<1>6. CASE level = 1
  <2>1. /\ Present(E4(m, root, page)) /\ Present(E3(m, root, page))
        /\ Reached(m, root, 1, page)
        /\ FrameAt(m, root, level, page) = f2
    BY <1>6 DEF Reached, FrameAt
  <2>2. f2 \in Frames /\ place[f2].level = 1
    BY <1>0, <2>1, WayPlaces, ChildFields
  <2> QED
    BY <1>6, <2>1, <2>2
<1> QED
  BY <1>2, <1>3, <1>4, <1>5, <1>6

(* Two ways end in the same table only if they are the same: the pages then *)
(* differ in their last index at most.                                      *)
LEMMA WaysApart ==
  ASSUME NEW m, NEW place, NEW l, NEW free, Shape(m, place, l, free),
         NEW r, NEW p, Editable(place, l, r, p), Reached(m, r, 1, p),
         NEW s, NEW q, Editable(place, l, s, q), Reached(m, s, 1, q),
         E2(m, r, p).frame = E2(m, s, q).frame,
         r # s \/ p # q
  PROVE  r = s /\ IndexAt(1, p) # IndexAt(1, q)
<1>1. /\ Present(E4(m, r, p)) /\ Present(E3(m, r, p))
      /\ Present(E4(m, s, q)) /\ Present(E3(m, s, q))
  BY DEF Reached
<1>2. /\ E3(m, r, p).frame = E3(m, s, q).frame
      /\ IndexAt(2, p) = IndexAt(2, q)
  <2>1. Child(place, E3(m, r, p).frame, IndexAt(2, p))
          = Child(place, E3(m, s, q).frame, IndexAt(2, q))
    BY WayPlaces
  <2> QED
    BY <2>1, ChildFields
<1>3. /\ E4(m, r, p).frame = E4(m, s, q).frame
      /\ IndexAt(3, p) = IndexAt(3, q)
  <2>1. Child(place, E4(m, r, p).frame, IndexAt(3, p))
          = Child(place, E4(m, s, q).frame, IndexAt(3, q))
    BY <1>1, <1>2, WayPlaces
  <2> QED
    BY <2>1, ChildFields
<1>4. r = s /\ IndexAt(4, p) = IndexAt(4, q)
  <2>1. Child(place, r, IndexAt(4, p)) = Child(place, s, IndexAt(4, q))
    BY <1>1, <1>3, WayPlaces
  <2> QED
    BY <2>1, ChildFields
<1>5. p \in Pages /\ q \in Pages
  BY DEF Editable
<1>6. ASSUME IndexAt(1, p) = IndexAt(1, q) PROVE p = q
  <2>1. \A level \in 1 .. 4 : IndexAt(level, p) = IndexAt(level, q)
    <3>1. \A level \in 1 .. 4 : level \in {1, 2, 3, 4}
      OBVIOUS
    <3> QED
      BY <1>2, <1>3, <1>4, <1>6, <3>1
  <2> QED
    BY <1>5, <2>1, IndicesTellPages
<1> QED
  BY <1>4, <1>6
(* A page mapped through the tables translates to its frame.                *)
LEMMA MappedTranslates ==
  ASSUME NEW m, NEW place, NEW l, NEW free, Shape(m, place, l, free),
         NEW root, NEW page, NEW f,
         Editable(place, l, root, page), MapsTo(m, root, page, f)
  PROVE  f \in Frames /\ Walk(m, root, page).frame = f
<1>1. /\ Present(E4(m, root, page)) /\ Present(E3(m, root, page))
      /\ Present(E2(m, root, page)) /\ Reached(m, root, 1, page)
      /\ Present(E1(m, root, page)) /\ E1(m, root, page).frame = f
  BY DEF MapsTo, Reached
<1>2. "huge" \notin E2(m, root, page).flags /\ E1(m, root, page).frame \in Frames
  BY <1>1, WayPlaces, FlagsOfTables
<1> QED
  BY <1>1, <1>2, WalkToEnd

-----------------------------------------------------------------------------
(* The window of the recursive entry *)

(* The current root c leads to the root of the tree that is edited, t, and  *)
(* that one to itself.  They differ while the new tables are filled.        *)
Recursive(m, c, t) ==
  /\ m[c][RecursiveIndex] = EntryFor(t, Writeable)
  /\ m[t][RecursiveIndex] = EntryFor(t, Writeable)

InWindow(t, i3, i2, i1) ==
  /\ t \in Pages
  /\ IndexAt(4, t) = RecursiveIndex
  /\ IndexAt(3, t) = i3 /\ IndexAt(2, t) = i2 /\ IndexAt(1, t) = i1

(* t is where the code sees the table of a level on the way to a page.      *)
TableAt(t, level, page) ==
  \/ level = 4 /\ InWindow(t, RecursiveIndex, RecursiveIndex, RecursiveIndex)
  \/ level = 3 /\ InWindow(t, RecursiveIndex, RecursiveIndex, IndexAt(4, page))
  \/ level = 2 /\ InWindow(t, RecursiveIndex, IndexAt(4, page), IndexAt(3, page))
  \/ level = 1 /\ InWindow(t, IndexAt(4, page), IndexAt(3, page), IndexAt(2, page))

(* The root is seen at p4_table, ...                                        *)
LEMMA RootSeen == ASSUME NEW page PROVE TableAt(p4_table, 4, page)
<1>1. \A level \in {1, 2, 3, 4} : IndexAt(level, p4_table) = RecursiveIndex
  BY RootPage
<1> QED
  BY <1>1, RootPage DEF TableAt, InWindow

(* ... and each table below where descened_page_table says.                 *)
LEMMA DescendedSeen ==
  ASSUME NEW page \in Pages, NEW level \in 2 .. 4, NEW t, TableAt(t, level, page)
  PROVE  TableAt(descened_page_table(t, IndexAt(level, page)), level - 1, page)
<1> DEFINE x == descened_page_table(t, IndexAt(level, page))
<1>1. t \in Pages /\ IndexAt(level, page) \in Indices
  BY IndexType DEF TableAt, InWindow
<1>2. /\ x \in Pages
      /\ IndexAt(1, x) = IndexAt(level, page)
      /\ IndexAt(2, x) = IndexAt(1, t)
      /\ IndexAt(3, x) = IndexAt(2, t)
      /\ IndexAt(4, x) = IndexAt(3, t)
  BY <1>1, DescendedIndices
<1> HIDE DEF x
<1>3. ASSUME level = 4 PROVE TableAt(x, level - 1, page)
  <2>1. InWindow(t, RecursiveIndex, RecursiveIndex, RecursiveIndex)
    BY <1>3 DEF TableAt
  <2>2. InWindow(x, RecursiveIndex, RecursiveIndex, IndexAt(4, page))
    BY <1>2, <1>3, <2>1 DEF InWindow
  <2>3. TableAt(x, 3, page)
    BY <2>2 DEF TableAt
  <2> QED
    BY <1>3, <2>3
<1>4. ASSUME level = 3 PROVE TableAt(x, level - 1, page)
  <2>1. InWindow(t, RecursiveIndex, RecursiveIndex, IndexAt(4, page))
    BY <1>4 DEF TableAt
  <2>2. InWindow(x, RecursiveIndex, IndexAt(4, page), IndexAt(3, page))
    BY <1>2, <1>4, <2>1 DEF InWindow
  <2>3. TableAt(x, 2, page)
    BY <2>2 DEF TableAt
  <2> QED
    BY <1>4, <2>3
<1>5. ASSUME level = 2 PROVE TableAt(x, level - 1, page)
  <2>1. InWindow(t, RecursiveIndex, IndexAt(4, page), IndexAt(3, page))
    BY <1>5 DEF TableAt
  <2>2. InWindow(x, IndexAt(4, page), IndexAt(3, page), IndexAt(2, page))
    BY <1>2, <1>5, <2>1 DEF InWindow
  <2>3. TableAt(x, 1, page)
    BY <2>2 DEF TableAt
  <2> QED
    BY <1>5, <2>3
<1>6. level \in {2, 3, 4}
  OBVIOUS
<1> QED
  BY <1>3, <1>4, <1>5, <1>6 DEF x

(* What the two recursive entries hold.                                     *)
LEMMA RecursionEntries ==
  ASSUME NEW m, NEW c, NEW t, Recursive(m, c, t)
  PROVE  /\ Present(m[c][RecursiveIndex]) /\ Present(m[t][RecursiveIndex])
         /\ m[c][RecursiveIndex].frame = t /\ m[t][RecursiveIndex].frame = t
         /\ m[c][RecursiveIndex].flags = Writeable
         /\ m[t][RecursiveIndex].flags = Writeable
BY FlagsOfTables DEF Recursive, EntryFor, Present

(* What is seen there is the table of that level in the edited tree.        *)
LEMMA WindowWalk ==
  ASSUME NEW m, NEW c, NEW root, Recursive(m, c, root),
         NEW page, NEW level \in 1 .. 4, Reached(m, root, level, page),
         level = 2 => "huge" \notin E4(m, root, page).flags,
         level = 1 => "huge" \notin E3(m, root, page).flags,
         NEW t, TableAt(t, level, page)
  PROVE  Walk(m, c, t).frame = FrameAt(m, root, level, page)
<1> DEFINE r == RecursiveIndex
           e4 == E4(m, root, page)
           e3 == E3(m, root, page)
           e2 == E2(m, root, page)
<1>1. /\ Present(m[c][r]) /\ Present(m[root][r])
      /\ m[c][r].frame = root /\ m[root][r].frame = root
      /\ "huge" \notin m[root][r].flags
  BY RecursionEntries, FlagsOfTables
<1>2. /\ e4 = m[root][IndexAt(4, page)]
      /\ e3 = m[e4.frame][IndexAt(3, page)]
      /\ e2 = m[e3.frame][IndexAt(2, page)]
  BY DEF E4, E3, E2
<1>3. level \in {1, 2, 3, 4}
  OBVIOUS
<1>4. CASE level = 4
  <2>1. InWindow(t, r, r, r)
    BY <1>4 DEF TableAt
  <2>2. /\ E4(m, c, t) = m[c][r] /\ E3(m, c, t) = m[root][r]
        /\ E2(m, c, t) = m[root][r] /\ E1(m, c, t) = m[root][r]
    BY <1>1, <2>1 DEF InWindow, E4, E3, E2, E1
  <2> QED
    BY <1>1, <1>4, <2>2, WalkToEnd DEF FrameAt
<1>5. CASE level = 3
  <2>1. InWindow(t, r, r, IndexAt(4, page))
    BY <1>5 DEF TableAt
  <2>2. /\ E4(m, c, t) = m[c][r] /\ E3(m, c, t) = m[root][r]
        /\ E2(m, c, t) = m[root][r] /\ E1(m, c, t) = e4
    BY <1>1, <1>2, <2>1 DEF InWindow, E4, E3, E2, E1
  <2>3. Present(e4)
    BY <1>5 DEF Reached
  <2> QED
    BY <1>1, <1>5, <2>2, <2>3, WalkToEnd DEF FrameAt
<1>6. CASE level = 2
  <2>1. InWindow(t, r, IndexAt(4, page), IndexAt(3, page))
    BY <1>6 DEF TableAt
  <2>2. /\ E4(m, c, t) = m[c][r] /\ E3(m, c, t) = m[root][r]
        /\ E2(m, c, t) = e4 /\ E1(m, c, t) = e3
    BY <1>1, <1>2, <2>1 DEF InWindow, E4, E3, E2, E1
  <2>3. Present(e4) /\ Present(e3)
    BY <1>6 DEF Reached
  <2>4. "huge" \notin e4.flags
    BY <1>6
  <2> QED
    BY <1>1, <1>6, <2>2, <2>3, <2>4, WalkToEnd DEF FrameAt
<1>7. CASE level = 1
  <2>1. InWindow(t, IndexAt(4, page), IndexAt(3, page), IndexAt(2, page))
    BY <1>7 DEF TableAt
  <2>2. /\ E4(m, c, t) = m[c][r] /\ E3(m, c, t) = e4
        /\ E2(m, c, t) = e3 /\ E1(m, c, t) = e2
    BY <1>1, <1>2, <2>1 DEF InWindow, E4, E3, E2, E1
  <2>3. Present(e4) /\ Present(e3) /\ Present(e2)
    BY <1>7 DEF Reached
  <2>4. "huge" \notin e3.flags
    BY <1>7
  <2> QED
    BY <1>1, <1>7, <2>2, <2>3, <2>4, WalkToEnd DEF FrameAt
<1> QED
  BY <1>3, <1>4, <1>5, <1>6, <1>7

(* On the way to an editable page no table is taken for a huge page.        *)
LEMMA WindowShows ==
  ASSUME NEW m, NEW place, NEW l, NEW free, Shape(m, place, l, free),
         NEW c, NEW root, Recursive(m, c, root),
         NEW page, Editable(place, l, root, page),
         NEW level \in 1 .. 4, Reached(m, root, level, page),
         NEW t, TableAt(t, level, page)
  PROVE  Walk(m, c, t).frame = FrameAt(m, root, level, page)
<1>1. level = 2 => "huge" \notin E4(m, root, page).flags
  BY WayPlaces, FlagsOfTables DEF Reached
<1>2. level = 1 => "huge" \notin E3(m, root, page).flags
  BY WayPlaces, FlagsOfTables DEF Reached
<1> QED
  BY <1>1, <1>2, WindowWalk

(* The window shows no frame of a page: a walk through it reads no table of *)
(* level 1, so a store to such a table changes no translation in it.        *)
LEMMA WindowStable ==
  ASSUME NEW m, NEW place, NEW l, NEW free, Shape(m, place, l, free),
         NEW c \in Frames, place[c].level = 4,
         NEW root \in Frames, place[root].level = 4, Recursive(m, c, root),
         NEW t \in Pages, IndexAt(4, t) = RecursiveIndex,
         NEW m2, \A f \in Frames : place[f].level # 1 => m2[f] = m[f]
  PROVE  Walk(m2, c, t) = Walk(m, c, t)
<1> DEFINE r == RecursiveIndex
           j3 == IndexAt(3, t)
           j2 == IndexAt(2, t)
           e3 == m[root][j3]
           e2 == m[e3.frame][j2]
<1>0. /\ m \in Memory /\ Tree(m, place, l) /\ LayoutOK(l) /\ BootTree(m, place, l)
      /\ place \in [Frames -> Places]
      /\ j3 \in Indices /\ j2 \in Indices
  BY IndexType DEF Shape
<1>1. /\ Present(m[c][r]) /\ Present(m[root][r])
      /\ m[c][r].frame = root /\ m[root][r].frame = root
  BY RecursionEntries, FlagsOfTables
<1>2. /\ E4(m, c, t) = m[c][r] /\ E3(m, c, t) = e3 /\ E2(m, c, t) = e2
  BY <1>1 DEF E4, E3, E2
<1>3. /\ E4(m2, c, t) = m[c][r] /\ E3(m2, c, t) = e3
  <2>1. m2[c] = m[c] /\ m2[root] = m[root]
    OBVIOUS
  <2> QED
    BY <1>1, <2>1 DEF E4, E3
<1>4. /\ place[l.p4].level = 4 /\ place[l.p2].level = 2
      /\ place[l.p3].level = 3
  BY <1>0, ChildFields DEF BootTree
<1>5. e3.frame \in Frames /\ e2.frame \in Frames
  BY <1>0, EntryType
<1>6. ASSUME Present(e3) PROVE place[e3.frame].level \in {3, 4}
  <2>1. CASE j3 = r
    BY <1>1, <2>1
  <2>2. CASE j3 # r
    <3>1. PointsToTable(place, l, root, j3)
      BY <1>4, <2>2 DEF PointsToTable
    <3>2. place[e3.frame] = Child(place, root, j3)
      BY <1>0, <1>6, <3>1 DEF Tree
    <3> QED
      BY <3>2, ChildFields
  <2> QED
    BY <2>1, <2>2
<1>7. ASSUME Present(e3) PROVE E2(m2, c, t) = e2
  BY <1>3, <1>5, <1>6, <1>7 DEF E2
<1>8. CASE ~Present(e3)
  BY <1>1, <1>2, <1>3, <1>8, WalkOfEntries
<1>9. CASE Present(e3) /\ ~Present(e2)
  BY <1>1, <1>2, <1>3, <1>7, <1>9, WalkOfEntries
<1>10. CASE Present(e3) /\ Present(e2)
  <2>1. place[e2.frame].level # 1
    <3>1. CASE place[e3.frame].level = 4 /\ j2 = r
      <4>1. j3 = r
        <5>1. SUFFICES ASSUME j3 # r PROVE FALSE
          OBVIOUS
        <5>2. PointsToTable(place, l, root, j3)
          BY <1>4, <5>1 DEF PointsToTable
        <5>3. place[e3.frame] = Child(place, root, j3)
          BY <1>0, <1>10, <5>2 DEF Tree
        <5> QED
          BY <3>1, <5>3, ChildFields
      <4> QED
        BY <1>1, <3>1, <4>1
    <3>2. CASE ~(place[e3.frame].level = 4 /\ j2 = r)
      <4>1. PointsToTable(place, l, e3.frame, j2)
        BY <1>4, <1>6, <1>10, <3>2 DEF PointsToTable
      <4>2. place[e2.frame] = Child(place, e3.frame, j2)
        BY <1>0, <1>5, <1>10, <4>1 DEF Tree
      <4> QED
        BY <1>6, <1>10, <4>2, ChildFields
    <3> QED
      BY <3>1, <3>2
  <2>2. E1(m2, c, t) = E1(m, c, t)
    BY <1>2, <1>5, <1>7, <1>10, <2>1 DEF E1
  <2> QED
    <3> HIDE DEF e3, e2
    <3> QED
      BY <1>2, <1>3, <1>7, <1>10, <2>2, WalkOfEntries
<1> QED
  BY <1>8, <1>9, <1>10

-----------------------------------------------------------------------------
(* Stores *)

Kept(m, m2, place, l) ==
  \A f \in Frames, i \in Indices :
    PointsToTable(place, l, f, i) /\ Present(m[f][i]) => m2[f][i] = m[f][i]

(* While the entries that point to tables stay, so do the ways.             *)
LEMMA WayKept ==
  ASSUME NEW m, NEW place, NEW l, NEW free, Shape(m, place, l, free),
         NEW root, NEW page, Editable(place, l, root, page),
         NEW level \in 1 .. 4, Reached(m, root, level, page),
         NEW m2, Kept(m, m2, place, l)
  PROVE  /\ Reached(m2, root, level, page)
         /\ FrameAt(m2, root, level, page) = FrameAt(m, root, level, page)
<1>0. /\ m \in Memory /\ page \in Pages
      /\ \A k \in {2, 3, 4} : IndexAt(k, page) \in Indices
  BY IndexType DEF Shape, Editable
<1>1. ASSUME NEW k \in {2, 3, 4}, Reached(m, root, k, page)
      PROVE  /\ FrameAt(m, root, k, page) \in Frames
             /\ PointsToTable(place, l, FrameAt(m, root, k, page), IndexAt(k, page))
  BY <1>1, WayLevels
<1>2. Reached(m, root, 4, page)
  BY DEF Reached
<1>3. ASSUME level <= 3 PROVE E4(m2, root, page) = E4(m, root, page)
  <2>1. FrameAt(m, root, 4, page) = root /\ Present(m[root][IndexAt(4, page)])
    BY <1>3 DEF FrameAt, Reached, E4
  <2>2. root \in Frames /\ PointsToTable(place, l, root, IndexAt(4, page))
    BY <1>1, <1>2, <2>1
  <2>3. IndexAt(4, page) \in Indices
    BY <1>0
  <2> QED
    BY <2>1, <2>2, <2>3 DEF Kept, E4
<1>4. ASSUME level <= 2 PROVE E3(m2, root, page) = E3(m, root, page)
  <2> DEFINE f == E4(m, root, page).frame
  <2>1. Reached(m, root, 3, page) /\ FrameAt(m, root, 3, page) = f
    BY <1>4 DEF FrameAt, Reached
  <2>2. f \in Frames /\ PointsToTable(place, l, f, IndexAt(3, page))
    BY <1>1, <2>1
  <2>3. IndexAt(3, page) \in Indices /\ Present(m[f][IndexAt(3, page)])
    BY <1>0, <1>4 DEF Reached, E3
  <2>4. E4(m2, root, page).frame = f
    BY <1>3, <1>4
  <2> QED
    BY <2>2, <2>3, <2>4 DEF Kept, E3
<1>5. ASSUME level <= 1 PROVE E2(m2, root, page) = E2(m, root, page)
  <2> DEFINE f == E3(m, root, page).frame
  <2>1. Reached(m, root, 2, page) /\ FrameAt(m, root, 2, page) = f
    BY <1>5 DEF FrameAt, Reached
  <2>2. f \in Frames /\ PointsToTable(place, l, f, IndexAt(2, page))
    BY <1>1, <2>1
  <2>3. IndexAt(2, page) \in Indices /\ Present(m[f][IndexAt(2, page)])
    BY <1>0, <1>5 DEF Reached, E2
  <2>4. E3(m2, root, page).frame = f
    BY <1>4, <1>5
  <2> QED
    BY <2>2, <2>3, <2>4 DEF Kept, E2
<1>6. Reached(m2, root, level, page)
  BY <1>3, <1>4, <1>5 DEF Reached
<1>7. level \in {1, 2, 3, 4}
  OBVIOUS
<1> QED
  BY <1>3, <1>4, <1>5, <1>6, <1>7 DEF FrameAt

(* So does the mapping of a page whose last entry stays.                    *)
LEMMA MappingKept ==
  ASSUME NEW m, NEW place, NEW l, NEW free, Shape(m, place, l, free),
         NEW root, NEW page, Editable(place, l, root, page),
         NEW f, MapsTo(m, root, page, f),
         NEW m2, Kept(m, m2, place, l),
         LET t == E2(m, root, page).frame
             i == IndexAt(1, page)
         IN  m2[t][i] = m[t][i]
  PROVE  MapsTo(m2, root, page, f)
<1>1. Reached(m, root, 1, page) /\ 1 \in 1 .. 4
  BY DEF MapsTo
<1>2. Reached(m2, root, 1, page) /\ FrameAt(m2, root, 1, page) = FrameAt(m, root, 1, page)
  <2> DEFINE k == 1
  <2>1. k \in 1 .. 4 /\ Reached(m, root, k, page)
    BY <1>1
  <2> HIDE DEF k
  <2>2. Reached(m2, root, k, page) /\ FrameAt(m2, root, k, page) = FrameAt(m, root, k, page)
    BY <2>1, WayKept
  <2> QED
    BY <2>2 DEF k
<1>3. E2(m2, root, page).frame = E2(m, root, page).frame
  <2>1. \A n : FrameAt(n, root, 1, page) = E2(n, root, page).frame
    BY DEF FrameAt
  <2> QED
    BY <1>2, <2>1
<1>4. E1(m2, root, page) = E1(m, root, page)
  BY <1>3 DEF E1
<1> QED
  BY <1>2, <1>4 DEF MapsTo

(* What a store does to memory.                                             *)
Put(m, g, i, e) == [m EXCEPT ![g][i] = e]

(* One entry changes and nothing else does.                                 *)
LEMMA PutEffect ==
  ASSUME NEW m \in Memory, NEW g \in Frames, NEW i \in Indices, NEW e \in Entries
  PROVE  LET m2 == Put(m, g, i, e)
         IN  /\ m2 \in Memory
             /\ m2[g][i] = e
             /\ \A f \in Frames : f # g => m2[f] = m[f]
             /\ \A f \in Frames, j \in Indices :
                  f # g \/ j # i => m2[f][j] = m[f][j]
<1> DEFINE m2 == Put(m, g, i, e)
<1>1. m[g] \in Tables
  BY EntryType
<1>2. m2 = [m EXCEPT ![g] = [m[g] EXCEPT ![i] = e]]
  BY DEF Memory, Put
<1> HIDE DEF m2
<1>3. [m[g] EXCEPT ![i] = e] \in Tables
  BY <1>1 DEF Tables
<1>4. m2 \in Memory
  BY <1>2, <1>3 DEF Memory
<1>5. m2[g] = [m[g] EXCEPT ![i] = e] /\ \A f \in Frames : f # g => m2[f] = m[f]
  BY <1>2 DEF Memory
<1>6. m2[g][i] = e /\ \A j \in Indices : j # i => m2[g][j] = m[g][j]
  BY <1>1, <1>5 DEF Tables
<1> QED
  BY <1>4, <1>5, <1>6 DEF m2

(* A store to a table of level 1 disturbs neither trees nor free frames.    *)
LEMMA LeafStore ==
  ASSUME NEW m, NEW place, NEW l, NEW free, Shape(m, place, l, free),
         NEW g \in Frames, place[g].level = 1, NEW i \in Indices, NEW e \in Entries
  PROVE  LET m2 == Put(m, g, i, e)
         IN  /\ Shape(m2, place, l, free)
             /\ Kept(m, m2, place, l)
             /\ \A f \in Frames : place[f].level # 1 => m2[f] = m[f]
<1> DEFINE m2 == Put(m, g, i, e)
<1>0. /\ m \in Memory /\ place \in [Frames -> Places] /\ LayoutOK(l)
      /\ free \subseteq l.free
      /\ Tree(m, place, l) /\ BootTree(m, place, l) /\ FreeFrames(m, place, free)
  BY DEF Shape
<1>1. /\ m2 \in Memory
      /\ \A f \in Frames : f # g => m2[f] = m[f]
  BY <1>0, PutEffect
<1> HIDE DEF m2
<1>2. \A f \in Frames : place[f].level # 1 => m2[f] = m[f]
  BY <1>1
<1>3. Kept(m, m2, place, l)
  BY <1>2 DEF Kept, PointsToTable
<1>4. Tree(m2, place, l)
  BY <1>0, <1>2 DEF Tree, PointsToTable
<1>5. BootTree(m2, place, l)
  <2>1. place[l.p4].level = 4 /\ place[l.p3].level = 3 /\ place[l.p2].level = 2
    BY <1>0, ChildFields DEF BootTree
  <2>2. l.p4 \in Frames /\ l.p3 \in Frames /\ l.p2 \in Frames
    BY <1>0 DEF LayoutOK
  <2>3. m2[l.p4] = m[l.p4] /\ m2[l.p3] = m[l.p3] /\ m2[l.p2] = m[l.p2]
    BY <1>2, <2>1, <2>2
  <2> QED
    BY <1>0, <2>3 DEF BootTree
<1>6. FreeFrames(m2, place, free)
  BY <1>0, <1>2 DEF FreeFrames, LayoutOK
<1> QED
  BY <1>0, <1>1, <1>2, <1>3, <1>4, <1>5, <1>6 DEF Shape, m2

(* Nor does a store to a root's entry for the recursion.                    *)
LEMMA RecursionStore ==
  ASSUME NEW m, NEW place, NEW l, NEW free, Shape(m, place, l, free),
         NEW g \in Frames, place[g].level = 4, NEW e \in Entries
  PROVE  LET m2 == Put(m, g, RecursiveIndex, e)
         IN  /\ Shape(m2, place, l, free)
             /\ Kept(m, m2, place, l)
             /\ m2[g][RecursiveIndex] = e
             /\ \A f \in Frames : f # g => m2[f] = m[f]
<1> DEFINE m2 == Put(m, g, RecursiveIndex, e)
<1>0. /\ m \in Memory /\ place \in [Frames -> Places] /\ LayoutOK(l)
      /\ free \subseteq l.free
      /\ Tree(m, place, l) /\ BootTree(m, place, l) /\ FreeFrames(m, place, free)
  BY DEF Shape
<1>1. RecursiveIndex \in Indices /\ 0 \in Indices /\ 0 # RecursiveIndex
  BY RType DEF RecursiveIndex, Indices
<1>2. /\ m2 \in Memory
      /\ m2[g][RecursiveIndex] = e
      /\ \A f \in Frames : f # g => m2[f] = m[f]
      /\ \A f \in Frames, j \in Indices : f # g \/ j # RecursiveIndex => m2[f][j] = m[f][j]
  BY <1>0, <1>1, PutEffect
<1> HIDE DEF m2
<1>3. \A f \in Frames, j \in Indices : PointsToTable(place, l, f, j) => m2[f][j] = m[f][j]
  BY <1>2 DEF PointsToTable
<1>4. Kept(m, m2, place, l)
  BY <1>3 DEF Kept
<1>5. Tree(m2, place, l)
  BY <1>0, <1>3 DEF Tree
<1>6. BootTree(m2, place, l)
  <2>1. place[l.p4].level = 4 /\ place[l.p3].level = 3 /\ place[l.p2].level = 2
    BY <1>0, ChildFields DEF BootTree
  <2>2. l.p4 \in Frames /\ l.p3 \in Frames /\ l.p2 \in Frames
    BY <1>0 DEF LayoutOK
  <2>3. m2[l.p4][0] = m[l.p4][0] /\ m2[l.p3] = m[l.p3] /\ m2[l.p2] = m[l.p2]
    BY <1>1, <1>2, <2>1, <2>2
  <2> QED
    BY <1>0, <2>3 DEF BootTree
<1>7. FreeFrames(m2, place, free)
  BY <1>0, <1>2 DEF FreeFrames, LayoutOK
<1> QED
  BY <1>0, <1>2, <1>4, <1>5, <1>6, <1>7 DEF Shape, m2

(* A cleared table, as init_page_table leaves it, holds no entry.           *)
LEMMA EmptyTableType ==
  /\ EmptyTable \in Tables
  /\ \A i \in Indices : EmptyTable[i] = Unused /\ ~Present(EmptyTable[i])
  /\ Unused \in Entries
<1>1. Unused \in Entries /\ ~Present(Unused)
  BY PlacesAssumption DEF Unused, Entries, Present, Flags
<1> QED
  BY <1>1 DEF EmptyTable, Tables

(* The places when the free frame f has become the table of a place.        *)
Placed(m2, place2, place, l, free, f, child) ==
  /\ Shape(m2, place2, l, free \ {f})
  /\ place2[f] = child
  /\ \A h \in Frames : h # f => place2[h] = place[h]

(* A free frame becomes the table an unused entry points to.                *)
LEMMA TableStore ==
  ASSUME NEW m, NEW place, NEW l, NEW free, Shape(m, place, l, free),
         NEW g \in Frames, NEW i \in Indices, PointsToTable(place, l, g, i),
         ~Present(m[g][i]),
         NEW f \in free
  PROVE  LET m2 == Put(m, g, i, EntryFor(f, Writeable))
         IN  /\ \E place2 : Placed(m2, place2, place, l, free, f, Child(place, g, i))
             /\ Kept(m, m2, place, l)
             /\ m2[g][i] = EntryFor(f, Writeable)
             /\ \A h \in Frames, j \in Indices : Present(m[h][j]) => m2[h][j] = m[h][j]
<1>0. /\ m \in Memory /\ place \in [Frames -> Places] /\ LayoutOK(l)
      /\ free \subseteq l.free
      /\ Tree(m, place, l) /\ BootTree(m, place, l) /\ FreeFrames(m, place, free)
  BY DEF Shape
<1> DEFINE m2 == Put(m, g, i, EntryFor(f, Writeable))
           place2 == [place EXCEPT ![f] = Child(place, g, i)]
<1>1. /\ f \in Frames /\ place[f].level = 0 /\ m[f] = EmptyTable
      /\ place[g].level \in 2 .. 4 /\ g # f
  BY <1>0 DEF LayoutOK, FreeFrames, PointsToTable
<1>2. EntryFor(f, Writeable) \in Entries
  BY <1>1, FlagsOfTables DEF EntryFor, Entries
<1>3. /\ m2 \in Memory
      /\ m2[g][i] = EntryFor(f, Writeable)
      /\ \A h \in Frames : h # g => m2[h] = m[h]
      /\ \A h \in Frames, j \in Indices : h # g \/ j # i => m2[h][j] = m[h][j]
  BY <1>0, <1>2, PutEffect
<1> HIDE DEF m2
<1>4. \A h \in Frames, j \in Indices : Present(m[h][j]) => m2[h][j] = m[h][j]
  BY <1>3
<1>5. /\ place2 \in [Frames -> Places]
      /\ place2[f] = Child(place, g, i)
      /\ \A h \in Frames : h # f => place2[h] = place[h]
  <2>1. Child(place, g, i) \in Places
    BY <1>1 DEF Child, Places
  <2> QED
    BY <1>0, <1>1, <2>1
<1> HIDE DEF place2
<1>6. \A h \in Frames : place[h].level # 0 => place2[h] = place[h]
  BY <1>1, <1>5
<1>7. Kept(m, m2, place, l)
  BY <1>4 DEF Kept
<1>8. Tree(m2, place2, l)
  <2>1. SUFFICES ASSUME NEW h \in Frames, NEW j \in Indices,
                        PointsToTable(place2, l, h, j), Present(m2[h][j])
                 PROVE  /\ m2[h][j].flags = Writeable
                        /\ place2[m2[h][j].frame] = Child(place2, h, j)
    BY DEF Tree
  <2>2. h # f
    <3>1. SUFFICES ASSUME h = f PROVE FALSE
      OBVIOUS
    <3>2. m2[h] = EmptyTable
      BY <1>1, <1>3, <3>1
    <3> QED
      BY <2>1, <3>2, EmptyTableType
  <2>3. place2[h] = place[h] /\ Child(place2, h, j) = Child(place, h, j)
    BY <1>5, <2>2 DEF Child
  <2>4. PointsToTable(place, l, h, j)
    BY <2>1, <2>3 DEF PointsToTable
  <2>5. CASE h = g /\ j = i
    <3>1. m2[h][j].flags = Writeable /\ m2[h][j].frame = f
      BY <1>3, <2>5 DEF EntryFor
    <3> QED
      BY <1>5, <2>3, <2>5, <3>1
  <2>6. CASE h # g \/ j # i
    <3>1. m2[h][j] = m[h][j]
      BY <1>3, <2>6
    <3>2. m[h][j].flags = Writeable /\ place[m[h][j].frame] = Child(place, h, j)
      BY <1>0, <2>1, <2>4, <3>1 DEF Tree
    <3>3. m[h][j].frame \in Frames
      BY <1>0, EntryType
    <3>4. place[m[h][j].frame].level # 0
      BY <2>4, <3>2, ChildFields DEF PointsToTable
    <3> QED
      BY <1>6, <2>3, <3>1, <3>2, <3>3, <3>4
  <2> QED
    BY <2>5, <2>6
<1>9. BootTree(m2, place2, l)
  <2>1. place[l.p4].level = 4 /\ place[l.p3].level = 3 /\ place[l.p2].level = 2
    BY <1>0, ChildFields DEF BootTree
  <2>2. l.p4 \in Frames /\ l.p3 \in Frames /\ l.p2 \in Frames /\ 0 \in Indices
    BY <1>0, RType DEF LayoutOK, Indices
  <2>3. place2[l.p4] = place[l.p4] /\ place2[l.p3] = place[l.p3] /\ place2[l.p2] = place[l.p2]
    BY <1>6, <2>1, <2>2
  <2>4. m2[l.p2] = m[l.p2]
    BY <1>3, <2>2 DEF PointsToTable
  <2>5. m2[l.p4][0] = m[l.p4][0] /\ m2[l.p3][0] = m[l.p3][0]
    <3>1. \A h \in Frames : Present(EntryFor(h, Writeable))
      BY FlagsOfTables DEF Present, EntryFor
    <3>2. Present(m[l.p4][0]) /\ Present(m[l.p3][0])
      BY <1>0, <2>2, <3>1 DEF BootTree
    <3> QED
      BY <1>4, <2>2, <3>2
  <2>6. /\ Child(place2, l.p4, 0) = Child(place, l.p4, 0)
       /\ Child(place2, l.p3, 0) = Child(place, l.p3, 0)
    BY <2>3 DEF Child
  <2> QED
    BY <1>0, <2>3, <2>4, <2>5, <2>6 DEF BootTree
<1>10. FreeFrames(m2, place2, free \ {f})
  <2>1. SUFFICES ASSUME NEW h \in free \ {f}
                 PROVE  place2[h].level = 0 /\ m2[h] = EmptyTable
    BY DEF FreeFrames
  <2>2. h \in Frames /\ place[h].level = 0 /\ m[h] = EmptyTable
    BY <1>0 DEF LayoutOK, FreeFrames
  <2> QED
    BY <1>1, <1>3, <1>5, <2>2
<1>11. Shape(m2, place2, l, free \ {f})
  BY <1>0, <1>3, <1>5, <1>8, <1>9, <1>10 DEF Shape
<1>12. Placed(m2, place2, place, l, free, f, Child(place, g, i))
  BY <1>5, <1>11 DEF Placed
<1> QED
  BY <1>3, <1>4, <1>7, <1>12 DEF m2

-----------------------------------------------------------------------------
(* The invariant *)

(* Where the caller of map_page_to_frame or unmap_page is.                  *)
AtOf(p, j) == IF p = "job" THEN j.then ELSE p
At == AtOf(pc, job)

BuildingOld == {"start", "map_old", "flush_old", "clear", "recurse_new", "recurse_old"}
FillingNew == {"flush_recursion", "sections", "pages", "multiboot", "assert"}
Leaving == {"flush_restored", "unmap_old", "switch"}
Settled == {"guard", "heap", "done"}

(* The root of the tree that is edited.                                     *)
TargetOf(at, c, n) == IF at \in FillingNew THEN n ELSE c
Target == TargetOf(At, cr3, new_p4)

JobFlags == {"present", "writeable", "no_exec"}
Callers == {"map_old", "flush_old", "pages", "multiboot", "switch", "heap"}
Jobs == [page : Pages, frame : Frames, flags : SUBSET JobFlags, table : Pages,
         level : 0 .. 4, unmap : BOOLEAN, then : Callers \cup {"done"}]

Types ==
  /\ d \in Layouts
  /\ cr3 \in Frames /\ new_p4 \in Frames
  /\ job \in Jobs
  /\ tlb \subseteq Pages \X Frames
  /\ exhausted \in BOOLEAN
  /\ section \in 0 .. Len(d.sections)
  /\ addr \in Nat

(* Without a frame for the new root the first page cannot be mapped either. *)
Doomed ==
  /\ exhausted /\ pc = "job" /\ job.then = "map_old" /\ job.level \in 3 .. 4

BootPagesOnly ==
  /\ \A i \in Indices \ {0, RecursiveIndex} : mem[d.p4][i] = Unused
  /\ \A i \in Indices \ {0} : mem[d.p3][i] = Unused

Roots(place) ==
  /\ At \in BuildingOld \cup FillingNew \cup Leaving \cup Settled
  /\ cr3 = (IF At \in Settled THEN new_p4 ELSE d.p4)
  /\ exhausted => pool = {}
  /\ pc = "start" \/ (pc = "job" /\ Doomed) => BootPagesOnly
  /\ pc = "start" \/ Doomed \/ (new_p4 # d.p4 /\ place[new_p4].level = 4)
  /\ Recursive(mem, cr3, Target)
  /\ At \in {"recurse_old"} \cup FillingNew \cup Leaving =>
       mem[new_p4][RecursiveIndex] = EntryFor(new_p4, Writeable)

(* The two roots can be reached under the old one while they are needed.    *)
NewRootMapped == pc = "map_old" \/ At \in {"flush_old", "clear", "recurse_new", "recurse_old"}
OldRootMapped == pc = "flush_old" \/ At \in {"clear", "recurse_new", "recurse_old"} \cup FillingNew

TemporaryPages ==
  /\ NewRootMapped => MapsTo(mem, d.p4, NewP4Page, new_p4)
  /\ OldRootMapped => MapsTo(mem, d.p4, OldP4Page, d.p4)

(* The page a job is about, and the table it has come to.                   *)
JobOK(place) ==
  pc = "job" =>
    /\ job.then \in Callers
    /\ job.level \in 1 .. 4
    /\ Editable(place, d, Target, job.page)
    /\ TableAt(job.table, job.level, job.page)
    /\ Reached(mem, Target, job.level, job.page)
    /\ job.unmap \/ "present" \in job.flags
    /\ job.then = "map_old" => job.page = NewP4Page /\ job.frame = new_p4 /\ ~job.unmap
    /\ job.then = "flush_old" => job.page = OldP4Page /\ job.frame = d.p4 /\ ~job.unmap

(* The translations the recursive entries are redirected by.                *)
RootTranslations == {<<NewP4Page, new_p4>>, <<OldP4Page, d.p4>>, <<p4_table, d.p4>>}

(* The buffer holds nothing stale but where it is flushed next.             *)
Buffer ==
  /\ pc \in {"clear", "recurse_new"} => tlb \subseteq {<<NewP4Page, new_p4>>}
  /\ pc = "recurse_old" => tlb \subseteq RootTranslations
  /\ pc \notin DOMAIN AfterFlush \cup {"clear", "recurse_new", "recurse_old"} =>
       \A pair \in tlb : /\ IndexAt(4, pair[1]) = RecursiveIndex
                         /\ pair[2] = Translation(pair[1]).frame

Loops ==
  /\ pc = "pages" \/ (pc = "job" /\ job.then = "pages") =>
       section < Len(d.sections) /\ IsAllocated(Section) /\ Section.sh_addr <= addr
  /\ At = "multiboot" => addr >= d.start
  /\ At = "heap" => addr \in HeapStart .. HeapStart + HeapPages

Inv(place) ==
  /\ Types
  /\ Shape(mem, place, d, pool)
  /\ Roots(place)
  /\ TemporaryPages
  /\ JobOK(place)
  /\ Buffer
  /\ Loops

(* The tables can be given places so that all of it holds.                  *)
IInv == \E place : Inv(place)

(* Frames hold nothing before they are first used.                          *)
ZeroedMemory == Leftovers = {EmptyTable}

-----------------------------------------------------------------------------
(* The beginning *)

(* The boot tables are different frames and none of them is free.           *)
LEMMA LayoutFacts ==
  ASSUME NEW l, LayoutOK(l)
  PROVE  /\ l.p4 \in Frames /\ l.p3 \in Frames /\ l.p2 \in Frames
         /\ l.p4 \notin l.free /\ l.p3 \notin l.free /\ l.p2 \notin l.free
         /\ l.p4 # l.p3 /\ l.p3 # l.p2 /\ l.p4 # l.p2
         /\ l.free \subseteq Frames
BY DEF LayoutOK

(* The assumptions on the constants, one by one.                            *)
LEMMA ConstantFacts ==
  /\ 0 \in Frames /\ VgaFrame \in Frames /\ Frames \subseteq Pages
  /\ 0 \in Indices /\ RecursiveIndex \in Indices /\ RecursiveIndex # 0
  /\ \A i \in Indices : R * i \in Frames
  /\ NewP4Page \in Pages /\ OldP4Page \in Pages /\ NewP4Page # OldP4Page
  /\ IndexAt(4, NewP4Page) # RecursiveIndex /\ IndexAt(4, OldP4Page) # RecursiveIndex
  /\ \A f \in Frames : IndexAt(4, f) # RecursiveIndex
<1>1. 0 \in Indices /\ RecursiveIndex \in Indices /\ RecursiveIndex # 0
  BY RType DEF Indices, RecursiveIndex
<1> QED
  BY <1>1, PlacesAssumption, PagingAssumption DEF DistantPages

(* What boot.s builds is a table.                                           *)
LEMMA BootTableType ==
  ASSUME NEW l, LayoutOK(l), NEW f \in Frames
  PROVE  BootTable(l, f) \in Tables
<1>1. l.p4 \in Frames /\ l.p3 \in Frames /\ l.p2 \in Frames
  BY LayoutFacts
<1>2. ASSUME NEW g \in Frames
      PROVE  /\ EntryFor(g, Writeable) \in Entries
             /\ EntryFor(g, Writeable \cup {"huge"}) \in Entries
  BY DEF EntryFor, Entries, Writeable, Flags
<1>3. CASE f = l.p4
  <2>1. BootTable(l, f) = [EmptyTable EXCEPT ![0] = EntryFor(l.p3, Writeable),
                                             ![RecursiveIndex] = EntryFor(l.p4, Writeable)]
    BY <1>3, LayoutFacts DEF BootTable
  <2> QED
    BY <1>1, <1>2, <2>1, EmptyTableType DEF Tables
<1>4. CASE f # l.p4 /\ f = l.p3
  <2>1. BootTable(l, f) = [EmptyTable EXCEPT ![0] = EntryFor(l.p2, Writeable)]
    BY <1>4, LayoutFacts DEF BootTable
  <2> QED
    BY <1>1, <1>2, <2>1, EmptyTableType DEF Tables
<1>5. CASE f # l.p4 /\ f # l.p3 /\ f = l.p2
  <2>1. BootTable(l, f) = [i \in Indices |-> EntryFor(R * i, Writeable \cup {"huge"})]
    BY <1>5 DEF BootTable
  <2> QED
    BY <1>2, <2>1, ConstantFacts DEF Tables
<1>6. CASE f # l.p4 /\ f # l.p3 /\ f # l.p2
  BY <1>6, EmptyTableType DEF BootTable
<1> QED
  BY <1>3, <1>4, <1>5, <1>6

(* The entries of the boot tables that are in use.                          *)
LEMMA BootEntries ==
  ASSUME NEW l, LayoutOK(l)
  PROVE  /\ BootTable(l, l.p4)[0] = EntryFor(l.p3, Writeable)
         /\ BootTable(l, l.p4)[RecursiveIndex] = EntryFor(l.p4, Writeable)
         /\ BootTable(l, l.p3)[0] = EntryFor(l.p2, Writeable)
         /\ \A i \in Indices \ {0, RecursiveIndex} : BootTable(l, l.p4)[i] = Unused
         /\ \A i \in Indices \ {0} : BootTable(l, l.p3)[i] = Unused
         /\ \A f \in Frames \ {l.p4, l.p3, l.p2} : BootTable(l, f) = EmptyTable
<1>1. /\ EmptyTable \in Tables
      /\ \A i \in Indices : EmptyTable[i] = Unused
  BY EmptyTableType
<1>2. BootTable(l, l.p4) = [EmptyTable EXCEPT ![0] = EntryFor(l.p3, Writeable),
                                              ![RecursiveIndex] = EntryFor(l.p4, Writeable)]
  BY LayoutFacts DEF BootTable
<1>3. BootTable(l, l.p3) = [EmptyTable EXCEPT ![0] = EntryFor(l.p2, Writeable)]
  BY LayoutFacts DEF BootTable
<1>4. \A f \in Frames \ {l.p4, l.p3, l.p2} : BootTable(l, f) = EmptyTable
  BY DEF BootTable
<1> QED
  BY <1>1, <1>2, <1>3, <1>4, ConstantFacts DEF Tables

(* No page is being mapped at the beginning.                                *)
LEMMA NoJobType == NoJob \in Jobs /\ NoJob.then = "done"
<1>1. 0 \in Pages
  BY RType, SMT DEF Pages
<1> QED
  BY <1>1, ConstantFacts DEF NoJob, Jobs

(* boot.s leaves tables for which the invariant holds.                      *)
LEMMA InitPlaces ==
  ASSUME ZeroedMemory, Init
  PROVE  \E place : Inv(place)
           /\ \A f \in Frames \ {d.p4, d.p3, d.p2} : place[f].level = 0
<1> DEFINE place == [f \in Frames |->
             CASE f = d.p4 -> [level |-> 4, up |-> 0, at |-> 0]
               [] f = d.p3 -> [level |-> 3, up |-> d.p4, at |-> 0]
               [] f = d.p2 -> [level |-> 2, up |-> d.p3, at |-> 0]
               [] OTHER -> [level |-> 0, up |-> 0, at |-> 0]]
<1>1. d \in Layouts /\ LayoutOK(d)
  BY LayoutAssumption DEF Init
<1>2. /\ cr3 = d.p4 /\ tlb = {} /\ pool = d.free /\ exhausted = FALSE /\ pc = "start"
      /\ job = NoJob /\ new_p4 = 0 /\ section = 0 /\ addr = 0
      /\ mem = [f \in Frames |-> IF f \in d.free THEN EmptyTable ELSE BootTable(d, f)]
  BY DEF Init, ZeroedMemory
<1>3. /\ d.p4 \in Frames /\ d.p3 \in Frames /\ d.p2 \in Frames
      /\ d.p4 \notin d.free /\ d.p3 \notin d.free /\ d.p2 \notin d.free
      /\ d.p4 # d.p3 /\ d.p3 # d.p2 /\ d.p4 # d.p2
      /\ d.free \subseteq Frames
  BY <1>1, LayoutFacts
<1>4. mem \in Memory
  BY <1>1, <1>2, BootTableType, EmptyTableType DEF Memory
<1>5. /\ place \in [Frames -> Places]
      /\ place[d.p4] = [level |-> 4, up |-> 0, at |-> 0]
      /\ place[d.p3] = [level |-> 3, up |-> d.p4, at |-> 0]
      /\ place[d.p2] = [level |-> 2, up |-> d.p3, at |-> 0]
      /\ \A f \in Frames \ {d.p4, d.p3, d.p2} : place[f] = [level |-> 0, up |-> 0, at |-> 0]
  BY <1>3, ConstantFacts DEF Places
<1> HIDE DEF place
<1>6. /\ mem[d.p4] = BootTable(d, d.p4) /\ mem[d.p3] = BootTable(d, d.p3)
      /\ mem[d.p2] = BootTable(d, d.p2)
      /\ \A f \in d.free : mem[f] = EmptyTable
  BY <1>2, <1>3
<1>7. /\ mem[d.p4][0] = EntryFor(d.p3, Writeable)
      /\ mem[d.p4][RecursiveIndex] = EntryFor(d.p4, Writeable)
      /\ mem[d.p3][0] = EntryFor(d.p2, Writeable)
      /\ \A i \in Indices \ {0, RecursiveIndex} : mem[d.p4][i] = Unused
      /\ \A i \in Indices \ {0} : mem[d.p3][i] = Unused
  BY <1>1, <1>6, BootEntries
<1>8. Child(place, d.p4, 0) = [level |-> 3, up |-> d.p4, at |-> 0]
      /\ Child(place, d.p3, 0) = [level |-> 2, up |-> d.p3, at |-> 0]
  BY <1>5 DEF Child
<1>9. Tree(mem, place, d)
  <2>1. SUFFICES ASSUME NEW f \in Frames, NEW i \in Indices,
                        PointsToTable(place, d, f, i), Present(mem[f][i])
                 PROVE  /\ mem[f][i].flags = Writeable
                        /\ place[mem[f][i].frame] = Child(place, f, i)
    BY DEF Tree
  <2>2. f \in {d.p4, d.p3} /\ ~(f = d.p4 /\ i = RecursiveIndex)
    BY <1>5, <2>1 DEF PointsToTable
  <2>3. ~Present(Unused)
    BY DEF Unused, Present
  <2>4. i = 0
    BY <1>7, <2>1, <2>2, <2>3
  <2>5. \A g : EntryFor(g, Writeable).flags = Writeable /\ EntryFor(g, Writeable).frame = g
    BY DEF EntryFor
  <2>6. CASE f = d.p4
    BY <1>5, <1>7, <1>8, <2>4, <2>5, <2>6
  <2>7. CASE f = d.p3
    BY <1>5, <1>7, <1>8, <2>4, <2>5, <2>7
  <2> QED
    BY <2>2, <2>6, <2>7
<1>10. BootTree(mem, place, d)
  BY <1>5, <1>6, <1>7, <1>8 DEF BootTree
<1>11. FreeFrames(mem, place, pool)
  BY <1>2, <1>3, <1>5, <1>6 DEF FreeFrames
<1>12. Shape(mem, place, d, pool)
  BY <1>1, <1>2, <1>4, <1>5, <1>9, <1>10, <1>11 DEF Shape
<1>13. Types
  <2>1. Len(d.sections) \in Nat
    BY <1>1 DEF LayoutOK
  <2> QED
    BY <1>1, <1>2, <1>3, <2>1, ConstantFacts, NoJobType DEF Types
<1>14. At = "start" /\ Target = cr3
  BY <1>2 DEF At, AtOf, Target, TargetOf, FillingNew
<1>15. Roots(place)
  BY <1>2, <1>7, <1>14 DEF Roots, BuildingOld, FillingNew, Leaving, Settled, Recursive,
                           BootPagesOnly
<1>16. TemporaryPages
  BY <1>2, <1>14 DEF TemporaryPages, NewRootMapped, OldRootMapped, FillingNew
<1>17. JobOK(place) /\ Buffer /\ Loops
  BY <1>2, <1>14 DEF JobOK, Buffer, Loops, AfterFlush
<1> QED
  BY <1>5, <1>12, <1>13, <1>15, <1>16, <1>17 DEF Inv

LEMMA InvInit == ZeroedMemory /\ Init => IInv
BY InitPlaces DEF IInv

-----------------------------------------------------------------------------
(* The steps of map_page_to_frame and unmap_page *)

(* Types of what map_page_to_frame and unmap_page work on.                  *)
LEMMA JobFields ==
  ASSUME NEW j \in Jobs
  PROVE  /\ j.page \in Pages /\ j.frame \in Frames /\ j.flags \in SUBSET JobFlags
         /\ j.table \in Pages /\ j.level \in 0 .. 4 /\ j.unmap \in BOOLEAN
         /\ j.then \in Callers \cup {"done"}
BY DEF Jobs

(* The new root is one, unless there was no frame for it.                   *)
LEMMA Places4 ==
  ASSUME NEW place, Inv(place)
  PROVE  /\ cr3 \in Frames /\ place[cr3].level = 4
         /\ Target \in Frames /\ place[Target].level = 4
         /\ d.p4 \in Frames /\ place[d.p4].level = 4
         /\ new_p4 \in Frames
         /\ Editable(place, d, d.p4, NewP4Page) /\ Editable(place, d, d.p4, OldP4Page)
<1>1. /\ LayoutOK(d) /\ BootTree(mem, place, d) /\ cr3 \in Frames /\ new_p4 \in Frames
  BY DEF Inv, Shape, Types
<1>2. d.p4 \in Frames /\ place[d.p4].level = 4
  BY <1>1, LayoutFacts DEF BootTree
<1>3. /\ cr3 = (IF At \in Settled THEN new_p4 ELSE d.p4)
      /\ pc = "start" \/ Doomed \/ (new_p4 # d.p4 /\ place[new_p4].level = 4)
  BY DEF Inv, Roots
<1>4. pc = "start" \/ Doomed => At \in BuildingOld
  BY DEF At, AtOf, Doomed, BuildingOld
<1>5. BuildingOld \cap (FillingNew \cup Settled) = {} /\ FillingNew \cap Settled = {}
  BY DEF BuildingOld, FillingNew, Settled
<1>6. Target = IF At \in FillingNew THEN new_p4 ELSE cr3
  BY DEF Target, TargetOf
<1>7. /\ NewP4Page >= R * R /\ OldP4Page >= R * R
  BY PlacesAssumption DEF DistantPages
<1>8. Editable(place, d, d.p4, NewP4Page) /\ Editable(place, d, d.p4, OldP4Page)
  BY <1>2, <1>7, ConstantFacts, AboveBootPages DEF Editable
<1> QED
  BY <1>1, <1>2, <1>3, <1>4, <1>5, <1>6, <1>8

(* The table a job has come to is seen where the job looks for it.          *)
Table == FrameAt(mem, Target, job.level, job.page)

(* A step of a job reads and writes the table of its level in the edited    *)
(* tree.                                                                    *)
LEMMA JobTable ==
  ASSUME NEW place, Inv(place), pc = "job"
  PROVE  /\ Translation(job.table).frame = Table
         /\ Table \in Frames /\ place[Table].level = job.level
         /\ Index \in Indices
         /\ job.level \in 1 .. 4
         /\ job.level >= 2 => PointsToTable(place, d, Table, Index)
         /\ EntryAtIndex = mem[Table][Index]
         /\ \A e : Stored(job.table, Index, e) = Put(mem, Table, Index, e)
<1>1. /\ Shape(mem, place, d, pool) /\ Recursive(mem, cr3, Target)
      /\ job.level \in 1 .. 4
      /\ Editable(place, d, Target, job.page)
      /\ TableAt(job.table, job.level, job.page)
      /\ Reached(mem, Target, job.level, job.page)
  BY DEF Inv, Roots, JobOK
<1>2. Walk(mem, cr3, job.table).frame = Table
  BY <1>1, WindowShows DEF Table
<1>3. Translation(job.table).frame = Table
  BY <1>2 DEF Translation
<1>4. /\ Table \in Frames /\ place[Table].level = job.level
      /\ job.level >= 2 => PointsToTable(place, d, Table, Index)
  BY <1>1, WayLevels DEF Table, Index
<1>5. Index \in Indices
  BY <1>1, IndexType DEF Index, Editable
<1> QED
  BY <1>1, <1>3, <1>4, <1>5 DEF EntryAtIndex, Stored, Put

(* One level down, when the entry is there.                                 *)
LEMMA Downwards ==
  ASSUME NEW place, Inv(place), pc = "job", job.level > 1, DownOneLevel
  PROVE  /\ job' \in Jobs
         /\ job'.page = job.page /\ job'.frame = job.frame /\ job'.flags = job.flags
         /\ job'.unmap = job.unmap /\ job'.then = job.then
         /\ job'.level = job.level - 1
         /\ TableAt(job'.table, job'.level, job'.page)
<1>1. /\ job \in Jobs /\ job.level \in 1 .. 4 /\ job.page \in Pages
      /\ TableAt(job.table, job.level, job.page)
  BY DEF Inv, Types, JobOK, Editable
<1> DEFINE x == descened_page_table(job.table, Index)
<1>2. job' = [job EXCEPT !.table = x, !.level = job.level - 1]
  BY DEF DownOneLevel
<1>3. job.level \in 2 .. 4
  BY <1>1
<1>4. TableAt(x, job.level - 1, job.page)
  BY <1>1, <1>3, DescendedSeen DEF Index
<1> HIDE DEF x
<1>5. x \in Pages
  BY <1>4 DEF TableAt, InWindow
<1>6. job.level - 1 \in 0 .. 4
  BY <1>3
<1>7. job' \in Jobs
  BY <1>1, <1>2, <1>5, <1>6 DEF Jobs
<1>8. /\ job'.page = job.page /\ job'.frame = job.frame /\ job'.flags = job.flags
      /\ job'.unmap = job.unmap /\ job'.then = job.then
      /\ job'.level = job.level - 1 /\ job'.table = x
  BY <1>1, <1>2 DEF Jobs
<1> QED
  BY <1>4, <1>7, <1>8

(* A way that is there down to a level, with a present entry there, is      *)
(* there down to the next.                                                  *)
LEMMA ReachedNext ==
  ASSUME NEW m, NEW root, NEW page, NEW level \in 2 .. 4, Reached(m, root, level, page),
         Present(m[FrameAt(m, root, level, page)][IndexAt(level, page)])
  PROVE  Reached(m, root, level - 1, page)
<1>1. CASE level = 4
  BY <1>1 DEF Reached, FrameAt, E4, E3, E2
<1>2. CASE level = 3
  BY <1>2 DEF Reached, FrameAt, E4, E3, E2
<1>3. CASE level = 2
  <2>1. /\ Present(E4(m, root, page)) /\ Present(E3(m, root, page))
        /\ FrameAt(m, root, level, page) = E3(m, root, page).frame
    BY <1>3 DEF Reached, FrameAt
  <2>2. Present(E2(m, root, page))
    BY <1>3, <2>1 DEF E2
  <2> QED
    BY <1>3, <2>1, <2>2 DEF Reached
<1> QED
  BY <1>1, <1>2, <1>3

(* Without a frame for the new root the way ends at the second level.       *)
LEMMA DoomedStuck ==
  ASSUME NEW place, Inv(place), pc = "job", Doomed, job.level <= 3
  PROVE  ~Present(EntryAtIndex)
<1>1. /\ Shape(mem, place, d, pool) /\ BootTree(mem, place, d) /\ LayoutOK(d)
      /\ job.level = 3 /\ job.then = "map_old" /\ BootPagesOnly
      /\ Editable(place, d, Target, job.page)
      /\ Present(E4(mem, Target, job.page))
  BY DEF Inv, Shape, Roots, JobOK, Doomed, Reached
<1>2. Target = d.p4
  BY <1>1 DEF Inv, Roots, Target, TargetOf, At, AtOf, FillingNew, Settled
<1> DEFINE i4 == IndexAt(4, job.page)
           i3 == IndexAt(3, job.page)
<1>3. /\ i4 \in Indices \ {RecursiveIndex} /\ i3 \in Indices
      /\ i4 # 0 \/ i3 # 0
  BY <1>1, <1>2, IndexType DEF Editable
<1>4. ~Present(Unused)
  BY DEF Unused, Present
<1>5. i4 = 0
  <2>1. E4(mem, Target, job.page) = mem[d.p4][i4]
    BY <1>2 DEF E4
  <2> QED
    BY <1>1, <1>3, <1>4, <2>1 DEF BootPagesOnly
<1>6. E4(mem, Target, job.page).frame = d.p3
  BY <1>1, <1>2, <1>5 DEF E4, BootTree, EntryFor
<1>7. Table = d.p3
  BY <1>1, <1>6 DEF Table, FrameAt
<1>8. EntryAtIndex = mem[d.p3][i3]
  BY <1>1, <1>7, JobTable DEF Index
<1> QED
  BY <1>1, <1>3, <1>4, <1>5, <1>8 DEF BootPagesOnly

(* Tables are seen in the window of the recursive entry.                    *)
LEMMA TableInWindow ==
  ASSUME NEW t, NEW level, NEW page, TableAt(t, level, page)
  PROVE  t \in Pages /\ IndexAt(4, t) = RecursiveIndex
BY DEF TableAt, InWindow

(* What the buffer may hold after each access.                              *)
LEMMA CachedHere ==
  /\ pc = "job" => Cached = tlb \cup {<<job.table, Translation(job.table).frame>>}
  /\ pc = "clear" => Cached = tlb \cup {<<NewP4Page, Translation(NewP4Page).frame>>}
  /\ pc = "recurse_new" =>
       Cached = tlb \cup {<<p4_table, Translation(p4_table).frame>>,
                         <<OldP4Page, Translation(OldP4Page).frame>>,
                         <<NewP4Page, Translation(NewP4Page).frame>>}
  /\ pc = "recurse_old" => Cached = tlb \cup {<<p4_table, Translation(p4_table).frame>>}
  /\ pc = "multiboot" /\ addr > MultibootBound =>
       Cached = tlb \cup {<<OldP4Page, Translation(OldP4Page).frame>>}
<1>1. ASSUME NEW page, NextAccess = {page}
      PROVE  Cached = tlb \cup {<<page, Translation(page).frame>>}
  BY <1>1 DEF Cached
<1>2. pc = "job" => NextAccess = {job.table}
  BY DEF NextAccess
<1>3. pc = "clear" => NextAccess = {NewP4Page}
  BY DEF NextAccess
<1>4. pc = "recurse_new" => NextAccess = {p4_table, OldP4Page, NewP4Page}
  BY DEF NextAccess
<1>5. pc = "recurse_old" => NextAccess = {p4_table}
  BY DEF NextAccess
<1>6. pc = "multiboot" /\ addr > MultibootBound => NextAccess = {OldP4Page}
  BY DEF NextAccess
<1>7. pc = "recurse_new" =>
       Cached = tlb \cup {<<p4_table, Translation(p4_table).frame>>,
                         <<OldP4Page, Translation(OldP4Page).frame>>,
                         <<NewP4Page, Translation(NewP4Page).frame>>}
  BY <1>4 DEF Cached
<1> QED
  BY <1>1, <1>2, <1>3, <1>5, <1>6, <1>7

(* get_next_page_table over an entry that is there.                         *)
LEMMA DescendKeeps ==
  ASSUME NEW place, Inv(place), Descend
  PROVE  Inv(place)'
<1>1. /\ pc = "job" /\ pc' = "job" /\ job.level > 1 /\ Present(EntryAtIndex) /\ DownOneLevel
      /\ tlb' = tlb \cup {<<job.table, Table>>}
      /\ UNCHANGED <<d, mem, cr3, pool, exhausted, pc, new_p4, section, addr>>
  <2>1. /\ pc = "job" /\ pc' = "job" /\ job.level > 1 /\ Present(EntryAtIndex) /\ DownOneLevel
        /\ tlb' = Cached
        /\ UNCHANGED <<d, mem, cr3, pool, exhausted, pc, new_p4, section, addr>>
    BY DEF Descend, OnTheWay
  <2> QED
    BY <2>1, CachedHere, JobTable
<1>2. /\ job' \in Jobs
      /\ job'.page = job.page /\ job'.frame = job.frame /\ job'.flags = job.flags
      /\ job'.unmap = job.unmap /\ job'.then = job.then
      /\ job'.level = job.level - 1
      /\ TableAt(job'.table, job'.level, job'.page)
  BY <1>1, Downwards
<1>3. At' = At /\ Target' = Target
  BY <1>1, <1>2 DEF At, AtOf, Target, TargetOf
<1>4. job.level \in 2 .. 4 /\ Index \in Indices /\ EntryAtIndex = mem[Table][Index]
      /\ Table \in Frames /\ Translation(job.table).frame = Table
  BY <1>1, JobTable
<1>5. Types'
  <2>1. job.table \in Pages
    BY JobFields DEF Inv, Types
  <2> QED
    BY <1>1, <1>2, <1>4, <2>1 DEF Inv, Types
<1>6. Shape(mem, place, d, pool)'
  BY <1>1 DEF Inv
<1>7. Roots(place)'
  <2>1. Roots(place)
    BY DEF Inv
  <2>2. BootPagesOnly' = BootPagesOnly
    BY <1>1 DEF BootPagesOnly
  <2>3. Doomed' => Doomed
    BY <1>1, <1>2, <1>4 DEF Doomed
  <2>4. Doomed => Doomed'
    BY <1>1, <1>2, <1>4, DoomedStuck DEF Doomed
  <2> QED
    BY <1>1, <1>3, <2>1, <2>2, <2>3, <2>4 DEF Roots
<1>8. TemporaryPages'
  BY <1>1, <1>3 DEF Inv, TemporaryPages, NewRootMapped, OldRootMapped
<1>9. JobOK(place)'
  <2>1. Reached(mem, Target, job.level, job.page)
    BY <1>1 DEF Inv, JobOK
  <2>2. Present(mem[FrameAt(mem, Target, job.level, job.page)][IndexAt(job.level, job.page)])
    BY <1>1, <1>4 DEF Table, Index
  <2>3. Reached(mem, Target, job.level - 1, job.page)
    BY <1>4, <2>1, <2>2, ReachedNext
  <2>4. job.level - 1 \in 1 .. 4
    BY <1>4
  <2> QED
    BY <1>1, <1>2, <1>3, <2>3, <2>4 DEF Inv, JobOK
<1>10. Buffer'
  <2>1. IndexAt(4, job.table) = RecursiveIndex
    BY <1>1, TableInWindow DEF Inv, JobOK
  <2> QED
    BY <1>1, <1>4, <2>1 DEF Inv, Buffer, Translation, AfterFlush
<1>11. Loops'
  BY <1>1, <1>2, <1>3 DEF Inv, Loops, Section
<1> QED
  BY <1>5, <1>6, <1>7, <1>8, <1>9, <1>10, <1>11 DEF Inv

(* A free frame has become the table a job was in want of.                  *)
NewTable(place, place2) ==
  \E f \in pool :
    /\ pool' = pool \ {f}
    /\ mem' = Put(mem, Table, Index, EntryFor(f, Writeable))
    /\ place2[f] = Child(place, Table, Index)
    /\ \A h \in Frames : h # f => place2[h] = place[h]

(* get_next_page_table_or_create with a frame for the missing table.        *)
LEMMA CreateTablePlaces ==
  ASSUME NEW place, Inv(place), CreateTable
  PROVE  \E place2 : /\ Inv(place2)'
                     /\ NewTable(place, place2)
<1>1. /\ pc = "job" /\ pc' = "job" /\ job.level > 1 /\ ~Present(EntryAtIndex) /\ DownOneLevel
      /\ pool # {} /\ tlb' = {<<job.table, Walk(mem', cr3, job.table).frame>>}
      /\ UNCHANGED <<d, cr3, pc, new_p4, section, addr>>
  BY DEF CreateTable, NeedsTable, OnTheWay
<1>2. PICK f \in pool : /\ pool' = pool \ {f} /\ exhausted' = exhausted
                        /\ mem' = Put(mem, Table, Index, EntryFor(f, Writeable))
  <2>1. PICK f \in pool : /\ allocate_frame(f)
                          /\ mem' = Stored(job.table, Index, EntryFor(f, Writeable))
    BY DEF CreateTable
  <2>2. pool' = pool \ {f} /\ exhausted' = exhausted
    BY <1>1, <2>1 DEF allocate_frame
  <2> QED
    BY <1>1, <2>1, <2>2, JobTable
<1>3. /\ job' \in Jobs
      /\ job'.page = job.page /\ job'.frame = job.frame /\ job'.flags = job.flags
      /\ job'.unmap = job.unmap /\ job'.then = job.then
      /\ job'.level = job.level - 1
      /\ TableAt(job'.table, job'.level, job'.page)
  BY <1>1, Downwards
<1>4. At' = At /\ Target' = Target
  BY <1>1, <1>3 DEF At, AtOf, Target, TargetOf
<1>5. /\ job.level \in 2 .. 4 /\ job.level \in 1 .. 4
      /\ Index \in Indices /\ ~Present(mem[Table][Index])
      /\ Table \in Frames /\ PointsToTable(place, d, Table, Index)
  BY <1>1, JobTable
<1>6. Shape(mem, place, d, pool) /\ f \in Frames /\ place[f].level = 0
  BY LayoutFacts DEF Inv, Shape, FreeFrames
<1>7. /\ \E place2 : Placed(mem', place2, place, d, pool, f, Child(place, Table, Index))
      /\ Kept(mem, mem', place, d)
      /\ mem'[Table][Index] = EntryFor(f, Writeable)
      /\ \A h \in Frames, j \in Indices : Present(mem[h][j]) => mem'[h][j] = mem[h][j]
  <2> DEFINE g == Table
             i == Index
             m2 == Put(mem, g, i, EntryFor(f, Writeable))
  <2>1. /\ Shape(mem, place, d, pool) /\ g \in Frames /\ i \in Indices
        /\ PointsToTable(place, d, g, i) /\ ~Present(mem[g][i]) /\ f \in pool
    BY <1>5, <1>6
  <2>2. mem' = m2
    BY <1>2
  <2> HIDE DEF g, i
  <2>3. /\ \E place2 : Placed(m2, place2, place, d, pool, f, Child(place, g, i))
        /\ Kept(mem, m2, place, d)
        /\ m2[g][i] = EntryFor(f, Writeable)
        /\ \A h \in Frames, j \in Indices : Present(mem[h][j]) => m2[h][j] = mem[h][j]
    BY <2>1, TableStore
  <2> HIDE DEF m2
  <2> QED
    BY <2>2, <2>3 DEF g, i
<1>8. PICK place2 : Placed(mem', place2, place, d, pool, f, Child(place, Table, Index))
  BY <1>7
<1>9. /\ Shape(mem', place2, d, pool \ {f})
      /\ \A h \in Frames : h # f => place2[h] = place[h]
  BY <1>8 DEF Placed
<1>10. \A h \in Frames : place[h].level # 0 => place2[h] = place[h]
  BY <1>6, <1>9
<1>11. /\ cr3 \in Frames /\ place2[cr3].level = 4 /\ Target \in Frames /\ place2[Target].level = 4
       /\ new_p4 \in Frames /\ d.p4 \in Frames
       /\ place[new_p4].level = 4 => place2[new_p4].level = 4
       /\ Editable(place, d, d.p4, NewP4Page) /\ Editable(place, d, d.p4, OldP4Page)
  BY <1>10, Places4
<1>21. Recursive(mem', cr3, Target)
  <2>1. Recursive(mem, cr3, Target)
    BY DEF Inv, Roots
  <2>2. \A g : Present(EntryFor(g, Writeable))
    BY FlagsOfTables DEF Present, EntryFor
  <2> QED
    BY <1>7, <1>11, <2>1, <2>2, ConstantFacts DEF Recursive
<1>22. /\ Reached(mem', Target, job.level, job.page)
       /\ FrameAt(mem', Target, job.level, job.page) = Table
       /\ Editable(place2, d, Target, job.page)
       /\ TableAt(job.table, job.level, job.page)
  <2>1. /\ Reached(mem, Target, job.level, job.page) /\ Editable(place, d, Target, job.page)
        /\ TableAt(job.table, job.level, job.page)
    BY <1>1 DEF Inv, JobOK
  <2>2. /\ Reached(mem', Target, job.level, job.page)
        /\ FrameAt(mem', Target, job.level, job.page) = Table
    BY <1>5, <1>6, <1>7, <2>1, WayKept DEF Table
  <2> QED
    BY <1>11, <2>1, <2>2 DEF Editable
<1>23. Walk(mem', cr3, job.table).frame = Table
  BY <1>5, <1>9, <1>21, <1>22, WindowShows
<1>24. job.table \in Pages /\ IndexAt(4, job.table) = RecursiveIndex
  BY <1>22, TableInWindow
<1>12. Types'
  <2>1. tlb' \subseteq Pages \X Frames
    BY <1>1, <1>5, <1>23, <1>24
  <2> QED
    BY <1>1, <1>2, <1>3, <2>1 DEF Inv, Types
<1>13. Shape(mem, place2, d, pool)'
  BY <1>1, <1>2, <1>9
<1>14. Roots(place2)'
  <2>1. Roots(place)
    BY DEF Inv
  <2>2. ~exhausted
    BY <1>1, <2>1 DEF Roots
  <2>3. ~Doomed /\ ~Doomed'
    BY <1>2, <2>2 DEF Doomed
  <2>4. \A g : Present(EntryFor(g, Writeable))
    BY FlagsOfTables DEF Present, EntryFor
  <2>6. mem[new_p4][RecursiveIndex] = EntryFor(new_p4, Writeable)
          => mem'[new_p4][RecursiveIndex] = EntryFor(new_p4, Writeable)
    BY <1>7, <1>11, <2>4, ConstantFacts
  <2> QED
    BY <1>1, <1>2, <1>4, <1>11, <1>21, <2>1, <2>2, <2>3, <2>6 DEF Roots
<1>15. TemporaryPages'
  <2>1. ASSUME NEW page \in Pages, Editable(place, d, d.p4, page),
               NEW g, MapsTo(mem, d.p4, page, g)
        PROVE  MapsTo(mem', d.p4, page, g)
    <3> DEFINE t == E2(mem, d.p4, page).frame
               i == IndexAt(1, page)
    <3>1. t \in Frames /\ i \in Indices /\ Present(mem[t][i])
      <4>1. Present(E1(mem, d.p4, page))
        BY <2>1 DEF MapsTo
      <4> QED
        BY <1>6, <2>1, <4>1, WayPlaces, IndexType DEF E1
    <3>2. mem'[t][i] = mem[t][i]
      BY <1>7, <3>1
    <3> QED
      BY <1>6, <1>7, <2>1, <3>2, MappingKept
  <2>2. NewRootMapped' = NewRootMapped /\ OldRootMapped' = OldRootMapped
    BY <1>1, <1>4 DEF NewRootMapped, OldRootMapped
  <2> QED
    BY <1>1, <1>11, <2>1, <2>2, ConstantFacts DEF Inv, TemporaryPages
<1>16. JobOK(place2)'
  <2>1. Present(mem'[FrameAt(mem', Target, job.level, job.page)][IndexAt(job.level, job.page)])
    BY <1>7, <1>22, FlagsOfTables DEF Index, Present, EntryFor
  <2>2. Reached(mem', Target, job.level - 1, job.page)
    BY <1>5, <1>22, <2>1, ReachedNext
  <2>3. job.level - 1 \in 1 .. 4
    BY <1>5
  <2> QED
    BY <1>1, <1>3, <1>4, <1>22, <2>2, <2>3 DEF Inv, JobOK
<1>17. Buffer'
  BY <1>1, <1>24 DEF Buffer, Translation
<1>18. Loops'
  BY <1>1, <1>3, <1>4 DEF Inv, Loops, Section
<1>19. Inv(place2)'
  BY <1>12, <1>13, <1>14, <1>15, <1>16, <1>17, <1>18 DEF Inv
<1>20. NewTable(place, place2)
  BY <1>2, <1>8, <1>9 DEF NewTable, Placed
<1> QED
  BY <1>19, <1>20

(* So the invariant is kept.                                                *)
LEMMA CreateTableKeeps ==
  ASSUME NEW place, Inv(place), CreateTable
  PROVE  \E place2 : Inv(place2)'
BY CreateTablePlaces

(* A store to the last table leaves the other page mapped that is still     *)
(* needed.                                                                  *)
LEMMA LeafElsewhere ==
  ASSUME NEW place, Inv(place), pc = "job", job.level = 1,
         NEW e \in Entries,
         NEW page, NEW f, Editable(place, d, d.p4, page), MapsTo(mem, d.p4, page, f),
         Target # d.p4 \/ job.page # page
  PROVE  MapsTo(Put(mem, Table, Index, e), d.p4, page, f)
<1> DEFINE m2 == Put(mem, Table, Index, e)
           t == E2(mem, d.p4, page).frame
           i == IndexAt(1, page)
<1>1. /\ Shape(mem, place, d, pool) /\ mem \in Memory
      /\ Table \in Frames /\ place[Table].level = 1 /\ Index \in Indices
      /\ Editable(place, d, Target, job.page)
      /\ Reached(mem, Target, 1, job.page)
      /\ Reached(mem, d.p4, 1, page)
  BY JobTable DEF Inv, JobOK, Shape, MapsTo
<1>2. Kept(mem, m2, place, d)
  BY <1>1, LeafStore
<1>3. Table = E2(mem, Target, job.page).frame /\ Index = IndexAt(1, job.page)
  BY DEF Table, FrameAt, Index
<1>4. t # Table \/ i # Index
  <2>1. SUFFICES ASSUME t = Table PROVE i # Index
    OBVIOUS
  <2>2. Target # d.p4 \/ job.page # page
    OBVIOUS
  <2>3. IndexAt(1, job.page) # IndexAt(1, page)
    BY <1>1, <1>3, <2>1, <2>2, WaysApart
  <2> QED
    BY <1>3, <2>3
<1>5. t \in Frames /\ i \in Indices
  <2>1. page \in Pages
    BY DEF Editable
  <2> QED
    BY <1>1, <2>1, WayPlaces, IndexType
<1>6. m2[t][i] = mem[t][i]
  BY <1>1, <1>4, <1>5, PutEffect
<1> QED
  BY <1>1, <1>2, <1>6, MappingKept

(* Any store to the last table of a job.                                    *)
LEMMA LeafKeeps ==
  ASSUME NEW place, Inv(place), pc = "job", job.level = 1,
         NEW e \in Entries,
         job.then \in {"map_old", "flush_old"} => Present(e) /\ e.frame = job.frame,
         mem' = Put(mem, Table, Index, e),
         pc' = job.then,
         tlb' \in {{}, Cached},
         UNCHANGED <<d, cr3, pool, exhausted, job, new_p4, section, addr>>
  PROVE  Inv(place)'
<1> DEFINE m2 == Put(mem, Table, Index, e)
<1>1. /\ Shape(mem, place, d, pool) /\ mem \in Memory
      /\ Table \in Frames /\ place[Table].level = 1 /\ Index \in Indices
      /\ Translation(job.table).frame = Table
      /\ Editable(place, d, Target, job.page)
      /\ Reached(mem, Target, 1, job.page)
      /\ FrameAt(mem, Target, 1, job.page) = Table
      /\ job.then \in Callers
  BY JobTable DEF Inv, JobOK, Shape, Table
<1>2. /\ Shape(m2, place, d, pool)
      /\ Kept(mem, m2, place, d)
      /\ \A f \in Frames : place[f].level # 1 => m2[f] = mem[f]
  BY <1>1, LeafStore
<1>3. m2[Table][Index] = e
  BY <1>1, PutEffect
<1> HIDE DEF m2
<1>4. /\ cr3 \in Frames /\ place[cr3].level = 4 /\ Target \in Frames /\ place[Target].level = 4
      /\ new_p4 \in Frames /\ d.p4 \in Frames
      /\ Editable(place, d, d.p4, NewP4Page) /\ Editable(place, d, d.p4, OldP4Page)
  BY Places4
<1>5. /\ pc' \notin {"job", "start"} /\ At = job.then /\ At' = At /\ Target' = Target
      /\ mem' = m2
  BY <1>1 DEF At, AtOf, Target, TargetOf, Callers, m2
<1>6. Types'
  <2>1. Cached \subseteq Pages \X Frames
    BY <1>1, JobFields, CachedHere DEF Inv, Types
  <2>2. tlb' \subseteq Pages \X Frames
    BY <2>1
  <2> QED
    BY <2>2 DEF Inv, Types
<1>7. Shape(mem, place, d, pool)'
  BY <1>2, <1>5
<1>8. Roots(place)'
  <2>1. Roots(place)
    BY DEF Inv
  <2>2. new_p4 # d.p4 /\ place[new_p4].level = 4
    BY <2>1 DEF Roots, Doomed
  <2>3. Recursive(m2, cr3, Target) /\ m2[new_p4] = mem[new_p4]
    BY <1>2, <1>4, <2>1, <2>2 DEF Roots, Recursive
  <2> QED
    BY <1>5, <2>1, <2>2, <2>3 DEF Roots
<1>9. TemporaryPages'
  <2>1. ASSUME NEW page, NEW f, Editable(place, d, d.p4, page), MapsTo(mem, d.p4, page, f),
               Target # d.p4 \/ job.page # page
        PROVE  MapsTo(m2, d.p4, page, f)
    BY <2>1, LeafElsewhere DEF m2
  <2>2. TemporaryPages /\ JobOK(place) /\ Roots(place)
    BY DEF Inv
  <2>3. ASSUME job.then \in {"map_old", "flush_old"}
        PROVE  MapsTo(m2, d.p4, job.page, job.frame)
    <3>1. Target = d.p4
      BY <1>5, <2>2, <2>3 DEF Roots, Target, TargetOf, FillingNew, Settled
    <3>2. Reached(m2, d.p4, 1, job.page) /\ FrameAt(m2, d.p4, 1, job.page) = Table
      <4> DEFINE k == 1
      <4>1. k \in 1 .. 4 /\ Reached(mem, d.p4, k, job.page)
            /\ FrameAt(mem, d.p4, k, job.page) = Table
            /\ Editable(place, d, d.p4, job.page)
        BY <1>1, <3>1
      <4> HIDE DEF k
      <4>2. Reached(m2, d.p4, k, job.page) /\ FrameAt(m2, d.p4, k, job.page) = Table
        BY <1>1, <1>2, <4>1, WayKept
      <4> QED
        BY <4>2 DEF k
    <3>3. E1(m2, d.p4, job.page) = e
      <4>1. E2(m2, d.p4, job.page).frame = Table /\ Index = IndexAt(1, job.page)
        BY <3>2 DEF FrameAt, Index
      <4> QED
        BY <1>3, <4>1 DEF E1
    <3> QED
      BY <2>3, <3>2, <3>3 DEF MapsTo
  <2>4. CASE job.then = "map_old"
    <3>1. NewRootMapped' /\ ~OldRootMapped'
      BY <1>5, <2>4 DEF NewRootMapped, OldRootMapped, FillingNew
    <3>2. job.page = NewP4Page /\ job.frame = new_p4
      BY <2>2, <2>4 DEF JobOK
    <3> QED
      BY <1>5, <2>3, <2>4, <3>1, <3>2 DEF TemporaryPages
  <2>5. CASE job.then = "flush_old"
    <3>1. NewRootMapped
      BY <1>5, <2>5 DEF NewRootMapped
    <3>2. job.page = OldP4Page /\ job.frame = d.p4
      BY <2>2, <2>5 DEF JobOK
    <3>3. MapsTo(m2, d.p4, NewP4Page, new_p4)
      BY <1>4, <2>1, <2>2, <3>1, <3>2, ConstantFacts DEF TemporaryPages
    <3> QED
      BY <1>5, <2>3, <2>5, <3>2, <3>3 DEF TemporaryPages
  <2>6. CASE job.then \in {"pages", "multiboot"}
    <3>1. OldRootMapped /\ ~NewRootMapped'
      BY <1>5, <2>6 DEF NewRootMapped, OldRootMapped, FillingNew
    <3>2. Target # d.p4
      <4>1. Target = new_p4
        BY <1>5, <2>6 DEF Target, TargetOf, FillingNew
      <4> QED
        BY <2>2, <2>6, <4>1 DEF Roots, Doomed
    <3>3. MapsTo(m2, d.p4, OldP4Page, d.p4)
      BY <1>4, <2>1, <2>2, <3>1, <3>2 DEF TemporaryPages
    <3> QED
      BY <1>5, <3>1, <3>3 DEF TemporaryPages
  <2>7. CASE job.then \in {"switch", "heap"}
    <3>1. ~OldRootMapped' /\ ~NewRootMapped'
      BY <1>5, <2>7 DEF NewRootMapped, OldRootMapped, FillingNew
    <3> QED
      BY <3>1 DEF TemporaryPages
  <2> QED
    BY <1>1, <2>4, <2>5, <2>6, <2>7 DEF Callers
<1>10. JobOK(place)'
  BY <1>5 DEF JobOK
<1>11. Buffer'
  <2>1. SUFFICES ASSUME pc' \notin DOMAIN AfterFlush, NEW pair \in tlb'
                 PROVE  /\ IndexAt(4, pair[1]) = RecursiveIndex
                        /\ pair[2] = Walk(m2, cr3, pair[1]).frame
    BY <1>1, <1>5 DEF Buffer, Translation, Callers
  <2>2. pair \in tlb \cup {<<job.table, Table>>}
    BY <1>1, CachedHere
  <2>3. /\ pair[1] \in Pages
        /\ IndexAt(4, pair[1]) = RecursiveIndex
        /\ pair[2] = Walk(mem, cr3, pair[1]).frame
    <3>1. CASE pair \in tlb
      <4>1. pair \in Pages \X Frames
        BY <3>1 DEF Inv, Types
      <4>2. pc \notin DOMAIN AfterFlush \cup {"clear", "recurse_new", "recurse_old"}
        BY DEF AfterFlush
      <4> QED
        BY <3>1, <4>1, <4>2 DEF Inv, Buffer, Translation
    <3>2. CASE pair = <<job.table, Table>>
      <4>1. TableAt(job.table, job.level, job.page)
        BY DEF Inv, JobOK
      <4> QED
        BY <1>1, <3>2, <4>1, TableInWindow DEF Translation
    <3> QED
      BY <2>2, <3>1, <3>2
  <2>4. Recursive(mem, cr3, Target)
    BY DEF Inv, Roots
  <2>5. Walk(m2, cr3, pair[1]) = Walk(mem, cr3, pair[1])
    BY <1>1, <1>2, <1>4, <2>3, <2>4, WindowStable
  <2> QED
    BY <2>3, <2>5
<1>12. Loops'
  BY <1>5 DEF Inv, Loops, Section
<1> QED
  BY <1>6, <1>7, <1>8, <1>9, <1>10, <1>11, <1>12 DEF Inv

(* The last step of map_page_to_frame.                                      *)
LEMMA SetLeafKeeps ==
  ASSUME NEW place, Inv(place), SetLeaf
  PROVE  Inv(place)'
<1>1. /\ pc = "job" /\ job.level = 1 /\ ~job.unmap
      /\ mem' = Stored(job.table, Index, EntryFor(job.frame, job.flags))
      /\ tlb' = Cached /\ pc' = job.then
      /\ UNCHANGED <<d, cr3, pool, exhausted, job, new_p4, section, addr>>
  BY DEF SetLeaf
<1> DEFINE e == EntryFor(job.frame, job.flags)
<1>2. e \in Entries /\ e.frame = job.frame
  BY JobFields DEF Inv, Types, EntryFor, Entries, JobFlags, Flags
<1>3. Present(e)
  BY <1>1 DEF Inv, JobOK, EntryFor, Present
<1>4. mem' = Put(mem, Table, Index, e)
  BY <1>1, JobTable
<1> HIDE DEF e
<1>5. tlb' \in {{}, Cached}
  BY <1>1
<1> QED
  BY <1>1, <1>2, <1>3, <1>4, <1>5, LeafKeeps

(* The last step of unmap_page.                                             *)
LEMMA ClearLeafKeeps ==
  ASSUME NEW place, Inv(place), ClearLeaf
  PROVE  Inv(place)'
<1>1. /\ pc = "job" /\ job.level = 1 /\ job.unmap
      /\ mem' = Stored(job.table, Index, Unused)
      /\ tlb' = {} /\ pc' = job.then
      /\ UNCHANGED <<d, cr3, pool, exhausted, job, new_p4, section, addr>>
  BY DEF ClearLeaf
<1>2. Unused \in Entries
  BY EmptyTableType
<1>3. job.then \notin {"map_old", "flush_old"}
  BY <1>1 DEF Inv, JobOK
<1>4. mem' = Put(mem, Table, Index, Unused)
  BY <1>1, JobTable
<1>5. tlb' \in {{}, Cached}
  BY <1>1
<1> QED
  BY <1>1, <1>2, <1>3, <1>4, <1>5, LeafKeeps

-----------------------------------------------------------------------------
(* The steps that begin a job *)

(* What map_page_to_frame begins with.                                      *)
LEMMA MapJobFields ==
  ASSUME NEW page \in Pages, NEW f \in Frames, NEW flags \in SUBSET JobFlags,
         NEW then \in Callers
  PROVE  LET j == MapJob(page, f, flags, then)
         IN  /\ j \in Jobs /\ j.page = page /\ j.frame = f /\ "present" \in j.flags
             /\ j.table = p4_table /\ j.level = 4 /\ ~j.unmap /\ j.then = then
<1>1. {"present"} \cup flags \in SUBSET JobFlags /\ p4_table \in Pages
  BY RootPage DEF JobFlags
<1> QED
  BY <1>1 DEF MapJob, Jobs

(* What unmap_page begins with.                                             *)
LEMMA UnmapJobFields ==
  ASSUME NEW page \in Pages, NEW then \in Callers
  PROVE  LET j == UnmapJob(page, then)
         IN  /\ j \in Jobs /\ j.page = page
             /\ j.table = p4_table /\ j.level = 4 /\ j.unmap /\ j.then = then
<1>1. p4_table \in Pages
  BY RootPage
<1> QED
  BY <1>1, ConstantFacts DEF UnmapJob, Jobs

(* From where to where each of the calls leads.                             *)
Calls ==
  {<<"map_old", "flush_old">>, <<"pages", "pages">>, <<"sections", "multiboot">>,
   <<"multiboot", "multiboot">>, <<"unmap_old", "switch">>, <<"guard", "heap">>,
   <<"heap", "heap">>}

HeapRange == HeapStart .. HeapStart + HeapPages - 1

(* The pages of the heap lie beyond what boot.s has mapped.                 *)
LEMMA HeapFacts ==
  /\ HeapStart \in Nat /\ HeapPages \in Nat
  /\ \A page \in HeapRange :
       page \in Pages /\ page >= R * R /\ IndexAt(4, page) # RecursiveIndex
<1>1. HeapStart \in Nat /\ HeapPages \in Nat
  BY PagingAssumption, FirstDigit
<1>2. ASSUME NEW page \in HeapRange
      PROVE  page \in Pages /\ page >= R * R /\ IndexAt(4, page) # RecursiveIndex
  <2>1. page \in DistantPages
    BY DEF DistantPages, HeapRange
  <2> QED
    BY <2>1, PlacesAssumption
<1> QED
  BY <1>1, <1>2

(* A frame that is taken from the allocator and not used changes nothing.   *)
LEMMA FewerFree ==
  ASSUME NEW m, NEW place, NEW l, NEW free, Shape(m, place, l, free),
         NEW rest, rest \subseteq free
  PROVE  Shape(m, place, l, rest)
<1>1. FreeFrames(m, place, rest) /\ rest \subseteq l.free
  BY DEF Shape, FreeFrames
<1> QED
  BY <1>1 DEF Shape

(* Any call of map_page_to_frame or unmap_page but the first.               *)
LEMMA StartKeeps ==
  ASSUME NEW place, Inv(place), NEW j \in Jobs,
         StartJob(j), <<pc, j.then>> \in Calls,
         j.table = p4_table, j.level = 4, j.unmap \/ "present" \in j.flags,
         j.page \in {NewP4Page, OldP4Page} \cup Frames \cup HeapRange,
         pc \in {"map_old", "unmap_old"} => j.page = OldP4Page,
         pc = "map_old" => j.frame = d.p4 /\ ~j.unmap,
         UNCHANGED <<d, mem, cr3, tlb, new_p4, section>>,
         pool' \subseteq pool, exhausted' \in BOOLEAN, exhausted' => pool' = {},
         addr' \in Nat, Loops'
  PROVE  Inv(place)'
<1>1. /\ job' = j /\ pc' = "job" /\ At' = j.then /\ At = pc
      /\ pc \notin {"start", "job"} /\ j.then \in Callers \ {"map_old"}
  BY DEF StartJob, At, AtOf, Calls, Callers
<1>2. /\ At' \in FillingNew <=> At \in FillingNew
      /\ At' \in Settled <=> At \in Settled
      /\ At' \in BuildingOld \cup FillingNew \cup Leaving \cup Settled
      /\ At' \in {"recurse_old"} \cup FillingNew \cup Leaving
           => At \in {"recurse_old"} \cup FillingNew \cup Leaving
  BY <1>1 DEF Calls, BuildingOld, FillingNew, Leaving, Settled
<1>3. Target' = Target
  BY <1>2 DEF Target, TargetOf
<1>4. Types'
  BY <1>1 DEF Inv, Types
<1>5. Shape(mem, place, d, pool)'
  BY FewerFree DEF Inv
<1>6. new_p4 # d.p4 /\ place[new_p4].level = 4
  BY <1>1 DEF Inv, Roots, Doomed
<1>7. Roots(place)'
  <2>1. Roots(place) /\ ~Doomed'
    BY <1>1 DEF Inv, Doomed
  <2> QED
    BY <1>1, <1>2, <1>3, <1>6, <2>1 DEF Roots
<1>8. TemporaryPages'
  <2>1. /\ NewRootMapped' => NewRootMapped
        /\ OldRootMapped' => OldRootMapped
    BY <1>1, <1>2 DEF NewRootMapped, OldRootMapped, Calls, FillingNew
  <2> QED
    BY <2>1 DEF Inv, TemporaryPages
<1>9. JobOK(place)'
  <2>1. j.page \in Pages /\ IndexAt(4, j.page) # RecursiveIndex
    BY ConstantFacts, HeapFacts
  <2>2. Target \in Frames /\ place[Target].level = 4
        /\ Editable(place, d, d.p4, OldP4Page)
    BY Places4
  <2>3. pc \notin {"map_old", "unmap_old"} => Target = new_p4
    BY <1>1 DEF Inv, Roots, Target, TargetOf, Calls, FillingNew, Settled
  <2>4. Editable(place, d, Target, j.page)
    BY <1>6, <2>1, <2>2, <2>3 DEF Editable
  <2>5. TableAt(j.table, 4, j.page)
    BY RootSeen
  <2>6. Reached(mem, Target, 4, j.page)
    BY DEF Reached
  <2>7. j.then = "flush_old" => pc = "map_old"
    BY DEF Calls
  <2>8. /\ j.then \in Callers /\ j.level \in 1 .. 4
        /\ Editable(place, d, Target, j.page)
        /\ TableAt(j.table, j.level, j.page)
        /\ Reached(mem, Target, j.level, j.page)
        /\ j.unmap \/ "present" \in j.flags
        /\ j.then # "map_old"
        /\ j.then = "flush_old" => j.page = OldP4Page /\ j.frame = d.p4 /\ ~j.unmap
    BY <1>1, <2>4, <2>5, <2>6, <2>7
  <2> QED
    BY <1>1, <1>3, <2>8 DEF JobOK
<1>10. Buffer'
  <2>1. pc \notin DOMAIN AfterFlush \cup {"clear", "recurse_new", "recurse_old"}
    BY DEF Calls, AfterFlush
  <2>2. \A pair \in tlb : /\ IndexAt(4, pair[1]) = RecursiveIndex
                          /\ pair[2] = Translation(pair[1]).frame
    BY <2>1 DEF Inv, Buffer
  <2> QED
    BY <1>1, <2>2 DEF Buffer, Translation
<1> QED
  BY <1>4, <1>5, <1>7, <1>8, <1>9, <1>10 DEF Inv

(* remap_kernel maps the old root.                                          *)
LEMMA MapOldRootKeeps ==
  ASSUME NEW place, Inv(place), MapOldRoot
  PROVE  Inv(place)'
<1> DEFINE j == MapJob(OldP4Page, d.p4, {"writeable"}, "flush_old")
<1>1. /\ pc = "map_old" /\ StartJob(j)
      /\ UNCHANGED <<d, mem, cr3, tlb, pool, exhausted, new_p4, section, addr>>
  BY DEF MapOldRoot
<1>2. {"writeable"} \in SUBSET JobFlags /\ "flush_old" \in Callers /\ d.p4 \in Frames
  BY Places4 DEF JobFlags, Callers
<1>3. /\ j \in Jobs /\ j.page = OldP4Page /\ j.frame = d.p4 /\ "present" \in j.flags
      /\ j.table = p4_table /\ j.level = 4 /\ ~j.unmap /\ j.then = "flush_old"
  BY <1>2, ConstantFacts, MapJobFields
<1> HIDE DEF j
<1>4. Loops'
  BY <1>1, <1>3 DEF Loops, StartJob, At, AtOf
<1>5. exhausted \in BOOLEAN /\ addr \in Nat /\ (exhausted => pool = {})
  BY DEF Inv, Types, Roots
<1> QED
  BY <1>1, <1>3, <1>4, <1>5, StartKeeps DEF Calls

(* The frame of an address grows with it.                                   *)
LEMMA FrameOfMonotonic ==
  ASSUME NEW a \in Nat, NEW b \in Nat, a <= b
  PROVE  FrameOf(a) \in Nat /\ FrameOf(b) \in Nat /\ FrameOf(a) <= FrameOf(b)
<1>0. PAGE_SIZE \in Nat \ {0}
  BY PagingAssumption
<1>1. /\ a \div PAGE_SIZE \in Nat /\ a % PAGE_SIZE \in 0 .. PAGE_SIZE - 1
      /\ a = PAGE_SIZE * (a \div PAGE_SIZE) + (a % PAGE_SIZE)
  BY <1>0, Division
<1>2. /\ b \div PAGE_SIZE \in Nat /\ b % PAGE_SIZE \in 0 .. PAGE_SIZE - 1
      /\ b = PAGE_SIZE * (b \div PAGE_SIZE) + (b % PAGE_SIZE)
  BY <1>0, Division
<1> QED
  BY <1>0, <1>1, <1>2 DEF FrameOf

(* A section's last address is one of the machine's.                        *)
LEMMA LastAddrType ==
  ASSUME NEW s, s.sh_addr \in Nat, s.sh_size \in Nat
  PROVE  LastAddr(s) \in Nat
<1> DEFINE a == s.sh_addr + s.sh_size - 1
           n == UINTPTR_MAX + 1
<1>1. a \in Int /\ n \in Nat \ {0}
  BY PagingAssumption
<1> HIDE DEF a, n
<1>2. a % n \in 0 .. n - 1
  BY <1>1
<1> QED
  BY <1>1, <1>2 DEF LastAddr, a, n

(* What the loop over a section maps is part of the section.                *)
LEMMA LoopInSection ==
  ASSUME NEW s, s.sh_addr \in Nat, s.sh_size \in Nat, NEW a \in Nat,
         s.sh_addr <= a, a < LastAddr(s)
  PROVE  FrameOf(a) \in MappedPagesOf(s) /\ FrameOf(a) \in PagesOf(s)
<1>1. LastAddr(s) \in Nat /\ LastAddr(s) - 1 \in Nat /\ a <= LastAddr(s) - 1 /\ a <= LastAddr(s)
  BY LastAddrType
<1>2. /\ FrameOf(s.sh_addr) \in Nat /\ FrameOf(a) \in Nat /\ FrameOf(LastAddr(s)) \in Nat
      /\ FrameOf(LastAddr(s) - 1) \in Nat /\ FrameOf(s.sh_addr) <= FrameOf(a)
      /\ FrameOf(a) <= FrameOf(LastAddr(s) - 1) /\ FrameOf(a) <= FrameOf(LastAddr(s))
  BY <1>1, FrameOfMonotonic
<1> QED
  BY <1>2 DEF MappedPagesOf, PagesOf

(* The section the loop is at.                                              *)
LEMMA SectionType ==
  ASSUME LayoutOK(d), section \in 0 .. Len(d.sections), section < Len(d.sections)
  PROVE  /\ section + 1 \in 1 .. Len(d.sections)
         /\ Section.sh_addr \in Nat /\ Section.sh_size \in Nat
         /\ Section.sh_flags \subseteq {"alloc", "exec", "write"}
         /\ IsAllocated(Section) => PagesOf(Section) \subseteq Frames
<1>1. d.sections \in Seq([sh_addr : Nat, sh_size : Nat,
                          sh_flags : SUBSET {"alloc", "exec", "write"}])
  BY DEF LayoutOK
<1>2. section + 1 \in 1 .. Len(d.sections)
  BY <1>1
<1>3. Section \in [sh_addr : Nat, sh_size : Nat,
                   sh_flags : SUBSET {"alloc", "exec", "write"}]
  <2> DEFINE S == [sh_addr : Nat, sh_size : Nat, sh_flags : SUBSET {"alloc", "exec", "write"}]
  <2>1. d.sections \in Seq(S)
    BY <1>1
  <2> HIDE DEF S
  <2>2. d.sections[section + 1] \in S
    BY <1>2, <2>1
  <2> QED
    BY <2>2 DEF Section, S
<1> QED
  BY <1>2, <1>3 DEF LayoutOK, Section

(* remap_kernel maps a page of a section to itself.                         *)
LEMMA MapSectionPageKeeps ==
  ASSUME NEW place, Inv(place), MapSectionPage
  PROVE  Inv(place)'
<1> DEFINE f == FrameOf(addr)
           j == MapJob(f, f, FlagsOf(Section), "pages")
<1>1. /\ pc = "pages" /\ PagesLeft(Section) /\ StartJob(j) /\ addr' = addr + PAGE_SIZE
      /\ UNCHANGED <<d, mem, cr3, tlb, pool, exhausted, new_p4, section>>
  BY DEF MapSectionPage, IdentityJob
<1>2. /\ LayoutOK(d) /\ section \in 0 .. Len(d.sections) /\ section < Len(d.sections)
      /\ IsAllocated(Section) /\ Section.sh_addr <= addr /\ addr \in Nat
      /\ exhausted \in BOOLEAN /\ (exhausted => pool = {})
  BY <1>1 DEF Inv, Shape, Types, Loops, Roots
<1>3. f \in Frames
  <2>1. /\ Section.sh_addr \in Nat /\ Section.sh_size \in Nat
        /\ PagesOf(Section) \subseteq Frames
    BY <1>2, SectionType
  <2>2. f \in PagesOf(Section)
    BY <1>1, <1>2, <2>1, LoopInSection DEF PagesLeft
  <2> QED
    BY <2>1, <2>2
<1>4. FlagsOf(Section) \in SUBSET JobFlags /\ "pages" \in Callers /\ f \in Pages
  BY <1>3, ConstantFacts DEF FlagsOf, JobFlags, Callers
<1>5. /\ j \in Jobs /\ j.page = f /\ j.frame = f /\ "present" \in j.flags
      /\ j.table = p4_table /\ j.level = 4 /\ ~j.unmap /\ j.then = "pages"
  <2> HIDE DEF f
  <2> QED
    BY <1>3, <1>4, MapJobFields
<1> HIDE DEF j, f
<1>6. addr' \in Nat /\ addr' >= addr
  BY <1>1, <1>2, PagingAssumption
<1>7. Loops'
  <2>1. Section' = Section /\ pc' = "job" /\ At' = "pages"
    BY <1>1, <1>5 DEF Section, StartJob, At, AtOf
  <2>2. Section.sh_addr \in Nat
    BY <1>2, SectionType
  <2> QED
    BY <1>1, <1>2, <1>6, <2>1, <2>2 DEF Loops
<1> QED
  BY <1>1, <1>2, <1>3, <1>5, <1>6, <1>7, StartKeeps DEF Calls

(* remap_kernel maps the screen.                                            *)
LEMMA MapVgaKeeps ==
  ASSUME NEW place, Inv(place), MapVga
  PROVE  Inv(place)'
<1> DEFINE j == MapJob(VgaFrame, VgaFrame, {"writeable", "no_exec"}, "multiboot")
<1>1. /\ pc = "sections" /\ StartJob(j) /\ addr' = d.start
      /\ UNCHANGED <<d, mem, cr3, tlb, pool, exhausted, new_p4, section>>
  BY DEF MapVga, IdentityJob
<1>2. /\ {"writeable", "no_exec"} \in SUBSET JobFlags /\ "multiboot" \in Callers
      /\ VgaFrame \in Frames /\ VgaFrame \in Pages
  BY ConstantFacts DEF JobFlags, Callers
<1>3. /\ j \in Jobs /\ j.page = VgaFrame /\ j.frame = VgaFrame /\ "present" \in j.flags
      /\ j.table = p4_table /\ j.level = 4 /\ ~j.unmap /\ j.then = "multiboot"
  BY <1>2, MapJobFields
<1> HIDE DEF j
<1>4. addr' \in Nat
  BY <1>1 DEF Inv, Shape, LayoutOK
<1>5. Loops'
  BY <1>1, <1>3, <1>4 DEF Loops, StartJob, At, AtOf
<1>6. exhausted \in BOOLEAN /\ (exhausted => pool = {})
  BY DEF Inv, Types, Roots
<1> QED
  BY <1>1, <1>2, <1>3, <1>4, <1>5, <1>6, StartKeeps DEF Calls

(* remap_kernel maps a page from the multiboot structure on.                *)
LEMMA MapMultibootPageKeeps ==
  ASSUME NEW place, Inv(place), MapMultibootPage
  PROVE  Inv(place)'
<1> DEFINE f == FrameOf(addr)
           j == MapJob(f, f, {"no_exec"}, "multiboot")
<1>1. /\ pc = "multiboot" /\ addr <= MultibootBound /\ StartJob(j) /\ addr' = addr + PAGE_SIZE
      /\ UNCHANGED <<d, mem, cr3, tlb, pool, exhausted, new_p4, section>>
  BY DEF MapMultibootPage, IdentityJob
<1>2. /\ LayoutOK(d) /\ addr >= d.start /\ addr \in Nat
      /\ exhausted \in BOOLEAN /\ (exhausted => pool = {})
  BY <1>1 DEF Inv, Shape, Types, Loops, Roots, At, AtOf
<1>3. f \in Frames
  <2>1. d.start \in Nat /\ d.total_size \in Nat
        /\ FrameOf(d.start) .. FrameOf(MultibootBound) \subseteq Frames
    BY <1>2 DEF LayoutOK, MultibootBound
  <2>2. MultibootBound \in Nat
    BY <2>1 DEF MultibootBound, SizeOfMultibootStart
  <2> QED
    BY <1>1, <1>2, <2>1, <2>2, FrameOfMonotonic
<1>4. {"no_exec"} \in SUBSET JobFlags /\ "multiboot" \in Callers /\ f \in Pages
  BY <1>3, ConstantFacts DEF JobFlags, Callers
<1>5. /\ j \in Jobs /\ j.page = f /\ j.frame = f /\ "present" \in j.flags
      /\ j.table = p4_table /\ j.level = 4 /\ ~j.unmap /\ j.then = "multiboot"
  <2> HIDE DEF f
  <2> QED
    BY <1>3, <1>4, MapJobFields
<1> HIDE DEF j, f
<1>6. addr' \in Nat /\ addr' >= addr /\ d.start \in Nat
  BY <1>1, <1>2, PagingAssumption DEF LayoutOK
<1>7. Loops'
  BY <1>1, <1>2, <1>5, <1>6 DEF Loops, StartJob, At, AtOf
<1> QED
  BY <1>1, <1>2, <1>3, <1>5, <1>6, <1>7, StartKeeps DEF Calls

(* remap_kernel unmaps the old root.                                        *)
LEMMA UnmapOldRootKeeps ==
  ASSUME NEW place, Inv(place), UnmapOldRoot
  PROVE  Inv(place)'
<1> DEFINE j == UnmapJob(OldP4Page, "switch")
<1>1. /\ pc = "unmap_old" /\ StartJob(j)
      /\ UNCHANGED <<d, mem, cr3, tlb, pool, exhausted, new_p4, section, addr>>
  BY DEF UnmapOldRoot
<1>2. "switch" \in Callers
  BY DEF Callers
<1>3. /\ j \in Jobs /\ j.page = OldP4Page
      /\ j.table = p4_table /\ j.level = 4 /\ j.unmap /\ j.then = "switch"
  BY <1>2, ConstantFacts, UnmapJobFields
<1> HIDE DEF j
<1>4. Loops'
  BY <1>1, <1>3 DEF Loops, StartJob, At, AtOf
<1>5. exhausted \in BOOLEAN /\ addr \in Nat /\ (exhausted => pool = {})
  BY DEF Inv, Types, Roots
<1> QED
  BY <1>1, <1>3, <1>4, <1>5, StartKeeps DEF Calls

(* remap_kernel makes the guard page.                                       *)
LEMMA UnmapGuardPageKeeps ==
  ASSUME NEW place, Inv(place), UnmapGuardPage
  PROVE  Inv(place)'
<1> DEFINE j == UnmapJob(d.p4, "heap")
<1>1. /\ pc = "guard" /\ StartJob(j) /\ addr' = HeapStart
      /\ UNCHANGED <<d, mem, cr3, tlb, pool, exhausted, new_p4, section>>
  BY DEF UnmapGuardPage
<1>2. "heap" \in Callers /\ d.p4 \in Frames /\ d.p4 \in Pages
  BY Places4, ConstantFacts DEF Callers
<1>3. /\ j \in Jobs /\ j.page = d.p4
      /\ j.table = p4_table /\ j.level = 4 /\ j.unmap /\ j.then = "heap"
  BY <1>2, UnmapJobFields
<1> HIDE DEF j
<1>4. addr' \in HeapStart .. HeapStart + HeapPages /\ addr' \in Nat
  BY <1>1, PagingAssumption, FirstDigit
<1>5. Loops'
  BY <1>1, <1>3, <1>4 DEF Loops, StartJob, At, AtOf
<1>6. exhausted \in BOOLEAN /\ (exhausted => pool = {})
  BY DEF Inv, Types, Roots
<1> QED
  BY <1>1, <1>2, <1>3, <1>4, <1>5, <1>6, StartKeeps DEF Calls

(* allocate_frame hands out a free frame or fails for good.                 *)
LEMMA AllocateEffect ==
  ASSUME NEW f, allocate_frame(f), exhausted \in BOOLEAN, exhausted => pool = {}
  PROVE  /\ pool' \subseteq pool /\ exhausted' \in BOOLEAN /\ (exhausted' => pool' = {})
         /\ \/ f \in pool /\ pool' = pool \ {f} /\ exhausted' = FALSE
            \/ pool = {} /\ f = 0 /\ exhausted' = TRUE
<1>1. CASE pool # {} /\ f \in pool /\ pool' = pool \ {f} /\ UNCHANGED exhausted
  BY <1>1
<1>2. CASE pool = {} /\ f = 0 /\ exhausted' = TRUE /\ UNCHANGED pool
  BY <1>2
<1> QED
  BY <1>1, <1>2 DEF allocate_frame

(* init_heap maps a page, be there a frame for it or not.                   *)
LEMMA MapHeapPageKeeps ==
  ASSUME NEW place, Inv(place), MapHeapPage
  PROVE  Inv(place)'
<1>1. /\ pc = "heap" /\ addr < HeapStart + HeapPages /\ addr' = addr + 1
      /\ UNCHANGED <<d, mem, cr3, tlb, new_p4, section>>
  BY DEF MapHeapPage
<1>2. PICK f \in pool \cup {0} :
        /\ allocate_frame(f)
        /\ StartJob(MapJob(addr, f, {"writeable"}, "heap"))
  BY DEF MapHeapPage
<1> DEFINE j == MapJob(addr, f, {"writeable"}, "heap")
<1>3. /\ f \in Frames /\ exhausted \in BOOLEAN /\ (exhausted => pool = {})
      /\ addr \in HeapStart .. HeapStart + HeapPages /\ addr \in Nat
  <2>1. pool \subseteq Frames
    BY LayoutFacts DEF Inv, Shape
  <2>2. f \in Frames
    BY <2>1, ConstantFacts
  <2>3. At = "heap"
    BY <1>1 DEF At, AtOf
  <2> QED
    BY <2>2, <2>3 DEF Inv, Types, Roots, Loops
<1>4. pool' \subseteq pool /\ exhausted' \in BOOLEAN /\ (exhausted' => pool' = {})
  BY <1>2, <1>3, AllocateEffect
<1>5. HeapStart \in Nat /\ HeapPages \in Nat
  BY PagingAssumption, FirstDigit
<1>6. addr \in HeapRange /\ addr \in Pages
  BY <1>1, <1>3, <1>5, HeapFacts DEF HeapRange
<1>7. {"writeable"} \in SUBSET JobFlags /\ "heap" \in Callers
  BY DEF JobFlags, Callers
<1>8. /\ j \in Jobs /\ j.page = addr /\ "present" \in j.flags
      /\ j.table = p4_table /\ j.level = 4 /\ ~j.unmap /\ j.then = "heap"
  BY <1>3, <1>6, <1>7, MapJobFields
<1>9. StartJob(j)
  BY <1>2
<1> HIDE DEF j
<1>10. addr' \in HeapStart .. HeapStart + HeapPages /\ addr' \in Nat
  BY <1>1, <1>3, <1>5
<1>11. Loops'
  BY <1>8, <1>9, <1>10 DEF Loops, StartJob, At, AtOf
<1> QED
  BY <1>1, <1>4, <1>6, <1>8, <1>9, <1>10, <1>11, StartKeeps DEF Calls

-----------------------------------------------------------------------------
(* The roots *)

(* A free frame can become a root: it holds nothing.                        *)
LEMMA RootPlaced ==
  ASSUME NEW m, NEW place, NEW l, NEW free, Shape(m, place, l, free),
         NEW f, f \in free,
         NEW rest, rest = free \ {f}
  PROVE  \E place2 :
           /\ Shape(m, place2, l, rest)
           /\ place2[f].level = 4
           /\ \A h \in Frames : h # f => place2[h] = place[h]
<1> DEFINE place2 == [place EXCEPT ![f] = [level |-> 4, up |-> 0, at |-> 0]]
<1>0. /\ m \in Memory /\ place \in [Frames -> Places] /\ LayoutOK(l)
      /\ free \subseteq l.free
      /\ Tree(m, place, l) /\ BootTree(m, place, l) /\ FreeFrames(m, place, free)
  BY DEF Shape
<1>1. f \in Frames /\ place[f].level = 0 /\ m[f] = EmptyTable
  BY <1>0 DEF LayoutOK, FreeFrames
<1>2. /\ place2 \in [Frames -> Places]
      /\ place2[f].level = 4
      /\ \A h \in Frames : h # f => place2[h] = place[h]
  <2>1. [level |-> 4, up |-> 0, at |-> 0] \in Places
    BY ConstantFacts DEF Places
  <2> QED
    BY <1>0, <1>1, <2>1
<1> HIDE DEF place2
<1>3. \A h \in Frames : place[h].level # 0 => place2[h] = place[h]
  BY <1>1, <1>2
<1>4. Tree(m, place2, l)
  <2>1. SUFFICES ASSUME NEW h \in Frames, NEW j \in Indices,
                        PointsToTable(place2, l, h, j), Present(m[h][j])
                 PROVE  /\ m[h][j].flags = Writeable
                        /\ place2[m[h][j].frame] = Child(place2, h, j)
    BY DEF Tree
  <2>2. h # f
    BY <1>1, <2>1, EmptyTableType
  <2>3. place2[h] = place[h] /\ Child(place2, h, j) = Child(place, h, j)
    BY <1>2, <2>2 DEF Child
  <2>4. PointsToTable(place, l, h, j)
    BY <2>1, <2>3 DEF PointsToTable
  <2>5. m[h][j].flags = Writeable /\ place[m[h][j].frame] = Child(place, h, j)
    BY <1>0, <2>1, <2>4 DEF Tree
  <2>6. m[h][j].frame \in Frames
    BY <1>0, EntryType
  <2>7. place[m[h][j].frame].level # 0
    BY <2>4, <2>5, ChildFields DEF PointsToTable
  <2> QED
    BY <1>3, <2>3, <2>5, <2>6, <2>7
<1>5. place[l.p4].level = 4 /\ place[l.p3].level = 3 /\ place[l.p2].level = 2
  BY <1>0, ChildFields DEF BootTree
<1>6. BootTree(m, place2, l)
  <2>1. place2[l.p4] = place[l.p4] /\ place2[l.p3] = place[l.p3] /\ place2[l.p2] = place[l.p2]
    BY <1>0, <1>3, <1>5, LayoutFacts
  <2>2. /\ Child(place2, l.p4, 0) = Child(place, l.p4, 0)
       /\ Child(place2, l.p3, 0) = Child(place, l.p3, 0)
    BY <2>1 DEF Child
  <2> QED
    BY <1>0, <2>1, <2>2 DEF BootTree
<1>7. FreeFrames(m, place2, free \ {f})
  <2>1. SUFFICES ASSUME NEW h \in free \ {f}
                 PROVE  place2[h].level = 0 /\ m[h] = EmptyTable
    BY DEF FreeFrames
  <2> QED
    BY <1>0, <1>2, <2>1 DEF LayoutOK, FreeFrames
<1>8. Shape(m, place2, l, free \ {f})
  BY <1>0, <1>2, <1>4, <1>6, <1>7 DEF Shape
<1> QED
  BY <1>1, <1>2, <1>8

(* A root that is not the one of boot.s can be cleared.                     *)
LEMMA RootCleared ==
  ASSUME NEW m, NEW place, NEW l, NEW free, Shape(m, place, l, free),
         NEW g \in Frames, place[g].level = 4, g # l.p4
  PROVE  LET m2 == [m EXCEPT ![g] = EmptyTable]
         IN  /\ Shape(m2, place, l, free)
             /\ \A f \in Frames : f # g => m2[f] = m[f]
<1> DEFINE m2 == [m EXCEPT ![g] = EmptyTable]
<1>0. /\ m \in Memory /\ place \in [Frames -> Places] /\ LayoutOK(l)
      /\ free \subseteq l.free
      /\ Tree(m, place, l) /\ BootTree(m, place, l) /\ FreeFrames(m, place, free)
  BY DEF Shape
<1>1. /\ m2 \in Memory /\ m2[g] = EmptyTable
      /\ \A f \in Frames : f # g => m2[f] = m[f]
  BY <1>0, EmptyTableType DEF Memory
<1> HIDE DEF m2
<1>2. Tree(m2, place, l)
  <2>1. SUFFICES ASSUME NEW h \in Frames, NEW j \in Indices,
                        PointsToTable(place, l, h, j), Present(m2[h][j])
                 PROVE  /\ m2[h][j].flags = Writeable
                        /\ place[m2[h][j].frame] = Child(place, h, j)
    BY DEF Tree
  <2>2. h # g
    BY <1>1, <2>1, EmptyTableType
  <2>3. m2[h] = m[h]
    BY <1>1, <2>2
  <2> QED
    BY <1>0, <2>1, <2>3 DEF Tree
<1>3. BootTree(m2, place, l)
  <2>1. place[l.p3].level = 3 /\ place[l.p2].level = 2
    BY <1>0, ChildFields DEF BootTree
  <2>2. m2[l.p4] = m[l.p4] /\ m2[l.p3] = m[l.p3] /\ m2[l.p2] = m[l.p2]
    BY <1>0, <1>1, <2>1, LayoutFacts
  <2> QED
    BY <1>0, <2>2 DEF BootTree
<1>4. FreeFrames(m2, place, free)
  BY <1>0, <1>1 DEF FreeFrames, LayoutOK
<1> QED
  BY <1>0, <1>1, <1>2, <1>3, <1>4 DEF Shape, m2

(* What is mapped below a root does not depend on the other root.           *)
LEMMA OtherRoot ==
  ASSUME NEW m, NEW place, NEW l, NEW free, Shape(m, place, l, free),
         NEW root, NEW page, Editable(place, l, root, page),
         NEW f, MapsTo(m, root, page, f),
         NEW g, place[g].level = 4, g # root,
         NEW m2, \A h \in Frames : h # g => m2[h] = m[h]
  PROVE  MapsTo(m2, root, page, f)
<1> DEFINE e4 == E4(m, root, page)
           e3 == E3(m, root, page)
           e2 == E2(m, root, page)
<1>1. /\ Present(e4) /\ Present(e3) /\ Reached(m, root, 1, page)
      /\ root \in Frames /\ place[root].level = 4
  BY DEF MapsTo, Reached, Editable
<1>2. /\ e4.frame \in Frames /\ e3.frame \in Frames /\ e2.frame \in Frames
      /\ place[e4.frame].level = 3 /\ place[e3.frame].level = 2 /\ place[e2.frame].level = 1
  BY <1>1, WayPlaces, ChildFields
<1>3. E4(m2, root, page) = e4
  BY <1>1 DEF E4
<1>4. E3(m2, root, page) = e3
  BY <1>2, <1>3 DEF E3
<1>5. E2(m2, root, page) = e2
  BY <1>2, <1>4 DEF E2
<1>6. E1(m2, root, page) = E1(m, root, page)
  BY <1>2, <1>5 DEF E1
<1> QED
  BY <1>3, <1>4, <1>5, <1>6 DEF MapsTo, Reached

(* A free frame has become the new root, or there was none.                 *)
NewRoot(place, place2) ==
  \/ exhausted' /\ pool' = pool /\ place2 = place
  \/ \E f \in pool :
       /\ pool' = pool \ {f}
       /\ new_p4' = f
       /\ place2[f].level = 4
       /\ \A h \in Frames : h # f => place2[h] = place[h]

(* remap_kernel takes a frame for the new root.                             *)
LEMMA AllocateNewRootKeeps ==
  ASSUME NEW place, Inv(place), AllocateNewRoot
  PROVE  \E place2 : Inv(place2)' /\ NewRoot(place, place2)
<1>1. /\ pc = "start"
      /\ UNCHANGED <<d, mem, cr3, tlb, section, addr>>
  BY DEF AllocateNewRoot
<1>2. PICK f \in pool \cup {0} :
        /\ allocate_frame(f)
        /\ new_p4' = f
        /\ StartJob(MapJob(NewP4Page, f, {"writeable"}, "map_old"))
  BY DEF AllocateNewRoot
<1> DEFINE j == MapJob(NewP4Page, f, {"writeable"}, "map_old")
<1>3. /\ LayoutOK(d) /\ Shape(mem, place, d, pool) /\ pool \subseteq Frames
      /\ exhausted \in BOOLEAN /\ (exhausted => pool = {})
      /\ cr3 = d.p4 /\ Recursive(mem, d.p4, d.p4) /\ BootPagesOnly
      /\ \A pair \in tlb : /\ IndexAt(4, pair[1]) = RecursiveIndex
                           /\ pair[2] = Translation(pair[1]).frame
  BY <1>1, LayoutFacts DEF Inv, Shape, Types, Roots, At, AtOf, Settled, Target, TargetOf,
                           FillingNew, Buffer, AfterFlush
<1>4. f \in Frames
  BY <1>3, ConstantFacts
<1>5. {"writeable"} \in SUBSET JobFlags /\ "map_old" \in Callers
  BY DEF JobFlags, Callers
<1>6. /\ j \in Jobs /\ j.page = NewP4Page /\ j.frame = f /\ "present" \in j.flags
      /\ j.table = p4_table /\ j.level = 4 /\ ~j.unmap /\ j.then = "map_old"
  BY <1>4, <1>5, ConstantFacts, MapJobFields
<1>7. job' = j /\ pc' = "job" /\ new_p4' = f
  BY <1>2 DEF StartJob
<1> HIDE DEF j
<1>8. /\ pool' \subseteq pool /\ exhausted' \in BOOLEAN /\ (exhausted' => pool' = {})
      /\ \/ f \in pool /\ pool' = pool \ {f} /\ exhausted' = FALSE
         \/ pool = {} /\ f = 0 /\ exhausted' = TRUE
  BY <1>2, <1>3, AllocateEffect
<1>9. At' = "map_old" /\ Target' = d.p4
  BY <1>1, <1>3, <1>6, <1>7 DEF At, AtOf, Target, TargetOf, FillingNew
<1>10. PICK place2 :
         /\ Shape(mem, place2, d, pool')
         /\ place2[d.p4].level = 4
         /\ pool # {} => place2[f].level = 4 /\ f # d.p4
         /\ NewRoot(place, place2)
  <2>1. place[d.p4].level = 4 /\ d.p4 \in Frames
    BY Places4
  <2>2. CASE f \in pool /\ pool' = pool \ {f}
    <3>1. Shape(mem, place, d, pool) /\ f \in pool
      BY <1>3, <2>2
    <3>2. place[f].level = 0
      BY <3>1 DEF Shape, FreeFrames
    <3>3. PICK q : /\ Shape(mem, q, d, pool')
                   /\ q[f].level = 4
                   /\ \A h \in Frames : h # f => q[h] = place[h]
      BY <2>2, <3>1, RootPlaced
    <3>4. NewRoot(place, q)
      BY <1>7, <2>2, <3>3 DEF NewRoot
    <3> QED
      BY <2>1, <2>2, <3>2, <3>3, <3>4
  <2>3. CASE pool = {}
    <3>1. Shape(mem, place, d, pool') /\ NewRoot(place, place)
      BY <1>3, <1>8, <2>3, FewerFree DEF NewRoot
    <3> QED
      BY <2>1, <2>3, <3>1
  <2> QED
    BY <1>8, <2>2, <2>3
<1>11. Types'
  BY <1>1, <1>4, <1>6, <1>7, <1>8 DEF Inv, Types
<1>12. Shape(mem, place2, d, pool)'
  BY <1>1, <1>10
<1>13. Roots(place2)'
  <2>1. BootPagesOnly'
    BY <1>1, <1>3 DEF BootPagesOnly
  <2>2. Doomed' \/ (new_p4' # d.p4 /\ place2[new_p4'].level = 4)
    <3>1. CASE pool # {}
      BY <1>7, <1>10, <3>1
    <3>2. CASE pool = {}
      BY <1>6, <1>7, <1>8, <3>2 DEF Doomed
    <3> QED
      BY <3>1, <3>2
  <2>3. /\ At' \in BuildingOld \cup FillingNew \cup Leaving \cup Settled
        /\ At' \notin Settled
        /\ At' \notin {"recurse_old"} \cup FillingNew \cup Leaving
    BY <1>9 DEF BuildingOld, FillingNew, Leaving, Settled
  <2> QED
    BY <1>1, <1>3, <1>7, <1>8, <1>9, <2>1, <2>2, <2>3 DEF Roots
<1>14. TemporaryPages'
  BY <1>7, <1>9 DEF TemporaryPages, NewRootMapped, OldRootMapped, FillingNew
<1>15. JobOK(place2)'
  <2>1. Editable(place2, d, d.p4, NewP4Page)
    BY <1>10, Places4 DEF Editable
  <2>2. TableAt(p4_table, 4, NewP4Page)
    BY RootSeen
  <2>3. Reached(mem, d.p4, 4, NewP4Page)
    BY DEF Reached
  <2>4. 4 \in 1 .. 4 /\ "map_old" \in Callers /\ "map_old" # "flush_old"
    BY DEF Callers
  <2> QED
    BY <1>1, <1>6, <1>7, <1>9, <2>1, <2>2, <2>3, <2>4 DEF JobOK
<1>16. Buffer'
  BY <1>1, <1>3, <1>7 DEF Buffer, Translation
<1>17. Loops'
  BY <1>6, <1>7, <1>9 DEF Loops
<1>18. Inv(place2)'
  BY <1>11, <1>12, <1>13, <1>14, <1>15, <1>16, <1>17 DEF Inv
<1> QED
  BY <1>10, <1>18

(* The steps that edit no table.                                            *)
QuietSteps ==
  {<<"flush_old", "clear">>, <<"flush_recursion", "sections">>,
   <<"flush_restored", "unmap_old">>, <<"sections", "sections">>,
   <<"sections", "assert">>, <<"sections", "pages">>, <<"pages", "sections">>,
   <<"switch", "guard">>, <<"heap", "done">>}

(* Any of them.                                                             *)
LEMMA QuietKeeps ==
  ASSUME NEW place, Inv(place), <<pc, pc'>> \in QuietSteps,
         cr3' = IF pc = "switch" THEN new_p4 ELSE cr3,
         tlb' = {} \/ (tlb' = tlb /\ pc \notin DOMAIN AfterFlush \cup {"switch"}),
         UNCHANGED <<d, mem, pool, exhausted, job, new_p4>>,
         section' \in 0 .. Len(d.sections), addr' \in Nat, Loops'
  PROVE  Inv(place)'
<1>1. /\ pc \notin {"start", "job"} /\ pc' \notin {"start", "job"}
      /\ At = pc /\ At' = pc'
  BY DEF QuietSteps, At, AtOf
<1>2. /\ At' \in FillingNew <=> At \in FillingNew
      /\ At' \in BuildingOld \cup FillingNew \cup Leaving \cup Settled
      /\ pc # "switch" => (At' \in Settled <=> At \in Settled)
      /\ pc = "switch" => /\ At \in Leaving /\ At' \in Settled
                          /\ At \notin Settled /\ At \notin FillingNew
      /\ At' \in {"recurse_old"} \cup FillingNew \cup Leaving
           => At \in {"recurse_old"} \cup FillingNew \cup Leaving
  BY <1>1 DEF QuietSteps, BuildingOld, FillingNew, Leaving, Settled
<1>3. Roots(place) /\ ~Doomed /\ ~Doomed'
  BY <1>1 DEF Inv, Doomed
<1>4. Types'
  BY DEF Inv, Types
<1>5. Shape(mem, place, d, pool)'
  BY DEF Inv
<1>6. Roots(place)'
  <2>1. CASE pc = "switch"
    <3>1. Target' = new_p4
      BY <1>2, <2>1 DEF Target, TargetOf
    <3>2. Recursive(mem, new_p4, new_p4)
      BY <1>2, <1>3, <2>1 DEF Roots, Recursive
    <3> QED
      BY <1>1, <1>2, <1>3, <2>1, <3>1, <3>2 DEF Roots
  <2>2. CASE pc # "switch"
    <3>1. Target' = Target
      BY <1>2, <2>2 DEF Target, TargetOf
    <3> QED
      BY <1>1, <1>2, <1>3, <2>2, <3>1 DEF Roots
  <2> QED
    BY <2>1, <2>2
<1>7. TemporaryPages'
  <2>1. /\ NewRootMapped' => NewRootMapped
        /\ OldRootMapped' => OldRootMapped
    BY <1>1, <1>2 DEF NewRootMapped, OldRootMapped, QuietSteps, FillingNew
  <2> QED
    BY <2>1 DEF Inv, TemporaryPages
<1>8. JobOK(place)'
  BY <1>1 DEF JobOK
<1>9. Buffer'
  <2>1. CASE tlb' = {}
    BY <2>1 DEF Buffer
  <2>2. CASE tlb' = tlb /\ pc \notin DOMAIN AfterFlush \cup {"switch"}
    <3>1. /\ pc \notin DOMAIN AfterFlush \cup {"clear", "recurse_new", "recurse_old"}
          /\ pc' \notin {"clear", "recurse_new", "recurse_old"}
      BY <2>2 DEF QuietSteps, AfterFlush
    <3>2. \A pair \in tlb : /\ IndexAt(4, pair[1]) = RecursiveIndex
                            /\ pair[2] = Translation(pair[1]).frame
      BY <3>1 DEF Inv, Buffer
    <3> QED
      BY <2>2, <3>1, <3>2 DEF Buffer, Translation
  <2> QED
    BY <2>1, <2>2
<1> QED
  BY <1>4, <1>5, <1>6, <1>7, <1>8, <1>9 DEF Inv

(* flush_tlb.                                                               *)
LEMMA FlushKeeps ==
  ASSUME NEW place, Inv(place), flush_tlb
  PROVE  Inv(place)'
<1>1. /\ pc \in DOMAIN AfterFlush /\ tlb' = {} /\ pc' = AfterFlush[pc]
      /\ UNCHANGED <<d, mem, cr3, pool, exhausted, job, new_p4, section, addr>>
  BY DEF flush_tlb
<1>2. <<pc, pc'>> \in QuietSteps /\ pc # "switch" /\ pc' \in {"clear", "sections", "unmap_old"}
  BY <1>1 DEF QuietSteps, AfterFlush
<1>3. Loops'
  BY <1>2 DEF Loops, At, AtOf
<1>4. section \in 0 .. Len(d.sections) /\ addr \in Nat
  BY DEF Inv, Types
<1> QED
  BY <1>1, <1>2, <1>3, <1>4, QuietKeeps

(* The loop over the sections, between two pages.                           *)
LEMMA MapSectionsQuiet ==
  ASSUME NEW place, Inv(place), SkipSection \/ AssertFails \/ BeginSection \/ EndSection
  PROVE  Inv(place)'
<1>1. /\ LayoutOK(d) /\ section \in 0 .. Len(d.sections) /\ addr \in Nat
      /\ Len(d.sections) \in Nat
      /\ pc = "pages" => section < Len(d.sections)
  BY DEF Inv, Types, Shape, Loops, LayoutOK
<1>2. CASE SkipSection
  <2>1. /\ pc = "sections" /\ pc' = pc /\ section' = section + 1 /\ section < Len(d.sections)
        /\ UNCHANGED <<d, mem, cr3, tlb, pool, exhausted, pc, job, new_p4, addr>>
    BY <1>2 DEF SkipSection, AtSection
  <2>2. section' \in 0 .. Len(d.sections) /\ addr' \in Nat
    BY <1>1, <2>1
  <2>3. Loops' /\ <<pc, pc'>> \in QuietSteps /\ pc \notin DOMAIN AfterFlush \cup {"switch"}
    BY <2>1 DEF Loops, At, AtOf, QuietSteps, AfterFlush
  <2> QED
    BY <2>1, <2>2, <2>3, QuietKeeps
<1>3. CASE AssertFails
  <2>1. /\ pc = "sections" /\ pc' = "assert"
        /\ UNCHANGED <<d, mem, cr3, tlb, pool, exhausted, job, new_p4, section, addr>>
    BY <1>3 DEF AssertFails, AtSection
  <2>2. Loops' /\ <<pc, pc'>> \in QuietSteps /\ pc \notin DOMAIN AfterFlush \cup {"switch"}
    BY <2>1 DEF Loops, At, AtOf, QuietSteps, AfterFlush
  <2> QED
    BY <1>1, <2>1, <2>2, QuietKeeps
<1>4. CASE BeginSection
  <2>1. /\ pc = "sections" /\ pc' = "pages" /\ section < Len(d.sections)
        /\ IsAllocated(Section) /\ addr' = Section.sh_addr
        /\ UNCHANGED <<d, mem, cr3, tlb, pool, exhausted, job, new_p4, section>>
    BY <1>4 DEF BeginSection, AtSection
  <2>2. Section.sh_addr \in Nat /\ Section' = Section
    BY <1>1, <2>1, SectionType DEF Section
  <2>3. Loops' /\ <<pc, pc'>> \in QuietSteps /\ pc \notin DOMAIN AfterFlush \cup {"switch"}
    BY <2>1, <2>2 DEF Loops, At, AtOf, QuietSteps, AfterFlush
  <2> QED
    BY <1>1, <2>1, <2>2, <2>3, QuietKeeps
<1>5. CASE EndSection
  <2>1. /\ pc = "pages" /\ pc' = "sections" /\ section' = section + 1
        /\ UNCHANGED <<d, mem, cr3, tlb, pool, exhausted, job, new_p4, addr>>
    BY <1>5 DEF EndSection
  <2>2. section' \in 0 .. Len(d.sections) /\ addr' \in Nat
    BY <1>1, <2>1
  <2>3. Loops' /\ <<pc, pc'>> \in QuietSteps /\ pc \notin DOMAIN AfterFlush \cup {"switch"}
    BY <2>1 DEF Loops, At, AtOf, QuietSteps, AfterFlush
  <2> QED
    BY <2>1, <2>2, <2>3, QuietKeeps
<1> QED
  BY <1>2, <1>3, <1>4, <1>5

(* The new root is loaded.                                                  *)
LEMMA SwitchRootKeeps ==
  ASSUME NEW place, Inv(place), SwitchRoot
  PROVE  Inv(place)'
<1>1. /\ pc = "switch" /\ pc' = "guard" /\ cr3' = new_p4 /\ tlb' = {}
      /\ UNCHANGED <<d, mem, pool, exhausted, job, new_p4, section, addr>>
  BY DEF SwitchRoot
<1>2. Loops' /\ <<pc, pc'>> \in QuietSteps
  BY <1>1 DEF Loops, At, AtOf, QuietSteps
<1>3. section \in 0 .. Len(d.sections) /\ addr \in Nat
  BY DEF Inv, Types
<1> QED
  BY <1>1, <1>2, <1>3, QuietKeeps

(* init_heap ends.                                                          *)
LEMMA HeapMappedKeeps ==
  ASSUME NEW place, Inv(place), HeapMapped
  PROVE  Inv(place)'
<1>1. /\ pc = "heap" /\ pc' = "done"
      /\ UNCHANGED <<d, mem, cr3, tlb, pool, exhausted, job, new_p4, section, addr>>
  BY DEF HeapMapped
<1>2. Loops' /\ <<pc, pc'>> \in QuietSteps /\ pc \notin DOMAIN AfterFlush \cup {"switch"}
  BY <1>1 DEF Loops, At, AtOf, QuietSteps, AfterFlush
<1>3. section \in 0 .. Len(d.sections) /\ addr \in Nat
  BY DEF Inv, Types
<1> QED
  BY <1>1, <1>2, <1>3, QuietKeeps

(* Where the two temporary pages lead.                                      *)
LEMMA TemporaryFrames ==
  ASSUME NEW place, Inv(place)
  PROVE  /\ NewRootMapped => Translation(NewP4Page).frame = new_p4
         /\ OldRootMapped => Translation(OldP4Page).frame = d.p4
         /\ NewRootMapped \/ OldRootMapped => cr3 = d.p4
<1>1. Shape(mem, place, d, pool) /\ TemporaryPages
  BY DEF Inv
<1>2. Editable(place, d, d.p4, NewP4Page) /\ Editable(place, d, d.p4, OldP4Page)
  BY Places4
<1>3. NewRootMapped \/ OldRootMapped => cr3 = d.p4
  BY DEF Inv, Roots, NewRootMapped, OldRootMapped, FillingNew, Settled, At, AtOf
<1>4. NewRootMapped => Walk(mem, d.p4, NewP4Page).frame = new_p4
  BY <1>1, <1>2, MappedTranslates DEF TemporaryPages
<1>5. OldRootMapped => Walk(mem, d.p4, OldP4Page).frame = d.p4
  BY <1>1, <1>2, MappedTranslates DEF TemporaryPages
<1> QED
  BY <1>3, <1>4, <1>5 DEF Translation

(* init_page_table on the new root.                                         *)
LEMMA ClearNewRootKeeps ==
  ASSUME NEW place, Inv(place), ClearNewRoot
  PROVE  Inv(place)'
<1>1. /\ pc = "clear" /\ pc' = "recurse_new"
      /\ mem' = [mem EXCEPT ![Translation(NewP4Page).frame] = EmptyTable]
      /\ tlb' = tlb \cup {<<NewP4Page, Translation(NewP4Page).frame>>}
      /\ UNCHANGED <<d, cr3, pool, exhausted, job, new_p4, section, addr>>
  BY CachedHere DEF ClearNewRoot
<1>2. At = "clear" /\ At' = "recurse_new" /\ Target = cr3 /\ Target' = cr3
  BY <1>1 DEF At, AtOf, Target, TargetOf, FillingNew
<1>3. NewRootMapped /\ OldRootMapped
  BY <1>2 DEF NewRootMapped, OldRootMapped
<1>4. Translation(NewP4Page).frame = new_p4 /\ cr3 = d.p4
  BY <1>3, TemporaryFrames
<1>5. /\ Shape(mem, place, d, pool) /\ Roots(place) /\ TemporaryPages /\ Types
      /\ new_p4 \in Frames /\ place[new_p4].level = 4 /\ new_p4 # d.p4
  BY <1>1, Places4 DEF Inv, Roots, Doomed
<1>6. /\ Shape(mem', place, d, pool)
      /\ \A f \in Frames : f # new_p4 => mem'[f] = mem[f]
  <2> DEFINE m2 == [mem EXCEPT ![new_p4] = EmptyTable]
  <2>1. Shape(m2, place, d, pool) /\ \A f \in Frames : f # new_p4 => m2[f] = mem[f]
    BY <1>5, RootCleared
  <2>2. mem' = m2
    BY <1>1, <1>4
  <2> QED
    BY <2>1, <2>2
<1>7. Types'
  BY <1>1, <1>4, <1>5, ConstantFacts DEF Types
<1>8. Shape(mem, place, d, pool)'
  BY <1>1, <1>6
<1>9. Roots(place)'
  <2>1. Recursive(mem, d.p4, d.p4) /\ d.p4 \in Frames
    BY <1>2, <1>4, <1>5, Places4 DEF Roots
  <2>2. Recursive(mem', d.p4, d.p4)
    BY <1>5, <1>6, <2>1 DEF Recursive
  <2>3. ~Doomed /\ ~Doomed'
    BY <1>1 DEF Doomed
  <2> QED
    BY <1>1, <1>2, <1>4, <1>5, <2>2, <2>3
       DEF Roots, BuildingOld, FillingNew, Leaving, Settled
<1>10. TemporaryPages'
  <2>1. Editable(place, d, d.p4, NewP4Page) /\ Editable(place, d, d.p4, OldP4Page)
    BY Places4
  <2>2. MapsTo(mem, d.p4, NewP4Page, new_p4) /\ MapsTo(mem, d.p4, OldP4Page, d.p4)
    BY <1>3, <1>5 DEF TemporaryPages
  <2>3. MapsTo(mem', d.p4, NewP4Page, new_p4) /\ MapsTo(mem', d.p4, OldP4Page, d.p4)
    BY <1>5, <1>6, <2>1, <2>2, OtherRoot
  <2> QED
    BY <1>1, <2>3 DEF TemporaryPages
<1>11. JobOK(place)'
  BY <1>1 DEF JobOK
<1>12. Buffer'
  <2>1. tlb \subseteq {<<NewP4Page, new_p4>>}
    BY <1>1 DEF Inv, Buffer
  <2>2. tlb' \subseteq {<<NewP4Page, new_p4>>}
    BY <1>1, <1>4, <2>1
  <2> QED
    BY <1>1, <2>2 DEF Buffer
<1>13. Loops'
  BY <1>1, <1>2 DEF Loops
<1> QED
  BY <1>7, <1>8, <1>9, <1>10, <1>11, <1>12, <1>13 DEF Inv

(* The stores that redirect the recursive entry of a root.                  *)
RecursionStores ==
  {<<"recurse_new", "recurse_old">>, <<"recurse_old", "flush_recursion">>,
   <<"multiboot", "flush_restored">>}

(* Any of them.                                                             *)
LEMMA RecursionKeeps ==
  ASSUME NEW place, Inv(place), <<pc, pc'>> \in RecursionStores,
         NEW g, g = (IF pc = "recurse_new" THEN new_p4 ELSE d.p4),
         NEW f, f = (IF pc = "multiboot" THEN d.p4 ELSE new_p4),
         mem' = Put(mem, g, RecursiveIndex, EntryFor(f, Writeable)),
         tlb' \subseteq Pages \X Frames,
         pc = "recurse_new" => tlb' \subseteq RootTranslations,
         UNCHANGED <<d, cr3, pool, exhausted, job, new_p4, section, addr>>
  PROVE  Inv(place)'
<1> DEFINE e == EntryFor(f, Writeable)
<1>1. /\ At = pc /\ At' = pc'
      /\ pc \notin {"start", "job"} /\ pc' \notin {"start", "job"}
  BY DEF RecursionStores, At, AtOf
<1>2. /\ pc # "recurse_new" => At' \in {"recurse_old"} \cup FillingNew \cup Leaving
      /\ At \in {"recurse_old"} \cup FillingNew \cup Leaving <=> pc # "recurse_new"
      /\ At' \in {"recurse_old"} \cup FillingNew \cup Leaving
      /\ At' \in BuildingOld \cup FillingNew \cup Leaving \cup Settled
      /\ At \notin Settled /\ At' \notin Settled
      /\ At' \in FillingNew <=> pc = "recurse_old"
      /\ At \in FillingNew <=> pc = "multiboot"
  BY <1>1 DEF RecursionStores, BuildingOld, FillingNew, Leaving, Settled
<1>3. /\ Shape(mem, place, d, pool) /\ Roots(place) /\ TemporaryPages /\ Types
      /\ mem \in Memory
      /\ new_p4 \in Frames /\ place[new_p4].level = 4 /\ new_p4 # d.p4
      /\ d.p4 \in Frames /\ place[d.p4].level = 4 /\ cr3 = d.p4
      /\ ~Doomed /\ ~Doomed'
  BY <1>1, <1>2, Places4 DEF Inv, Shape, Roots, Doomed
<1>4. g \in Frames /\ place[g].level = 4 /\ e \in Entries
  BY <1>3, FlagsOfTables DEF EntryFor, Entries
<1>5. /\ Shape(mem', place, d, pool)
      /\ Kept(mem, mem', place, d)
      /\ mem'[g][RecursiveIndex] = EntryFor(f, Writeable)
      /\ \A h \in Frames : h # g => mem'[h] = mem[h]
  <2> DEFINE m2 == Put(mem, g, RecursiveIndex, e)
  <2>1. /\ Shape(m2, place, d, pool)
        /\ Kept(mem, m2, place, d)
        /\ m2[g][RecursiveIndex] = e
        /\ \A h \in Frames : h # g => m2[h] = mem[h]
    <3> HIDE DEF e
    <3> QED
      BY <1>3, <1>4, RecursionStore
  <2> QED
    BY <2>1
<1> HIDE DEF e
<1>6. Types'
  BY <1>3 DEF Types
<1>7. Shape(mem, place, d, pool)'
  BY <1>5
<1>8. Roots(place)'
  <2>1. Recursive(mem, d.p4, Target) /\ Target = (IF pc = "multiboot" THEN new_p4 ELSE d.p4)
    BY <1>2, <1>3 DEF Roots, Target, TargetOf
  <2>2. Target' = (IF pc = "recurse_old" THEN new_p4 ELSE d.p4)
    BY <1>2, <1>3 DEF Target, TargetOf
  <2>3. pc # "recurse_new" => mem[new_p4][RecursiveIndex] = EntryFor(new_p4, Writeable)
    BY <1>2, <1>3 DEF Roots
  <2>4. mem'[new_p4][RecursiveIndex] = EntryFor(new_p4, Writeable)
    <3>1. CASE pc = "recurse_new"
      BY <1>5, <3>1
    <3>2. CASE pc # "recurse_new"
      BY <1>3, <1>5, <2>3, <3>2
    <3> QED
      BY <3>1, <3>2
  <2>5. Recursive(mem', d.p4, Target')
    <3>1. CASE pc = "recurse_new"
      BY <1>3, <1>5, <2>1, <2>2, <3>1 DEF Recursive
    <3>2. CASE pc = "recurse_old"
      BY <1>5, <2>2, <2>4, <3>2 DEF Recursive
    <3>3. CASE pc = "multiboot"
      BY <1>5, <2>2, <3>3 DEF Recursive
    <3> QED
      BY <3>1, <3>2, <3>3 DEF RecursionStores
  <2> QED
    BY <1>1, <1>2, <1>3, <2>4, <2>5 DEF Roots
<1>9. TemporaryPages'
  <2>1. ASSUME NEW page, Editable(place, d, d.p4, page), NEW h, MapsTo(mem, d.p4, page, h)
        PROVE  MapsTo(mem', d.p4, page, h)
    <3> DEFINE t == E2(mem, d.p4, page).frame
               i == IndexAt(1, page)
    <3>1. t \in Frames /\ place[t].level = 1
      <4>1. Reached(mem, d.p4, 1, page)
        BY <2>1 DEF MapsTo
      <4> DEFINE k == 1
      <4>2. k \in 1 .. 4 /\ Reached(mem, d.p4, k, page)
        BY <4>1
      <4> HIDE DEF k
      <4>3. FrameAt(mem, d.p4, k, page) \in Frames /\ place[FrameAt(mem, d.p4, k, page)].level = k
        BY <1>3, <2>1, <4>2, WayLevels
      <4> QED
        BY <4>3 DEF k, FrameAt
    <3>2. mem'[t][i] = mem[t][i]
      BY <1>4, <1>5, <3>1
    <3> QED
      BY <1>3, <1>5, <2>1, <3>2, MappingKept
  <2>2. Editable(place, d, d.p4, NewP4Page) /\ Editable(place, d, d.p4, OldP4Page)
    BY Places4
  <2>3. (NewRootMapped' => NewRootMapped) /\ (OldRootMapped' => OldRootMapped)
    BY <1>1 DEF NewRootMapped, OldRootMapped, RecursionStores, FillingNew
  <2> QED
    BY <1>3, <2>1, <2>2, <2>3 DEF TemporaryPages
<1>10. JobOK(place)'
  BY <1>1 DEF JobOK
<1>11. Buffer'
  BY DEF Buffer, RootTranslations, RecursionStores, AfterFlush
<1>12. Loops'
  BY <1>1 DEF RecursionStores, Loops
<1> QED
  BY <1>6, <1>7, <1>8, <1>9, <1>10, <1>11, <1>12 DEF Inv

(* The root of the edited tree is seen at p4_table.                         *)
LEMMA RootTranslates ==
  ASSUME NEW place, Inv(place)
  PROVE  Translation(p4_table).frame = Target
<1>1. /\ Shape(mem, place, d, pool) /\ Recursive(mem, cr3, Target)
      /\ Target \in Frames /\ place[Target].level = 4
  BY Places4 DEF Inv, Roots
<1>2. Editable(place, d, Target, NewP4Page)
  BY <1>1, Places4 DEF Editable
<1> DEFINE k == 4
<1>3. k \in 1 .. 4 /\ Reached(mem, Target, k, NewP4Page) /\ TableAt(p4_table, k, NewP4Page)
  BY RootSeen DEF Reached
<1> HIDE DEF k
<1>4. Walk(mem, cr3, p4_table).frame = FrameAt(mem, Target, k, NewP4Page)
  BY <1>1, <1>2, <1>3, WindowShows
<1> QED
  BY <1>4 DEF Translation, FrameAt, k

(* The new root leads to itself, ...                                        *)
LEMMA MakeNewRecursiveKeeps ==
  ASSUME NEW place, Inv(place), MakeNewRecursive
  PROVE  Inv(place)'
<1>1. /\ pc = "recurse_new" /\ pc' = "recurse_old"
      /\ mem' = Stored(NewP4Page, RecursiveIndex, EntryFor(new_p4, Writeable))
      /\ tlb' = Cached
      /\ UNCHANGED <<d, cr3, pool, exhausted, job, new_p4, section, addr>>
  BY DEF MakeNewRecursive, StoreRecursion
<1>2. /\ Translation(NewP4Page).frame = new_p4 /\ Translation(OldP4Page).frame = d.p4
      /\ Translation(p4_table).frame = d.p4
  <2>1. NewRootMapped /\ OldRootMapped /\ Target = cr3
    BY <1>1 DEF NewRootMapped, OldRootMapped, At, AtOf, Target, TargetOf, FillingNew
  <2> QED
    BY <2>1, TemporaryFrames, RootTranslates
<1>3. mem' = Put(mem, new_p4, RecursiveIndex, EntryFor(new_p4, Writeable))
  BY <1>1, <1>2 DEF Stored, Put
<1>4. tlb' \subseteq RootTranslations
  <2>1. tlb \subseteq {<<NewP4Page, new_p4>>}
    BY <1>1 DEF Inv, Buffer
  <2>2. tlb' = tlb \cup {<<p4_table, d.p4>>, <<OldP4Page, d.p4>>, <<NewP4Page, new_p4>>}
    BY <1>1, <1>2, CachedHere
  <2> QED
    BY <2>1, <2>2 DEF RootTranslations
<1>5. tlb' \subseteq Pages \X Frames
  BY <1>4, Places4, ConstantFacts, RootPage DEF RootTranslations
<1>6. <<pc, pc'>> \in RecursionStores
  BY <1>1 DEF RecursionStores
<1> QED
  BY <1>1, <1>3, <1>4, <1>5, <1>6, RecursionKeeps

(* ... the old root to the new one, ...                                     *)
LEMMA PointOldAtNewKeeps ==
  ASSUME NEW place, Inv(place), PointOldAtNew
  PROVE  Inv(place)'
<1>1. /\ pc = "recurse_old" /\ pc' = "flush_recursion"
      /\ mem' = Stored(p4_table, RecursiveIndex, EntryFor(new_p4, Writeable))
      /\ tlb' = tlb \cup {<<p4_table, Translation(p4_table).frame>>}
      /\ UNCHANGED <<d, cr3, pool, exhausted, job, new_p4, section, addr>>
  BY CachedHere DEF PointOldAtNew, StoreRecursion
<1>2. Translation(p4_table).frame = d.p4
  BY <1>1, RootTranslates DEF Inv, Roots, Target, TargetOf, At, AtOf, FillingNew, Settled
<1>3. mem' = Put(mem, d.p4, RecursiveIndex, EntryFor(new_p4, Writeable))
  BY <1>1, <1>2 DEF Stored, Put
<1>4. tlb' \subseteq Pages \X Frames
  BY <1>1, <1>2, Places4, RootPage DEF Inv, Types
<1>5. <<pc, pc'>> \in RecursionStores
  BY <1>1 DEF RecursionStores
<1> QED
  BY <1>1, <1>3, <1>4, <1>5, RecursionKeeps

(* ... and in the end the old root to itself.                               *)
LEMMA RestoreOldRootKeeps ==
  ASSUME NEW place, Inv(place), RestoreOldRoot
  PROVE  Inv(place)'
<1>1. /\ pc = "multiboot" /\ pc' = "flush_restored"
      /\ mem' = Stored(OldP4Page, RecursiveIndex, EntryFor(d.p4, Writeable))
      /\ tlb' = tlb \cup {<<OldP4Page, Translation(OldP4Page).frame>>}
      /\ UNCHANGED <<d, cr3, pool, exhausted, job, new_p4, section, addr>>
  BY CachedHere DEF RestoreOldRoot, StoreRecursion
<1>2. Translation(OldP4Page).frame = d.p4
  BY <1>1, TemporaryFrames DEF OldRootMapped, FillingNew, At, AtOf
<1>3. mem' = Put(mem, d.p4, RecursiveIndex, EntryFor(d.p4, Writeable))
  BY <1>1, <1>2 DEF Stored, Put
<1>4. tlb' \subseteq Pages \X Frames
  BY <1>1, <1>2, Places4, ConstantFacts DEF Inv, Types
<1>5. <<pc, pc'>> \in RecursionStores
  BY <1>1 DEF RecursionStores
<1> QED
  BY <1>1, <1>3, <1>4, <1>5, RecursionKeeps

-----------------------------------------------------------------------------
(* Every step *)

(* One level of map_page_to_frame or unmap_page.                            *)
LEMMA MapOrUnmapKeeps ==
  ASSUME NEW place, Inv(place), MapOrUnmap, ~NullTable
  PROVE  IInv'
<1>1. CASE Descend
  BY <1>1, DescendKeeps DEF IInv
<1>2. CASE CreateTable
  BY <1>2, CreateTableKeeps DEF IInv
<1>3. CASE SetLeaf
  BY <1>3, SetLeafKeeps DEF IInv
<1>4. CASE ClearLeaf
  BY <1>4, ClearLeafKeeps DEF IInv
<1> QED
  BY <1>1, <1>2, <1>3, <1>4 DEF MapOrUnmap

(* One step of remap_kernel, but for the first.                             *)
LEMMA RemapKernelKeeps ==
  ASSUME NEW place, Inv(place), remap_kernel, ~AllocateNewRoot
  PROVE  Inv(place)'
<1>1. CASE MapOldRoot
  BY <1>1, MapOldRootKeeps
<1>2. CASE ClearNewRoot
  BY <1>2, ClearNewRootKeeps
<1>3. CASE MakeNewRecursive
  BY <1>3, MakeNewRecursiveKeeps
<1>4. CASE PointOldAtNew
  BY <1>4, PointOldAtNewKeeps
<1>5. CASE MapSections
  BY <1>5, MapSectionsQuiet, MapSectionPageKeeps DEF MapSections
<1>6. CASE MapVga
  BY <1>6, MapVgaKeeps
<1>7. CASE MapMultibootPage
  BY <1>7, MapMultibootPageKeeps
<1>8. CASE RestoreOldRoot
  BY <1>8, RestoreOldRootKeeps
<1>9. CASE UnmapOldRoot
  BY <1>9, UnmapOldRootKeeps
<1>10. CASE SwitchRoot
  BY <1>10, SwitchRootKeeps
<1>11. CASE UnmapGuardPage
  BY <1>11, UnmapGuardPageKeeps
<1> QED
  BY <1>1, <1>2, <1>3, <1>4, <1>5, <1>6, <1>7, <1>8, <1>9, <1>10, <1>11 DEF remap_kernel

(* No step.                                                                 *)
LEMMA StutterKeeps ==
  ASSUME NEW place, Inv(place), UNCHANGED vars
  PROVE  Inv(place)'
<1>1. UNCHANGED <<d, mem, cr3, tlb, pool, exhausted, pc, job, new_p4, section, addr>>
  BY DEF vars
<1>2. Types' /\ Shape(mem, place, d, pool)' /\ TemporaryPages' /\ Loops'
  BY <1>1 DEF Inv, Types, TemporaryPages, NewRootMapped, OldRootMapped, At, Loops, Section
<1>3. Roots(place)'
  BY <1>1 DEF Inv, Roots, At, Target, Doomed, BootPagesOnly
<1>4. JobOK(place)' /\ Buffer'
  BY <1>1 DEF Inv, JobOK, At, Target, Buffer, RootTranslations, Translation
<1> QED
  BY <1>2, <1>3, <1>4 DEF Inv

(* What leads off the course: a null table or a page fault.                 *)
LEMMA OnCourseSteps ==
  ASSUME OnCourse'
  PROVE  ~NullTable /\ ~PageFault
BY DEF OnCourse, NullTable, PageFault

(* There is no way back.                                                    *)
LEMMA NoWayBack ==
  ASSUME [Next]_vars, OnCourse'
  PROVE  OnCourse
<1>1. SUFFICES ASSUME Next PROVE ~astray /\ pc # "lost"
  BY DEF OnCourse, vars
<1>2. pc' # "lost" /\ ~astray'
  BY DEF OnCourse
<1>3. CASE MapOrUnmap
  BY <1>2, <1>3 DEF MapOrUnmap, Descend, CreateTable, NullTable, SetLeaf, ClearLeaf,
                    NeedsTable, OnTheWay
<1>4. CASE flush_tlb
  BY <1>2, <1>4 DEF flush_tlb, AfterFlush
<1>5. CASE MapSections
  BY <1>2, <1>5 DEF MapSections, SkipSection, AssertFails, BeginSection, MapSectionPage,
                    EndSection, AtSection
<1>6. CASE remap_kernel /\ ~MapSections
  BY <1>2, <1>6 DEF remap_kernel, AllocateNewRoot, MapOldRoot, ClearNewRoot, MakeNewRecursive,
                    PointOldAtNew, MapVga, MapMultibootPage, RestoreOldRoot, UnmapOldRoot,
                    SwitchRoot, UnmapGuardPage, StoreRecursion
<1>7. CASE init_heap
  BY <1>2, <1>7 DEF init_heap, MapHeapPage, HeapMapped
<1>8. CASE PageFault
  BY <1>2, <1>8 DEF PageFault
<1>9. CASE Ended
  BY <1>2, <1>9 DEF Ended, vars
<1> QED
  BY <1>1, <1>3, <1>4, <1>5, <1>6, <1>7, <1>8, <1>9 DEF Next

(* The invariant is kept by every step that stays on course.                *)
LEMMA InvNext == IInv /\ [Next]_vars /\ OnCourse' => IInv'
<1> SUFFICES ASSUME NEW place, Inv(place), [Next]_vars, OnCourse' PROVE IInv'
  BY DEF IInv
<1>1. CASE MapOrUnmap
  BY <1>1, OnCourseSteps, MapOrUnmapKeeps
<1>2. CASE flush_tlb
  BY <1>2, FlushKeeps DEF IInv
<1>3. CASE remap_kernel
  BY <1>3, AllocateNewRootKeeps, RemapKernelKeeps DEF IInv
<1>4. CASE init_heap
  BY <1>4, MapHeapPageKeeps, HeapMappedKeeps DEF init_heap, IInv
<1>5. CASE UNCHANGED vars
  BY <1>5, StutterKeeps DEF IInv
<1> QED
  BY <1>1, <1>2, <1>3, <1>4, <1>5, OnCourseSteps DEF Next, Ended

-----------------------------------------------------------------------------
(* What follows *)

(* The invariant contains the types.                                        *)
LEMMA InvTypeOK == IInv /\ astray \in BOOLEAN => TypeOK
<1> SUFFICES ASSUME NEW place, Inv(place), astray \in BOOLEAN PROVE TypeOK
  BY DEF IInv
<1>1. Types /\ mem \in Memory /\ LayoutOK(d) /\ pool \subseteq d.free
  BY DEF Inv, Shape
<1>2. /\ job.frame \in Frames /\ job.page \in Pages /\ job.table \in Pages
      /\ job.level \in 0 .. 4
  BY <1>1, JobFields DEF Types
<1>3. \A f \in Frames : mem[f] \in
        [Indices -> [frame : Frames, flags : SUBSET
           {"present", "writeable", "huge", "no_exec"}]]
  BY <1>1 DEF Memory, Tables, Entries, Flags
<1>4. {exhausted, astray} \subseteq BOOLEAN
  BY <1>1 DEF Types
<1> QED
  BY <1>1, <1>2, <1>3, <1>4 DEF TypeOK, Types

(* The table about to be accessed is mapped, and the buffer knows no other  *)
(* translation.                                                             *)
LEMMA InvCoherent == IInv => AccessesCoherent
<1> SUFFICES ASSUME NEW place, Inv(place), NEW page \in NextAccess
             PROVE  /\ Translation(page).frame \in Frames
                    /\ \A pair \in tlb : pair[1] = page => pair[2] = Translation(page).frame
  <2>1. \A f \in Frames : \A x : x.frame = f => x # NoLeaf
    BY ConstantFacts DEF NoLeaf, Pages
  <2> QED
    BY <2>1 DEF IInv, AccessesCoherent, AccessMapped
<1>1. CASE pc = "job"
  <2>1. page = job.table
    BY <1>1 DEF NextAccess
  <2>2. Translation(page).frame \in Frames
    BY <1>1, <2>1, JobTable
  <2>3. \A pair \in tlb : pair[2] = Translation(pair[1]).frame
    BY <1>1 DEF Inv, Buffer, AfterFlush
  <2> QED
    BY <2>2, <2>3
<1>2. CASE pc \in {"clear", "recurse_new", "recurse_old"}
  <2>1. /\ page \in {p4_table, OldP4Page, NewP4Page} /\ NewRootMapped /\ OldRootMapped
        /\ Target = cr3
    BY <1>2 DEF NextAccess, NewRootMapped, OldRootMapped, At, AtOf, Target, TargetOf, FillingNew
  <2>2. /\ Translation(NewP4Page).frame = new_p4 /\ Translation(OldP4Page).frame = d.p4
        /\ Translation(p4_table).frame = d.p4 /\ new_p4 \in Frames /\ d.p4 \in Frames
    BY <2>1, TemporaryFrames, RootTranslates, Places4
  <2>3. tlb \subseteq RootTranslations
    BY <1>2 DEF Inv, Buffer, RootTranslations
  <2>4. p4_table # NewP4Page /\ p4_table # OldP4Page /\ NewP4Page # OldP4Page
    BY RootPage, ConstantFacts
  <2> QED
    BY <2>1, <2>2, <2>3, <2>4 DEF RootTranslations
<1>3. CASE pc = "multiboot" /\ addr > MultibootBound
  <2>1. page = OldP4Page /\ OldRootMapped
    BY <1>3 DEF NextAccess, OldRootMapped, At, AtOf, FillingNew
  <2>2. Translation(page).frame = d.p4 /\ d.p4 \in Frames
    BY <2>1, TemporaryFrames, Places4
  <2>3. \A pair \in tlb : pair[2] = Translation(pair[1]).frame
    BY <1>3 DEF Inv, Buffer, AfterFlush
  <2> QED
    BY <2>2, <2>3
<1> QED
  BY <1>1, <1>2, <1>3 DEF NextAccess

(* The table a job has come to is the one of its level below the right      *)
(* root.                                                                    *)
LEMMA InvRightTree == IInv => EditsTheRightTree
<1> SUFFICES ASSUME NEW place, Inv(place), pc = "job"
             PROVE  LET root == IF job.then \in {"pages", "multiboot"} THEN new_p4 ELSE cr3
                    IN  Translation(job.table).frame = TableOf(root, job.level, job.page)
  BY DEF IInv, EditsTheRightTree
<1>1. Target = IF job.then \in {"pages", "multiboot"} THEN new_p4 ELSE cr3
  <2>1. job.then \in Callers
    BY DEF Inv, JobOK
  <2> QED
    BY <2>1 DEF Target, TargetOf, At, AtOf, FillingNew, Callers
<1>2. Translation(job.table).frame = Table /\ job.level \in 1 .. 4
  BY JobTable
<1>3. TableOf(Target, job.level, job.page) = Table
  BY <1>2 DEF TableOf, Table, FrameAt, E4, E3, E2
<1> QED
  BY <1>1, <1>2, <1>3

(* translate_page goes the way of the memory management unit.               *)
LEMMA InvTranslates == IInv => TranslateAgrees
<1> SUFFICES ASSUME NEW place, Inv(place), NEW page \in Pages,
                    IndexAt(4, page) # RecursiveIndex,
                    Walk(mem, Target, page) # NoLeaf
             PROVE  translate_page(page) = Walk(mem, Target, page).frame
  <2>1. ASSUME NEW place, Inv(place) PROVE mem[cr3][RecursiveIndex].frame = Target
    BY <2>1, RecursionEntries DEF Inv, Roots
  <2> QED
    BY <2>1 DEF IInv, TranslateAgrees
<1> DEFINE root == Target
           e4 == E4(mem, root, page)
           e3 == E3(mem, root, page)
           e2 == E2(mem, root, page)
           e1 == E1(mem, root, page)
           t3 == descened_page_table(p4_table, IndexAt(4, page))
           t2 == descened_page_table(t3, IndexAt(3, page))
           t1 == descened_page_table(t2, IndexAt(2, page))
           entry == EntryIn(t2, IndexAt(2, page))
<1>1. /\ Shape(mem, place, d, pool) /\ LayoutOK(d) /\ BootTree(mem, place, d)
      /\ Recursive(mem, cr3, root)
      /\ root \in Frames /\ place[root].level = 4
  BY Places4 DEF Inv, Shape, Roots
<1>2. translate_page(page) = IF "huge" \in entry.flags THEN HugeFrame(entry, page)
                             ELSE get_physical_frame(EntryIn(t1, IndexAt(1, page)))
  BY Zenon DEF translate_page
<1>3. /\ Present(e4) /\ Present(e3) /\ Present(e2)
      /\ "huge" \in e2.flags => Walk(mem, root, page).frame = e2.frame + IndexAt(1, page)
      /\ "huge" \notin e2.flags => /\ Present(e1)
                                   /\ Walk(mem, root, page).frame = e1.frame
  <2>1. \A f, flags : LeafOf(f, flags).frame = f
    BY DEF LeafOf
  <2> QED
    BY <2>1, WalkOfEntries
<1>4. TableAt(t3, 3, page)
  <2> DEFINE k == 4
  <2>1. k \in 2 .. 4 /\ TableAt(p4_table, k, page) /\ k - 1 = 3
    BY RootSeen
  <2> HIDE DEF k
  <2>2. TableAt(descened_page_table(p4_table, IndexAt(k, page)), k - 1, page)
    BY <2>1, DescendedSeen
  <2> QED
    BY <2>1, <2>2 DEF k
<1> HIDE DEF t3
<1>5. TableAt(t2, 2, page)
  <2> DEFINE k == 3
  <2>1. k \in 2 .. 4 /\ TableAt(t3, k, page) /\ k - 1 = 2
    BY <1>4
  <2> HIDE DEF k
  <2>2. TableAt(descened_page_table(t3, IndexAt(k, page)), k - 1, page)
    BY <2>1, DescendedSeen
  <2> QED
    BY <2>1, <2>2 DEF k
<1> HIDE DEF t2
<1>6. TableAt(t1, 1, page)
  <2> DEFINE k == 2
  <2>1. k \in 2 .. 4 /\ TableAt(t2, k, page) /\ k - 1 = 1
    BY <1>5
  <2> HIDE DEF k
  <2>2. TableAt(descened_page_table(t2, IndexAt(k, page)), k - 1, page)
    BY <2>1, DescendedSeen
  <2> QED
    BY <2>1, <2>2 DEF k
<1> HIDE DEF t1
<1>7. ASSUME "huge" \notin e4.flags PROVE entry = e2
  <2> DEFINE k == 2
  <2>1. k \in 1 .. 4 /\ TableAt(t2, k, page) /\ Reached(mem, root, k, page) /\ k # 1
    BY <1>3, <1>5 DEF Reached
  <2> HIDE DEF k
  <2>2. Walk(mem, cr3, t2).frame = FrameAt(mem, root, k, page)
    BY <1>1, <1>7, <2>1, WindowWalk
  <2>3. Translation(t2).frame = e3.frame
    BY <2>2 DEF k, FrameAt, Translation
  <2> QED
    BY <2>3 DEF EntryIn, E2
<1>8. ASSUME "huge" \notin e3.flags PROVE EntryIn(t1, IndexAt(1, page)) = e1
  <2> DEFINE k == 1
  <2>1. k \in 1 .. 4 /\ TableAt(t1, k, page) /\ Reached(mem, root, k, page) /\ k # 2
    BY <1>3, <1>6 DEF Reached
  <2> HIDE DEF k
  <2>2. Walk(mem, cr3, t1).frame = FrameAt(mem, root, k, page)
    BY <1>1, <1>8, <2>1, WindowWalk
  <2>3. Translation(t1).frame = e2.frame
    BY <2>2 DEF k, FrameAt, Translation
  <2> QED
    BY <2>3 DEF EntryIn, E1
<1> HIDE DEF entry, e4, e3, e2, e1, root
<1>9. "huge" \notin e4.flags /\ "huge" \notin e3.flags
  <2>1. CASE Editable(place, d, root, page)
    BY <1>1, <1>3, <2>1, WayPlaces, FlagsOfTables DEF e4, e3
  <2>2. CASE ~Editable(place, d, root, page)
    <3>1. root = d.p4 /\ IndexAt(4, page) = 0 /\ IndexAt(3, page) = 0
      BY <1>1, <2>2 DEF Editable
    <3>2. e4 = EntryFor(d.p3, Writeable)
      BY <1>1, <3>1 DEF e4, E4, BootTree
    <3>3. e3 = mem[e4.frame][0] /\ e4.frame = d.p3
      BY <3>1, <3>2 DEF e3, e4, E3, EntryFor
    <3>4. e3 = EntryFor(d.p2, Writeable)
      BY <1>1, <3>3 DEF BootTree
    <3> QED
      BY <3>2, <3>4, FlagsOfTables DEF EntryFor
  <2> QED
    BY <2>1, <2>2
<1>10. \A e : Present(e) => get_physical_frame(e) = e.frame
  BY DEF get_physical_frame
<1> QED
  BY <1>2, <1>3, <1>7, <1>8, <1>9, <1>10 DEF HugeFrame, root

-----------------------------------------------------------------------------
(* The theorems *)

(* All that remap_kernel relies on, from boot.s to the last page of the     *)
(* heap, until a null pointer is taken for a table or a page fault comes.   *)
THEOREM Invariance == ASSUME ZeroedMemory PROVE Spec => [](OnCourse => IInv)
<1>1. Init => IInv
  BY InvInit
<1>2. (OnCourse => IInv) /\ [Next]_vars => (OnCourse => IInv)'
  BY InvNext, NoWayBack
<1> QED
  BY <1>1, <1>2, PTL DEF Spec

(* The history is a truth value.                                            *)
LEMMA AstrayNext == astray \in BOOLEAN /\ [Next]_vars => (astray \in BOOLEAN)'
<1> SUFFICES ASSUME astray \in BOOLEAN, Next PROVE astray' \in {astray, TRUE}
  BY DEF vars
<1>1. CASE MapOrUnmap
  BY <1>1 DEF MapOrUnmap, Descend, CreateTable, NullTable, SetLeaf, ClearLeaf
<1>2. CASE flush_tlb
  BY <1>2 DEF flush_tlb
<1>3. CASE MapSections
  BY <1>3 DEF MapSections, SkipSection, AssertFails, BeginSection, MapSectionPage, EndSection
<1>4. CASE remap_kernel /\ ~MapSections
  BY <1>4 DEF remap_kernel, AllocateNewRoot, MapOldRoot, ClearNewRoot, MakeNewRecursive,
              PointOldAtNew, MapVga, MapMultibootPage, RestoreOldRoot, UnmapOldRoot,
              SwitchRoot, UnmapGuardPage, StoreRecursion
<1>5. CASE init_heap \/ PageFault \/ Ended
  BY <1>5 DEF init_heap, MapHeapPage, HeapMapped, PageFault, Ended, vars
<1> QED
  BY <1>1, <1>2, <1>3, <1>4, <1>5 DEF Next

(* Until then tables hold entries, every table address lies in the window   *)
(* of the recursive entry, and what the allocator can still hand out was    *)
(* free.                                                                    *)
THEOREM TypeCorrect == ASSUME ZeroedMemory PROVE Spec => [](OnCourse => TypeOK)
<1>1. Init => astray \in BOOLEAN
  BY DEF Init
<1>2. (OnCourse => IInv) /\ astray \in BOOLEAN => (OnCourse => TypeOK)
  BY InvTypeOK
<1> QED
  BY <1>1, <1>2, AstrayNext, Invariance, PTL DEF Spec

(* As long as every table was found or created, no step of remap_kernel,    *)
(* map_page_to_frame or unmap_page meets a page that is not mapped or a     *)
(* translation that is stale: every flush_tlb that is needed is there.  It  *)
(* says nothing of what the code does once it goes on with a null table.    *)
THEOREM CoherentCorrect == ASSUME ZeroedMemory PROVE Spec => []AccessesCoherent
<1>1. (OnCourse => IInv) => AccessesCoherent
  BY InvCoherent DEF AccessesCoherent
<1> QED
  BY <1>1, Invariance, PTL

(* map_page_to_frame and unmap_page edit the tree they are meant for, at    *)
(* every level, while the recursive entry of the old root leads to the new  *)
(* one, as long as no null pointer was taken for a table.                   *)
THEOREM RightTreeCorrect == ASSUME ZeroedMemory PROVE Spec => []EditsTheRightTree
<1>1. (OnCourse => IInv) => EditsTheRightTree
  BY InvRightTree DEF EditsTheRightTree, OnCourse
<1> QED
  BY <1>1, Invariance, PTL

(* translate_page agrees with the memory management unit, equally.          *)
THEOREM TranslateCorrect == ASSUME ZeroedMemory PROVE Spec => []TranslateAgrees
<1>1. (OnCourse => IInv) => TranslateAgrees
  BY InvTranslates DEF TranslateAgrees
<1> QED
  BY <1>1, Invariance, PTL

-----------------------------------------------------------------------------
(* What the new root maps *)

(* The pages a loop over addresses has been at, from a to before b.         *)
Loop(a, b, page) == \E k \in Nat : a + k * PAGE_SIZE < b /\ page = FrameOf(a) + k

(* The pages of section i that have been mapped, when s sections are done   *)
(* and the loop of the next one is at address a.                            *)
SectionDone(l, at, s, a, i, page) ==
  /\ IsAllocated(l.sections[i])
  /\ \/ i <= s /\ page \in MappedPagesOf(l.sections[i])
     \/ i = s + 1 /\ at = "pages" /\ Loop(l.sections[i].sh_addr, a, page)

Holding(l, at, s, a, page) ==
  {i \in 1 .. Len(l.sections) : SectionDone(l, at, s, a, i, page)}

Last(S, i) == i \in S /\ \A j \in S : j <= i

BoundOf(l) == l.start + SizeOfMultibootStart * l.total_size

AfterMultiboot == Leaving \cup Settled

InStructure(l, at, a, page) ==
  \/ at = "multiboot" /\ Loop(l.start, a, page)
  \/ at \in AfterMultiboot /\ Loop(l.start, BoundOf(l) + 1, page)

(* The translation t of a page that the steps so far should have led to.    *)
Expected(l, at, s, a, page, t) ==
  IF at \in {"heap", "done"} /\ page \in HeapRange THEN page < a => t.write
  ELSE IF at \in {"heap", "done"} /\ page = l.p4 THEN t = NoLeaf
  ELSE IF InStructure(l, at, a, page) THEN t = LeafOf(page, {"no_exec"})
  ELSE IF at \in {"multiboot"} \cup AfterMultiboot /\ page = VgaFrame
  THEN t = LeafOf(page, {"writeable", "no_exec"})
  ELSE \/ Holding(l, at, s, a, page) = {} /\ t = NoLeaf
       \/ \E i \in 1 .. Len(l.sections) :
            /\ Last(Holding(l, at, s, a, page), i)
            /\ t = RightsOf(l.sections[i], page)

Cleared == {"recurse_new", "recurse_old"} \cup FillingNew \cup Leaving \cup Settled

OrdinaryPages == {page \in Pages : IndexAt(4, page) # RecursiveIndex}

(* A job for the new root: its page is not yet what it should be.           *)
Pending == pc = "job" /\ At # "switch"

JobLeaf(j) == IF j.unmap THEN NoLeaf ELSE LeafOf(j.frame, j.flags)

View ==
  At \in Cleared =>
    /\ \A page \in OrdinaryPages :
         (Pending => page # job.page) =>
           Expected(d, At, section, addr, page, Walk(mem, new_p4, page))
    /\ Pending => Expected(d, At, section, addr, job.page, JobLeaf(job))

(* Where the loops are.                                                     *)
Counts ==
  /\ At \in BuildingOld \cup {"flush_recursion"} => section = 0
  /\ At \in {"multiboot"} \cup AfterMultiboot => section = Len(d.sections)
  /\ At = "pages" =>
       /\ SectionAsserts(Section)
       /\ \E n \in Nat : addr = Section.sh_addr + n * PAGE_SIZE
       /\ addr = Section.sh_addr \/ addr < LastAddr(Section) + PAGE_SIZE
  /\ At = "multiboot" =>
       /\ \E n \in Nat : addr = d.start + n * PAGE_SIZE
       /\ addr = d.start \/ addr <= MultibootBound + PAGE_SIZE
  /\ pc = "done" => addr = HeapStart + HeapPages
  /\ At = "heap" /\ Pending => job.page \in HeapRange \cup {d.p4}
-----------------------------------------------------------------------------
(* The pages of the loops *)

(* A loop that has made n rounds has been at n pages from the first on.     *)
LEMMA LoopPages ==
  ASSUME NEW a \in Nat, NEW b \in Nat, NEW n \in Nat, NEW page \in Nat,
         n = 0 \/ a + (n - 1) * PAGE_SIZE < b, b <= a + n * PAGE_SIZE
  PROVE  Loop(a, b, page) <=> page \in FrameOf(a) .. FrameOf(a) + n - 1
<1> DEFINE P == PAGE_SIZE
<1>0. P \in Nat \ {0} /\ FrameOf(a) \in Nat
  BY PagingAssumption, FrameOfMonotonic
<1> HIDE DEF P
<1>1. ASSUME NEW k \in Nat PROVE a + k * P < b <=> k < n
  <2>1. CASE k < n
    <3>1. k * P <= (n - 1) * P
      BY <1>0, <2>1, SMT
    <3>2. n # 0 /\ k * P \in Int /\ (n - 1) * P \in Int
      BY <1>0, <2>1
    <3>3. a + (n - 1) * P < b
      BY <3>2 DEF P
    <3> HIDE DEF P
    <3> QED
      BY <2>1, <3>1, <3>2, <3>3
  <2>2. CASE k >= n
    <3>1. k * P >= n * P
      BY <1>0, <2>2, SMT
    <3>2. k * P \in Int /\ n * P \in Int
      BY <1>0
    <3>3. b <= a + n * P
      BY DEF P
    <3> QED
      BY <2>2, <3>1, <3>2, <3>3
  <2> QED
    BY <2>1, <2>2
<1>2. Loop(a, b, page) <=> \E k \in Nat : k < n /\ page = FrameOf(a) + k
  BY <1>1 DEF Loop, P
<1>3. ASSUME page \in FrameOf(a) .. FrameOf(a) + n - 1
      PROVE  \E k \in Nat : k < n /\ page = FrameOf(a) + k
  <2> DEFINE k == page - FrameOf(a)
  <2>1. k \in Nat /\ k < n /\ page = FrameOf(a) + k
    BY <1>0, <1>3
  <2> QED
    BY <2>1
<1>4. ASSUME NEW k \in Nat, k < n, page = FrameOf(a) + k
      PROVE  page \in FrameOf(a) .. FrameOf(a) + n - 1
  BY <1>0, <1>4
<1> QED
  BY <1>2, <1>3, <1>4

(* The frame after n pages.                                                 *)
LEMMA FrameAfter ==
  ASSUME NEW a \in Nat, NEW n \in Nat
  PROVE  FrameOf(a + n * PAGE_SIZE) = FrameOf(a) + n
<1>1. PAGE_SIZE \in Nat \ {0}
  BY PagingAssumption
<1>2. (PAGE_SIZE * n + a) \div PAGE_SIZE = n + (a \div PAGE_SIZE)
  BY <1>1, DivisionOfSum
<1>3. a + n * PAGE_SIZE = PAGE_SIZE * n + a
  BY <1>1, SMT
<1>4. a \div PAGE_SIZE \in Nat
  BY <1>1, Division
<1> QED
  BY <1>2, <1>3, <1>4 DEF FrameOf

(* Before the first round a loop has been nowhere.                          *)
LEMMA LoopBegins ==
  ASSUME NEW a \in Nat, NEW page \in Nat
  PROVE  ~Loop(a, a, page)
<1>1. PAGE_SIZE \in Nat /\ FrameOf(a) \in Nat
  BY PagingAssumption, FrameOfMonotonic
<1> DEFINE n == 0
<1>2. n \in Nat /\ n = 0 /\ a <= a + n * PAGE_SIZE
  BY <1>1
<1>3. FrameOf(a) .. FrameOf(a) + n - 1 = {}
  BY <1>1
<1> HIDE DEF n
<1> QED
  BY <1>2, <1>3, LoopPages

(* A round adds the page it begins with.                                    *)
LEMMA LoopStep ==
  ASSUME NEW a \in Nat, NEW b \in Nat, NEW n \in Nat, b = a + n * PAGE_SIZE,
         NEW page \in Nat
  PROVE  Loop(a, b + PAGE_SIZE, page) <=> Loop(a, b, page) \/ page = FrameOf(b)
<1>1. PAGE_SIZE \in Nat \ {0} /\ FrameOf(a) \in Nat
  BY PagingAssumption, FrameOfMonotonic
<1>2. FrameOf(b) = FrameOf(a) + n
  BY FrameAfter
<1> DEFINE k == n + 1
           c == b + PAGE_SIZE
<1>3. k \in Nat /\ c \in Nat /\ c = a + k * PAGE_SIZE /\ k - 1 = n /\ b < c
  BY <1>1, SMT
<1>4. n = 0 \/ a + (n - 1) * PAGE_SIZE < b
  BY <1>1, SMT
<1>5. Loop(a, b, page) <=> page \in FrameOf(a) .. FrameOf(a) + n - 1
  BY <1>4, LoopPages
<1> HIDE DEF k, c
<1>6. a + (k - 1) * PAGE_SIZE < c
  BY <1>3
<1>7. c <= a + k * PAGE_SIZE
  BY <1>3
<1>8. Loop(a, c, page) <=> page \in FrameOf(a) .. FrameOf(a) + k - 1
  BY <1>3, <1>6, <1>7, LoopPages
<1> QED
  BY <1>1, <1>2, <1>3, <1>5, <1>8 DEF c

(* When the loop over the structure ends it has been at every page up to    *)
(* its bound.                                                               *)
LEMMA LoopEnds ==
  ASSUME NEW a \in Nat, NEW b \in Nat, NEW n \in Nat, b = a + n * PAGE_SIZE,
         NEW c \in Nat, b > c, b <= c + PAGE_SIZE, a <= c, NEW page \in Nat
  PROVE  Loop(a, b, page) <=> Loop(a, c + 1, page)
<1>1. PAGE_SIZE \in Nat \ {0} /\ FrameOf(a) \in Nat
  BY PagingAssumption, FrameOfMonotonic
<1>2. n # 0
  BY <1>1
<1>3. a + (n - 1) * PAGE_SIZE = b - PAGE_SIZE
  BY <1>1, SMT
<1>4. a + (n - 1) * PAGE_SIZE < b /\ a + (n - 1) * PAGE_SIZE < c + 1
  BY <1>1, <1>3
<1>5. Loop(a, b, page) <=> page \in FrameOf(a) .. FrameOf(a) + n - 1
  BY <1>4, LoopPages
<1> DEFINE c1 == c + 1
<1>6. c1 \in Nat /\ c1 <= a + n * PAGE_SIZE /\ a + (n - 1) * PAGE_SIZE < c1
  BY <1>1, <1>4
<1> HIDE DEF c1
<1>7. Loop(a, c1, page) <=> page \in FrameOf(a) .. FrameOf(a) + n - 1
  BY <1>6, LoopPages
<1> QED
  BY <1>5, <1>7 DEF c1

(* When the loop over a section ends it has been at its pages.              *)
LEMMA LoopOfSection ==
  ASSUME NEW s, s.sh_addr \in Nat, s.sh_size \in Nat, SectionAsserts(s),
         NEW n \in Nat, NEW b \in Nat, b = s.sh_addr + n * PAGE_SIZE,
         b = s.sh_addr \/ b < LastAddr(s) + PAGE_SIZE, b >= LastAddr(s),
         NEW page \in Nat
  PROVE  Loop(s.sh_addr, b, page) <=> page \in MappedPagesOf(s)
<1> DEFINE a == s.sh_addr
           k == a \div PAGE_SIZE
           z == LastAddr(s)
           q == k + n - 1
           r == z - 1 - PAGE_SIZE * q
<1>1. /\ PAGE_SIZE \in Nat \ {0} /\ a \in Nat /\ z \in Int
      /\ a <= z /\ z <= b
  BY PagingAssumption, LastAddrType DEF SectionAsserts
<1>2. k \in Nat /\ a = PAGE_SIZE * k
  <2>1. a % PAGE_SIZE = 0
    BY DEF SectionAsserts
  <2>2. k \in Nat /\ a = PAGE_SIZE * k + (a % PAGE_SIZE)
    BY <1>1, Division
  <2> QED
    BY <1>1, <2>1, <2>2
<1> HIDE DEF a, k, z
<1>3. PAGE_SIZE * q = b - PAGE_SIZE
  <2>1. PAGE_SIZE * q = PAGE_SIZE * k + n * PAGE_SIZE - PAGE_SIZE
    BY <1>1, <1>2, SMT
  <2> QED
    BY <1>1, <1>2, <2>1 DEF a
<1>4. b - PAGE_SIZE < z
  BY <1>1 DEF a, z
<1>5. q \in Int /\ r \in 0 .. PAGE_SIZE - 1 /\ z - 1 = PAGE_SIZE * q + r
  <2>1. q \in Int
    BY <1>2
  <2> QED
    BY <1>1, <1>3, <1>4, <2>1
<1>6. (z - 1) \div PAGE_SIZE = q
  <2> HIDE DEF q, r
  <2> QED
    BY <1>1, <1>5, DivUnique
<1>7. MappedPagesOf(s) = FrameOf(a) .. FrameOf(a) + n - 1
  BY <1>2, <1>6 DEF MappedPagesOf, FrameOf, a, k, z
<1>8. n = 0 \/ a + (n - 1) * PAGE_SIZE < b
  BY <1>1, SMT DEF a
<1>9. b <= a + n * PAGE_SIZE
  BY DEF a
<1>10. Loop(a, b, page) <=> page \in FrameOf(a) .. FrameOf(a) + n - 1
  BY <1>1, <1>8, <1>9, LoopPages
<1> QED
  BY <1>7, <1>10 DEF a
-----------------------------------------------------------------------------
(* Steps that change nothing a page should translate to *)

(* The phases are what their names say.                                     *)
LEMMA Phases ==
  /\ FillingNew = {"flush_recursion", "sections", "pages", "multiboot", "assert"}
  /\ AfterMultiboot = {"flush_restored", "unmap_old", "switch", "guard", "heap", "done"}
  /\ Cleared = {"recurse_new", "recurse_old", "flush_recursion", "sections", "pages",
                "multiboot", "assert", "flush_restored", "unmap_old", "switch",
                "guard", "heap", "done"}
BY DEF FillingNew, AfterMultiboot, Cleared, Leaving, Settled

(* Where sections and pages are counted as done, what is expected depends   *)
(* on nothing else.                                                         *)
LEMMA ExpectedSame ==
  ASSUME NEW l, NEW at, NEW s, NEW a, NEW at2, NEW s2, NEW a2, NEW page, NEW t,
         at2 \in {"heap", "done"} /\ page \in HeapRange =>
           at \in {"heap", "done"} /\ (page < a2 => page < a),
         at \in {"heap", "done"} /\ page \in HeapRange => at2 \in {"heap", "done"},
         at2 \in {"heap", "done"} <=> at \in {"heap", "done"},
         InStructure(l, at2, a2, page) <=> InStructure(l, at, a, page),
         page = VgaFrame =>
           (at2 \in {"multiboot"} \cup AfterMultiboot
              <=> at \in {"multiboot"} \cup AfterMultiboot),
         \A i \in 1 .. Len(l.sections) :
           SectionDone(l, at2, s2, a2, i, page) <=> SectionDone(l, at, s, a, i, page),
         Expected(l, at, s, a, page, t)
  PROVE  Expected(l, at2, s2, a2, page, t)
<1>1. Holding(l, at2, s2, a2, page) = Holding(l, at, s, a, page)
  BY DEF Holding
<1> QED
  BY <1>1, Zenon DEF Expected

(* The phases in which nothing is mapped.                                   *)
LEMMA ExpectedPhase ==
  ASSUME NEW l, NEW at, NEW s, NEW a, NEW at2, NEW a2, NEW page, NEW t,
         \/ {at, at2} \subseteq {"recurse_new", "recurse_old", "flush_recursion",
                                 "sections", "assert"}
         \/ {at, at2} \subseteq {"flush_restored", "unmap_old", "switch", "guard"}
         \/ at = "heap" /\ at2 = "done" /\ a2 = a,
         Expected(l, at, s, a, page, t)
  PROVE  Expected(l, at2, s, a2, page, t)
<1>1. /\ at2 \in {"heap", "done"} <=> at \in {"heap", "done"}
      /\ at \in AfterMultiboot <=> at2 \in AfterMultiboot
      /\ at # "multiboot" /\ at2 # "multiboot" /\ at # "pages" /\ at2 # "pages"
      /\ at2 \in {"heap", "done"} => a2 = a
  BY Phases
<1>2. InStructure(l, at2, a2, page) <=> InStructure(l, at, a, page)
  BY <1>1 DEF InStructure
<1>3. \A i \in 1 .. Len(l.sections) :
        SectionDone(l, at2, s, a2, i, page) <=> SectionDone(l, at, s, a, i, page)
  BY <1>1 DEF SectionDone
<1> QED
  BY <1>1, <1>2, <1>3, ExpectedSame

(* A step that leaves the new tables alone.                                 *)
LEMMA QuietView ==
  ASSUME View, At \in Cleared,
         UNCHANGED <<d, mem, new_p4>>,
         \A page \in OrdinaryPages : (Pending' => page # job'.page) =>
           /\ Pending => page # job.page
           /\ \A t : Expected(d, At, section, addr, page, t)
                       => Expected(d, At', section', addr', page, t),
         Pending' => Expected(d, At', section', addr', job'.page, JobLeaf(job'))
  PROVE  View'
BY DEF View

(* No job is under way.                                                     *)
LEMMA NoJobUnderWay ==
  ASSUME pc # "job"
  PROVE  ~Pending /\ At = pc
BY DEF Pending, At, AtOf

(* A job has been started.                                                  *)
LEMMA JobUnderWay ==
  ASSUME NEW j, StartJob(j)
  PROVE  /\ job' = j /\ At' = j.then /\ pc' = "job"
         /\ Pending' <=> j.then # "switch"
BY DEF StartJob, Pending, At, AtOf

(* Between the calls.                                                       *)
LEMMA PhaseView ==
  ASSUME View, pc # "job", pc' # "job",
         \/ {pc, pc'} \subseteq {"recurse_new", "recurse_old", "flush_recursion",
                                 "sections", "assert"}
         \/ {pc, pc'} \subseteq {"flush_restored", "unmap_old", "switch", "guard"}
         \/ pc = "heap" /\ pc' = "done" /\ addr' = addr,
         UNCHANGED <<d, mem, new_p4, section>>
  PROVE  View'
<1>1. ~Pending /\ At = pc /\ ~Pending' /\ At' = pc' /\ At \in Cleared
  BY NoJobUnderWay, Phases DEF Pending, At, AtOf
<1>2. \A page, t : Expected(d, At, section, addr, page, t)
                     => Expected(d, At', section', addr', page, t)
  <2>1. SUFFICES ASSUME NEW page, NEW t, Expected(d, At, section, addr, page, t)
                 PROVE  Expected(d, At', section, addr', page, t)
    OBVIOUS
  <2> DEFINE at == At
             at2 == At'
             a2 == addr'
  <2>2. \/ {at, at2} \subseteq {"recurse_new", "recurse_old", "flush_recursion",
                                 "sections", "assert"}
        \/ {at, at2} \subseteq {"flush_restored", "unmap_old", "switch", "guard"}
        \/ at = "heap" /\ at2 = "done" /\ a2 = addr
    BY <1>1
  <2>3. Expected(d, at, section, addr, page, t)
    BY <2>1
  <2> HIDE DEF at, at2, a2
  <2>4. Expected(d, at2, section, a2, page, t)
    BY <2>2, <2>3, ExpectedPhase
  <2> QED
    BY <2>4 DEF at2, a2
<1> QED
  BY <1>1, <1>2, QuietView

-----------------------------------------------------------------------------
(* The loops over sections *)

(* The sections' types, as LayoutOK has them, and the one the loop is at.   *)
LEMMA AtSectionFacts ==
  ASSUME NEW place, Inv(place), section < Len(d.sections)
  PROVE  /\ section \in Nat /\ section + 1 \in 1 .. Len(d.sections)
         /\ Section = d.sections[section + 1]
         /\ Section.sh_addr \in Nat /\ Section.sh_size \in Nat
         /\ d.start \in Nat /\ d.total_size \in Nat /\ addr \in Nat
         /\ LastAddr(Section) \in Int
<1>1. LayoutOK(d) /\ section \in 0 .. Len(d.sections) /\ addr \in Nat
  BY DEF Inv, Shape, Types
<1>2. section \in Nat /\ d.start \in Nat /\ d.total_size \in Nat
  BY <1>1 DEF LayoutOK
<1> QED
  BY <1>1, <1>2, SectionType, LastAddrType DEF Section

(* Pages are numbers.                                                       *)
LEMMA PageIsNat == ASSUME NEW page \in OrdinaryPages PROVE page \in Pages /\ page \in Nat
BY FirstDigit DEF OrdinaryPages

(* A section that is not loaded is passed over.                             *)
LEMMA SkipSectionView ==
  ASSUME NEW place, Inv(place), View, SkipSection
  PROVE  View'
<1>1. /\ pc = "sections" /\ pc' = pc /\ section < Len(d.sections) /\ ~IsAllocated(Section)
      /\ section' = section + 1
      /\ UNCHANGED <<d, mem, new_p4, addr>>
  BY DEF SkipSection, AtSection
<1>2. ~Pending /\ At = "sections" /\ ~Pending' /\ At' = "sections" /\ At \in Cleared
  BY <1>1, NoJobUnderWay, Phases DEF Pending, At, AtOf
<1>3. ASSUME NEW page \in OrdinaryPages, NEW t, Expected(d, "sections", section, addr, page, t)
      PROVE  Expected(d, "sections", section + 1, addr, page, t)
  <2> DEFINE s2 == section + 1
  <2>1. \A i \in 1 .. Len(d.sections) :
          SectionDone(d, "sections", s2, addr, i, page)
            <=> SectionDone(d, "sections", section, addr, i, page)
    BY <1>1, AtSectionFacts DEF SectionDone
  <2> HIDE DEF s2
  <2>2. Expected(d, "sections", s2, addr, page, t)
    BY <1>3, <2>1, ExpectedSame
  <2> QED
    BY <2>2 DEF s2
<1> QED
  BY <1>1, <1>2, <1>3, QuietView

(* The loop over the pages of a section begins.                             *)
LEMMA BeginSectionView ==
  ASSUME NEW place, Inv(place), View, BeginSection
  PROVE  View'
<1>1. /\ pc = "sections" /\ pc' = "pages" /\ section < Len(d.sections)
      /\ addr' = Section.sh_addr
      /\ UNCHANGED <<d, mem, new_p4, section>>
  BY DEF BeginSection, AtSection
<1>2. ~Pending /\ At = "sections" /\ ~Pending' /\ At' = "pages" /\ At \in Cleared
  BY <1>1, NoJobUnderWay, Phases DEF Pending, At, AtOf
<1>3. ASSUME NEW page \in OrdinaryPages, NEW t, Expected(d, "sections", section, addr, page, t)
      PROVE  Expected(d, "pages", section, addr', page, t)
  <2> DEFINE a2 == Section.sh_addr
  <2>0. a2 \in Nat /\ page \in Nat /\ a2 = d.sections[section + 1].sh_addr
    BY <1>1, AtSectionFacts, PageIsNat
  <2>1. \A i \in 1 .. Len(d.sections) :
          SectionDone(d, "pages", section, a2, i, page)
            <=> SectionDone(d, "sections", section, addr, i, page)
    BY <2>0, LoopBegins DEF SectionDone
  <2>2. InStructure(d, "pages", a2, page) <=> InStructure(d, "sections", addr, page)
    BY Phases DEF InStructure
  <2> HIDE DEF a2
  <2>3. Expected(d, "pages", section, a2, page, t)
    BY <1>3, <2>1, <2>2, ExpectedSame, Phases
  <2> QED
    BY <1>1, <2>3 DEF a2
<1> QED
  BY <1>1, <1>2, <1>3, QuietView

(* It ends when it has been at all pages of the section.                    *)
LEMMA EndSectionView ==
  ASSUME NEW place, Inv(place), View, Counts, EndSection
  PROVE  View'
<1>1. /\ pc = "pages" /\ pc' = "sections" /\ ~PagesLeft(Section)
      /\ section' = section + 1
      /\ UNCHANGED <<d, mem, new_p4, addr>>
  BY DEF EndSection
<1>2. ~Pending /\ At = "pages" /\ ~Pending' /\ At' = "sections" /\ At \in Cleared
  BY <1>1, NoJobUnderWay, Phases DEF Pending, At, AtOf
<1>3. /\ section < Len(d.sections) /\ SectionAsserts(Section)
      /\ \E n \in Nat : addr = Section.sh_addr + n * PAGE_SIZE
      /\ addr = Section.sh_addr \/ addr < LastAddr(Section) + PAGE_SIZE
  BY <1>1, <1>2 DEF Counts, Inv, Loops
<1>4. ASSUME NEW page \in OrdinaryPages, NEW t, Expected(d, "pages", section, addr, page, t)
      PROVE  Expected(d, "sections", section + 1, addr, page, t)
  <2> DEFINE s2 == section + 1
  <2>0. /\ Section = d.sections[s2] /\ section \in Nat /\ s2 \in 1 .. Len(d.sections)
        /\ page \in Nat
    BY <1>3, AtSectionFacts, PageIsNat
  <2>1. Loop(Section.sh_addr, addr, page) <=> page \in MappedPagesOf(Section)
    <3>1. PICK n \in Nat : addr = Section.sh_addr + n * PAGE_SIZE
      BY <1>3
    <3>2. /\ Section.sh_addr \in Nat /\ Section.sh_size \in Nat /\ addr \in Nat
          /\ LastAddr(Section) \in Int
      BY <1>3, AtSectionFacts
    <3>3. addr >= LastAddr(Section)
      BY <1>1, <3>2 DEF PagesLeft
    <3> QED
      BY <1>3, <2>0, <3>1, <3>2, <3>3, LoopOfSection
  <2>2. \A i \in 1 .. Len(d.sections) :
          SectionDone(d, "sections", s2, addr, i, page)
            <=> SectionDone(d, "pages", section, addr, i, page)
    <3>1. SUFFICES ASSUME NEW i \in 1 .. Len(d.sections)
                   PROVE  SectionDone(d, "sections", s2, addr, i, page)
                            <=> SectionDone(d, "pages", section, addr, i, page)
      OBVIOUS
    <3>2. CASE i = s2
      BY <2>0, <2>1, <3>2 DEF SectionDone
    <3>3. CASE i # s2
      <4>1. i <= s2 <=> i <= section
        BY <2>0, <3>3
      <4> HIDE DEF s2
      <4> QED
        BY <3>3, <4>1 DEF SectionDone, s2
    <3> QED
      BY <3>2, <3>3
  <2>3. InStructure(d, "sections", addr, page) <=> InStructure(d, "pages", addr, page)
    BY Phases DEF InStructure
  <2> HIDE DEF s2
  <2>4. Expected(d, "sections", s2, addr, page, t)
    BY <1>4, <2>2, <2>3, ExpectedSame, Phases
  <2> QED
    BY <2>4 DEF s2
<1> QED
  BY <1>1, <1>2, <1>4, QuietView
(* A call of map_page_to_frame for a page of the section: of all sections   *)
(* that hold the page it is the last.                                       *)
LEMMA MapSectionPageView ==
  ASSUME NEW place, Inv(place), View, Counts, MapSectionPage
  PROVE  View'
<1> DEFINE f == FrameOf(addr)
           j == MapJob(f, f, FlagsOf(Section), "pages")
           a2 == addr + PAGE_SIZE
           s1 == section + 1
<1>1. /\ pc = "pages" /\ StartJob(j) /\ addr' = a2
      /\ UNCHANGED <<d, mem, new_p4, section>>
  BY DEF MapSectionPage, IdentityJob
<1>2. /\ j.then = "pages" /\ ~j.unmap /\ j.page = f /\ j.frame = f
      /\ j.flags = {"present"} \cup FlagsOf(Section)
  BY DEF MapJob
<1> HIDE DEF j
<1>3. ~Pending /\ At = "pages" /\ Pending' /\ At' = "pages" /\ job' = j /\ At \in Cleared
  BY <1>1, <1>2, NoJobUnderWay, JobUnderWay, Phases
<1>4. /\ section < Len(d.sections) /\ IsAllocated(Section)
      /\ \E n \in Nat : addr = Section.sh_addr + n * PAGE_SIZE
  BY <1>1, <1>3 DEF Counts, Inv, Loops
<1>5. /\ section \in Nat /\ s1 \in 1 .. Len(d.sections) /\ Section = d.sections[s1]
      /\ Section.sh_addr \in Nat /\ addr \in Nat /\ f \in Nat /\ ~(s1 <= section)
  BY <1>4, AtSectionFacts, FrameOfMonotonic
<1>6. ASSUME NEW page \in Nat
      PROVE  Loop(Section.sh_addr, a2, page) <=> Loop(Section.sh_addr, addr, page) \/ page = f
  BY <1>4, <1>5, <1>6, LoopStep
<1> HIDE DEF a2, f
<1>7. \A page : ~InStructure(d, "pages", addr, page) /\ ~InStructure(d, "pages", a2, page)
  BY Phases DEF InStructure
<1>8. ASSUME NEW page \in OrdinaryPages, page # f, NEW t,
             Expected(d, "pages", section, addr, page, t)
      PROVE  Expected(d, "pages", section, a2, page, t)
  <2>1. \A i \in 1 .. Len(d.sections) :
          SectionDone(d, "pages", section, a2, i, page)
            <=> SectionDone(d, "pages", section, addr, i, page)
    BY <1>5, <1>6, <1>8, PageIsNat DEF SectionDone
  <2> QED
    BY <1>7, <1>8, <2>1, ExpectedSame, Phases
<1>9. Expected(d, "pages", section, a2, f, JobLeaf(j))
  <2>1. JobLeaf(j) = RightsOf(Section, f)
    BY <1>2 DEF JobLeaf, LeafOf, RightsOf, FlagsOf
  <2>2. SectionDone(d, "pages", section, a2, s1, f)
    BY <1>4, <1>5, <1>6 DEF SectionDone
  <2>3. \A i \in 1 .. Len(d.sections) : SectionDone(d, "pages", section, a2, i, f) => i <= s1
    BY <1>5 DEF SectionDone
  <2>4. Last(Holding(d, "pages", section, a2, f), s1)
    BY <1>5, <2>2, <2>3 DEF Last, Holding
  <2>5. "pages" \notin {"heap", "done", "multiboot"} \cup AfterMultiboot
    BY Phases
  <2> QED
    BY <1>5, <1>7, <2>1, <2>4, <2>5 DEF Expected
<1> QED
  BY <1>1, <1>2, <1>3, <1>8, <1>9, QuietView

(* What a mapping's rights come to.                                         *)
LEMMA JobLeafOf ==
  ASSUME NEW j, ~j.unmap, NEW flags, j.flags = {"present"} \cup flags
  PROVE  JobLeaf(j) = LeafOf(j.frame, flags)
BY DEF JobLeaf, LeafOf

(* The screen.                                                              *)
LEMMA MapVgaView ==
  ASSUME NEW place, Inv(place), View, MapVga
  PROVE  View'
<1> DEFINE j == MapJob(VgaFrame, VgaFrame, {"writeable", "no_exec"}, "multiboot")
           a2 == d.start
<1>1. /\ pc = "sections" /\ StartJob(j) /\ addr' = a2
      /\ UNCHANGED <<d, mem, new_p4, section>>
  BY DEF MapVga, IdentityJob
<1>2. /\ j.then = "multiboot" /\ ~j.unmap /\ j.page = VgaFrame /\ j.frame = VgaFrame
      /\ j.flags = {"present"} \cup {"writeable", "no_exec"}
  BY DEF MapJob
<1> HIDE DEF j
<1>3. /\ ~Pending /\ At = "sections" /\ Pending' /\ At' = "multiboot" /\ job' = j
      /\ At \in Cleared
  BY <1>1, <1>2, NoJobUnderWay, JobUnderWay, Phases
<1>4. a2 \in Nat
  BY DEF Inv, Shape, LayoutOK
<1>5. VgaFrame \in Nat
  BY ConstantFacts, FirstDigit
<1>6. \A page \in Nat :
        ~InStructure(d, "multiboot", a2, page) /\ ~InStructure(d, "sections", addr, page)
  BY <1>4, LoopBegins, Phases DEF InStructure
<1> HIDE DEF a2
<1>7. ASSUME NEW page \in OrdinaryPages, page # VgaFrame, NEW t,
             Expected(d, "sections", section, addr, page, t)
      PROVE  Expected(d, "multiboot", section, a2, page, t)
  <2>1. \A i \in 1 .. Len(d.sections) :
          SectionDone(d, "multiboot", section, a2, i, page)
            <=> SectionDone(d, "sections", section, addr, i, page)
    BY DEF SectionDone
  <2> QED
    BY <1>6, <1>7, <2>1, ExpectedSame, PageIsNat
<1>8. Expected(d, "multiboot", section, a2, VgaFrame, JobLeaf(j))
  BY <1>2, <1>5, <1>6, JobLeafOf DEF Expected
<1> QED
  BY <1>1, <1>2, <1>3, <1>7, <1>8, QuietView

(* A page from the multiboot structure on.                                  *)
LEMMA MapMultibootPageView ==
  ASSUME NEW place, Inv(place), View, Counts, MapMultibootPage
  PROVE  View'
<1> DEFINE f == FrameOf(addr)
           j == MapJob(f, f, {"no_exec"}, "multiboot")
           a2 == addr + PAGE_SIZE
<1>1. /\ pc = "multiboot" /\ StartJob(j) /\ addr' = a2
      /\ UNCHANGED <<d, mem, new_p4, section>>
  BY DEF MapMultibootPage, IdentityJob
<1>2. /\ j.then = "multiboot" /\ ~j.unmap /\ j.page = f /\ j.frame = f
      /\ j.flags = {"present"} \cup {"no_exec"}
  BY DEF MapJob
<1> HIDE DEF j
<1>3. /\ ~Pending /\ At = "multiboot" /\ Pending' /\ At' = "multiboot" /\ job' = j
      /\ At \in Cleared
  BY <1>1, <1>2, NoJobUnderWay, JobUnderWay, Phases
<1>4. \E n \in Nat : addr = d.start + n * PAGE_SIZE
  BY <1>3 DEF Counts
<1>5. d.start \in Nat /\ addr \in Nat /\ f \in Nat
  <2>1. d.start \in Nat /\ addr \in Nat
    BY DEF Inv, Shape, LayoutOK, Types
  <2> QED
    BY <2>1, FrameOfMonotonic
<1>6. ASSUME NEW page \in Nat
      PROVE  InStructure(d, "multiboot", a2, page)
               <=> InStructure(d, "multiboot", addr, page) \/ page = f
  BY <1>4, <1>5, LoopStep, Phases DEF InStructure
<1> HIDE DEF a2, f
<1>7. ASSUME NEW page \in OrdinaryPages, page # f, NEW t,
             Expected(d, "multiboot", section, addr, page, t)
      PROVE  Expected(d, "multiboot", section, a2, page, t)
  <2>1. \A i \in 1 .. Len(d.sections) :
          SectionDone(d, "multiboot", section, a2, i, page)
            <=> SectionDone(d, "multiboot", section, addr, i, page)
    BY DEF SectionDone
  <2>2. InStructure(d, "multiboot", a2, page) <=> InStructure(d, "multiboot", addr, page)
    BY <1>6, <1>7, PageIsNat
  <2> QED
    BY <1>7, <2>1, <2>2, ExpectedSame
<1>8. Expected(d, "multiboot", section, a2, f, JobLeaf(j))
  BY <1>2, <1>5, <1>6, JobLeafOf DEF Expected
<1> QED
  BY <1>1, <1>2, <1>3, <1>7, <1>8, QuietView

(* The temporary page of the old root is unmapped in the old tables.        *)
LEMMA UnmapOldRootView ==
  ASSUME View, UnmapOldRoot
  PROVE  View'
<1>1. /\ pc = "unmap_old" /\ StartJob(UnmapJob(OldP4Page, "switch"))
      /\ UNCHANGED <<d, mem, new_p4, section, addr>>
  BY DEF UnmapOldRoot
<1>2. UnmapJob(OldP4Page, "switch").then = "switch"
  BY DEF UnmapJob
<1>3. ~Pending /\ At = "unmap_old" /\ ~Pending' /\ At' = "switch" /\ At \in Cleared
  BY <1>1, <1>2, NoJobUnderWay, JobUnderWay, Phases
<1>4. ASSUME NEW page, NEW t, Expected(d, "unmap_old", section, addr, page, t)
      PROVE  Expected(d, "switch", section, addr, page, t)
  BY <1>4, ExpectedPhase
<1> QED
  BY <1>1, <1>3, <1>4, QuietView

(* The guard page, and with it the beginning of init_heap.                  *)
LEMMA UnmapGuardPageView ==
  ASSUME View, UnmapGuardPage
  PROVE  View'
<1> DEFINE j == UnmapJob(d.p4, "heap")
           a2 == HeapStart
<1>1. /\ pc = "guard" /\ StartJob(j) /\ addr' = a2
      /\ UNCHANGED <<d, mem, new_p4, section>>
  BY DEF UnmapGuardPage
<1>2. j.then = "heap" /\ j.page = d.p4 /\ JobLeaf(j) = NoLeaf
  BY DEF UnmapJob, JobLeaf
<1> HIDE DEF j
<1>3. ~Pending /\ At = "guard" /\ Pending' /\ At' = "heap" /\ job' = j /\ At \in Cleared
  BY <1>1, <1>2, NoJobUnderWay, JobUnderWay, Phases
<1>4. \A page \in HeapRange : ~(page < a2)
  BY HeapFacts DEF HeapRange
<1> HIDE DEF a2
<1>5. ASSUME NEW page \in OrdinaryPages, page # d.p4, NEW t,
             Expected(d, "guard", section, addr, page, t)
      PROVE  Expected(d, "heap", section, a2, page, t)
  <2>1. Holding(d, "heap", section, a2, page) = Holding(d, "guard", section, addr, page)
    BY DEF Holding, SectionDone
  <2>2. InStructure(d, "heap", a2, page) <=> InStructure(d, "guard", addr, page)
    BY Phases DEF InStructure
  <2>3. "heap" \in AfterMultiboot /\ "guard" \in AfterMultiboot
    BY Phases
  <2> QED
    BY <1>4, <1>5, <2>1, <2>2, <2>3 DEF Expected
<1>6. Expected(d, "heap", section, a2, d.p4, JobLeaf(j))
  BY <1>2, <1>4 DEF Expected
<1> QED
  BY <1>1, <1>2, <1>3, <1>5, <1>6, QuietView

(* A page of the heap.                                                      *)
LEMMA MapHeapPageView ==
  ASSUME NEW place, Inv(place), View, MapHeapPage
  PROVE  View'
<1>0. PICK f \in pool \cup {0} : StartJob(MapJob(addr, f, {"writeable"}, "heap"))
  BY DEF MapHeapPage
<1> DEFINE j == MapJob(addr, f, {"writeable"}, "heap")
           a2 == addr + 1
<1>1. /\ pc = "heap" /\ StartJob(j) /\ addr' = a2 /\ addr < HeapStart + HeapPages
      /\ UNCHANGED <<d, mem, new_p4, section>>
  BY <1>0 DEF MapHeapPage
<1>2. j.then = "heap" /\ j.page = addr /\ JobLeaf(j).write
  BY DEF MapJob, JobLeaf, LeafOf
<1> HIDE DEF j
<1>3. ~Pending /\ At = "heap" /\ Pending' /\ At' = "heap" /\ job' = j /\ At \in Cleared
  BY <1>1, <1>2, NoJobUnderWay, JobUnderWay, Phases
<1>4. addr \in HeapRange /\ addr \in Nat
  BY <1>1, <1>3, HeapFacts DEF Inv, Loops, HeapRange
<1>5. \A page \in Nat : page < a2 /\ page # addr => page < addr
  BY <1>4
<1> HIDE DEF a2
<1>6. ASSUME NEW page \in OrdinaryPages, page # addr, NEW t,
             Expected(d, "heap", section, addr, page, t)
      PROVE  Expected(d, "heap", section, a2, page, t)
  <2>1. \A i \in 1 .. Len(d.sections) :
          SectionDone(d, "heap", section, a2, i, page)
            <=> SectionDone(d, "heap", section, addr, i, page)
    BY DEF SectionDone
  <2>2. InStructure(d, "heap", a2, page) <=> InStructure(d, "heap", addr, page)
    BY DEF InStructure
  <2> QED
    BY <1>5, <1>6, <2>1, <2>2, ExpectedSame, PageIsNat
<1>7. Expected(d, "heap", section, a2, addr, JobLeaf(j))
  BY <1>2, <1>4 DEF Expected
<1> QED
  BY <1>1, <1>2, <1>3, <1>6, <1>7, QuietView
-----------------------------------------------------------------------------
(* What a page of a tree translates to *)

(* Tables give all rights: those of a page are in its last entry.           *)
LEMMA RightsBelowTables ==
  ASSUME NEW e, NEW e4, NEW e3, NEW e2,
         e4.flags = Writeable, e3.flags = Writeable, e2.flags = Writeable
  PROVE  LeafOf(e.frame, Allowed(Allowed(Allowed(e4.flags, e3), e2), e))
           = LeafOf(e.frame, e.flags)
<1>1. Allowed(Allowed(e4.flags, e3), e2) = Writeable
  BY DEF Allowed, Writeable
<1> QED
  BY <1>1 DEF Allowed, Writeable, LeafOf

(* An editable page translates as its last entry says.                      *)
LEMMA WalkOfTree ==
  ASSUME NEW m, NEW place, NEW l, NEW free, Shape(m, place, l, free),
         NEW root, NEW page, Editable(place, l, root, page)
  PROVE  LET e1 == E1(m, root, page)
         IN  Walk(m, root, page) =
               IF Reached(m, root, 1, page) /\ Present(e1)
               THEN LeafOf(e1.frame, e1.flags) ELSE NoLeaf
<1> DEFINE e4 == E4(m, root, page)
           e3 == E3(m, root, page)
           e2 == E2(m, root, page)
           e1 == E1(m, root, page)
<1>1. Reached(m, root, 1, page) <=> Present(e4) /\ Present(e3) /\ Present(e2)
  BY DEF Reached
<1>2. CASE ~(Present(e4) /\ Present(e3) /\ Present(e2))
  <2>1. Walk(m, root, page) = NoLeaf
    BY <1>2, WalkOfEntries
  <2> QED
    BY <1>1, <1>2, <2>1
<1>3. CASE Present(e4) /\ Present(e3) /\ Present(e2)
  <2>1. e4.flags = Writeable /\ e3.flags = Writeable /\ e2.flags = Writeable
    BY <1>1, <1>3, WayPlaces
  <2>2. "huge" \notin e2.flags
    BY <2>1, FlagsOfTables
  <2>3. LeafOf(e1.frame, Allowed(Allowed(Allowed(e4.flags, e3), e2), e1))
          = LeafOf(e1.frame, e1.flags)
    BY <2>1, RightsBelowTables
  <2>4. Walk(m, root, page) =
          IF ~Present(e1) THEN NoLeaf
          ELSE LeafOf(e1.frame, Allowed(Allowed(Allowed(e4.flags, e3), e2), e1))
    BY <1>3, <2>2, WalkOfEntries
  <2> QED
    BY <1>1, <1>3, <2>3, <2>4
<1> QED
  BY <1>2, <1>3

(* While every entry on the way stays, so does the translation.             *)
LEMMA SameEntries ==
  ASSUME NEW m, NEW m2, NEW root, NEW page,
         E4(m2, root, page) = E4(m, root, page),
         Present(E4(m, root, page)) => E3(m2, root, page) = E3(m, root, page),
         Present(E4(m, root, page)) /\ Present(E3(m, root, page)) =>
           E2(m2, root, page) = E2(m, root, page),
         Reached(m, root, 1, page) => E1(m2, root, page) = E1(m, root, page)
  PROVE  Walk(m2, root, page) = Walk(m, root, page)
<1>1. CASE ~Reached(m, root, 1, page)
  <2>1. ~(Present(E4(m, root, page)) /\ Present(E3(m, root, page)) /\ Present(E2(m, root, page)))
    BY <1>1 DEF Reached
  <2>2. ~(Present(E4(m2, root, page)) /\ Present(E3(m2, root, page)) /\ Present(E2(m2, root, page)))
    BY <2>1
  <2>3. Walk(m, root, page) = NoLeaf
    BY <2>1, WalkOfEntries
  <2>4. Walk(m2, root, page) = NoLeaf
    BY <2>2, WalkOfEntries
  <2> QED
    BY <2>3, <2>4
<1>2. CASE Reached(m, root, 1, page)
  <2>1. Present(E4(m, root, page)) /\ Present(E3(m, root, page))
    BY <1>2 DEF Reached
  <2>2. /\ E4(m2, root, page) = E4(m, root, page) /\ E3(m2, root, page) = E3(m, root, page)
        /\ E2(m2, root, page) = E2(m, root, page) /\ E1(m2, root, page) = E1(m, root, page)
    BY <1>2, <2>1
  <2> QED
    BY <2>2, WalkOfEntries
<1> QED
  BY <1>1, <1>2

(* A way that leads to a page in a changed memory was there before, if all  *)
(* entries that point to tables are as before.                              *)
LEMMA WalkKept ==
  ASSUME NEW m, NEW place, NEW l, NEW free, Shape(m, place, l, free),
         NEW root, NEW page, Editable(place, l, root, page),
         NEW m2,
         \A f \in Frames, i \in Indices : PointsToTable(place, l, f, i) => m2[f][i] = m[f][i],
         LET t == E2(m, root, page).frame
             i == IndexAt(1, page)
         IN  Reached(m, root, 1, page) => m2[t][i] = m[t][i]
  PROVE  /\ Walk(m2, root, page) = Walk(m, root, page)
         /\ Reached(m2, root, 1, page) <=> Reached(m, root, 1, page)
         /\ E2(m2, root, page) = E2(m, root, page) \/ ~Reached(m, root, 1, page)
<1>0. /\ page \in Pages
      /\ \A k \in {2, 3, 4} : IndexAt(k, page) \in Indices
  BY IndexType DEF Editable
<1>1. ASSUME NEW k \in {2, 3, 4}, Reached(m, root, k, page)
      PROVE  m2[FrameAt(m, root, k, page)][IndexAt(k, page)]
               = m[FrameAt(m, root, k, page)][IndexAt(k, page)]
  <2>1. /\ FrameAt(m, root, k, page) \in Frames
        /\ PointsToTable(place, l, FrameAt(m, root, k, page), IndexAt(k, page))
    BY <1>1, WayLevels
  <2> QED
    BY <1>0, <2>1
<1>2. E4(m2, root, page) = E4(m, root, page)
  <2>1. Reached(m, root, 4, page) /\ FrameAt(m, root, 4, page) = root
    BY DEF Reached, FrameAt
  <2> QED
    BY <1>1, <2>1 DEF E4
<1>3. ASSUME Present(E4(m, root, page)) PROVE E3(m2, root, page) = E3(m, root, page)
  <2>1. Reached(m, root, 3, page) /\ FrameAt(m, root, 3, page) = E4(m, root, page).frame
    BY <1>3 DEF Reached, FrameAt
  <2> QED
    BY <1>1, <1>2, <2>1 DEF E3
<1>4. ASSUME Present(E4(m, root, page)), Present(E3(m, root, page))
      PROVE  E2(m2, root, page) = E2(m, root, page)
  <2>1. Reached(m, root, 2, page) /\ FrameAt(m, root, 2, page) = E3(m, root, page).frame
    BY <1>4 DEF Reached, FrameAt
  <2> QED
    BY <1>1, <1>3, <1>4, <2>1 DEF E2
<1>5. ASSUME Reached(m, root, 1, page) PROVE E1(m2, root, page) = E1(m, root, page)
  <2>1. Present(E4(m, root, page)) /\ Present(E3(m, root, page))
    BY <1>5 DEF Reached
  <2> QED
    BY <1>4, <1>5, <2>1 DEF E1
<1>6. Reached(m2, root, 1, page) <=> Reached(m, root, 1, page)
  BY <1>2, <1>3, <1>4 DEF Reached
<1>7. E2(m2, root, page) = E2(m, root, page) \/ ~Reached(m, root, 1, page)
  BY <1>4 DEF Reached
<1> QED
  BY <1>2, <1>3, <1>4, <1>5, <1>6, <1>7, SameEntries

(* A store to the last entry of one page changes that page's translation    *)
(* and no other's.                                                          *)
LEMMA WalkAfterLeaf ==
  ASSUME NEW m, NEW place, NEW l, NEW free, Shape(m, place, l, free),
         NEW r, NEW p, Editable(place, l, r, p), Reached(m, r, 1, p),
         NEW e \in Entries,
         NEW s, NEW q, Editable(place, l, s, q)
  PROVE  LET m2 == Put(m, E2(m, r, p).frame, IndexAt(1, p), e)
         IN  /\ (r # s \/ p # q) => Walk(m2, s, q) = Walk(m, s, q)
             /\ Walk(m2, r, p) = IF Present(e) THEN LeafOf(e.frame, e.flags) ELSE NoLeaf
<1> DEFINE g == E2(m, r, p).frame
           i == IndexAt(1, p)
           m2 == Put(m, g, i, e)
<1>0. m \in Memory /\ p \in Pages /\ q \in Pages
  BY DEF Shape, Editable
<1>1. g \in Frames /\ place[g].level = 1
  <2> DEFINE k == 1
  <2>1. k \in 1 .. 4 /\ Reached(m, r, k, p) /\ FrameAt(m, r, k, p) = g
    BY DEF FrameAt
  <2> HIDE DEF k, g
  <2>2. FrameAt(m, r, k, p) \in Frames /\ place[FrameAt(m, r, k, p)].level = k
    BY <2>1, WayLevels
  <2> QED
    BY <2>1, <2>2 DEF k
<1>2. i \in Indices
  BY <1>0, IndexType
<1>3. /\ m2[g][i] = e
      /\ \A f \in Frames, j \in Indices : f # g \/ j # i => m2[f][j] = m[f][j]
  BY <1>0, <1>1, <1>2, PutEffect
<1>4. Shape(m2, place, l, free)
  BY <1>1, <1>2, LeafStore
<1> HIDE DEF m2, g, i
<1>5. \A f \in Frames, j \in Indices : PointsToTable(place, l, f, j) => m2[f][j] = m[f][j]
  BY <1>1, <1>3 DEF PointsToTable
<1>6. ASSUME r # s \/ p # q PROVE Walk(m2, s, q) = Walk(m, s, q)
  <2> DEFINE t == E2(m, s, q).frame
             j == IndexAt(1, q)
  <2>1. ASSUME Reached(m, s, 1, q) PROVE m2[t][j] = m[t][j]
    <3>1. t # g \/ j # i
      <4>1. ASSUME t = g PROVE r = s /\ i # j
        <5>1. E2(m, r, p).frame = E2(m, s, q).frame
          BY <4>1 DEF g
        <5> QED
          BY <1>6, <2>1, <5>1, WaysApart DEF i
      <4> QED
        BY <4>1
    <3>2. t \in Frames
      BY <2>1, WayPlaces
    <3>3. j \in Indices
      BY <1>0, IndexType
    <3> QED
      BY <1>3, <3>1, <3>2, <3>3
  <2> QED
    BY <1>5, <2>1, WalkKept
<1>7. Walk(m2, r, p) = IF Present(e) THEN LeafOf(e.frame, e.flags) ELSE NoLeaf
  <2> DEFINE k == 1
  <2>1. /\ k \in 1 .. 4 /\ Reached(m, r, k, p) /\ FrameAt(m, r, k, p) = g
        /\ Kept(m, m2, place, l)
    BY <1>5 DEF FrameAt, g, Kept
  <2> HIDE DEF k
  <2>2. Reached(m2, r, k, p) /\ FrameAt(m2, r, k, p) = g
    BY <2>1, WayKept
  <2>3. Reached(m2, r, 1, p) /\ E2(m2, r, p).frame = g
    BY <2>2 DEF k, FrameAt
  <2>4. E1(m2, r, p) = e
    BY <1>3, <2>3 DEF E1, i
  <2> QED
    BY <1>4, <2>3, <2>4, WalkOfTree
<1> QED
  BY <1>6, <1>7 DEF m2, g, i

(* A store to a root's entry for the recursion changes no translation.      *)
LEMMA WalkAfterRecursion ==
  ASSUME NEW m, NEW place, NEW l, NEW free, Shape(m, place, l, free),
         NEW g \in Frames, place[g].level = 4, NEW e \in Entries,
         NEW root, NEW page, Editable(place, l, root, page)
  PROVE  Walk(Put(m, g, RecursiveIndex, e), root, page) = Walk(m, root, page)
<1> DEFINE m2 == Put(m, g, RecursiveIndex, e)
<1>0. m \in Memory /\ page \in Pages /\ RecursiveIndex \in Indices
  BY ConstantFacts DEF Shape, Editable
<1>1. \A f \in Frames, j \in Indices : f # g \/ j # RecursiveIndex => m2[f][j] = m[f][j]
  BY <1>0, PutEffect
<1> HIDE DEF m2
<1>2. \A f \in Frames, j \in Indices : PointsToTable(place, l, f, j) => m2[f][j] = m[f][j]
  BY <1>1 DEF PointsToTable
<1> DEFINE t == E2(m, root, page).frame
           i == IndexAt(1, page)
<1>3. ASSUME Reached(m, root, 1, page) PROVE m2[t][i] = m[t][i]
  <2>1. t \in Frames /\ place[t].level = 1
    <3> DEFINE k == 1
    <3>1. k \in 1 .. 4 /\ Reached(m, root, k, page) /\ FrameAt(m, root, k, page) = t
      BY <1>3 DEF FrameAt
    <3> HIDE DEF k, t
    <3>2. FrameAt(m, root, k, page) \in Frames /\ place[FrameAt(m, root, k, page)].level = k
      BY <3>1, WayLevels
    <3> QED
      BY <3>1, <3>2 DEF k
  <2>2. i \in Indices
    BY <1>0, IndexType
  <2> QED
    BY <1>1, <2>1, <2>2
<1>4. Walk(m2, root, page) = Walk(m, root, page)
  BY <1>2, <1>3, WalkKept
<1> QED
  BY <1>4 DEF m2

(* Nor does a free frame that becomes a table: it is empty.                 *)
LEMMA WalkAfterTable ==
  ASSUME NEW m, NEW place, NEW l, NEW free, Shape(m, place, l, free),
         NEW g \in Frames, NEW i \in Indices, PointsToTable(place, l, g, i),
         ~Present(m[g][i]),
         NEW f \in free,
         NEW root, NEW page, Editable(place, l, root, page)
  PROVE  Walk(Put(m, g, i, EntryFor(f, Writeable)), root, page) = Walk(m, root, page)
<1> DEFINE e == EntryFor(f, Writeable)
           m2 == Put(m, g, i, e)
<1>0. /\ m \in Memory /\ LayoutOK(l) /\ FreeFrames(m, place, free) /\ free \subseteq l.free
      /\ page \in Pages /\ root \in Frames
      /\ \A k \in {1, 2, 3, 4} : IndexAt(k, page) \in Indices
  BY IndexType DEF Shape, Editable
<1>1. /\ f \in Frames /\ m[f] = EmptyTable /\ g # f
  BY <1>0 DEF LayoutOK, FreeFrames, PointsToTable
<1>2. e \in Entries /\ e.frame = f
  BY <1>1, FlagsOfTables DEF EntryFor, Entries
<1>3. /\ m2 \in Memory
      /\ m2[g][i] = e
      /\ \A h \in Frames : h # g => m2[h] = m[h]
      /\ \A h \in Frames, j \in Indices : h # g \/ j # i => m2[h][j] = m[h][j]
  BY <1>0, <1>2, PutEffect
<1>4. \E place2 : /\ Shape(m2, place2, l, free \ {f})
                  /\ \A h \in Frames : place[h].level # 0 => place2[h] = place[h]
  <2>1. PICK place2 : Placed(m2, place2, place, l, free, f, Child(place, g, i))
    BY TableStore
  <2>2. place[f].level = 0
    BY <1>0 DEF FreeFrames
  <2> QED
    BY <2>1, <2>2 DEF Placed
<1> HIDE DEF m2, e
<1>5. m2[f] = EmptyTable
  BY <1>1, <1>3
<1>6. ASSUME NEW h \in Frames, NEW j \in Indices, Present(m[h][j]) PROVE m2[h][j] = m[h][j]
  BY <1>3, <1>6
<1>7. ASSUME NEW h \in Frames, NEW j \in Indices, Present(m2[h][j]), m2[h][j].frame # f
      PROVE  m[h][j] = m2[h][j]
  BY <1>2, <1>3, <1>7
<1>8. \A j \in Indices : ~Present(m2[f][j])
  BY <1>5, EmptyTableType
<1> DEFINE e4 == E4(m, root, page)
           e3 == E3(m, root, page)
           e2 == E2(m, root, page)
           e1 == E1(m, root, page)
           d4 == E4(m2, root, page)
           d3 == E3(m2, root, page)
           d2 == E2(m2, root, page)
           d1 == E1(m2, root, page)
<1>9. ASSUME Present(e4), Present(e3), Present(e2), Present(e1)
      PROVE  d4 = e4 /\ d3 = e3 /\ d2 = e2 /\ d1 = e1
  <2>1. d4 = e4
    BY <1>0, <1>6, <1>9 DEF E4
  <2>2. e4.frame \in Frames
    BY <1>0, EntryType DEF E4
  <2>3. d3 = e3
    BY <1>0, <1>6, <1>9, <2>1, <2>2 DEF E3
  <2>4. e3.frame \in Frames
    BY <1>0, <2>2, EntryType DEF E3
  <2>5. d2 = e2
    BY <1>0, <1>6, <1>9, <2>3, <2>4 DEF E2
  <2>6. e2.frame \in Frames
    BY <1>0, <2>4, EntryType DEF E2
  <2>7. d1 = e1
    BY <1>0, <1>6, <1>9, <2>5, <2>6 DEF E1
  <2> QED
    BY <2>1, <2>3, <2>5, <2>7
<1>10. ASSUME Present(d4), Present(d3), Present(d2), Present(d1)
       PROVE  Present(e4) /\ Present(e3) /\ Present(e2) /\ Present(e1)
  <2>1. d4.frame \in Frames /\ d4.frame # f
    BY <1>0, <1>3, <1>8, <1>10, EntryType DEF E4, E3
  <2>2. d3.frame \in Frames /\ d3.frame # f
    BY <1>0, <1>3, <1>8, <1>10, <2>1, EntryType DEF E3, E2
  <2>3. d2.frame \in Frames /\ d2.frame # f
    BY <1>0, <1>3, <1>8, <1>10, <2>2, EntryType DEF E2, E1
  <2>4. e4 = d4
    BY <1>0, <1>7, <1>10, <2>1 DEF E4
  <2>5. e3 = d3
    BY <1>0, <1>7, <1>10, <2>1, <2>2, <2>4 DEF E3
  <2>6. e2 = d2
    BY <1>0, <1>7, <1>10, <2>2, <2>3, <2>5 DEF E2
  <2>7. Present(e1)
    <3>1. e1 = m[d2.frame][IndexAt(1, page)] /\ d1 = m2[d2.frame][IndexAt(1, page)]
      BY <2>6 DEF E1
    <3>2. d2.frame # g
      <4>1. PICK place2 : /\ Shape(m2, place2, l, free \ {f})
                          /\ \A h \in Frames : place[h].level # 0 => place2[h] = place[h]
        BY <1>4
      <4>2. place[g].level \in 2 .. 4 /\ place[root].level = 4
        BY DEF PointsToTable, Editable
      <4>3. Editable(place2, l, root, page) /\ place2[g] = place[g]
        BY <1>0, <4>1, <4>2 DEF Editable
      <4>4. Reached(m2, root, 1, page)
        BY <1>10 DEF Reached
      <4>5. place2[d2.frame].level = 1
        <5> DEFINE k == 1
        <5>1. k \in 1 .. 4 /\ Reached(m2, root, k, page) /\ FrameAt(m2, root, k, page) = d2.frame
          BY <4>4 DEF FrameAt
        <5> HIDE DEF k
        <5>2. place2[FrameAt(m2, root, k, page)].level = k
          BY <4>1, <4>3, <5>1, WayLevels
        <5> QED
          BY <5>1, <5>2 DEF k
      <4> QED
        BY <4>2, <4>3, <4>5
    <3> QED
      BY <1>0, <1>3, <1>10, <2>3, <3>1, <3>2
  <2> QED
    BY <1>10, <2>4, <2>5, <2>6, <2>7
<1>11. /\ Reached(m, root, 1, page) <=> Present(e4) /\ Present(e3) /\ Present(e2)
       /\ Reached(m2, root, 1, page) <=> Present(d4) /\ Present(d3) /\ Present(d2)
  BY DEF Reached
<1>12. Walk(m, root, page) =
         IF Reached(m, root, 1, page) /\ Present(e1) THEN LeafOf(e1.frame, e1.flags) ELSE NoLeaf
  BY WalkOfTree
<1>13. Walk(m2, root, page) =
         IF Reached(m2, root, 1, page) /\ Present(d1) THEN LeafOf(d1.frame, d1.flags) ELSE NoLeaf
  <2>1. PICK place2 : /\ Shape(m2, place2, l, free \ {f})
                      /\ \A h \in Frames : place[h].level # 0 => place2[h] = place[h]
    BY <1>4
  <2>2. Editable(place2, l, root, page)
    BY <1>0, <2>1 DEF Editable
  <2> HIDE DEF d1
  <2> QED
    BY <2>1, <2>2, WalkOfTree DEF d1
<1> HIDE DEF e1, e2, e3, e4, d1, d2, d3, d4
<1>14. Walk(m2, root, page) = Walk(m, root, page)
  BY <1>9, <1>10, <1>11, <1>12, <1>13
<1> QED
  BY <1>14 DEF m2, e
-----------------------------------------------------------------------------
(* Steps that change the tables *)

(* From the time the new root is cleared all but the window's pages can be  *)
(* edited below it.                                                         *)
LEMMA NewTree ==
  ASSUME NEW place, Inv(place), At \in Cleared
  PROVE  /\ new_p4 \in Frames /\ place[new_p4].level = 4 /\ new_p4 # d.p4
         /\ \A page \in OrdinaryPages : Editable(place, d, new_p4, page)
<1>1. At \notin {"start", "map_old"}
  BY Phases
<1>2. pc # "start" /\ ~Doomed
  BY <1>1 DEF At, AtOf, Doomed
<1>3. new_p4 \in Frames /\ place[new_p4].level = 4 /\ new_p4 # d.p4
  BY <1>2 DEF Inv, Roots, Types
<1> QED
  BY <1>3 DEF Editable, OrdinaryPages

(* A step that leaves the translations of the new tables alone.             *)
LEMMA SameWalksView ==
  ASSUME View, At \in Cleared,
         UNCHANGED <<d, new_p4>>,
         \A page \in OrdinaryPages : Walk(mem', new_p4, page) = Walk(mem, new_p4, page),
         \A page \in OrdinaryPages : (Pending' => page # job'.page) =>
           /\ Pending => page # job.page
           /\ \A t : Expected(d, At, section, addr, page, t)
                       => Expected(d, At', section', addr', page, t),
         Pending' => Expected(d, At', section', addr', job'.page, JobLeaf(job'))
  PROVE  View'
BY DEF View

(* A job that goes on.                                                      *)
LEMMA JobView ==
  ASSUME View, pc = "job", pc' = "job",
         job'.then = job.then, job'.page = job.page, job'.frame = job.frame,
         job'.flags = job.flags, job'.unmap = job.unmap,
         UNCHANGED <<d, new_p4, section, addr>>,
         At \in Cleared =>
           \A page \in OrdinaryPages : Walk(mem', new_p4, page) = Walk(mem, new_p4, page)
  PROVE  View'
<1>1. At = job.then /\ At' = At
  BY DEF At, AtOf
<1>2. Pending' <=> Pending
  BY <1>1 DEF Pending
<1>3. JobLeaf(job') = JobLeaf(job)
  BY DEF JobLeaf
<1>4. CASE At \in Cleared
  BY <1>1, <1>2, <1>3, <1>4, SameWalksView DEF View
<1>5. CASE At \notin Cleared
  BY <1>1, <1>5 DEF View
<1> QED
  BY <1>4, <1>5

(* A level down.                                                            *)
LEMMA DescendView ==
  ASSUME NEW place, Inv(place), View, Descend
  PROVE  View'
<1>1. /\ pc = "job" /\ pc' = "job" /\ job.level > 1 /\ DownOneLevel
      /\ UNCHANGED <<d, mem, new_p4, section, addr>>
  BY DEF Descend, OnTheWay
<1>2. /\ job'.page = job.page /\ job'.frame = job.frame /\ job'.flags = job.flags
      /\ job'.unmap = job.unmap /\ job'.then = job.then
  BY <1>1, Downwards
<1> QED
  BY <1>1, <1>2, JobView

(* A table that is made changes no translation.                             *)
LEMMA CreateTableWalks ==
  ASSUME NEW place, Inv(place), CreateTable, At \in Cleared, NEW page \in OrdinaryPages
  PROVE  Walk(mem', new_p4, page) = Walk(mem, new_p4, page)
<1>1. pc = "job" /\ job.level > 1 /\ ~Present(EntryAtIndex)
  BY DEF CreateTable, NeedsTable, OnTheWay
<1>2. PICK f \in pool : mem' = Put(mem, Table, Index, EntryFor(f, Writeable))
  <2>1. PICK f \in pool : mem' = Stored(job.table, Index, EntryFor(f, Writeable))
    BY DEF CreateTable, NeedsTable, OnTheWay
  <2> QED
    BY <1>1, <2>1, JobTable
<1>3. /\ Shape(mem, place, d, pool) /\ Table \in Frames /\ Index \in Indices
      /\ PointsToTable(place, d, Table, Index) /\ ~Present(mem[Table][Index])
  BY <1>1, JobTable DEF Inv
<1>4. Editable(place, d, new_p4, page)
  BY NewTree
<1> DEFINE g == Table
           i == Index
<1>5. /\ g \in Frames /\ i \in Indices
      /\ PointsToTable(place, d, g, i) /\ ~Present(mem[g][i])
  BY <1>3
<1> HIDE DEF g, i
<1>6. Walk(Put(mem, g, i, EntryFor(f, Writeable)), new_p4, page) = Walk(mem, new_p4, page)
  BY <1>3, <1>4, <1>5, WalkAfterTable
<1> QED
  BY <1>2, <1>6 DEF g, i

(* A table is made.                                                         *)
LEMMA CreateTableView ==
  ASSUME NEW place, Inv(place), View, CreateTable
  PROVE  View'
<1>1. /\ pc = "job" /\ pc' = "job" /\ job.level > 1 /\ DownOneLevel
      /\ UNCHANGED <<d, new_p4, section, addr>>
  BY DEF CreateTable, NeedsTable, OnTheWay
<1>2. /\ job'.page = job.page /\ job'.frame = job.frame /\ job'.flags = job.flags
      /\ job'.unmap = job.unmap /\ job'.then = job.then
  BY <1>1, Downwards
<1> QED
  BY <1>1, <1>2, CreateTableWalks, JobView

(* What a page of a job ends with is in its last entry, and no other page   *)
(* is touched.                                                              *)
LEMMA LeafWalks ==
  ASSUME NEW place, Inv(place), At \in Cleared, pc = "job", job.level = 1,
         NEW e \in Entries,
         mem' = Put(mem, Table, Index, e),
         pc' = job.then, UNCHANGED job
  PROVE  /\ At = job.then /\ At' = At /\ ~Pending'
         /\ \A page \in OrdinaryPages :
              (Pending => page # job.page) =>
                Walk(mem', new_p4, page) = Walk(mem, new_p4, page)
         /\ Pending => Walk(mem', new_p4, job.page)
                         = IF Present(e) THEN LeafOf(e.frame, e.flags) ELSE NoLeaf
<1>1. /\ Shape(mem, place, d, pool)
      /\ Editable(place, d, Target, job.page) /\ Reached(mem, Target, 1, job.page)
      /\ job.then \in Callers
  BY DEF Inv, JobOK
<1>2. At = job.then /\ At' = At /\ ~Pending'
  BY <1>1 DEF At, AtOf, Pending, Callers
<1> DEFINE m2 == Put(mem, E2(mem, Target, job.page).frame, IndexAt(1, job.page), e)
<1>3. mem' = m2
  BY DEF Table, Index, FrameAt
<1>4. \A page \in OrdinaryPages : Editable(place, d, new_p4, page)
  BY NewTree
<1>5. Pending <=> Target = new_p4
  <2>1. cr3 = (IF At \in Settled THEN new_p4 ELSE d.p4) /\ new_p4 # d.p4
    BY NewTree DEF Inv, Roots
  <2>2. At \in {"pages", "multiboot", "switch", "heap"}
    BY <1>1, <1>2, Phases DEF Callers
  <2> QED
    BY <2>1, <2>2 DEF Pending, Target, TargetOf, FillingNew, Settled
<1>6. ASSUME NEW page \in OrdinaryPages, Pending => page # job.page
      PROVE  Walk(mem', new_p4, page) = Walk(mem, new_p4, page)
  <2>1. Target # new_p4 \/ job.page # page
    BY <1>5, <1>6
  <2>2. Walk(m2, new_p4, page) = Walk(mem, new_p4, page)
    BY <1>1, <1>4, <2>1, WalkAfterLeaf
  <2> QED
    BY <1>3, <2>2
<1>7. ASSUME Pending
      PROVE  Walk(mem', new_p4, job.page)
               = IF Present(e) THEN LeafOf(e.frame, e.flags) ELSE NoLeaf
  <2>1. Walk(m2, Target, job.page) = IF Present(e) THEN LeafOf(e.frame, e.flags) ELSE NoLeaf
    BY <1>1, WalkAfterLeaf
  <2> QED
    BY <1>3, <1>5, <1>7, <2>1
<1> QED
  BY <1>2, <1>6, <1>7

(* So it is what is expected of that page.                                  *)
LEMMA LeafView ==
  ASSUME NEW place, Inv(place), View, pc = "job", job.level = 1,
         NEW e \in Entries,
         JobLeaf(job) = IF Present(e) THEN LeafOf(e.frame, e.flags) ELSE NoLeaf,
         mem' = Put(mem, Table, Index, e),
         pc' = job.then,
         UNCHANGED <<d, cr3, job, new_p4, section, addr>>
  PROVE  View'
<1>1. CASE At \notin Cleared
  <2>1. job.then \in Callers
    BY DEF Inv, JobOK
  <2>2. At' = At
    BY <2>1 DEF At, AtOf, Callers
  <2> QED
    BY <1>1, <2>2 DEF View
<1>2. CASE At \in Cleared
  <2>1. /\ At' = At /\ ~Pending'
        /\ \A page \in OrdinaryPages :
             (Pending => page # job.page) =>
               Walk(mem', new_p4, page) = Walk(mem, new_p4, page)
        /\ Pending => Walk(mem', new_p4, job.page) = JobLeaf(job)
    BY <1>2, LeafWalks
  <2>2. SUFFICES ASSUME NEW page \in OrdinaryPages
                 PROVE  Expected(d, At, section, addr, page, Walk(mem', new_p4, page))
    BY <2>1 DEF View
  <2>3. CASE Pending /\ page = job.page
    BY <1>2, <2>1, <2>3 DEF View
  <2>4. CASE ~(Pending /\ page = job.page)
    BY <1>2, <2>1, <2>4 DEF View
  <2> QED
    BY <2>3, <2>4
<1> QED
  BY <1>1, <1>2

(* The end of map_page_to_frame.                                            *)
LEMMA SetLeafView ==
  ASSUME NEW place, Inv(place), View, SetLeaf
  PROVE  View'
<1> DEFINE e == EntryFor(job.frame, job.flags)
<1>1. /\ pc = "job" /\ job.level = 1 /\ ~job.unmap
      /\ mem' = Stored(job.table, Index, e)
      /\ pc' = job.then
      /\ UNCHANGED <<d, cr3, job, new_p4, section, addr>>
  BY DEF SetLeaf
<1>2. e \in Entries /\ e.frame = job.frame /\ e.flags = job.flags
  BY JobFields DEF Inv, Types, EntryFor, Entries, JobFlags, Flags
<1>3. Present(e)
  BY <1>1 DEF Inv, JobOK, EntryFor, Present
<1>4. mem' = Put(mem, Table, Index, e)
  BY <1>1, JobTable
<1> HIDE DEF e
<1>5. JobLeaf(job) = LeafOf(e.frame, e.flags)
  BY <1>1, <1>2 DEF JobLeaf
<1> QED
  BY <1>1, <1>2, <1>3, <1>4, <1>5, LeafView

(* The end of unmap_page.                                                   *)
LEMMA ClearLeafView ==
  ASSUME NEW place, Inv(place), View, ClearLeaf
  PROVE  View'
<1>1. /\ pc = "job" /\ job.level = 1 /\ job.unmap
      /\ mem' = Stored(job.table, Index, Unused)
      /\ pc' = job.then
      /\ UNCHANGED <<d, cr3, job, new_p4, section, addr>>
  BY DEF ClearLeaf
<1>2. Unused \in Entries /\ ~Present(Unused)
  BY EmptyTableType DEF Unused, Present
<1>3. mem' = Put(mem, Table, Index, Unused)
  BY <1>1, JobTable
<1>4. JobLeaf(job) = NoLeaf
  BY <1>1 DEF JobLeaf
<1> QED
  BY <1>1, <1>2, <1>3, <1>4, LeafView

(* The new root is cleared: nothing is mapped, and nothing should be.       *)
LEMMA ClearNewRootView ==
  ASSUME NEW place, Inv(place), Counts, ClearNewRoot
  PROVE  View'
<1>1. /\ pc = "clear" /\ pc' = "recurse_new"
      /\ mem' = [mem EXCEPT ![Translation(NewP4Page).frame] = EmptyTable]
      /\ UNCHANGED <<d, job, new_p4, section, addr>>
  BY DEF ClearNewRoot
<1>2. At = "clear" /\ At' = "recurse_new" /\ ~Pending'
  BY <1>1 DEF At, AtOf, Pending
<1>3. Translation(NewP4Page).frame = new_p4
  BY <1>2, TemporaryFrames DEF NewRootMapped
<1>4. section = 0
  BY <1>2 DEF Counts, BuildingOld
<1>5. mem'[new_p4] = EmptyTable
  BY <1>1, <1>3, Places4 DEF Inv, Shape, Memory
<1>6. SUFFICES ASSUME NEW page \in OrdinaryPages
               PROVE  Expected(d, "recurse_new", section, addr, page, Walk(mem', new_p4, page))
  BY <1>1, <1>2 DEF View
<1>7. Walk(mem', new_p4, page) = NoLeaf
  <2>1. IndexAt(4, page) \in Indices
    BY IndexType, PageIsNat
  <2>2. ~Present(E4(mem', new_p4, page))
    BY <1>5, <2>1, EmptyTableType DEF E4
  <2> QED
    BY <2>2, WalkOfEntries
<1>8. Holding(d, "recurse_new", section, addr, page) = {}
  BY <1>4 DEF Holding, SectionDone
<1>9. /\ ~InStructure(d, "recurse_new", addr, page)
      /\ "recurse_new" \notin {"heap", "done", "multiboot"} \cup AfterMultiboot
  BY Phases DEF InStructure
<1> QED
  BY <1>7, <1>8, <1>9 DEF Expected

(* The stores to the entries for the recursion.                             *)
LEMMA RecursionView ==
  ASSUME NEW place, Inv(place), View, pc \in Cleared, pc # "job",
         pc' # "job",
         NEW g \in Frames, place[g].level = 4, NEW f \in Frames,
         mem' = Put(mem, g, RecursiveIndex, EntryFor(f, Writeable)),
         UNCHANGED <<d, new_p4, section, addr>>,
         \A page \in OrdinaryPages : \A t :
           Expected(d, pc, section, addr, page, t) => Expected(d, pc', section, addr, page, t)
  PROVE  View'
<1>1. ~Pending /\ ~Pending' /\ At = pc /\ At' = pc'
  BY DEF Pending, At, AtOf
<1>2. EntryFor(f, Writeable) \in Entries /\ Shape(mem, place, d, pool)
  BY FlagsOfTables DEF EntryFor, Entries, Inv
<1>3. ASSUME NEW page \in OrdinaryPages
      PROVE  Walk(mem', new_p4, page) = Walk(mem, new_p4, page)
  <2>1. Editable(place, d, new_p4, page)
    BY <1>1, NewTree
  <2> DEFINE e == EntryFor(f, Writeable)
  <2>2. e \in Entries
    BY <1>2
  <2>3. mem' = Put(mem, g, RecursiveIndex, e)
    OBVIOUS
  <2> HIDE DEF e
  <2>4. Walk(Put(mem, g, RecursiveIndex, e), new_p4, page) = Walk(mem, new_p4, page)
    BY <1>2, <2>1, <2>2, WalkAfterRecursion
  <2> QED
    BY <2>3, <2>4
<1> QED
  BY <1>1, <1>3, SameWalksView

(* The new root's, ...                                                      *)
LEMMA MakeNewRecursiveView ==
  ASSUME NEW place, Inv(place), View, MakeNewRecursive
  PROVE  View'
<1>1. /\ pc = "recurse_new" /\ pc' = "recurse_old" /\ pc \in Cleared
      /\ mem' = Stored(NewP4Page, RecursiveIndex, EntryFor(new_p4, Writeable))
      /\ UNCHANGED <<d, new_p4, section, addr>>
  BY Phases DEF MakeNewRecursive, StoreRecursion
<1>2. At = pc
  BY <1>1 DEF At, AtOf
<1>3. Translation(NewP4Page).frame = new_p4
  BY <1>1, <1>2, TemporaryFrames DEF NewRootMapped
<1>4. mem' = Put(mem, new_p4, RecursiveIndex, EntryFor(new_p4, Writeable))
  BY <1>1, <1>3 DEF Stored, Put
<1>5. new_p4 \in Frames /\ place[new_p4].level = 4
  BY <1>1, <1>2, NewTree
<1>6. \A page, t : Expected(d, "recurse_new", section, addr, page, t)
                     => Expected(d, "recurse_old", section, addr, page, t)
  BY ExpectedPhase
<1> QED
  BY <1>1, <1>4, <1>5, <1>6, RecursionView

(* ... the old root's to the new one, ...                                   *)
LEMMA PointOldAtNewView ==
  ASSUME NEW place, Inv(place), View, PointOldAtNew
  PROVE  View'
<1>1. /\ pc = "recurse_old" /\ pc' = "flush_recursion" /\ pc \in Cleared
      /\ mem' = Stored(p4_table, RecursiveIndex, EntryFor(new_p4, Writeable))
      /\ UNCHANGED <<d, new_p4, section, addr>>
  BY Phases DEF PointOldAtNew, StoreRecursion
<1>2. At = pc
  BY <1>1 DEF At, AtOf
<1>3. Target \in Frames /\ place[Target].level = 4 /\ new_p4 \in Frames
  BY Places4
<1>4. mem' = Put(mem, Target, RecursiveIndex, EntryFor(new_p4, Writeable))
  BY <1>1, RootTranslates DEF Stored, Put
<1>5. \A page, t : Expected(d, "recurse_old", section, addr, page, t)
                     => Expected(d, "flush_recursion", section, addr, page, t)
  BY ExpectedPhase
<1> QED
  BY <1>1, <1>3, <1>4, <1>5, RecursionView

(* ... and back: the loop over the structure has come to its bound.         *)
LEMMA RestoreOldRootView ==
  ASSUME NEW place, Inv(place), View, Counts, RestoreOldRoot
  PROVE  View'
<1>1. /\ pc = "multiboot" /\ pc' = "flush_restored" /\ pc \in Cleared
      /\ addr > MultibootBound
      /\ mem' = Stored(OldP4Page, RecursiveIndex, EntryFor(d.p4, Writeable))
      /\ UNCHANGED <<d, new_p4, section, addr>>
  BY Phases DEF RestoreOldRoot, StoreRecursion
<1>2. At = pc
  BY <1>1 DEF At, AtOf
<1>3. Translation(OldP4Page).frame = d.p4
  BY <1>1, <1>2, TemporaryFrames DEF OldRootMapped, FillingNew
<1>4. mem' = Put(mem, d.p4, RecursiveIndex, EntryFor(d.p4, Writeable))
  BY <1>1, <1>3 DEF Stored, Put
<1>5. d.p4 \in Frames /\ place[d.p4].level = 4
  BY Places4
<1>6. ASSUME NEW page \in OrdinaryPages, NEW t, Expected(d, "multiboot", section, addr, page, t)
      PROVE  Expected(d, "flush_restored", section, addr, page, t)
  <2>1. PICK n \in Nat : addr = d.start + n * PAGE_SIZE
    BY <1>1, <1>2 DEF Counts
  <2>2. addr = d.start \/ addr <= MultibootBound + PAGE_SIZE
    BY <1>1, <1>2 DEF Counts
  <2> DEFINE c == MultibootBound
  <2>3. d.start \in Nat /\ c \in Nat /\ d.start <= c /\ addr \in Nat /\ BoundOf(d) = c
    BY DEF Inv, Shape, LayoutOK, Types, MultibootBound, BoundOf, SizeOfMultibootStart
  <2>4. addr > c /\ addr <= c + PAGE_SIZE
    BY <1>1, <2>2, <2>3
  <2> HIDE DEF c
  <2>5. Loop(d.start, addr, page) <=> Loop(d.start, c + 1, page)
    BY <2>1, <2>3, <2>4, LoopEnds, PageIsNat
  <2>6. InStructure(d, "flush_restored", addr, page) <=> InStructure(d, "multiboot", addr, page)
    BY <2>3, <2>5, Phases DEF InStructure
  <2>7. \A i \in 1 .. Len(d.sections) :
          SectionDone(d, "flush_restored", section, addr, i, page)
            <=> SectionDone(d, "multiboot", section, addr, i, page)
    BY DEF SectionDone
  <2> QED
    BY <1>6, <2>6, <2>7, ExpectedSame, Phases
<1> QED
  BY <1>1, <1>4, <1>5, <1>6, RecursionView
-----------------------------------------------------------------------------
(* Where the loops are *)

(* Steps that neither end a loop nor leave one.                             *)
LEMMA SameCounts ==
  ASSUME Counts, At' = At, pc' # "done", UNCHANGED <<d, section, addr>>,
         Pending' => Pending /\ job'.page = job.page
  PROVE  Counts'
BY DEF Counts, Section, MultibootBound

(* A job's own steps do not.                                                *)
LEMMA MapOrUnmapCounts ==
  ASSUME NEW place, Inv(place), Counts, MapOrUnmap, ~NullTable
  PROVE  Counts'
<1>1. /\ pc = "job" /\ UNCHANGED <<d, section, addr>>
      /\ \/ pc' = "job" /\ job'.then = job.then /\ job'.page = job.page
         \/ pc' = job.then
  <2>1. CASE Descend
    BY <2>1, Downwards DEF Descend, OnTheWay
  <2>2. CASE CreateTable
    BY <2>2, Downwards DEF CreateTable, NeedsTable, OnTheWay
  <2>3. CASE SetLeaf \/ ClearLeaf
    BY <2>3 DEF SetLeaf, ClearLeaf
  <2> QED
    BY <2>1, <2>2, <2>3 DEF MapOrUnmap
<1>2. job.then \in Callers
  BY <1>1 DEF Inv, JobOK
<1>3. At' = At /\ pc' # "done"
  BY <1>1, <1>2 DEF At, AtOf, Callers
<1>4. Pending' => Pending /\ job'.page = job.page
  BY <1>1, <1>2 DEF Pending, At, AtOf, Callers
<1> QED
  BY <1>1, <1>3, <1>4, SameCounts

(* Steps to where nothing is counted but the sections.                      *)
LEMMA PlainCounts ==
  ASSUME Counts, UNCHANGED <<d, section>>,
         At' \in BuildingOld \cup {"flush_recursion"} =>
           At \in BuildingOld \cup {"flush_recursion"},
         At' \in AfterMultiboot => At \in {"multiboot"} \cup AfterMultiboot,
         At' \notin {"pages", "multiboot"},
         pc' = "done" => addr' = HeapStart + HeapPages,
         At' = "heap" /\ Pending' => job'.page \in HeapRange \cup {d.p4}
  PROVE  Counts'
BY DEF Counts

(* The steps of the loops over sections.                                    *)
LEMMA MapSectionsCounts ==
  ASSUME NEW place, Inv(place), Counts, MapSections
  PROVE  Counts'
<1>1. CASE SkipSection
  <2>1. pc' = "sections"
    BY <1>1 DEF SkipSection, AtSection
  <2> QED
    BY <2>1, Phases DEF Counts, At, AtOf, BuildingOld
<1>2. CASE AssertFails
  <2>1. pc' = "assert"
    BY <1>2 DEF AssertFails
  <2> QED
    BY <2>1, Phases DEF Counts, At, AtOf, BuildingOld
<1>3. CASE BeginSection
  <2>1. /\ pc = "sections" /\ pc' = "pages" /\ section < Len(d.sections)
        /\ SectionAsserts(Section) /\ addr' = Section.sh_addr
        /\ UNCHANGED <<d, section>>
    BY <1>3 DEF BeginSection, AtSection
  <2>2. Section' = Section /\ At' = "pages"
    BY <2>1 DEF Section, At, AtOf
  <2>3. addr' = Section.sh_addr + 0 * PAGE_SIZE
    BY <2>1, AtSectionFacts, PagingAssumption
  <2> QED
    BY <2>1, <2>2, <2>3, Phases DEF Counts, BuildingOld
<1>4. CASE MapSectionPage
  <2>1. /\ pc = "pages" /\ pc' = "job" /\ job'.then = "pages" /\ PagesLeft(Section)
        /\ addr' = addr + PAGE_SIZE
        /\ UNCHANGED <<d, section>>
    BY <1>4 DEF MapSectionPage, IdentityJob, StartJob, MapJob
  <2>2. Section' = Section /\ At = "pages" /\ At' = "pages"
    BY <2>1 DEF Section, At, AtOf
  <2>3. /\ section < Len(d.sections) /\ SectionAsserts(Section)
        /\ \E n \in Nat : addr = Section.sh_addr + n * PAGE_SIZE
    BY <2>1, <2>2 DEF Counts, Inv, Loops
  <2>4. PICK n \in Nat : addr = Section.sh_addr + n * PAGE_SIZE
    BY <2>3
  <2>5. addr' = Section.sh_addr + (n + 1) * PAGE_SIZE /\ n + 1 \in Nat
    <3>1. Section.sh_addr \in Nat /\ PAGE_SIZE \in Nat
      BY <2>3, AtSectionFacts, PagingAssumption
    <3> DEFINE a == Section.sh_addr
    <3>2. a \in Nat /\ addr = a + n * PAGE_SIZE
      BY <2>4, <3>1
    <3> HIDE DEF a
    <3>3. addr + PAGE_SIZE = a + (n + 1) * PAGE_SIZE
      BY <3>1, <3>2, SMT
    <3> QED
      BY <2>1, <3>3 DEF a
  <2>6. addr' < LastAddr(Section) + PAGE_SIZE
    BY <2>1, <2>3, AtSectionFacts, PagingAssumption DEF PagesLeft
  <2> QED
    BY <2>1, <2>2, <2>3, <2>5, <2>6, Phases DEF Counts, BuildingOld
<1>5. CASE EndSection
  <2>1. pc' = "sections"
    BY <1>5 DEF EndSection
  <2> QED
    BY <2>1, Phases DEF Counts, At, AtOf, BuildingOld
<1> QED
  BY <1>1, <1>2, <1>3, <1>4, <1>5 DEF MapSections

(* The screen and the structure.                                            *)
LEMMA MultibootCounts ==
  ASSUME NEW place, Inv(place), Counts, MapVga \/ MapMultibootPage
  PROVE  Counts'
<1>0. /\ d.start \in Nat /\ MultibootBound \in Nat /\ addr \in Nat /\ PAGE_SIZE \in Nat
      /\ Len(d.sections) \in Nat
  BY PagingAssumption DEF Inv, Shape, LayoutOK, Types, MultibootBound, SizeOfMultibootStart
<1>1. CASE MapVga
  <2>1. /\ pc' = "job" /\ job'.then = "multiboot" /\ section = Len(d.sections)
        /\ addr' = d.start /\ UNCHANGED <<d, section>>
    BY <1>1 DEF MapVga, IdentityJob, StartJob, MapJob
  <2>2. At' = "multiboot" /\ MultibootBound' = MultibootBound
    BY <2>1 DEF At, AtOf, MultibootBound
  <2>3. addr' = d.start + 0 * PAGE_SIZE
    BY <1>0, <2>1
  <2> QED
    BY <2>1, <2>2, <2>3, Phases DEF Counts, BuildingOld
<1>2. CASE MapMultibootPage
  <2>1. /\ pc = "multiboot" /\ pc' = "job" /\ job'.then = "multiboot"
        /\ addr <= MultibootBound /\ addr' = addr + PAGE_SIZE /\ UNCHANGED <<d, section>>
    BY <1>2 DEF MapMultibootPage, IdentityJob, StartJob, MapJob
  <2>2. At = "multiboot" /\ At' = "multiboot" /\ MultibootBound' = MultibootBound
    BY <2>1 DEF At, AtOf, MultibootBound
  <2>3. PICK n \in Nat : addr = d.start + n * PAGE_SIZE
    BY <2>2 DEF Counts
  <2>4. addr' = d.start + (n + 1) * PAGE_SIZE /\ n + 1 \in Nat
    <3> DEFINE a == d.start
    <3>1. a \in Nat /\ addr = a + n * PAGE_SIZE
      BY <1>0, <2>3
    <3> HIDE DEF a
    <3>2. addr + PAGE_SIZE = a + (n + 1) * PAGE_SIZE
      BY <1>0, <3>1, SMT
    <3> QED
      BY <2>1, <3>2 DEF a
  <2>5. addr' <= MultibootBound + PAGE_SIZE
    BY <1>0, <2>1
  <2>6. section = Len(d.sections)
    BY <2>2 DEF Counts
  <2> QED
    BY <2>1, <2>2, <2>4, <2>5, <2>6, Phases DEF Counts, BuildingOld
<1> QED
  BY <1>1, <1>2

(* All others.                                                              *)
LEMMA OtherCounts ==
  ASSUME NEW place, Inv(place), Counts,
         \/ flush_tlb \/ AllocateNewRoot \/ MapOldRoot \/ ClearNewRoot
         \/ MakeNewRecursive \/ PointOldAtNew \/ RestoreOldRoot \/ UnmapOldRoot
         \/ SwitchRoot \/ UnmapGuardPage \/ MapHeapPage \/ HeapMapped
  PROVE  Counts'
<1>1. CASE flush_tlb
  <2>1. UNCHANGED <<d, section, addr>>
    BY <1>1 DEF flush_tlb
  <2>2. \/ pc = "flush_old" /\ pc' = "clear"
        \/ pc = "flush_recursion" /\ pc' = "sections"
        \/ pc = "flush_restored" /\ pc' = "unmap_old"
    BY <1>1 DEF flush_tlb, AfterFlush
  <2> QED
    BY <2>1, <2>2, PlainCounts, Phases DEF At, AtOf, BuildingOld, Pending
<1>2. CASE AllocateNewRoot \/ MapOldRoot
  <2>1. /\ pc \in {"start", "map_old"} /\ pc' = "job" /\ job'.then \in {"map_old", "flush_old"}
        /\ UNCHANGED <<d, section, addr>>
    BY <1>2 DEF AllocateNewRoot, MapOldRoot, StartJob, MapJob
  <2> QED
    BY <2>1, PlainCounts, Phases DEF At, AtOf, BuildingOld, Pending
<1>3. CASE ClearNewRoot \/ MakeNewRecursive \/ PointOldAtNew \/ RestoreOldRoot
  <2>1. /\ <<pc, pc'>> \in {<<"clear", "recurse_new">>, <<"recurse_new", "recurse_old">>,
              <<"recurse_old", "flush_recursion">>, <<"multiboot", "flush_restored">>}
        /\ UNCHANGED <<d, section, addr>>
    BY <1>3 DEF ClearNewRoot, MakeNewRecursive, PointOldAtNew, RestoreOldRoot, StoreRecursion
  <2>2. /\ pc' \in {"recurse_new", "recurse_old", "flush_recursion", "flush_restored"}
        /\ pc' # "flush_restored" => pc \in {"clear", "recurse_new", "recurse_old"}
        /\ pc' = "flush_restored" => pc = "multiboot"
        /\ pc # "job"
    BY <2>1
  <2> QED
    BY <2>1, <2>2, PlainCounts, Phases DEF At, AtOf, BuildingOld, Pending
<1>4. CASE UnmapOldRoot \/ UnmapGuardPage
  <2>1. /\ pc \in {"unmap_old", "guard"} /\ pc' = "job" /\ job'.then \in {"switch", "heap"}
        /\ job'.then = "heap" => job'.page = d.p4
        /\ UNCHANGED <<d, section>>
    BY <1>4 DEF UnmapOldRoot, UnmapGuardPage, StartJob, UnmapJob
  <2> QED
    BY <2>1, PlainCounts, Phases DEF At, AtOf, BuildingOld, Pending
<1>5. CASE SwitchRoot
  <2>1. pc = "switch" /\ pc' = "guard" /\ UNCHANGED <<d, section, addr>>
    BY <1>5 DEF SwitchRoot
  <2> QED
    BY <2>1, PlainCounts, Phases DEF At, AtOf, BuildingOld, Pending
<1>6. CASE MapHeapPage
  <2>1. /\ pc = "heap" /\ pc' = "job" /\ job'.then = "heap" /\ UNCHANGED <<d, section>>
        /\ job'.page = addr /\ addr < HeapStart + HeapPages
    BY <1>6 DEF MapHeapPage, StartJob, MapJob
  <2>2. addr \in HeapRange
    BY <2>1, HeapFacts DEF Inv, Loops, At, AtOf, HeapRange
  <2> QED
    BY <2>1, <2>2, PlainCounts, Phases DEF At, AtOf, BuildingOld, Pending
<1>7. CASE HeapMapped
  <2>1. pc = "heap" /\ pc' = "done" /\ addr' = HeapStart + HeapPages /\ UNCHANGED <<d, section>>
    BY <1>7 DEF HeapMapped
  <2> QED
    BY <2>1, PlainCounts, Phases DEF At, AtOf, BuildingOld, Pending
<1> QED
  BY <1>1, <1>2, <1>3, <1>4, <1>5, <1>6, <1>7

-----------------------------------------------------------------------------
(* Every step *)

(* Before the new root is cleared nothing is claimed of it.                 *)
LEMMA EarlyView ==
  ASSUME At' \notin Cleared
  PROVE  View'
BY DEF View

(* A level of a job.                                                        *)
LEMMA MapOrUnmapView ==
  ASSUME NEW place, Inv(place), View, MapOrUnmap, ~NullTable
  PROVE  View'
BY DescendView, CreateTableView, SetLeafView, ClearLeafView
   DEF MapOrUnmap

(* A step of remap_kernel.                                                  *)
LEMMA RemapKernelView ==
  ASSUME NEW place, Inv(place), View, Counts, remap_kernel
  PROVE  View'
<1>1. CASE AllocateNewRoot \/ MapOldRoot
  <2>1. pc' = "job" /\ job'.then \in {"map_old", "flush_old"}
    BY <1>1 DEF AllocateNewRoot, MapOldRoot, StartJob, MapJob
  <2>2. At' \notin Cleared
    BY <2>1, Phases DEF At, AtOf
  <2> QED
    BY <2>2, EarlyView
<1>2. CASE MapSections
  <2>1. CASE AssertFails
    <3>1. pc = "sections" /\ pc' = "assert" /\ UNCHANGED <<d, mem, new_p4, section>>
      BY <2>1 DEF AssertFails, AtSection
    <3> QED
      BY <3>1, PhaseView
  <2> QED
    BY <1>2, <2>1, SkipSectionView, BeginSectionView, MapSectionPageView, EndSectionView
       DEF MapSections
<1>3. CASE SwitchRoot
  <2>1. pc = "switch" /\ pc' = "guard" /\ UNCHANGED <<d, mem, new_p4, section>>
    BY <1>3 DEF SwitchRoot
  <2> QED
    BY <2>1, PhaseView
<1>4. CASE ClearNewRoot \/ MakeNewRecursive \/ PointOldAtNew \/ RestoreOldRoot
  BY <1>4, ClearNewRootView, MakeNewRecursiveView, PointOldAtNewView, RestoreOldRootView
<1>5. CASE MapVga \/ MapMultibootPage \/ UnmapOldRoot \/ UnmapGuardPage
  BY <1>5, MapVgaView, MapMultibootPageView, UnmapOldRootView, UnmapGuardPageView
<1> QED
  BY <1>1, <1>2, <1>3, <1>4, <1>5 DEF remap_kernel

(* Every step keeps to what the pages should translate to.                  *)
LEMMA ViewNext == IInv /\ View /\ Counts /\ [Next]_vars /\ OnCourse' => View' /\ Counts'
<1> SUFFICES ASSUME NEW place, Inv(place), View, Counts, [Next]_vars, OnCourse'
             PROVE  View' /\ Counts'
  BY DEF IInv
<1>1. CASE MapOrUnmap
  BY <1>1, OnCourseSteps, MapOrUnmapView, MapOrUnmapCounts
<1>2. CASE flush_tlb
  <2>1. UNCHANGED <<d, mem, new_p4, section, addr>>
    BY <1>2 DEF flush_tlb
  <2>2. \/ pc = "flush_old" /\ pc' = "clear"
        \/ pc = "flush_recursion" /\ pc' = "sections"
        \/ pc = "flush_restored" /\ pc' = "unmap_old"
    BY <1>2 DEF flush_tlb, AfterFlush
  <2>3. CASE pc' = "clear"
    <3>1. At' \notin Cleared
      BY <2>3, Phases DEF At, AtOf
    <3> QED
      BY <1>2, <3>1, EarlyView, OtherCounts
  <2>4. CASE pc' # "clear"
    <3>1. View'
      BY <2>1, <2>2, <2>4, PhaseView
    <3> QED
      BY <1>2, <3>1, OtherCounts
  <2> QED
    BY <2>3, <2>4
<1>3. CASE remap_kernel
  <2>1. View'
    BY <1>3, RemapKernelView
  <2>2. Counts'
    BY <1>3, MapSectionsCounts, MultibootCounts, OtherCounts DEF remap_kernel
  <2> QED
    BY <2>1, <2>2
<1>4. CASE init_heap
  <2>1. CASE HeapMapped
    <3>1. pc = "heap" /\ pc' = "done" /\ UNCHANGED <<d, mem, new_p4, section, addr>>
      BY <2>1 DEF HeapMapped
    <3>2. View'
      BY <3>1, PhaseView
    <3> QED
      BY <2>1, <3>2, OtherCounts
  <2>2. CASE MapHeapPage
    BY <2>2, MapHeapPageView, OtherCounts
  <2> QED
    BY <1>4, <2>1, <2>2 DEF init_heap
<1>5. CASE UNCHANGED vars
  <2>1. UNCHANGED <<d, mem, new_p4, section, addr, pc, job>>
    BY <1>5 DEF vars
  <2> QED
    BY <2>1 DEF View, Counts, Section, MultibootBound, At, Pending
<1> QED
  BY <1>1, <1>2, <1>3, <1>4, <1>5, OnCourseSteps DEF Next, Ended

(* In the beginning nothing is claimed.                                     *)
LEMMA ViewInit == Init => View /\ Counts
<1> SUFFICES ASSUME Init PROVE View /\ Counts
  OBVIOUS
<1>1. pc = "start" /\ section = 0 /\ At = "start"
  BY DEF Init, At, AtOf
<1> QED
  BY <1>1, Phases DEF View, Counts
-----------------------------------------------------------------------------
(* What boot.s has mapped *)

(* Pages below R * R have no digits but the last two.                       *)
LEMMA BelowBootPages ==
  ASSUME NEW x \in 0 .. R * R - 1
  PROVE  /\ x \in Pages /\ IndexAt(4, x) = 0 /\ IndexAt(3, x) = 0
         /\ IndexAt(2, x) \in Indices /\ IndexAt(1, x) \in Indices
         /\ x = R * IndexAt(2, x) + IndexAt(1, x)
<1>1. x \in Nat /\ x < R * R /\ R \in Nat /\ R * R \in Nat
  BY RType, SMT
<1>2. x \in Pages
  <2>1. R * R * 1 <= R * R * (R * R)
    BY RType, <1>1, SMT
  <2> QED
    BY <1>1, <2>1, RType, SMT DEF Pages
<1> DEFINE u == Upper(x)
<1>3. u \in Nat /\ x = R * u + (x % R) /\ x % R \in Indices
  BY <1>1, UpperType
<1>4. u < R
  <2>1. SUFFICES ASSUME R <= u PROVE FALSE
    BY <1>1, <1>3
  <2>2. R * R <= R * u
    BY <1>1, <1>3, <2>1, SMT
  <2> QED
    BY <1>1, <1>3, <2>2 DEF Indices
<1>5. u \in Indices /\ u % R = u /\ Upper(u) = 0
  <2>1. u \in Indices
    BY <1>1, <1>3, <1>4 DEF Indices
  <2>2. u % R = u
    BY <2>1, OneDigit
  <2>3. Upper(u) \in Nat /\ u = R * Upper(u) + (u % R)
    BY <1>3, UpperType
  <2>4. R * Upper(u) = 0
    BY <1>1, <1>3, <2>2, <2>3
  <2> QED
    BY <2>1, <2>2, <2>3, <2>4, RType, SMT
<1>6. 0 \in Indices /\ 0 % R = 0 /\ Upper(0) = 0
  <2>1. 0 \in Indices /\ 0 % R = 0
    BY ConstantFacts, OneDigit
  <2>2. Upper(0) \in Nat /\ 0 = R * Upper(0) + (0 % R)
    BY UpperType
  <2> QED
    BY <2>1, <2>2, RType, SMT
<1>7. /\ IndexAt(1, x) = x % R /\ IndexAt(2, x) = u
      /\ IndexAt(3, x) = 0 /\ IndexAt(4, x) = 0
  BY <1>1, <1>5, <1>6, IndexAtDigits
<1> QED
  BY <1>2, <1>3, <1>5, <1>7

(* The first R * R pages are mapped to themselves, all rights granted.      *)
LEMMA BootMapping ==
  ASSUME NEW m, NEW place, NEW l, LayoutOK(l), BootTree(m, place, l),
         NEW page \in 0 .. R * R - 1
  PROVE  Walk(m, l.p4, page).frame = page /\ Walk(m, l.p4, page).exec
<1>1. /\ IndexAt(4, page) = 0 /\ IndexAt(3, page) = 0
      /\ IndexAt(2, page) \in Indices /\ page = R * IndexAt(2, page) + IndexAt(1, page)
  BY BelowBootPages
<1> DEFINE i == IndexAt(2, page)
           H == Writeable \cup {"huge"}
<1>2. /\ E4(m, l.p4, page) = EntryFor(l.p3, Writeable)
      /\ E3(m, l.p4, page) = EntryFor(l.p2, Writeable)
  BY <1>1 DEF E4, E3, BootTree, EntryFor
<1>3. E2(m, l.p4, page) = EntryFor(R * i, H)
  <2>1. E2(m, l.p4, page) = m[l.p2][i]
    BY <1>2 DEF E2, EntryFor
  <2>2. m[l.p2] = [k \in Indices |-> EntryFor(R * k, Writeable \cup {"huge"})]
    BY LayoutFacts DEF BootTree, BootTable
  <2> QED
    BY <1>1, <2>1, <2>2
<1>4. /\ Present(EntryFor(l.p3, Writeable)) /\ Present(EntryFor(l.p2, Writeable))
      /\ Present(EntryFor(R * i, H)) /\ "huge" \in EntryFor(R * i, H).flags
      /\ EntryFor(R * i, H).frame = R * i
  BY DEF Present, EntryFor, Writeable
<1> DEFINE flags2 == Allowed(Allowed(E4(m, l.p4, page).flags, E3(m, l.p4, page)), E2(m, l.p4, page))
<1>5. Walk(m, l.p4, page) = LeafOf(E2(m, l.p4, page).frame + IndexAt(1, page), flags2)
  BY <1>2, <1>3, <1>4, WalkOfEntries
<1>6. "no_exec" \notin flags2
  BY <1>2, <1>3 DEF Allowed, EntryFor, Writeable
<1>7. E2(m, l.p4, page).frame + IndexAt(1, page) = page
  BY <1>1, <1>3, <1>4
<1> HIDE DEF flags2
<1>8. Walk(m, l.p4, page) = LeafOf(page, flags2)
  BY <1>5, <1>7
<1>9. LeafOf(page, flags2).frame = page /\ LeafOf(page, flags2).exec
  BY <1>6 DEF LeafOf
<1> QED
  BY <1>8, <1>9

-----------------------------------------------------------------------------
(* The pages of the multiboot structure *)

(* The loop over the structure, as InMultibootLoop says it.                 *)
LEMMA LoopOfStructure ==
  ASSUME NEW l, l.start \in Nat, l.total_size \in Nat, NEW page \in Nat
  PROVE  /\ Loop(l.start, BoundOf(l) + 1, page) <=>
              \E k \in 0 .. FrameOf(BoundOf(l)) :
                l.start + k * PAGE_SIZE <= BoundOf(l) /\ page = FrameOf(l.start) + k
         /\ Loop(l.start, BoundOf(l) + 1, page) =>
              page \in FrameOf(l.start) .. FrameOf(BoundOf(l))
<1> DEFINE a == l.start
           b == BoundOf(l)
<1>1. /\ a \in Nat /\ b \in Nat /\ a <= b /\ PAGE_SIZE \in Nat \ {0}
      /\ FrameOf(a) \in Nat /\ FrameOf(b) \in Nat
  <2>1. a \in Nat /\ b \in Nat /\ a <= b
    BY DEF BoundOf, SizeOfMultibootStart
  <2> HIDE DEF a, b
  <2> QED
    BY <2>1, FrameOfMonotonic, PagingAssumption
<1> HIDE DEF a, b
<1>2. ASSUME NEW k \in Nat, a + k * PAGE_SIZE < b + 1
      PROVE  a + k * PAGE_SIZE <= b /\ FrameOf(a) + k <= FrameOf(b)
  <2> DEFINE c == a + k * PAGE_SIZE
  <2>1. c \in Nat /\ c <= b
    BY <1>1, <1>2, SMT
  <2>2. FrameOf(c) = FrameOf(a) + k
    BY <1>1, FrameAfter
  <2> HIDE DEF c
  <2>3. FrameOf(c) <= FrameOf(b)
    BY <1>1, <2>1, FrameOfMonotonic
  <2> QED
    BY <2>1, <2>2, <2>3 DEF c
<1>3. ASSUME NEW k \in Nat, a + k * PAGE_SIZE <= b
      PROVE  a + k * PAGE_SIZE < b + 1
  <2>1. a + k * PAGE_SIZE \in Int
    BY <1>1, SMT
  <2> QED
    BY <1>1, <1>3, <2>1
<1>4. Loop(a, b + 1, page) =>
        \E k \in 0 .. FrameOf(b) : a + k * PAGE_SIZE <= b /\ page = FrameOf(a) + k
  <2>1. SUFFICES ASSUME NEW k \in Nat, a + k * PAGE_SIZE < b + 1, page = FrameOf(a) + k
                 PROVE  \E n \in 0 .. FrameOf(b) : a + n * PAGE_SIZE <= b /\ page = FrameOf(a) + n
    BY DEF Loop
  <2>2. a + k * PAGE_SIZE <= b /\ k \in 0 .. FrameOf(b)
    BY <1>1, <1>2, <2>1
  <2> QED
    BY <2>1, <2>2
<1>5. (\E k \in 0 .. FrameOf(b) : a + k * PAGE_SIZE <= b /\ page = FrameOf(a) + k)
        => Loop(a, b + 1, page)
  <2>1. SUFFICES ASSUME NEW k \in 0 .. FrameOf(b), a + k * PAGE_SIZE <= b, page = FrameOf(a) + k
                 PROVE  Loop(a, b + 1, page)
    OBVIOUS
  <2>2. k \in Nat
    BY <1>1
  <2> QED
    BY <1>3, <2>1, <2>2 DEF Loop
<1>6. Loop(a, b + 1, page) => page \in FrameOf(a) .. FrameOf(b)
  BY <1>1, <1>2 DEF Loop
<1> QED
  BY <1>4, <1>5, <1>6 DEF a, b

(* The loop misses no page of the structure.                                *)
LEMMA StructureCovered ==
  ASSUME NEW l, LayoutOK(l), ImageOK(l), NEW page \in StructurePages(l)
  PROVE  page \in Nat /\ Loop(l.start, BoundOf(l) + 1, page)
<1> DEFINE a == l.start
           n == l.total_size
           P == PAGE_SIZE
           fa == FrameOf(a)
           e == a + n - 1
           fe == FrameOf(e)
           j == page - fa
<1>1. /\ a \in Nat /\ n \in Nat /\ P \in Nat \ {0}
      /\ BoundOf(l) = a + 8 * n
  BY PagingAssumption DEF LayoutOK, BoundOf, SizeOfMultibootStart
<1>2. /\ fa \in Nat /\ a % P \in 0 .. P - 1 /\ a = P * fa + (a % P)
  BY <1>1, Division DEF FrameOf
<1>3. /\ page \in fa .. fe
      /\ page = fa \/ P <= 8 * n
  BY DEF ImageOK, StructurePages, SizeOfMultibootStart
<1>4. /\ page \in Nat /\ j \in Nat /\ page = fa + j
  BY <1>2, <1>3
<1>5. a + j * P <= a + 8 * n
  <2>1. CASE j = 0
    BY <1>1, <2>1
  <2>2. CASE j # 0
    <3>1. P <= 8 * n /\ n >= 1 /\ e \in Nat
      BY <1>1, <1>3, <1>4, <2>2
    <3>2. /\ fe \in Nat /\ e % P \in 0 .. P - 1 /\ e = P * fe + (e % P)
      <4> HIDE DEF e
      <4> QED
        BY <1>1, <3>1, Division DEF FrameOf
    <3>3. fa + j <= fe
      BY <1>3, <1>4
    <3> HIDE DEF j, fa, fe
    <3>4. P * fa + P * j <= P * fe
      <4>1. P * (fa + j) <= P * fe
        BY <1>1, <1>2, <1>4, <3>2, <3>3, SMT
      <4>2. P * (fa + j) = P * fa + P * j
        BY <1>1, <1>2, <1>4, SMT
      <4> QED
        BY <4>1, <4>2
    <3> DEFINE x == P * fa
               y == P * j
               z == P * fe
    <3>5. x \in Int /\ y \in Int /\ z \in Int
      BY <1>1, <1>2, <1>4, <3>2, SMT
    <3> HIDE DEF x, y, z, P, a, n
    <3>6. y <= n + P - 2
      BY <1>1, <1>2, <3>1, <3>2, <3>4, <3>5 DEF x, y, z, e
    <3>7. y <= 8 * n
      <4>1. CASE j = 1
        <5>1. y = P
          BY <1>1, <4>1 DEF y
        <5> QED
          BY <3>1, <5>1
      <4>2. CASE j # 1
        <5>1. j >= 2
          BY <1>4, <2>2, <4>2
        <5>2. P * 2 <= P * j
          BY <1>1, <1>4, <5>1, SMT
        <5>3. P + P <= y
          BY <1>1, <3>5, <5>2 DEF y
        <5> QED
          BY <1>1, <3>1, <3>5, <3>6, <5>3
      <4> QED
        BY <4>1, <4>2
    <3>8. j * P = y
      BY <1>1, <1>4 DEF y
    <3> QED
      BY <1>1, <3>5, <3>7, <3>8
  <2> QED
    BY <2>1, <2>2
<1>6. a + j * P < a + 8 * n + 1
  <2>1. a + j * P \in Int
    BY <1>1, <1>4, SMT
  <2> HIDE DEF j, a, n, P
  <2> QED
    BY <1>1, <1>5, <2>1
<1> QED
  BY <1>1, <1>4, <1>6 DEF Loop
-----------------------------------------------------------------------------
(* KernelMapped and FinalMapping *)

(* Facts of the layout, as both need them.                                  *)
LEMMA LayoutHere ==
  ASSUME NEW place, Inv(place)
  PROVE  /\ LayoutOK(d) /\ ImageOK(d) /\ d.start \in Nat /\ d.total_size \in Nat
         /\ MultibootBound = BoundOf(d)
         /\ 0 .. R * R - 1 \subseteq OrdinaryPages
<1>1. d \in Layouts
  BY DEF Inv, Types
<1>2. LayoutOK(d) /\ ImageOK(d)
  BY <1>1, LayoutAssumption, ImageAssumption
<1>3. 0 .. R * R - 1 \subseteq OrdinaryPages
  BY BelowBootPages, ConstantFacts DEF OrdinaryPages
<1> QED
  BY <1>2, <1>3 DEF LayoutOK, MultibootBound, BoundOf

(* The numbers of a section header.                                         *)
LEMMA SectionFields ==
  ASSUME NEW l, LayoutOK(l), NEW i \in 1 .. Len(l.sections)
  PROVE  l.sections[i].sh_addr \in Nat /\ l.sections[i].sh_size \in Nat
<1> DEFINE S == [sh_addr : Nat, sh_size : Nat, sh_flags : SUBSET {"alloc", "exec", "write"}]
<1>1. l.sections \in Seq(S)
  BY DEF LayoutOK
<1> HIDE DEF S
<1>2. l.sections[i] \in S
  BY <1>1
<1> QED
  BY <1>2 DEF S

(* The loop over a section maps no page that has no byte of it ...          *)
LEMMA MappedInSection ==
  ASSUME NEW s, s.sh_addr \in Nat, s.sh_size \in Nat, NEW page \in MappedPagesOf(s)
  PROVE  page \in PagesOf(s)
<1>1. /\ LastAddr(s) \in Nat /\ PAGE_SIZE \in Nat \ {0}
      /\ FrameOf(s.sh_addr) \in Nat /\ FrameOf(LastAddr(s)) \in Nat
  BY LastAddrType, FrameOfMonotonic, PagingAssumption
<1>2. CASE LastAddr(s) = 0
  <2>1. (PAGE_SIZE * (-1) + (PAGE_SIZE - 1)) \div PAGE_SIZE = -1
    BY <1>1, DivUnique
  <2>2. PAGE_SIZE * (-1) + (PAGE_SIZE - 1) = -1
    BY <1>1, SMT
  <2>3. FrameOf(LastAddr(s) - 1) = -1
    BY <1>2, <2>1, <2>2 DEF FrameOf
  <2> QED
    BY <1>1, <2>3 DEF MappedPagesOf
<1>3. CASE LastAddr(s) # 0
  <2>1. LastAddr(s) - 1 \in Nat /\ LastAddr(s) - 1 <= LastAddr(s)
    BY <1>1, <1>3
  <2>2. FrameOf(LastAddr(s) - 1) \in Nat /\ FrameOf(LastAddr(s) - 1) <= FrameOf(LastAddr(s))
    BY <1>1, <2>1, FrameOfMonotonic
  <2> QED
    BY <1>1, <2>2 DEF MappedPagesOf, PagesOf
<1> QED
  BY <1>2, <1>3

(* ... and all but one that has the section's last byte only.               *)
LEMMA MissedByLoop ==
  ASSUME NEW s, s.sh_addr \in Nat, s.sh_size \in Nat,
         NEW page \in PagesOf(s), ~LastByteOnly(s, page)
  PROVE  page \in MappedPagesOf(s)
<1> DEFINE b == LastAddr(s)
           P == PAGE_SIZE
           q == FrameOf(b)
           c == P * page
<1>1. /\ b \in Nat /\ P \in Nat \ {0} /\ FrameOf(s.sh_addr) \in Nat
      /\ q \in Nat /\ b % P \in 0 .. P - 1 /\ b = P * q + (b % P)
  <2>1. b \in Nat /\ P \in Nat \ {0} /\ FrameOf(s.sh_addr) \in Nat
    BY LastAddrType, FrameOfMonotonic, PagingAssumption
  <2> HIDE DEF b, P
  <2>2. b \div P \in Nat /\ b % P \in 0 .. P - 1 /\ b = P * (b \div P) + (b % P)
    BY <2>1, Division
  <2> QED
    BY <2>1, <2>2 DEF FrameOf, P
<1>2. page \in Nat /\ FrameOf(s.sh_addr) <= page /\ page <= q
  BY <1>1 DEF PagesOf
<1>3. b # page * P
  BY DEF LastByteOnly
<1> HIDE DEF b, q
<1>4. c \in Nat /\ c <= b - 1
  <2>1. P * page <= P * q /\ P * page \in Nat /\ P * q \in Nat /\ page * P = P * page
    BY <1>1, <1>2, SMT
  <2> QED
    BY <1>1, <1>3, <2>1
<1>5. FrameOf(c) = page
  <2>1. (P * page + 0) \div P = page
    BY <1>1, <1>2, DivUnique
  <2>2. P * page + 0 = c
    BY <1>4
  <2> QED
    BY <2>1, <2>2 DEF FrameOf
<1>6. b - 1 \in Nat
  BY <1>1, <1>4
<1> HIDE DEF c, P
<1>7. page <= FrameOf(b - 1) /\ FrameOf(b - 1) \in Nat
  BY <1>4, <1>5, <1>6, FrameOfMonotonic
<1> QED
  BY <1>1, <1>2, <1>7 DEF MappedPagesOf, b

(* The pages that have to stay mapped are among those boot.s has mapped.    *)
LEMMA KernelPages ==
  ASSUME NEW place, Inv(place)
  PROVE  /\ \A s \in Loaded : PagesOf(s) \subseteq 0 .. R * R - 1
         /\ {VgaFrame} \cup StructurePages(d) \subseteq 0 .. R * R - 1
<1>1. ASSUME NEW s \in Loaded, NEW page \in PagesOf(s)
      PROVE  page \in 0 .. R * R - 1
  <2>1. PICK i \in 1 .. Len(d.sections) : s = d.sections[i] /\ IsAllocated(s)
    BY DEF Loaded, Sections
  <2>2. page \in Frames /\ page < R * R
    BY <1>1, <2>1, LayoutHere DEF LayoutOK, ImageOK
  <2>3. page \in Nat
    BY <2>2, ConstantFacts, FirstDigit
  <2> QED
    BY <2>2, <2>3, RType, SMT
<1> QED
  BY <1>1, LayoutHere DEF ImageOK

(* Under the old root all of them are mapped by boot.s.                     *)
LEMMA MappedUnderOldRoot ==
  ASSUME NEW place, Inv(place), cr3 = d.p4
  PROVE  KernelMapped
<1>1. LayoutOK(d) /\ BootTree(mem, place, d)
  BY DEF Inv, Shape
<1>2. \A page \in 0 .. R * R - 1 : Translation(page).frame = page /\ Translation(page).exec
  BY <1>1, BootMapping DEF Translation
<1> QED
  BY <1>2, KernelPages DEF KernelMapped

(* Under the new root a page has been mapped by the loops: to itself, ...   *)
LEMMA MappedUnderNewRoot ==
  ASSUME NEW place, Inv(place), View, Counts, cr3 # d.p4,
         NEW page \in 0 .. R * R - 1, page # d.p4
  PROVE  /\ section = Len(d.sections) /\ At \in AfterMultiboot
         /\ LET t == Translation(page)
            IN  IF Loop(d.start, BoundOf(d) + 1, page) THEN t = LeafOf(page, {"no_exec"})
                ELSE IF page = VgaFrame THEN t = LeafOf(page, {"writeable", "no_exec"})
                ELSE \/ Holding(d, At, section, addr, page) = {} /\ t = NoLeaf
                     \/ \E i \in 1 .. Len(d.sections) :
                          /\ Last(Holding(d, At, section, addr, page), i)
                          /\ t = RightsOf(d.sections[i], page)
<1>1. At \in Settled /\ cr3 = new_p4
  BY DEF Inv, Roots
<1>2. /\ At \in Cleared /\ At \in AfterMultiboot /\ At \in {"guard", "heap", "done"}
      /\ section = Len(d.sections)
  BY <1>1 DEF Cleared, AfterMultiboot, Settled, Counts
<1>3. page \in OrdinaryPages /\ page \notin HeapRange
  <2>1. page \in Nat /\ page < R * R
    BY RType, SMT
  <2>2. \A p \in HeapRange : p \in Nat /\ p >= R * R
    BY HeapFacts, FirstDigit
  <2>3. R * R \in Nat
    BY RType, SMT
  <2> QED
    BY LayoutHere, <2>1, <2>2, <2>3
<1>4. Pending => page # job.page
  <2>1. SUFFICES ASSUME Pending PROVE page # job.page
    OBVIOUS
  <2>2. job.then \in Callers /\ At = job.then
    BY <2>1 DEF Pending, Inv, JobOK, At, AtOf
  <2>3. At = "heap"
    BY <1>2, <2>2 DEF Callers
  <2> QED
    BY <1>3, <2>1, <2>3 DEF Counts
<1>5. Expected(d, At, section, addr, page, Translation(page))
  BY <1>1, <1>2, <1>3, <1>4 DEF View, Translation
<1>6. InStructure(d, At, addr, page) <=> Loop(d.start, BoundOf(d) + 1, page)
  BY <1>2 DEF InStructure
<1> QED
  BY <1>2, <1>3, <1>5, <1>6 DEF Expected

(* ... and code with the right to execute it, but for what the loop over    *)
(* the multiboot structure takes away.                                      *)
LEMMA CodeUnderNewRoot ==
  ASSUME NEW place, Inv(place), View, Counts, cr3 # d.p4,
         NEW s \in Loaded, NEW page \in PagesOf(s), page # d.p4, ~LastByteOnly(s, page)
  PROVE  LET t == Translation(page)
         IN  t.frame = page /\ ("exec" \in s.sh_flags => t.exec \/ Overrun(page))
<1>1. page \in 0 .. R * R - 1
  BY KernelPages
<1>2. PICK i \in 1 .. Len(d.sections) : s = d.sections[i] /\ IsAllocated(s)
  BY DEF Loaded, Sections
<1>9. page \in MappedPagesOf(s)
  BY <1>2, LayoutHere, SectionFields, MissedByLoop
<1> DEFINE t == Translation(page)
           H == Holding(d, At, section, addr, page)
<1>3. /\ section = Len(d.sections) /\ At \in AfterMultiboot
      /\ IF Loop(d.start, BoundOf(d) + 1, page) THEN t = LeafOf(page, {"no_exec"})
         ELSE IF page = VgaFrame THEN t = LeafOf(page, {"writeable", "no_exec"})
         ELSE \/ H = {} /\ t = NoLeaf
              \/ \E k \in 1 .. Len(d.sections) : Last(H, k) /\ t = RightsOf(d.sections[k], page)
  BY <1>1, MappedUnderNewRoot
<1>4. i \in H
  BY <1>2, <1>3, <1>9 DEF Holding, SectionDone
<1>5. ASSUME NEW k \in H PROVE IsAllocated(d.sections[k]) /\ page \in PagesOf(d.sections[k])
  <2>1. k \in 1 .. Len(d.sections) /\ SectionDone(d, At, section, addr, k, page)
    BY <1>5 DEF Holding
  <2>2. At # "pages"
    BY <1>3, Phases
  <2>3. IsAllocated(d.sections[k]) /\ page \in MappedPagesOf(d.sections[k])
    BY <2>1, <2>2 DEF SectionDone
  <2> QED
    BY <2>1, <2>3, LayoutHere, SectionFields, MappedInSection
<1>6. ASSUME "exec" \in s.sh_flags
      PROVE  /\ page # VgaFrame
             /\ Loop(d.start, BoundOf(d) + 1, page) => Overrun(page)
             /\ \A k \in H : "exec" \in d.sections[k].sh_flags
  <2>1. /\ page \notin {VgaFrame} \cup StructurePages(d)
        /\ \A k \in 1 .. Len(d.sections) :
             IsAllocated(d.sections[k]) /\ page \in PagesOf(d.sections[k]) =>
               "exec" \in d.sections[k].sh_flags
    BY <1>2, <1>6, LayoutHere DEF ImageOK
  <2>2. H \subseteq 1 .. Len(d.sections)
    BY DEF Holding
  <2>3. page \in Nat
    BY <1>1
  <2>4. Loop(d.start, BoundOf(d) + 1, page) <=> InMultibootLoop(page)
    BY <2>3, LayoutHere, LoopOfStructure DEF InMultibootLoop
  <2> QED
    BY <1>5, <2>1, <2>2, <2>4 DEF Overrun
<1> HIDE DEF t, H
<1>7. CASE Loop(d.start, BoundOf(d) + 1, page) \/ page = VgaFrame
  <2>1. t.frame = page
    BY <1>3, <1>7 DEF LeafOf
  <2> QED
    BY <1>6, <1>7, <2>1 DEF t
<1>8. CASE ~(Loop(d.start, BoundOf(d) + 1, page) \/ page = VgaFrame)
  <2>1. PICK k \in 1 .. Len(d.sections) : Last(H, k) /\ t = RightsOf(d.sections[k], page)
    BY <1>3, <1>4, <1>8
  <2>2. k \in H
    BY <2>1 DEF Last
  <2>3. t.frame = page
    BY <2>1 DEF RightsOf, LeafOf
  <2>4. ASSUME "exec" \in s.sh_flags PROVE t.exec
    <3>1. "exec" \in d.sections[k].sh_flags
      BY <1>6, <2>2, <2>4
    <3> QED
      BY <2>1, <3>1 DEF RightsOf, LeafOf
  <2> QED
    BY <2>3, <2>4 DEF t
<1> QED
  BY <1>7, <1>8

(* The screen and the multiboot structure too.                              *)
LEMMA DataUnderNewRoot ==
  ASSUME NEW place, Inv(place), View, Counts, cr3 # d.p4
  PROVE  /\ Translation(VgaFrame).frame = VgaFrame
         /\ \A page \in StructurePages(d) : Translation(page).frame = page
<1>1. /\ LayoutOK(d) /\ ImageOK(d)
      /\ {VgaFrame} \cup StructurePages(d) \subseteq 0 .. R * R - 1
      /\ d.p4 \notin {VgaFrame} \cup StructurePages(d)
  BY LayoutHere, KernelPages DEF ImageOK
<1>2. Translation(VgaFrame).frame = VgaFrame
  BY <1>1, MappedUnderNewRoot DEF LeafOf
<1>3. ASSUME NEW page \in StructurePages(d)
      PROVE  Translation(page).frame = page
  <2>1. Loop(d.start, BoundOf(d) + 1, page)
    BY <1>1, StructureCovered
  <2>2. page \in 0 .. R * R - 1 /\ page # d.p4
    BY <1>1
  <2>3. Translation(page) = LeafOf(page, {"no_exec"})
    BY <2>1, <2>2, MappedUnderNewRoot
  <2> QED
    BY <2>3 DEF LeafOf
<1> QED
  BY <1>2, <1>3

(* At every moment the kernel is mapped, as far as KernelMapped says.       *)
LEMMA InvKernelMapped == IInv /\ View /\ Counts => KernelMapped
<1> SUFFICES ASSUME NEW place, Inv(place), View, Counts PROVE KernelMapped
  BY DEF IInv
<1>1. CASE cr3 = d.p4
  BY <1>1, MappedUnderOldRoot
<1>2. CASE cr3 # d.p4
  <2>1. ASSUME NEW s \in Loaded, NEW page \in PagesOf(s), page # d.p4, ~LastByteOnly(s, page)
        PROVE  LET t == Translation(page)
               IN  t.frame = page /\ ("exec" \in s.sh_flags => t.exec \/ Overrun(page))
    BY <1>2, <2>1, CodeUnderNewRoot
  <2>2. /\ Translation(VgaFrame).frame = VgaFrame
        /\ \A page \in StructurePages(d) : Translation(page).frame = page
    BY <1>2, DataUnderNewRoot
  <2> QED
    BY <1>2, <2>1, <2>2 DEF KernelMapped
<1> QED
  BY <1>1, <1>2

(* In the end every page translates as it should.                           *)
LEMMA InvFinalMapping == IInv /\ View /\ Counts => FinalMapping
<1> SUFFICES ASSUME NEW place, Inv(place), View, Counts, pc = "done",
                    NEW page \in OrdinaryPages
             PROVE  \/ InHeap(page) /\ Translation(page).write
                    \/ ~InHeap(page) /\ Translation(page) = Intended(page)
  BY DEF IInv, FinalMapping, OrdinaryPages
<1>1. At = "done" /\ ~Pending
  BY DEF At, AtOf, Pending
<1>2. cr3 = new_p4 /\ section = Len(d.sections) /\ addr = HeapStart + HeapPages
  BY <1>1, Phases DEF Inv, Roots, Settled, Counts
<1> DEFINE t == Translation(page)
           holding == {i \in 1 .. Len(d.sections) :
                         d.sections[i] \in Loaded /\ page \in MappedPagesOf(d.sections[i])}
           last == CHOOSE i \in holding : \A j \in holding : j <= i
<1>3. Expected(d, "done", section, addr, page, t)
  BY <1>1, <1>2, Phases DEF View, Translation
<1>4. CASE InHeap(page)
  <2>1. page \in HeapRange /\ page < addr
    BY <1>2, <1>4, HeapFacts, PageIsNat DEF InHeap, HeapRange
  <2> QED
    BY <1>3, <1>4, <2>1 DEF Expected
<1>5. CASE ~InHeap(page)
  <2>1. page \notin HeapRange
    BY <1>5 DEF InHeap, HeapRange
  <2>2. InStructure(d, "done", addr, page) <=> InMultibootLoop(page)
    <3>1. page \in Nat
      BY PageIsNat
    <3>2. InMultibootLoop(page) <=> Loop(d.start, BoundOf(d) + 1, page)
      BY <3>1, LayoutHere, LoopOfStructure DEF InMultibootLoop
    <3> QED
      BY <3>2, Phases DEF InStructure
  <2>3. Holding(d, "done", section, addr, page) = holding
    <3>1. ASSUME NEW i \in 1 .. Len(d.sections)
          PROVE  SectionDone(d, "done", section, addr, i, page)
                   <=> d.sections[i] \in Loaded /\ page \in MappedPagesOf(d.sections[i])
      <4>1. d.sections[i] \in Loaded <=> IsAllocated(d.sections[i])
        BY DEF Loaded, Sections
      <4>2. i <= section
        BY <1>2
      <4> QED
        BY <4>1, <4>2 DEF SectionDone
    <3> QED
      BY <3>1 DEF Holding
  <2>4. \A i \in 1 .. Len(d.sections) : Last(holding, i) => last = i
    <3>1. SUFFICES ASSUME NEW i \in 1 .. Len(d.sections), Last(holding, i) PROVE last = i
      OBVIOUS
    <3>2. i \in holding /\ \A j \in holding : j <= i
      BY <3>1 DEF Last
    <3>3. last \in holding /\ \A j \in holding : j <= last
      BY <3>2
    <3>4. last \in Int /\ i \in Int
      BY <3>3
    <3> HIDE DEF last
    <3>5. last <= i /\ i <= last
      BY <3>2, <3>3
    <3> QED
      BY <3>4, <3>5
  <2>5. "done" \in AfterMultiboot
    BY Phases
  <2>6. Intended(page) =
          IF page = d.p4 THEN NoLeaf
          ELSE IF InMultibootLoop(page) THEN LeafOf(page, {"no_exec"})
          ELSE IF page = VgaFrame THEN LeafOf(page, {"writeable", "no_exec"})
          ELSE IF holding = {} THEN NoLeaf
          ELSE RightsOf(d.sections[last], page)
    BY DEF Intended
  <2> HIDE DEF holding, last, t
  <2>7. \/ page = d.p4 /\ t = NoLeaf
        \/ page # d.p4 /\ InMultibootLoop(page) /\ t = LeafOf(page, {"no_exec"})
        \/ /\ page # d.p4 /\ ~InMultibootLoop(page) /\ page = VgaFrame
           /\ t = LeafOf(page, {"writeable", "no_exec"})
        \/ /\ page # d.p4 /\ ~InMultibootLoop(page) /\ page # VgaFrame
           /\ \/ holding = {} /\ t = NoLeaf
              \/ \E i \in 1 .. Len(d.sections) :
                   Last(holding, i) /\ t = RightsOf(d.sections[i], page)
    BY <1>3, <2>1, <2>2, <2>3, <2>5, Zenon DEF Expected
  <2>8. \A i : Last(holding, i) => holding # {}
    BY DEF Last
  <2>9. t = Intended(page)
    BY <2>4, <2>6, <2>7, <2>8
  <2> QED
    BY <1>5, <2>9 DEF t
<1> QED
  BY <1>4, <1>5

(* The invariant with what the pages of the new root translate to.          *)
THEOREM ViewInvariance ==
  ASSUME ZeroedMemory
  PROVE  Spec => [](OnCourse => IInv /\ View /\ Counts)
<1> DEFINE I == IInv /\ View /\ Counts
<1>1. Init => I
  BY InvInit, ViewInit
<1>2. (OnCourse => I) /\ [Next]_vars => (OnCourse => I)'
  <2>1. SUFFICES ASSUME OnCourse => I, [Next]_vars, OnCourse' PROVE I'
    OBVIOUS
  <2>2. I
    BY <2>1, NoWayBack
  <2> QED
    BY <2>1, <2>2, InvNext, ViewNext
<1> HIDE DEF I
<1>3. Spec => [](OnCourse => I)
  BY <1>1, <1>2, PTL DEF Spec
<1> QED
  BY <1>3 DEF I

(* KernelMapped, for every machine.  Until a null pointer is taken for a    *)
(* table, no step of remap_kernel or init_heap takes a page of the image,   *)
(* the screen or the multiboot structure away from under the CPU.  There    *)
(* are three exceptions under the new root: the guard page, a page with     *)
(* nothing but the last byte of its section, and the right to execute the   *)
(* pages behind the structure.                                              *)
THEOREM KernelMappedCorrect == ASSUME ZeroedMemory PROVE Spec => []KernelMapped
<1>1. (OnCourse => IInv /\ View /\ Counts) => KernelMapped
  BY InvKernelMapped DEF KernelMapped
<1> QED
  BY <1>1, ViewInvariance, PTL

(* FinalMapping, for every machine: when no null pointer was taken for a    *)
(* table, the mapping that remap_kernel and init_heap leave behind is what  *)
(* their loops say, page by page, and nothing else.                         *)
THEOREM FinalMappingCorrect == ASSUME ZeroedMemory PROVE Spec => []FinalMapping
<1>1. (OnCourse => IInv /\ View /\ Counts) => FinalMapping
  BY InvFinalMapping DEF FinalMapping, OnCourse
<1> QED
  BY <1>1, ViewInvariance, PTL
-----------------------------------------------------------------------------
(* The heap's frames *)

(* A page that shows a free frame: only the screen's, and one of those the   *)
(* multiboot loop maps to themselves, the latter only for reading.           *)
Harmless(l, page, t) ==
  t.frame \in l.free =>
    \/ t.frame = VgaFrame
    \/ t.frame = page /\ Loop(l.start, BoundOf(l) + 1, page) /\ ~t.write

FrameUnder(page) == Walk(mem, new_p4, page).frame

(* The heap's pages that are mapped.                                        *)
HeapMade == {page \in HeapRange : page < addr /\ (Pending => page # job.page)}

(* The frames of the heap were free, are no tables and are not shared; the  *)
(* next one is about to be mapped, or the guard page to be unmapped.        *)
PrivateFrames(place) ==
  At \in {"heap", "done"} /\ ~exhausted =>
    /\ \A page \in HeapMade :
         FrameUnder(page) \in d.free \ pool /\ place[FrameUnder(page)].level = 0
    /\ \A page, other \in HeapMade :
         page # other => FrameUnder(page) # FrameUnder(other)
    /\ \A page \in OrdinaryPages \ HeapMade :
         (Pending => page # job.page) => Harmless(d, page, Walk(mem, new_p4, page))
    /\ Pending /\ ~job.unmap =>
         /\ job.page \in HeapRange /\ job.page < addr
         /\ job.frame \in d.free \ pool /\ place[job.frame].level = 0
         /\ \A page \in HeapMade : FrameUnder(page) # job.frame
    /\ Pending /\ job.unmap => addr = HeapStart

(* Before there is a heap, and after memory has run out, nothing is claimed. *)
LEMMA NothingPrivate ==
  ASSUME NEW place, At' \notin {"heap", "done"} \/ exhausted'
  PROVE  PrivateFrames(place)'
BY DEF PrivateFrames

(* The heap's pages are no page of the window.                              *)
LEMMA HeapOrdinary == HeapRange \subseteq OrdinaryPages /\ HeapMade \subseteq HeapRange
BY HeapFacts DEF OrdinaryPages, HeapMade

(* What stays while the heap's mappings do.                                 *)
LEMMA SamePrivate ==
  ASSUME NEW place, NEW place2, Inv(place), PrivateFrames(place),
         At \in {"heap", "done"} /\ ~exhausted,
         UNCHANGED <<d, new_p4>>,
         pool' \subseteq pool,
         \A h \in Frames : h \notin pool => place2[h] = place[h],
         \A page \in OrdinaryPages : Walk(mem', new_p4, page) = Walk(mem, new_p4, page),
         HeapMade' = HeapMade,
         \A page : (Pending' => page # job'.page) => (Pending => page # job.page),
         Pending' /\ ~job'.unmap =>
           /\ job'.page \in HeapRange /\ job'.page < addr'
           /\ job'.frame \in d.free \ pool' /\ place2[job'.frame].level = 0
           /\ \A page \in HeapMade : FrameUnder(page) # job'.frame,
         Pending' /\ job'.unmap => addr' = HeapStart
  PROVE  PrivateFrames(place2)'
<1>1. \A page \in HeapMade : FrameUnder(page)' = FrameUnder(page)
  BY HeapOrdinary DEF FrameUnder
<1>2. d.free \subseteq Frames
  BY LayoutFacts DEF Inv, Shape
<1>3. \A page \in HeapMade' :
         FrameUnder(page)' \in d'.free \ pool' /\ place2[FrameUnder(page)'].level = 0
  <2>1. SUFFICES ASSUME NEW page \in HeapMade
                 PROVE  FrameUnder(page) \in d.free \ pool' /\ place2[FrameUnder(page)].level = 0
    BY <1>1
  <2>2. FrameUnder(page) \in d.free \ pool /\ place[FrameUnder(page)].level = 0
    BY DEF PrivateFrames
  <2> QED
    BY <1>2, <2>2
<1>4. \A page, other \in HeapMade' : page # other => FrameUnder(page)' # FrameUnder(other)'
  BY <1>1 DEF PrivateFrames
<1>5. \A page \in OrdinaryPages \ HeapMade' :
        (Pending' => page # job'.page) => Harmless(d', page, Walk(mem', new_p4', page))
  BY DEF PrivateFrames
<1>6. \A page \in HeapMade' : Pending' /\ ~job'.unmap => FrameUnder(page)' # job'.frame
  BY <1>1
<1> QED
  BY <1>3, <1>4, <1>5, <1>6 DEF PrivateFrames

(* A job that goes on.                                                      *)
LEMMA JobPrivate ==
  ASSUME NEW place, NEW place2, Inv(place), PrivateFrames(place),
         pc = "job", pc' = "job",
         job'.then = job.then, job'.page = job.page, job'.frame = job.frame,
         job'.unmap = job.unmap,
         UNCHANGED <<d, new_p4, addr, exhausted>>,
         pool' \subseteq pool,
         \A h \in Frames : h \notin pool => place2[h] = place[h],
         At \in Cleared =>
           \A page \in OrdinaryPages : Walk(mem', new_p4, page) = Walk(mem, new_p4, page)
  PROVE  PrivateFrames(place2)'
<1>1. At' = At /\ (Pending' <=> Pending)
  BY DEF At, AtOf, Pending
<1>2. CASE At \in {"heap", "done"} /\ ~exhausted
  <2>1. HeapMade' = HeapMade
    BY <1>1 DEF HeapMade
  <2>2. \A page \in OrdinaryPages : Walk(mem', new_p4, page) = Walk(mem, new_p4, page)
    BY <1>2, Phases
  <2>3. Pending /\ ~job.unmap =>
          /\ job.page \in HeapRange /\ job.page < addr
          /\ job.frame \in d.free \ pool /\ place[job.frame].level = 0
          /\ \A page \in HeapMade : FrameUnder(page) # job.frame
    BY <1>2 DEF PrivateFrames
  <2>4. Pending /\ job.unmap => addr = HeapStart
    BY <1>2 DEF PrivateFrames
  <2>5. d.free \subseteq Frames
    BY LayoutFacts DEF Inv, Shape
  <2> QED
    BY <1>1, <1>2, <2>1, <2>2, <2>3, <2>4, <2>5, SamePrivate
<1>3. CASE ~(At \in {"heap", "done"} /\ ~exhausted)
  BY <1>1, <1>3, NothingPrivate
<1> QED
  BY <1>2, <1>3

(* A level down, with a table or with a new one.                            *)
LEMMA DescendPrivate ==
  ASSUME NEW place, Inv(place), PrivateFrames(place), Descend
  PROVE  PrivateFrames(place)'
<1>1. /\ pc = "job" /\ pc' = "job" /\ job.level > 1 /\ DownOneLevel
      /\ UNCHANGED <<d, mem, pool, exhausted, new_p4, addr>>
  BY DEF Descend, OnTheWay
<1>2. /\ job'.page = job.page /\ job'.frame = job.frame
      /\ job'.unmap = job.unmap /\ job'.then = job.then
  BY <1>1, Downwards
<1> QED
  BY <1>1, <1>2, JobPrivate

LEMMA CreateTablePrivate ==
  ASSUME NEW place, Inv(place), PrivateFrames(place), CreateTable,
         NEW place2, NewTable(place, place2)
  PROVE  PrivateFrames(place2)'
<1>1. /\ pc = "job" /\ pc' = "job" /\ job.level > 1 /\ DownOneLevel /\ pool # {}
      /\ UNCHANGED <<d, new_p4, addr>>
  BY DEF CreateTable, NeedsTable, OnTheWay
<1>2. pool' \subseteq pool /\ exhausted' = exhausted
  BY <1>1 DEF CreateTable, allocate_frame, NeedsTable, OnTheWay
<1>3. /\ job'.page = job.page /\ job'.frame = job.frame
      /\ job'.unmap = job.unmap /\ job'.then = job.then
  BY <1>1, Downwards
<1>4. \A h \in Frames : h \notin pool => place2[h] = place[h]
  BY DEF NewTable
<1> QED
  BY <1>1, <1>2, <1>3, <1>4, CreateTableWalks, JobPrivate

(* The last level sets the heap's page: it shows its frame from now on.     *)
LEMMA SetLeafPrivate ==
  ASSUME NEW place, Inv(place), PrivateFrames(place), SetLeaf
  PROVE  PrivateFrames(place)'
<1> DEFINE e == EntryFor(job.frame, job.flags)
<1>1. /\ pc = "job" /\ job.level = 1 /\ ~job.unmap
      /\ mem' = Stored(job.table, Index, e)
      /\ pc' = job.then
      /\ UNCHANGED <<d, cr3, pool, exhausted, job, new_p4, section, addr>>
  BY DEF SetLeaf
<1>2. e \in Entries /\ e.frame = job.frame
  BY JobFields DEF Inv, Types, EntryFor, Entries, JobFlags, Flags
<1>3. Present(e)
  BY <1>1 DEF Inv, JobOK, EntryFor, Present
<1>4. mem' = Put(mem, Table, Index, e)
  BY <1>1, JobTable
<1> HIDE DEF e
<1>5. job.then \in Callers
  BY <1>1 DEF Inv, JobOK
<1>6. At = job.then /\ At' = At
  BY <1>1, <1>5 DEF At, AtOf, Callers
<1>7. CASE ~(At \in {"heap", "done"} /\ ~exhausted)
  BY <1>1, <1>6, <1>7, NothingPrivate
<1>8. CASE At \in {"heap", "done"} /\ ~exhausted
  <2>1. At = "heap" /\ Pending
    BY <1>1, <1>5, <1>6, <1>8 DEF Callers, Pending
  <2>2. /\ ~Pending'
        /\ \A page \in OrdinaryPages :
             page # job.page => Walk(mem', new_p4, page) = Walk(mem, new_p4, page)
        /\ Walk(mem', new_p4, job.page) = LeafOf(e.frame, e.flags)
    BY <1>1, <1>2, <1>3, <1>4, <2>1, Phases, LeafWalks
  <2>3. /\ job.page \in HeapRange /\ job.page < addr
        /\ job.frame \in d.free \ pool /\ place[job.frame].level = 0
        /\ \A page \in HeapMade : FrameUnder(page) # job.frame
    BY <1>1, <1>8, <2>1 DEF PrivateFrames
  <2>4. HeapMade' = HeapMade \cup {job.page} /\ job.page \notin HeapMade
    BY <1>1, <2>1, <2>2, <2>3 DEF HeapMade
  <2>5. /\ \A page \in HeapMade : FrameUnder(page)' = FrameUnder(page)
        /\ FrameUnder(job.page)' = job.frame
    <3>1. ASSUME NEW page \in HeapMade PROVE FrameUnder(page)' = FrameUnder(page)
      <4>1. page \in OrdinaryPages /\ page # job.page
        BY <2>4, HeapOrdinary
      <4> QED
        BY <1>1, <2>2, <4>1 DEF FrameUnder
    <3>2. FrameUnder(job.page)' = job.frame
      BY <1>1, <1>2, <2>2 DEF FrameUnder, LeafOf
    <3> QED
      BY <3>1, <3>2
  <2>6. /\ \A page \in HeapMade :
             FrameUnder(page) \in d.free \ pool /\ place[FrameUnder(page)].level = 0
        /\ \A page, other \in HeapMade :
             page # other => FrameUnder(page) # FrameUnder(other)
    BY <1>8 DEF PrivateFrames
  <2>7. ASSUME NEW page \in HeapMade'
        PROVE  FrameUnder(page)' \in d.free \ pool /\ place[FrameUnder(page)'].level = 0
    <3>1. CASE page = job.page
      BY <1>1, <2>3, <2>5, <3>1
    <3>2. CASE page \in HeapMade
      <4>1. FrameUnder(page)' = FrameUnder(page)
        BY <2>5, <3>2
      <4> QED
        BY <2>6, <3>2, <4>1
    <3> QED
      BY <2>4, <2>7, <3>1, <3>2
  <2>8. ASSUME NEW page \in HeapMade', NEW other \in HeapMade', page # other
        PROVE  FrameUnder(page)' # FrameUnder(other)'
    <3>1. CASE page = job.page \/ other = job.page
      BY <1>1, <2>3, <2>4, <2>5, <2>8, <3>1
    <3>2. CASE page \in HeapMade /\ other \in HeapMade
      <4>1. FrameUnder(page)' = FrameUnder(page) /\ FrameUnder(other)' = FrameUnder(other)
        BY <2>5, <3>2
      <4> QED
        BY <2>8, <2>6, <3>2, <4>1
    <3> QED
      BY <2>4, <2>8, <3>1, <3>2
  <2>9. ASSUME NEW page \in OrdinaryPages \ HeapMade'
        PROVE  Harmless(d, page, Walk(mem', new_p4, page))
    <3>1. page \notin HeapMade /\ page # job.page
      BY <2>4, <2>9
    <3> QED
      BY <1>8, <2>2, <2>9, <3>1 DEF PrivateFrames
  <2> QED
    BY <1>1, <2>2, <2>7, <2>8, <2>9 DEF PrivateFrames
<1> QED
  BY <1>7, <1>8

(* What no entry leads to is no frame.                                      *)
LEMMA NoLeafHarmless ==
  ASSUME NEW place, Inv(place), NEW page
  PROVE  Harmless(d, page, NoLeaf)
<1>1. d.free \subseteq Nat
  BY LayoutFacts, ConstantFacts, FirstDigit DEF Inv, Shape
<1> QED
  BY <1>1 DEF Harmless, NoLeaf

(* The last level of unmap_page makes the hole.                             *)
LEMMA ClearLeafPrivate ==
  ASSUME NEW place, Inv(place), PrivateFrames(place), ClearLeaf
  PROVE  PrivateFrames(place)'
<1>1. /\ pc = "job" /\ job.level = 1 /\ job.unmap
      /\ mem' = Stored(job.table, Index, Unused)
      /\ pc' = job.then
      /\ UNCHANGED <<d, cr3, pool, exhausted, job, new_p4, section, addr>>
  BY DEF ClearLeaf
<1>2. Unused \in Entries /\ ~Present(Unused)
  BY EmptyTableType DEF Unused, Present
<1>3. mem' = Put(mem, Table, Index, Unused)
  BY <1>1, JobTable
<1>4. job.then \in Callers
  BY <1>1 DEF Inv, JobOK
<1>5. At = job.then /\ At' = At
  BY <1>1, <1>4 DEF At, AtOf, Callers
<1>6. CASE ~(At \in {"heap", "done"} /\ ~exhausted)
  BY <1>1, <1>5, <1>6, NothingPrivate
<1>7. CASE At \in {"heap", "done"} /\ ~exhausted
  <2>1. At = "heap" /\ Pending
    BY <1>1, <1>4, <1>5, <1>7 DEF Callers, Pending
  <2>2. /\ ~Pending'
        /\ \A page \in OrdinaryPages :
             page # job.page => Walk(mem', new_p4, page) = Walk(mem, new_p4, page)
        /\ Walk(mem', new_p4, job.page) = NoLeaf
    BY <1>1, <1>2, <1>3, <2>1, Phases, LeafWalks
  <2>3. addr = HeapStart
    BY <1>1, <1>7, <2>1 DEF PrivateFrames
  <2>4. HeapMade = {} /\ HeapMade' = {}
    BY <1>1, <2>3, HeapFacts DEF HeapMade, HeapRange
  <2>5. ASSUME NEW page \in OrdinaryPages
        PROVE  Harmless(d, page, Walk(mem', new_p4, page))
    <3>1. CASE page = job.page
      BY <2>2, <3>1, NoLeafHarmless
    <3>2. CASE page # job.page
      BY <1>7, <2>2, <2>4, <3>2 DEF PrivateFrames
    <3> QED
      BY <3>1, <3>2
  <2> QED
    BY <1>1, <2>2, <2>4, <2>5 DEF PrivateFrames
<1> QED
  BY <1>6, <1>7

(* What remap_kernel has mapped shows no frame of the allocator but where   *)
(* the multiboot loop did.                                                  *)
LEMMA ExpectedHarmless ==
  ASSUME NEW place, Inv(place), NEW page, NEW t,
         Expected(d, "guard", section, addr, page, t)
  PROVE  Harmless(d, page, t)
<1>1. LayoutOK(d) /\ ImageOK(d)
  BY LayoutHere
<1>2. CASE InStructure(d, "guard", addr, page) /\ t = LeafOf(page, {"no_exec"})
  <2>1. Loop(d.start, BoundOf(d) + 1, page)
    BY <1>2 DEF InStructure
  <2> QED
    BY <1>2, <2>1 DEF Harmless, LeafOf
<1>3. CASE page = VgaFrame /\ t = LeafOf(page, {"writeable", "no_exec"})
  <2>1. t.frame = VgaFrame
    BY <1>3 DEF LeafOf
  <2> QED
    BY <2>1 DEF Harmless
<1>4. CASE t = NoLeaf
  BY <1>4, NoLeafHarmless
<1>5. ASSUME NEW i \in 1 .. Len(d.sections),
             Last(Holding(d, "guard", section, addr, page), i),
             t = RightsOf(d.sections[i], page)
      PROVE  Harmless(d, page, t)
  <2>1. IsAllocated(d.sections[i]) /\ page \in MappedPagesOf(d.sections[i])
    BY <1>5 DEF Last, Holding, SectionDone
  <2>2. page \notin d.free
    <3>1. page \in PagesOf(d.sections[i])
      BY <1>1, <2>1, SectionFields, MappedInSection
    <3> QED
      BY <1>1, <2>1, <3>1 DEF ImageOK
  <2>3. t.frame = page
    BY <1>5 DEF RightsOf
  <2> QED
    BY <2>2, <2>3 DEF Harmless
<1> QED
  BY <1>2, <1>3, <1>4, <1>5, Zenon DEF Expected

(* The heap is begun with none of its pages mapped.                         *)
LEMMA UnmapGuardPagePrivate ==
  ASSUME NEW place, Inv(place), View, UnmapGuardPage
  PROVE  PrivateFrames(place)'
<1> DEFINE j == UnmapJob(d.p4, "heap")
<1>1. /\ pc = "guard" /\ StartJob(j) /\ addr' = HeapStart
      /\ UNCHANGED <<d, mem, new_p4>>
  BY DEF UnmapGuardPage
<1>2. j.unmap
  BY DEF UnmapJob
<1> HIDE DEF j
<1>3. ~Pending /\ At = "guard" /\ job' = j /\ At \in Cleared
  BY <1>1, NoJobUnderWay, JobUnderWay, Phases
<1>4. HeapMade' = {}
  BY <1>1, HeapFacts DEF HeapMade, HeapRange
<1>5. ASSUME NEW page \in OrdinaryPages
      PROVE  Harmless(d, page, Walk(mem', new_p4, page))
  <2>1. Expected(d, "guard", section, addr, page, Walk(mem, new_p4, page))
    BY <1>3 DEF View
  <2> QED
    BY <1>1, <2>1, ExpectedHarmless
<1> QED
  BY <1>1, <1>2, <1>3, <1>4, <1>5 DEF PrivateFrames

(* The frame for the heap's next page is a new one.                         *)
LEMMA MapHeapPagePrivate ==
  ASSUME NEW place, Inv(place), PrivateFrames(place), MapHeapPage
  PROVE  PrivateFrames(place)'
<1>1. /\ pc = "heap" /\ addr' = addr + 1 /\ addr < HeapStart + HeapPages
      /\ UNCHANGED <<d, mem, new_p4>>
  BY DEF MapHeapPage
<1>2. PICK f \in pool \cup {0} :
        allocate_frame(f) /\ StartJob(MapJob(addr, f, {"writeable"}, "heap"))
  BY DEF MapHeapPage
<1> DEFINE j == MapJob(addr, f, {"writeable"}, "heap")
<1>3. StartJob(j) /\ j.then = "heap" /\ j.page = addr /\ j.frame = f /\ ~j.unmap
  BY <1>2 DEF MapJob
<1> HIDE DEF j
<1>4. ~Pending /\ At = "heap" /\ Pending' /\ At' = "heap" /\ job' = j
  BY <1>1, <1>3, NoJobUnderWay, JobUnderWay
<1>5. exhausted \in BOOLEAN /\ (exhausted => pool = {})
  BY DEF Inv, Types, Roots
<1>6. CASE exhausted'
  BY <1>6, NothingPrivate
<1>7. CASE ~exhausted'
  <2>1. f \in pool /\ pool' = pool \ {f}
    BY <1>2, <1>5, <1>7, AllocateEffect
  <2>2. ~exhausted
    BY <1>5, <2>1
  <2>3. f \in d.free /\ place[f].level = 0
    BY <2>1 DEF Inv, Shape, FreeFrames
  <2>4. addr \in HeapRange /\ addr \in Nat
    BY <1>1, <1>4, HeapFacts DEF Inv, Loops, HeapRange
  <2>5. HeapMade' = HeapMade
    <3>1. \A page \in HeapRange : page \in Nat
      BY HeapFacts, FirstDigit
    <3>2. \A page \in HeapRange : (page < addr + 1 /\ page # addr) <=> page < addr
      BY <2>4, <3>1
    <3> QED
      BY <1>1, <1>3, <1>4, <3>2 DEF HeapMade
  <2>6. \A page \in HeapMade : FrameUnder(page) # f
    BY <1>4, <2>1, <2>2 DEF PrivateFrames
  <2> QED
    BY <1>1, <1>3, <1>4, <2>1, <2>2, <2>3, <2>4, <2>5, <2>6, SamePrivate
<1> QED
  BY <1>6, <1>7

(* The heap is mapped.                                                      *)
LEMMA HeapMappedPrivate ==
  ASSUME NEW place, Inv(place), PrivateFrames(place), HeapMapped
  PROVE  PrivateFrames(place)'
<1>1. /\ pc = "heap" /\ pc' = "done"
      /\ UNCHANGED <<d, mem, pool, exhausted, job, new_p4, addr>>
  BY DEF HeapMapped
<1>2. ~Pending /\ ~Pending' /\ At = "heap"
  BY <1>1, NoJobUnderWay DEF Pending
<1>3. HeapMade' = HeapMade
  BY <1>1, <1>2 DEF HeapMade
<1> QED
  BY <1>1, <1>2, <1>3 DEF PrivateFrames, FrameUnder

(* The other steps are before the heap.                                     *)
LEMMA EarlierPrivate ==
  ASSUME NEW place, flush_tlb \/ (remap_kernel /\ ~UnmapGuardPage)
  PROVE  PrivateFrames(place)'
<1>1. CASE flush_tlb
  <2>1. pc' \in {"clear", "sections", "unmap_old"}
    BY <1>1 DEF flush_tlb, AfterFlush
  <2> QED
    BY <2>1, NothingPrivate DEF At, AtOf
<1>2. CASE ClearNewRoot \/ MakeNewRecursive \/ PointOldAtNew \/ RestoreOldRoot \/ SwitchRoot
  <2>1. pc' \in {"recurse_new", "recurse_old", "flush_recursion", "flush_restored", "guard"}
    BY <1>2 DEF ClearNewRoot, MakeNewRecursive, PointOldAtNew, RestoreOldRoot, SwitchRoot,
                StoreRecursion
  <2> QED
    BY <2>1, NothingPrivate DEF At, AtOf
<1>3. CASE SkipSection \/ AssertFails \/ BeginSection \/ EndSection
  <2>1. pc' \in {"sections", "assert", "pages"}
    BY <1>3 DEF SkipSection, AssertFails, BeginSection, EndSection, AtSection
  <2> QED
    BY <2>1, NothingPrivate DEF At, AtOf
<1>4. CASE AllocateNewRoot \/ MapOldRoot \/ MapSectionPage \/ MapVga \/ MapMultibootPage
           \/ UnmapOldRoot
  <2>1. pc' = "job" /\ job'.then \in {"map_old", "flush_old", "pages", "multiboot", "switch"}
    BY <1>4 DEF AllocateNewRoot, MapOldRoot, MapSectionPage, MapVga, MapMultibootPage,
                UnmapOldRoot, StartJob, IdentityJob, MapJob, UnmapJob
  <2> QED
    BY <2>1, NothingPrivate DEF At, AtOf
<1> QED
  BY <1>1, <1>2, <1>3, <1>4 DEF remap_kernel, MapSections

-----------------------------------------------------------------------------
(* Where every frame is *)

(* A frame of the heap: one of its pages shows it, or is about to.           *)
GivenToHeap(f) ==
  \/ \E page \in HeapMade : FrameUnder(page) = f
  \/ Pending /\ ~job.unmap /\ job.frame = f

(* Tables are in frames that were handed out, or are those of boot.s.       *)
Owned(place) ==
  \A f \in Frames :
    place[f].level # 0 => f \in (d.free \ pool) \cup {d.p4, d.p3, d.p2}

(* An entry leads to every table but the roots.                             *)
Linked(m, place, l) ==
  \A f \in Frames :
    place[f].level \in 1 .. 3 =>
      /\ PointsToTable(place, l, place[f].up, place[f].at)
      /\ Present(m[place[f].up][place[f].at])
      /\ m[place[f].up][place[f].at].frame = f

TwoRoots(place) ==
  \A f \in Frames : place[f].level = 4 => f = d.p4 \/ (pc # "start" /\ f = new_p4)

(* Clearing the new root loses no table: there is none below it yet.        *)
NothingBelowNewRoot(place) ==
  At \in {"map_old", "flush_old", "clear"} =>
    \A f \in Frames : place[f].level \in 1 .. 3 => place[f].up # new_p4

(* What was handed out has become a table or is the heap's.                 *)
NothingLost(place) ==
  \A f \in d.free \ pool :
    place[f].level # 0 \/ (At \in {"heap", "done"} /\ GivenToHeap(f))

Accounts(place) ==
  /\ Owned(place)
  /\ pc = "job" /\ job.then = "switch" => job.unmap
  /\ ~exhausted =>
       /\ Linked(mem, place, d)
       /\ TwoRoots(place)
       /\ NothingBelowNewRoot(place)
       /\ NothingLost(place)

(* Entries that lead to tables stay, so all tables are still found.         *)
LEMMA LinkedKept ==
  ASSUME NEW m, NEW m2, NEW place, NEW l, place \in [Frames -> Places],
         Linked(m, place, l), Kept(m, m2, place, l)
  PROVE  Linked(m2, place, l)
<1> SUFFICES ASSUME NEW f \in Frames, place[f].level \in 1 .. 3
             PROVE  /\ PointsToTable(place, l, place[f].up, place[f].at)
                    /\ Present(m2[place[f].up][place[f].at])
                    /\ m2[place[f].up][place[f].at].frame = f
  BY DEF Linked
<1> DEFINE u == place[f].up
           i == place[f].at
<1>1. u \in Frames /\ i \in Indices
  BY PlaceType
<1>2. PointsToTable(place, l, u, i) /\ Present(m[u][i]) /\ m[u][i].frame = f
  BY DEF Linked
<1> HIDE DEF u, i
<1>3. m2[u][i] = m[u][i]
  BY <1>1, <1>2 DEF Kept
<1> QED
  BY <1>2, <1>3 DEF u, i

(* What a step does to memory: it edits a table.                            *)
LEMMA StoreCases ==
  ASSUME NEW place, Inv(place), [Next]_vars
  PROVE  \/ mem' = mem
         \/ CreateTable
         \/ pc = "job" /\ job.level = 1
              /\ \E e \in Entries : mem' = Put(mem, Table, Index, e)
         \/ \E g \in Frames, e \in Entries :
              place[g].level = 4 /\ mem' = Put(mem, g, RecursiveIndex, e)
         \/ ClearNewRoot
<1>1. CASE SetLeaf
  <2>1. /\ pc = "job" /\ job.level = 1
        /\ mem' = Stored(job.table, Index, EntryFor(job.frame, job.flags))
    BY <1>1 DEF SetLeaf
  <2>2. EntryFor(job.frame, job.flags) \in Entries
    BY JobFields DEF Inv, Types, EntryFor, Entries, JobFlags, Flags
  <2> QED
    BY <2>1, <2>2, JobTable
<1>2. CASE ClearLeaf
  <2>1. pc = "job" /\ job.level = 1 /\ mem' = Stored(job.table, Index, Unused)
    BY <1>2 DEF ClearLeaf
  <2> QED
    BY <2>1, EmptyTableType, JobTable
<1>3. CASE MakeNewRecursive \/ PointOldAtNew \/ RestoreOldRoot
  <2>1. PICK g \in {new_p4, d.p4}, f \in {new_p4, d.p4} :
          mem' = Put(mem, g, RecursiveIndex, EntryFor(f, Writeable))
    <3>1. CASE MakeNewRecursive
      <4>1. /\ pc = "recurse_new"
            /\ mem' = Stored(NewP4Page, RecursiveIndex, EntryFor(new_p4, Writeable))
        BY <3>1 DEF MakeNewRecursive, StoreRecursion
      <4>2. Translation(NewP4Page).frame = new_p4
        BY <4>1, TemporaryFrames DEF NewRootMapped, At, AtOf
      <4> QED
        BY <4>1, <4>2 DEF Stored, Put
    <3>2. CASE PointOldAtNew
      <4>1. /\ pc = "recurse_old"
            /\ mem' = Stored(p4_table, RecursiveIndex, EntryFor(new_p4, Writeable))
        BY <3>2 DEF PointOldAtNew, StoreRecursion
      <4>2. Translation(p4_table).frame = d.p4
        BY <4>1, RootTranslates
           DEF Inv, Roots, Target, TargetOf, At, AtOf, FillingNew, Settled
      <4> QED
        BY <4>1, <4>2 DEF Stored, Put
    <3>3. CASE RestoreOldRoot
      <4>1. /\ pc = "multiboot"
            /\ mem' = Stored(OldP4Page, RecursiveIndex, EntryFor(d.p4, Writeable))
        BY <3>3 DEF RestoreOldRoot, StoreRecursion
      <4>2. Translation(OldP4Page).frame = d.p4
        BY <4>1, TemporaryFrames DEF OldRootMapped, FillingNew, At, AtOf
      <4> QED
        BY <4>1, <4>2 DEF Stored, Put
    <3> QED
      BY <1>3, <3>1, <3>2, <3>3
  <2>2. pc \in {"recurse_new", "recurse_old", "multiboot"}
    BY <1>3 DEF MakeNewRecursive, PointOldAtNew, RestoreOldRoot, StoreRecursion
  <2>3. /\ new_p4 \in Frames /\ place[new_p4].level = 4
        /\ d.p4 \in Frames /\ place[d.p4].level = 4
    BY <2>2, Places4 DEF Inv, Roots, Doomed
  <2>4. EntryFor(f, Writeable) \in Entries
    BY <2>3, FlagsOfTables DEF EntryFor, Entries
  <2> QED
    BY <2>1, <2>3, <2>4
<1>4. CASE \/ flush_tlb \/ init_heap \/ UNCHANGED vars \/ Ended \/ Descend
           \/ NullTable \/ PageFault
           \/ (remap_kernel /\ ~(\/ ClearNewRoot \/ MakeNewRecursive
                                 \/ PointOldAtNew \/ RestoreOldRoot))
  BY <1>4 DEF flush_tlb, init_heap, MapHeapPage, HeapMapped, vars, Ended, Descend,
              NullTable, PageFault, remap_kernel, AllocateNewRoot, MapOldRoot, MapSections,
              SkipSection, AssertFails, BeginSection, MapSectionPage, EndSection, MapVga,
              MapMultibootPage, UnmapOldRoot, SwitchRoot, UnmapGuardPage
<1> QED
  BY <1>1, <1>2, <1>3, <1>4 DEF Next, MapOrUnmap, remap_kernel

(* Only the clearing of the new root takes entries away that lead to tables. *)
LEMMA StoresKeep ==
  ASSUME NEW place, Inv(place), [Next]_vars, ~ClearNewRoot
  PROVE  Kept(mem, mem', place, d)
<1>1. Shape(mem, place, d, pool)
  BY DEF Inv
<1>2. CASE mem' = mem
  BY <1>2 DEF Kept
<1>3. CASE CreateTable
  <2>1. pc = "job" /\ job.level > 1 /\ ~Present(EntryAtIndex)
    BY <1>3 DEF CreateTable, NeedsTable, OnTheWay
  <2>2. PICK f \in pool : mem' = Put(mem, Table, Index, EntryFor(f, Writeable))
    <3>1. PICK f \in pool : mem' = Stored(job.table, Index, EntryFor(f, Writeable))
      BY <1>3 DEF CreateTable, NeedsTable, OnTheWay
    <3> QED
      BY <2>1, <3>1, JobTable
  <2> DEFINE g == Table
             i == Index
  <2>3. /\ g \in Frames /\ i \in Indices
        /\ PointsToTable(place, d, g, i) /\ ~Present(mem[g][i])
    BY <2>1, JobTable
  <2> HIDE DEF g, i
  <2>4. Kept(mem, Put(mem, g, i, EntryFor(f, Writeable)), place, d)
    BY <1>1, <2>3, TableStore
  <2> QED
    BY <2>2, <2>4 DEF g, i
<1>4. CASE pc = "job" /\ job.level = 1
             /\ \E e \in Entries : mem' = Put(mem, Table, Index, e)
  BY <1>1, <1>4, JobTable, LeafStore
<1>5. CASE \E g \in Frames, e \in Entries :
             place[g].level = 4 /\ mem' = Put(mem, g, RecursiveIndex, e)
  BY <1>1, <1>5, RecursionStore
<1> QED
  BY <1>2, <1>3, <1>4, <1>5, StoreCases

(* A step that hands out no frame and makes no table.                       *)
LEMMA SameAccounts ==
  ASSUME NEW place, Inv(place), Accounts(place), [Next]_vars,
         UNCHANGED <<d, pool, new_p4>>,
         pc' = "start" => pc = "start",
         exhausted => exhausted',
         pc' = "job" /\ job'.then = "switch" =>
           job'.unmap \/ (pc = "job" /\ job.then = "switch" /\ job'.unmap = job.unmap),
         ~exhausted' =>
           /\ Linked(mem, place, d) => Linked(mem', place, d)
           /\ At' \in {"map_old", "flush_old", "clear"} => At \in {"map_old", "flush_old", "clear"}
           /\ At \in {"heap", "done"} =>
                /\ At' \in {"heap", "done"}
                /\ \A f \in d.free \ pool : GivenToHeap(f) => GivenToHeap(f)'
  PROVE  Accounts(place)'
<1>1. Owned(place)'
  BY DEF Accounts, Owned
<1>2. pc' = "job" /\ job'.then = "switch" => job'.unmap
  BY DEF Accounts
<1>3. ASSUME ~exhausted'
      PROVE  /\ Linked(mem', place, d')
             /\ TwoRoots(place)'
             /\ NothingBelowNewRoot(place)'
             /\ NothingLost(place)'
  <2>1. /\ Linked(mem, place, d) /\ TwoRoots(place)
        /\ NothingBelowNewRoot(place) /\ NothingLost(place)
    BY <1>3 DEF Accounts
  <2>2. TwoRoots(place)'
    BY <2>1 DEF TwoRoots
  <2>3. NothingBelowNewRoot(place)'
    BY <1>3, <2>1 DEF NothingBelowNewRoot
  <2>4. NothingLost(place)'
    BY <1>3, <2>1 DEF NothingLost
  <2> QED
    BY <1>3, <2>1, <2>2, <2>3, <2>4
<1> QED
  BY <1>1, <1>2, <1>3 DEF Accounts

(* A job that goes on or ends without a new table.                          *)
LEMMA DescendAccounts ==
  ASSUME NEW place, Inv(place), Accounts(place), Descend
  PROVE  Accounts(place)'
<1>1. /\ pc = "job" /\ pc' = "job" /\ job.level > 1 /\ DownOneLevel
      /\ UNCHANGED <<d, mem, pool, exhausted, new_p4, addr>>
  BY DEF Descend, OnTheWay
<1>2. /\ job'.page = job.page /\ job'.frame = job.frame
      /\ job'.unmap = job.unmap /\ job'.then = job.then
  BY <1>1, Downwards
<1>3. At' = At /\ (Pending' <=> Pending)
  BY <1>1, <1>2 DEF At, AtOf, Pending
<1>4. \A f : GivenToHeap(f) => GivenToHeap(f)'
  BY <1>1, <1>2, <1>3 DEF GivenToHeap, HeapMade, FrameUnder
<1>5. [Next]_vars
  BY DEF Next, MapOrUnmap
<1> QED
  BY <1>1, <1>2, <1>3, <1>4, <1>5, SameAccounts

(* The frame of a new table is accounted for as such.                       *)
LEMMA CreateTableAccounts ==
  ASSUME NEW place, Inv(place), Accounts(place), CreateTable,
         NEW place2, Inv(place2)', NewTable(place, place2)
  PROVE  Accounts(place2)'
<1>1. /\ pc = "job" /\ pc' = "job" /\ job.level > 1 /\ DownOneLevel /\ pool # {}
      /\ ~Present(EntryAtIndex) /\ ~job.unmap
      /\ UNCHANGED <<d, new_p4, addr>>
  BY DEF CreateTable, NeedsTable, OnTheWay
<1>2. /\ job'.page = job.page /\ job'.frame = job.frame
      /\ job'.unmap = job.unmap /\ job'.then = job.then
  BY <1>1, Downwards
<1>3. At' = At /\ (Pending' <=> Pending) /\ ~exhausted /\ At = job.then
  BY <1>1, <1>2 DEF At, AtOf, Pending, Inv, Roots
<1>4. PICK f \in pool :
        /\ pool' = pool \ {f}
        /\ mem' = Put(mem, Table, Index, EntryFor(f, Writeable))
        /\ place2[f] = Child(place, Table, Index)
        /\ \A h \in Frames : h # f => place2[h] = place[h]
  BY DEF NewTable
<1>5. /\ Shape(mem, place, d, pool) /\ mem \in Memory /\ place \in [Frames -> Places]
      /\ f \in Frames /\ f \in d.free /\ place[f].level = 0
  BY <1>4, LayoutFacts DEF Inv, Shape, FreeFrames
<1>6. /\ Table \in Frames /\ Index \in Indices /\ place[Table].level = job.level
      /\ job.level \in 2 .. 4
      /\ PointsToTable(place, d, Table, Index) /\ ~Present(mem[Table][Index])
  BY <1>1, JobTable
<1>7. /\ place2[f].level = job.level - 1 /\ place2[f].up = Table /\ place2[f].at = Index
  BY <1>4, <1>6, ChildFields
<1>8. /\ Linked(mem, place, d) /\ TwoRoots(place) /\ Owned(place)
      /\ NothingBelowNewRoot(place) /\ NothingLost(place)
  BY <1>3 DEF Accounts
<1>9. Owned(place2)'
  <2>1. SUFFICES ASSUME NEW h \in Frames, place2[h].level # 0
                 PROVE  h \in (d.free \ (pool \ {f})) \cup {d.p4, d.p3, d.p2}
    BY <1>1, <1>4 DEF Owned
  <2> QED
    BY <1>4, <1>5, <1>8, <2>1 DEF Owned
<1>10. Linked(mem', place2, d)
  <2>1. SUFFICES ASSUME NEW h \in Frames, place2[h].level \in 1 .. 3
                 PROVE  /\ PointsToTable(place2, d, place2[h].up, place2[h].at)
                        /\ Present(mem'[place2[h].up][place2[h].at])
                        /\ mem'[place2[h].up][place2[h].at].frame = h
    BY DEF Linked
  <2>2. EntryFor(f, Writeable) \in Entries /\ Present(EntryFor(f, Writeable))
        /\ EntryFor(f, Writeable).frame = f
    BY <1>5, FlagsOfTables DEF EntryFor, Entries, Present
  <2> DEFINE t == Table
             k == Index
             e == EntryFor(f, Writeable)
  <2>3. /\ t \in Frames /\ k \in Indices /\ e \in Entries /\ mem' = Put(mem, t, k, e)
        /\ t # f
    BY <1>4, <1>5, <1>6, <2>2
  <2> HIDE DEF t, k, e
  <2>4. /\ mem'[t][k] = e
        /\ \A g \in Frames, j \in Indices : g # t \/ j # k => mem'[g][j] = mem[g][j]
    BY <1>5, <2>3, PutEffect
  <2>5. \A g \in Frames, j \in Indices :
          PointsToTable(place, d, g, j) => PointsToTable(place2, d, g, j)
    BY <1>4, <1>5 DEF PointsToTable
  <2>6. CASE h = f
    BY <1>6, <1>7, <2>2, <2>4, <2>5, <2>6 DEF t, k, e
  <2>7. CASE h # f
    <3>1. place2[h] = place[h]
      BY <1>4, <2>7
    <3> DEFINE u == place[h].up
               i == place[h].at
    <3>2. u \in Frames /\ i \in Indices
      BY <1>5, PlaceType
    <3>3. PointsToTable(place, d, u, i) /\ Present(mem[u][i]) /\ mem[u][i].frame = h
      BY <1>8, <2>1, <3>1 DEF Linked
    <3> HIDE DEF u, i
    <3>4. u # t \/ i # k
      BY <1>6, <3>3 DEF t, k
    <3> QED
      BY <2>4, <2>5, <3>1, <3>2, <3>3, <3>4 DEF u, i
  <2> QED
    BY <2>6, <2>7
<1>11. TwoRoots(place2)'
  <2>1. SUFFICES ASSUME NEW h \in Frames, place2[h].level = 4
                 PROVE  h = d.p4 \/ h = new_p4
    BY <1>1 DEF TwoRoots
  <2>2. h # f
    BY <1>6, <1>7, <2>1
  <2> QED
    BY <1>4, <1>8, <2>1, <2>2 DEF TwoRoots
<1>12. NothingBelowNewRoot(place2)'
  <2>1. SUFFICES ASSUME At \in {"map_old", "flush_old", "clear"},
                        NEW h \in Frames, place2[h].level \in 1 .. 3
                 PROVE  place2[h].up # new_p4
    BY <1>1, <1>3 DEF NothingBelowNewRoot
  <2>2. CASE h = f
    <3>1. new_p4 # d.p4 /\ place[new_p4].level = 4 /\ cr3 = d.p4
      BY <1>1, <1>3, <2>1 DEF Inv, Roots, Doomed, Settled
    <3>2. Target = cr3
      BY <2>1, Phases DEF Target, TargetOf
    <3>3. job.level = 4 => Table = Target
      BY DEF Table, FrameAt
    <3> QED
      BY <1>6, <1>7, <2>2, <3>1, <3>2, <3>3
  <2>3. CASE h # f
    BY <1>4, <1>8, <2>1, <2>3 DEF NothingBelowNewRoot
  <2> QED
    BY <2>2, <2>3
<1>13. NothingLost(place2)'
  <2>1. SUFFICES ASSUME NEW h \in d.free \ (pool \ {f})
                 PROVE  place2[h].level # 0 \/ (At \in {"heap", "done"} /\ GivenToHeap(h)')
    BY <1>1, <1>3, <1>4 DEF NothingLost
  <2>2. CASE h = f
    BY <1>6, <1>7, <2>2
  <2>3. CASE h # f
    <3>1. place[h].level # 0 \/ (At \in {"heap", "done"} /\ GivenToHeap(h))
      BY <1>8, <2>1, <2>3 DEF NothingLost
    <3>2. h \in Frames
      BY <1>5, <2>1, LayoutFacts DEF Shape
    <3>3. ASSUME At \in {"heap", "done"}, GivenToHeap(h) PROVE GivenToHeap(h)'
      <4>1. HeapMade' = HeapMade
        BY <1>1, <1>2, <1>3 DEF HeapMade
      <4>2. \A page \in HeapMade : FrameUnder(page)' = FrameUnder(page)
        BY <1>1, <3>3, Phases, HeapOrdinary, CreateTableWalks DEF FrameUnder
      <4> QED
        BY <1>2, <1>3, <3>3, <4>1, <4>2 DEF GivenToHeap
    <3> QED
      BY <1>4, <2>3, <3>1, <3>2, <3>3
  <2> QED
    BY <2>2, <2>3
<1> QED
  BY <1>1, <1>2, <1>9, <1>10, <1>11, <1>12, <1>13 DEF Accounts

(* The frame of a heap's page is accounted for before and after.            *)
LEMMA LeafAccounts ==
  ASSUME NEW place, Inv(place), PrivateFrames(place), Accounts(place), SetLeaf \/ ClearLeaf
  PROVE  Accounts(place)'
<1> DEFINE e == IF SetLeaf THEN EntryFor(job.frame, job.flags) ELSE Unused
<1>1. /\ pc = "job" /\ job.level = 1 /\ pc' = job.then
      /\ mem' = Stored(job.table, Index, e)
      /\ UNCHANGED <<d, cr3, pool, exhausted, job, new_p4, section, addr>>
      /\ job.unmap => ~SetLeaf
      /\ ~job.unmap => SetLeaf
  BY DEF SetLeaf, ClearLeaf
<1>2. /\ e \in Entries
      /\ ~job.unmap => e = EntryFor(job.frame, job.flags) /\ Present(e) /\ e.frame = job.frame
  <2>1. /\ EntryFor(job.frame, job.flags) \in Entries
        /\ EntryFor(job.frame, job.flags).frame = job.frame
    BY JobFields DEF Inv, Types, EntryFor, Entries, JobFlags, Flags
  <2>2. ~job.unmap => Present(EntryFor(job.frame, job.flags))
    BY <1>1 DEF Inv, JobOK, EntryFor, Present
  <2> QED
    BY <1>1, <2>1, <2>2, EmptyTableType
<1>3. mem' = Put(mem, Table, Index, e)
  BY <1>1, JobTable
<1> HIDE DEF e
<1>4. job.then \in Callers /\ At = job.then /\ At' = At
  BY <1>1 DEF Inv, JobOK, At, AtOf, Callers
<1>5. [Next]_vars /\ ~ClearNewRoot
  BY <1>1 DEF Next, MapOrUnmap, ClearNewRoot
<1>6. Linked(mem, place, d) => Linked(mem', place, d)
  BY <1>5, StoresKeep, LinkedKept DEF Inv, Shape
<1>7. ASSUME At \in {"heap", "done"}, ~exhausted, NEW f, GivenToHeap(f)
      PROVE  GivenToHeap(f)'
  <2>1. At = "heap" /\ Pending
    BY <1>1, <1>4, <1>7 DEF Callers, Pending
  <2>2. /\ ~Pending'
        /\ \A page \in OrdinaryPages :
             page # job.page => Walk(mem', new_p4, page) = Walk(mem, new_p4, page)
        /\ Walk(mem', new_p4, job.page)
             = IF Present(e) THEN LeafOf(e.frame, e.flags) ELSE NoLeaf
    BY <1>1, <1>2, <1>3, <2>1, Phases, LeafWalks
  <2>3. CASE job.unmap
    <3>1. addr = HeapStart
      BY <1>7, <2>1, <2>3 DEF PrivateFrames
    <3>2. HeapMade = {}
      BY <3>1, HeapFacts DEF HeapMade, HeapRange
    <3> QED
      BY <1>7, <2>3, <3>2 DEF GivenToHeap
  <2>4. CASE ~job.unmap
    <3>1. job.page \in HeapRange /\ job.page < addr
      BY <1>7, <2>1, <2>4 DEF PrivateFrames
    <3>2. HeapMade' = HeapMade \cup {job.page} /\ job.page \notin HeapMade
      BY <1>1, <2>1, <2>2, <3>1 DEF HeapMade
    <3>3. PICK made : made = job.page /\ Walk(mem', new_p4', made) = LeafOf(job.frame, e.flags)
      BY <1>1, <1>2, <2>2, <2>4
    <3>4. ASSUME NEW page \in HeapMade PROVE FrameUnder(page)' = FrameUnder(page)
      <4>1. page \in OrdinaryPages /\ page # job.page
        BY <3>2, HeapOrdinary
      <4> QED
        BY <1>1, <2>2, <4>1 DEF FrameUnder
    <3>5. CASE job.frame = f
      <4>1. made \in HeapMade' /\ FrameUnder(made)' = f
        BY <3>2, <3>3, <3>5 DEF FrameUnder, LeafOf
      <4> QED
        BY <4>1 DEF GivenToHeap
    <3>6. CASE job.frame # f
      <4>1. PICK page \in HeapMade : FrameUnder(page) = f
        BY <1>7, <3>6 DEF GivenToHeap
      <4> QED
        BY <3>2, <3>4, <4>1 DEF GivenToHeap
    <3> QED
      BY <3>5, <3>6
  <2> QED
    BY <2>3, <2>4
<1>8. pc' # "start" /\ pc' # "job"
  BY <1>1, <1>4 DEF Callers
<1> QED
  BY <1>1, <1>4, <1>5, <1>6, <1>7, <1>8, SameAccounts

(* The frame of the new root is a table's from the beginning.               *)
LEMMA AllocateNewRootAccounts ==
  ASSUME NEW place, Inv(place), Accounts(place), AllocateNewRoot,
         NEW place2, Inv(place2)', NewRoot(place, place2)
  PROVE  Accounts(place2)'
<1>1. /\ pc = "start" /\ pc' = "job" /\ job'.then = "map_old"
      /\ UNCHANGED <<d, mem, addr>>
  BY DEF AllocateNewRoot, StartJob, MapJob
<1>2. CASE exhausted' /\ pool' = pool /\ place2 = place
  BY <1>1, <1>2 DEF Accounts, Owned
<1>3. ASSUME NEW f \in pool,
             pool' = pool \ {f}, new_p4' = f, place2[f].level = 4,
             \A h \in Frames : h # f => place2[h] = place[h]
      PROVE  Accounts(place2)'
  <2>1. /\ place \in [Frames -> Places]
        /\ f \in Frames /\ f \in d.free /\ place[f].level = 0
    BY <1>3, LayoutFacts DEF Inv, Shape, FreeFrames
  <2>2. ~exhausted
    BY <1>3 DEF Inv, Roots
  <2>3. At = "start"
    BY <1>1 DEF At, AtOf
  <2>4. /\ Linked(mem, place, d) /\ TwoRoots(place) /\ Owned(place) /\ NothingLost(place)
    BY <2>2 DEF Accounts
  <2>5. ASSUME NEW h \in Frames, place2[h].level \in 1 .. 3
        PROVE  /\ h # f /\ place2[h] = place[h] /\ place[h].up # f
               /\ place[h].up \in Frames
               /\ PointsToTable(place, d, place[h].up, place[h].at)
               /\ Present(mem[place[h].up][place[h].at])
               /\ mem[place[h].up][place[h].at].frame = h
    <3>1. h # f /\ place2[h] = place[h]
      BY <1>3, <2>5
    <3>2. /\ PointsToTable(place, d, place[h].up, place[h].at)
          /\ Present(mem[place[h].up][place[h].at])
          /\ mem[place[h].up][place[h].at].frame = h
      BY <2>4, <2>5, <3>1 DEF Linked
    <3>3. place[h].up # f
      BY <2>1, <3>2 DEF PointsToTable
    <3>4. place[h].up \in Frames
      BY <2>1, PlaceType
    <3> QED
      BY <3>1, <3>2, <3>3, <3>4
  <2>6. Linked(mem', place2, d)
    <3>1. SUFFICES ASSUME NEW h \in Frames, place2[h].level \in 1 .. 3
                   PROVE  PointsToTable(place2, d, place[h].up, place[h].at)
      BY <1>1, <2>5 DEF Linked
    <3>2. place2[place[h].up] = place[place[h].up]
      BY <1>3, <2>5, <3>1
    <3> QED
      BY <2>5, <3>1, <3>2 DEF PointsToTable
  <2>7. TwoRoots(place2)'
    BY <1>1, <1>3, <2>4 DEF TwoRoots
  <2>8. NothingBelowNewRoot(place2)'
    BY <1>3, <2>5 DEF NothingBelowNewRoot
  <2>9. NothingLost(place2)'
    <3>1. SUFFICES ASSUME NEW h \in d.free \ (pool \ {f})
                   PROVE  place2[h].level # 0
      BY <1>1, <1>3 DEF NothingLost
    <3>2. h \in Frames
      BY <3>1, LayoutFacts DEF Inv, Shape
    <3> QED
      BY <1>3, <2>3, <2>4, <3>1, <3>2 DEF NothingLost
  <2>10. Owned(place2)'
    BY <1>1, <1>3, <2>1, <2>4 DEF Owned
  <2> QED
    BY <1>1, <2>6, <2>7, <2>8, <2>9, <2>10 DEF Accounts
<1> QED
  BY <1>2, <1>3 DEF NewRoot

(* The new root, when it is cleared, has led to no table yet.               *)
LEMMA ClearNewRootAccounts ==
  ASSUME NEW place, Inv(place), Accounts(place), ClearNewRoot
  PROVE  Accounts(place)'
<1>1. /\ pc = "clear" /\ pc' = "recurse_new"
      /\ mem' = [mem EXCEPT ![Translation(NewP4Page).frame] = EmptyTable]
      /\ UNCHANGED <<d, pool, exhausted, new_p4>>
  BY DEF ClearNewRoot
<1>2. At = "clear" /\ At' = "recurse_new"
  BY <1>1 DEF At, AtOf
<1>3. Translation(NewP4Page).frame = new_p4
  BY <1>2, TemporaryFrames DEF NewRootMapped
<1>4. mem \in Memory /\ place \in [Frames -> Places]
  BY DEF Inv, Shape
<1>5. ASSUME Linked(mem, place, d), ~exhausted'
      PROVE  Linked(mem', place, d)
  <2>1. SUFFICES ASSUME NEW h \in Frames, place[h].level \in 1 .. 3
                 PROVE  mem'[place[h].up] = mem[place[h].up]
    BY <1>5 DEF Linked
  <2>2. place[h].up # new_p4 /\ place[h].up \in Frames
    BY <1>1, <1>2, <1>4, <1>5, <2>1, PlaceType DEF Accounts, NothingBelowNewRoot
  <2> QED
    BY <1>1, <1>3, <1>4, <2>2 DEF Memory
<1>6. [Next]_vars
  BY DEF Next, remap_kernel
<1> QED
  BY <1>1, <1>2, <1>5, <1>6, SameAccounts

(* The other steps before the heap edit no table, or the recursion's entry. *)
LEMMA EarlierAccounts ==
  ASSUME NEW place, Inv(place), Accounts(place),
         flush_tlb \/ (remap_kernel /\ ~AllocateNewRoot /\ ~ClearNewRoot)
  PROVE  Accounts(place)'
<1>1. [Next]_vars /\ ~ClearNewRoot
  BY DEF Next, flush_tlb, AfterFlush, ClearNewRoot
<1>2. Linked(mem, place, d) => Linked(mem', place, d)
  BY <1>1, StoresKeep, LinkedKept DEF Inv, Shape
<1>3. /\ UNCHANGED <<d, pool, exhausted, new_p4>>
      /\ pc \notin {"start", "heap", "job", "done"}
      /\ \/ pc' \notin {"start", "job", "map_old", "flush_old", "clear"}
         \/ pc = "flush_old" /\ pc' = "clear"
         \/ pc = "map_old" /\ pc' = "job" /\ job'.then = "flush_old"
         \/ pc' = "job" /\ job'.then \notin {"switch", "map_old", "flush_old", "clear"}
         \/ pc' = "job" /\ job'.unmap
              /\ job'.then \notin {"map_old", "flush_old", "clear"}
  <2>1. CASE flush_tlb
    BY <2>1 DEF flush_tlb, AfterFlush
  <2>2. CASE SkipSection \/ AssertFails \/ BeginSection \/ MapSectionPage \/ EndSection
    BY <2>2 DEF SkipSection, AssertFails, BeginSection, MapSectionPage, EndSection,
                AtSection, StartJob, IdentityJob, MapJob
  <2>3. CASE MakeNewRecursive \/ PointOldAtNew \/ RestoreOldRoot \/ SwitchRoot
    BY <2>3 DEF MakeNewRecursive, PointOldAtNew, RestoreOldRoot, StoreRecursion, SwitchRoot
  <2>4. CASE MapOldRoot \/ MapVga \/ MapMultibootPage \/ UnmapOldRoot \/ UnmapGuardPage
    BY <2>4 DEF MapOldRoot, MapVga, MapMultibootPage, UnmapOldRoot, UnmapGuardPage,
                StartJob, IdentityJob, MapJob, UnmapJob
  <2> QED
    BY <2>1, <2>2, <2>3, <2>4 DEF remap_kernel, MapSections
<1>4. /\ At = pc /\ At \notin {"heap", "done"}
      /\ At' \in {"map_old", "flush_old", "clear"} => At \in {"map_old", "flush_old", "clear"}
      /\ pc' = "job" /\ job'.then = "switch" => job'.unmap
      /\ pc' # "start"
  BY <1>3 DEF At, AtOf
<1> QED
  BY <1>1, <1>2, <1>3, <1>4, SameAccounts

(* The frame of the heap's next page is the heap's from now on.             *)
LEMMA MapHeapPageAccounts ==
  ASSUME NEW place, Inv(place), Accounts(place), MapHeapPage
  PROVE  Accounts(place)'
<1>1. /\ pc = "heap" /\ addr' = addr + 1 /\ addr < HeapStart + HeapPages
      /\ UNCHANGED <<d, mem, new_p4>>
  BY DEF MapHeapPage
<1>2. PICK f \in pool \cup {0} :
        allocate_frame(f) /\ StartJob(MapJob(addr, f, {"writeable"}, "heap"))
  BY DEF MapHeapPage
<1> DEFINE j == MapJob(addr, f, {"writeable"}, "heap")
<1>3. StartJob(j) /\ j.then = "heap" /\ j.page = addr /\ j.frame = f /\ ~j.unmap
  BY <1>2 DEF MapJob
<1> HIDE DEF j
<1>4. ~Pending /\ At = "heap" /\ Pending' /\ At' = "heap" /\ job' = j /\ pc' = "job"
  BY <1>1, <1>3, NoJobUnderWay, JobUnderWay
<1>5. exhausted \in BOOLEAN /\ (exhausted => pool = {})
  BY DEF Inv, Types, Roots
<1>6. pool' \subseteq pool /\ (\/ f \in pool /\ pool' = pool \ {f} /\ exhausted' = FALSE
                               \/ pool = {} /\ f = 0 /\ exhausted' = TRUE)
  BY <1>2, <1>5, AllocateEffect
<1>7. Owned(place)'
  BY <1>1, <1>6 DEF Accounts, Owned
<1>8. CASE exhausted'
  BY <1>3, <1>4, <1>7, <1>8 DEF Accounts
<1>9. CASE ~exhausted'
  <2>1. ~exhausted /\ pool' = pool \ {f}
    BY <1>5, <1>6, <1>9
  <2>2. Linked(mem', place, d') /\ TwoRoots(place)' /\ NothingBelowNewRoot(place)'
    BY <1>1, <1>4, <2>1 DEF Accounts, TwoRoots, NothingBelowNewRoot
  <2>3. HeapMade \subseteq HeapMade'
    <3>1. At = "heap" => addr \in HeapStart .. HeapStart + HeapPages
      BY DEF Inv, Loops
    <3>2. \A page \in HeapRange : page \in Nat
      BY HeapFacts, FirstDigit
    <3>3. \A page \in HeapRange : page < addr => page < addr + 1 /\ page # addr
      BY <1>4, <3>1, <3>2, HeapFacts
    <3> QED
      BY <1>1, <1>3, <1>4, <3>3 DEF HeapMade
  <2>4. NothingLost(place)'
    <3>1. SUFFICES ASSUME NEW h \in d.free \ (pool \ {f})
                   PROVE  place[h].level # 0 \/ GivenToHeap(h)'
      BY <1>1, <1>4, <2>1 DEF NothingLost
    <3>2. CASE h = f
      BY <1>3, <1>4, <3>2 DEF GivenToHeap
    <3>3. CASE h # f
      <4>1. place[h].level # 0 \/ GivenToHeap(h)
        BY <2>1, <3>1, <3>3 DEF Accounts, NothingLost
      <4>2. GivenToHeap(h) => \E page \in HeapMade : FrameUnder(page) = h
        BY <1>4 DEF GivenToHeap
      <4>3. \A page : FrameUnder(page)' = FrameUnder(page)
        BY <1>1 DEF FrameUnder
      <4> QED
        BY <2>3, <4>1, <4>2, <4>3 DEF GivenToHeap
    <3> QED
      BY <3>2, <3>3
  <2> QED
    BY <1>3, <1>4, <1>7, <2>2, <2>4 DEF Accounts
<1> QED
  BY <1>8, <1>9

(* Nothing changes when init_heap ends, or when no step is taken.           *)
LEMMA LastAccounts ==
  ASSUME NEW place, Inv(place), Accounts(place), HeapMapped \/ UNCHANGED vars
  PROVE  Accounts(place)'
<1>1. /\ UNCHANGED <<d, mem, pool, exhausted, job, new_p4, addr>>
      /\ \/ pc = "heap" /\ pc' = "done"
         \/ pc' = pc
  BY DEF HeapMapped, vars
<1>2. [Next]_vars
  BY DEF Next, init_heap
<1>3. /\ Pending' <=> Pending
      /\ pc' = "job" => pc = "job"
      /\ At \in {"heap", "done"} => At' \in {"heap", "done"}
      /\ At' \in {"map_old", "flush_old", "clear"} => At \in {"map_old", "flush_old", "clear"}
  BY <1>1 DEF Pending, At, AtOf
<1>4. \A f : GivenToHeap(f) => GivenToHeap(f)'
  BY <1>1, <1>3 DEF GivenToHeap, HeapMade, FrameUnder
<1> QED
  BY <1>1, <1>2, <1>3, <1>4, SameAccounts

-----------------------------------------------------------------------------
(* Both with the same places *)

PInv == \E place : Inv(place) /\ PrivateFrames(place) /\ Accounts(place)

(* The invariant with all frames is inductive, given what the pages         *)
(* translate to.                                                            *)
LEMMA FramesNext == PInv /\ View /\ Counts /\ [Next]_vars /\ OnCourse' => PInv'
<1> SUFFICES ASSUME NEW place, Inv(place), PrivateFrames(place), Accounts(place),
                    View, Counts, [Next]_vars, OnCourse'
             PROVE  PInv'
  BY DEF PInv
<1>1. CASE Descend
  BY <1>1, DescendKeeps, DescendPrivate, DescendAccounts DEF PInv
<1>2. CASE CreateTable
  <2>1. PICK place2 : Inv(place2)' /\ NewTable(place, place2)
    BY <1>2, CreateTablePlaces
  <2> QED
    BY <1>2, <2>1, CreateTablePrivate, CreateTableAccounts DEF PInv
<1>4. CASE SetLeaf
  BY <1>4, SetLeafKeeps, SetLeafPrivate, LeafAccounts DEF PInv
<1>5. CASE ClearLeaf
  BY <1>5, ClearLeafKeeps, ClearLeafPrivate, LeafAccounts DEF PInv
<1>6. CASE UnmapGuardPage
  <2>1. remap_kernel /\ ~AllocateNewRoot /\ ~ClearNewRoot
    BY <1>6 DEF remap_kernel, UnmapGuardPage, AllocateNewRoot, ClearNewRoot
  <2> QED
    BY <1>6, <2>1, UnmapGuardPageKeeps, UnmapGuardPagePrivate, EarlierAccounts DEF PInv
<1>7. CASE AllocateNewRoot
  <2>1. PICK place2 : Inv(place2)' /\ NewRoot(place, place2)
    BY <1>7, AllocateNewRootKeeps
  <2>2. PrivateFrames(place2)'
    BY <1>7, EarlierPrivate DEF remap_kernel, AllocateNewRoot, UnmapGuardPage
  <2> QED
    BY <1>7, <2>1, <2>2, AllocateNewRootAccounts DEF PInv
<1>8. CASE flush_tlb \/ (remap_kernel /\ ~UnmapGuardPage /\ ~AllocateNewRoot)
  <2>1. Inv(place)' /\ PrivateFrames(place)'
    BY <1>8, FlushKeeps, RemapKernelKeeps, EarlierPrivate
  <2>2. Accounts(place)'
    BY <1>8, ClearNewRootAccounts, EarlierAccounts
  <2> QED
    BY <2>1, <2>2 DEF PInv
<1>9. CASE MapHeapPage
  BY <1>9, MapHeapPageKeeps, MapHeapPagePrivate, MapHeapPageAccounts DEF PInv
<1>10. CASE HeapMapped
  BY <1>10, HeapMappedKeeps, HeapMappedPrivate, LastAccounts DEF PInv
<1>11. CASE UNCHANGED vars
  <2>1. UNCHANGED <<d, mem, pool, exhausted, pc, job, new_p4, addr>>
    BY <1>11 DEF vars
  <2>2. PrivateFrames(place)'
    BY <2>1 DEF PrivateFrames, HeapMade, FrameUnder, At, Pending
  <2> QED
    BY <1>11, <2>2, StutterKeeps, LastAccounts DEF PInv
<1> QED
  BY <1>1, <1>2, <1>4, <1>5, <1>6, <1>7, <1>8, <1>9, <1>10, <1>11, OnCourseSteps
     DEF Next, MapOrUnmap, init_heap, Ended

(* In the beginning there is no heap.                                       *)
LEMMA PrivateInit == ZeroedMemory /\ Init => PInv
<1> SUFFICES ASSUME ZeroedMemory, Init PROVE PInv
  OBVIOUS
<1>1. PICK place : /\ Inv(place)
                   /\ \A f \in Frames \ {d.p4, d.p3, d.p2} : place[f].level = 0
  BY InitPlaces
<1>2. /\ At = "start" /\ pc = "start" /\ ~exhausted /\ pool = d.free /\ new_p4 = 0
      /\ \A f \in Frames \ d.free : mem[f] = BootTable(d, f)
  BY DEF Init, ZeroedMemory, At, AtOf
<1>3. /\ LayoutOK(d) /\ BootTree(mem, place, d)
      /\ d.p4 \in Frames \ d.free /\ d.p3 \in Frames \ d.free /\ d.p2 \in Frames \ d.free
  <2>1. LayoutOK(d) /\ BootTree(mem, place, d)
    BY <1>1 DEF Inv, Shape
  <2> QED
    BY <2>1, LayoutFacts
<1>4. /\ place[d.p4].level = 4
      /\ place[d.p3].level = 3 /\ place[d.p3].up = d.p4 /\ place[d.p3].at = 0
      /\ place[d.p2].level = 2 /\ place[d.p2].up = d.p3 /\ place[d.p2].at = 0
  BY <1>3, ChildFields, ConstantFacts DEF BootTree
<1>5. /\ mem[d.p4][0] = EntryFor(d.p3, Writeable)
      /\ mem[d.p3][0] = EntryFor(d.p2, Writeable)
  BY <1>2, <1>3, BootEntries
<1>6. Linked(mem, place, d)
  <2>1. \A f : Present(EntryFor(f, Writeable)) /\ EntryFor(f, Writeable).frame = f
    BY DEF EntryFor, Present, Writeable
  <2>2. PointsToTable(place, d, d.p4, 0) /\ PointsToTable(place, d, d.p3, 0)
    BY <1>3, <1>4, ConstantFacts DEF PointsToTable
  <2>3. \A f \in Frames : place[f].level \in 1 .. 3 => f = d.p3 \/ f = d.p2
    BY <1>1, <1>4
  <2> QED
    BY <1>4, <1>5, <2>1, <2>2, <2>3 DEF Linked
<1>7. Owned(place) /\ TwoRoots(place) /\ NothingLost(place)
  BY <1>1, <1>2, <1>4 DEF Owned, TwoRoots, NothingLost
<1>8. Accounts(place)
  BY <1>2, <1>6, <1>7 DEF Accounts, NothingBelowNewRoot
<1> QED
  BY <1>1, <1>2, <1>8 DEF PInv, PrivateFrames

(* The whole invariant, of tables and frames, is inductive: with the same   *)
(* places tables form a tree, the heap's frames are private and every frame *)
(* that was handed out is accounted for.                                    *)
THEOREM FramesInvariance ==
  ASSUME ZeroedMemory PROVE Spec => [](OnCourse => PInv /\ View /\ Counts)
<1> DEFINE I == PInv /\ View /\ Counts
<1>1. PInv => IInv
  BY DEF PInv, IInv
<1>2. Init => I
  BY PrivateInit, ViewInit
<1>3. (OnCourse => I) /\ [Next]_vars => (OnCourse => I)'
  BY <1>1, FramesNext, ViewNext, NoWayBack
<1> QED
  BY <1>2, <1>3, PTL DEF Spec

-----------------------------------------------------------------------------
(* The tables below a root *)

(* The root above a table, by its place.                                    *)
RootOf(place, f) ==
  LET u == place[f].up
      v == place[u].up
  IN  CASE place[f].level = 4 -> f
        [] place[f].level = 3 -> u
        [] place[f].level = 2 -> v
        [] place[f].level = 1 -> place[v].up

(* What the entries of the tables F at the indices S lead to.               *)
Children(m, F, S) ==
  {e.frame : e \in {x \in {m[g][i] : g \in F, i \in S} : Present(x) /\ "huge" \notin x.flags}}

Level3(m, root) == Children(m, {root}, Indices \ {RecursiveIndex})
Level2(m, root) == Children(m, Level3(m, root), Indices)
Level1(m, root) == Children(m, Level2(m, root), Indices)

LEMMA TableLevels ==
  ASSUME NEW m, NEW root
  PROVE  TableFrames(m, root)
           = {root} \cup Level3(m, root) \cup Level2(m, root) \cup Level1(m, root)
BY DEF TableFrames, Children, Level3, Level2, Level1

LEMMA ChildrenAre ==
  ASSUME NEW m, NEW F, NEW S, NEW h
  PROVE  h \in Children(m, F, S) <=>
           \E g \in F, i \in S :
             Present(m[g][i]) /\ "huge" \notin m[g][i].flags /\ m[g][i].frame = h
BY DEF Children

(* The tables of boot.s, as places.                                         *)
LEMMA BootPlaces ==
  ASSUME NEW m, NEW place, NEW l, BootTree(m, place, l), LayoutOK(l)
  PROVE  /\ l.p4 \in Frames /\ l.p3 \in Frames /\ l.p2 \in Frames
         /\ place[l.p4].level = 4 /\ RootOf(place, l.p4) = l.p4
         /\ place[l.p3].level = 3 /\ RootOf(place, l.p3) = l.p4
         /\ place[l.p2].level = 2 /\ RootOf(place, l.p2) = l.p4
         /\ \A i \in Indices : "huge" \in m[l.p2][i].flags
<1>1. /\ place[l.p4].level = 4
      /\ place[l.p3].level = 3 /\ place[l.p3].up = l.p4
      /\ place[l.p2].level = 2 /\ place[l.p2].up = l.p3
  BY ChildFields DEF BootTree
<1>2. l.p4 \in Frames /\ l.p3 \in Frames /\ l.p2 \in Frames
  BY LayoutFacts
<1>3. \A i \in Indices : "huge" \in m[l.p2][i].flags
  BY LayoutFacts DEF BootTree, BootTable, EntryFor
<1> QED
  BY <1>1, <1>2, <1>3 DEF RootOf

(* Every table below a root has a place below it.                           *)
LEMMA TablesPlaced ==
  ASSUME NEW m, NEW place, NEW l, NEW free, Shape(m, place, l, free),
         NEW root \in Frames, place[root].level = 4,
         NEW f \in TableFrames(m, root)
  PROVE  f \in Frames /\ place[f].level # 0 /\ RootOf(place, f) = root
<1>1. /\ m \in Memory /\ Tree(m, place, l) /\ BootTree(m, place, l) /\ LayoutOK(l)
  BY DEF Shape
<1>2. /\ place[l.p2].level = 2 /\ \A i \in Indices : "huge" \in m[l.p2][i].flags
  BY <1>1, BootPlaces
<1>3. ASSUME NEW g \in Frames, NEW i \in Indices, Present(m[g][i]), PointsToTable(place, l, g, i)
      PROVE  LET h == m[g][i].frame
             IN  h \in Frames /\ place[h].level = place[g].level - 1 /\ place[h].up = g
  BY <1>1, <1>3, ChildFields, EntryType DEF Tree
<1>4. ASSUME NEW h \in Level3(m, root)
      PROVE  h \in Frames /\ place[h].level = 3 /\ place[h].up = root
  <2>1. PICK i \in Indices \ {RecursiveIndex} : Present(m[root][i]) /\ m[root][i].frame = h
    BY <1>4, ChildrenAre DEF Level3
  <2>2. PointsToTable(place, l, root, i)
    BY <1>2, <2>1 DEF PointsToTable
  <2> QED
    BY <1>3, <2>1, <2>2
<1>5. ASSUME NEW h \in Level2(m, root)
      PROVE  /\ h \in Frames /\ place[h].level = 2
             /\ place[h].up \in Frames /\ place[place[h].up].up = root
  <2>1. PICK g \in Level3(m, root), i \in Indices : Present(m[g][i]) /\ m[g][i].frame = h
    BY <1>5, ChildrenAre DEF Level2
  <2>2. g \in Frames /\ place[g].level = 3 /\ place[g].up = root
    BY <1>4
  <2>3. PointsToTable(place, l, g, i)
    BY <1>2, <2>2 DEF PointsToTable
  <2> QED
    BY <1>3, <2>1, <2>2, <2>3
<1>6. ASSUME NEW h \in Level1(m, root)
      PROVE  /\ h \in Frames /\ place[h].level = 1
             /\ place[place[place[h].up].up].up = root
  <2>1. PICK g \in Level2(m, root), i \in Indices :
          Present(m[g][i]) /\ "huge" \notin m[g][i].flags /\ m[g][i].frame = h
    BY <1>6, ChildrenAre DEF Level1
  <2>2. g \in Frames /\ place[g].level = 2 /\ place[place[g].up].up = root
    BY <1>5
  <2>3. PointsToTable(place, l, g, i)
    BY <1>2, <2>1, <2>2 DEF PointsToTable
  <2> QED
    BY <1>3, <2>1, <2>2, <2>3
<1> QED
  BY <1>4, <1>5, <1>6, TableLevels DEF RootOf

(* Where entries lead to all tables, a table is found from its root, and    *)
(* its root is one.                                                         *)
LEMMA TablesFound ==
  ASSUME NEW m, NEW place, NEW l, NEW free, Shape(m, place, l, free),
         Linked(m, place, l), NEW f \in Frames, place[f].level # 0
  PROVE  LET root == RootOf(place, f)
         IN  root \in Frames /\ place[root].level = 4 /\ f \in TableFrames(m, root)
<1>1. m \in Memory /\ Tree(m, place, l) /\ place \in [Frames -> Places]
  BY DEF Shape
<1>2. ASSUME NEW h \in Frames, place[h].level \in 1 .. 3
      PROVE  /\ place[h].up \in Frames /\ place[h].at \in Indices
             /\ place[place[h].up].level = place[h].level + 1
             /\ PointsToTable(place, l, place[h].up, place[h].at)
             /\ LET e == m[place[h].up][place[h].at]
                IN  Present(e) /\ "huge" \notin e.flags /\ e.frame = h
  <2> DEFINE u == place[h].up
             i == place[h].at
  <2>1. u \in Frames /\ i \in Indices /\ place[u].level \in 0 .. 4
    BY <1>1, PlaceType
  <2>2. PointsToTable(place, l, u, i) /\ Present(m[u][i]) /\ m[u][i].frame = h
    BY <1>2 DEF Linked
  <2>3. m[u][i].flags = Writeable /\ place[h] = Child(place, u, i)
    BY <1>1, <2>1, <2>2 DEF Tree
  <2>4. place[h].level = place[u].level - 1
    BY <2>3, ChildFields
  <2>5. "huge" \notin m[u][i].flags
    BY <2>3 DEF Writeable
  <2> QED
    BY <2>1, <2>2, <2>4, <2>5
<1>3. ASSUME NEW h \in Frames, place[h].level = 3
      PROVE  /\ place[h].up \in Frames /\ place[place[h].up].level = 4
             /\ h \in Level3(m, place[h].up)
  <2>1. place[h].at \in Indices \ {RecursiveIndex}
    BY <1>2, <1>3 DEF PointsToTable
  <2> QED
    BY <1>2, <1>3, <2>1, ChildrenAre DEF Level3
<1>4. ASSUME NEW h \in Frames, place[h].level = 2
      PROVE  LET root == place[place[h].up].up
             IN  root \in Frames /\ place[root].level = 4 /\ h \in Level2(m, root)
  <2>1. place[h].up \in Frames /\ place[place[h].up].level = 3
    BY <1>2, <1>4
  <2>2. place[h].up \in Level3(m, place[place[h].up].up)
    BY <1>3, <2>1
  <2> QED
    BY <1>2, <1>3, <1>4, <2>1, <2>2, ChildrenAre DEF Level2
<1>5. ASSUME NEW h \in Frames, place[h].level = 1
      PROVE  LET root == place[place[place[h].up].up].up
             IN  root \in Frames /\ place[root].level = 4 /\ h \in Level1(m, root)
  <2>1. place[h].up \in Frames /\ place[place[h].up].level = 2
    BY <1>2, <1>5
  <2>2. place[h].up \in Level2(m, place[place[place[h].up].up].up)
    BY <1>4, <2>1
  <2> QED
    BY <1>2, <1>4, <1>5, <2>1, <2>2, ChildrenAre DEF Level1
<1>6. place[f].level \in 1 .. 4
  BY <1>1, PlaceType
<1> QED
  BY <1>3, <1>4, <1>5, <1>6, TableLevels DEF RootOf

(* So in the end the heap's frames are its own.                             *)
LEMMA InvHeapFramesPrivate == PInv /\ Counts => HeapFramesPrivate
<1> SUFFICES ASSUME NEW place, Inv(place), PrivateFrames(place), Counts,
                    pc = "done", ~exhausted, ~astray, VgaFrame \notin d.free \ pool,
                    NEW page \in HeapRange
             PROVE  LET f == Translation(page).frame
                    IN  /\ f \in d.free
                        /\ f \notin TableFrames(mem, cr3)
                        /\ \A other \in Pages \ {page} :
                             \/ IndexAt(4, other) = RecursiveIndex
                             \/ Translation(other).frame # f
                             \/ other = f /\ InMultibootLoop(f) /\ ~Translation(other).write
  BY DEF PInv, HeapFramesPrivate, HeapRange
<1> DEFINE f == Translation(page).frame
<1>1. At = "done" /\ ~Pending
  BY DEF At, AtOf, Pending
<1>2. cr3 = new_p4 /\ addr = HeapStart + HeapPages
  BY <1>1, Phases DEF Inv, Roots, Settled, Counts
<1>3. HeapMade = HeapRange
  BY <1>1, <1>2, HeapFacts, FirstDigit DEF HeapMade, HeapRange
<1>4. \A p : FrameUnder(p) = Translation(p).frame /\ Walk(mem, new_p4, p) = Translation(p)
  BY <1>2 DEF FrameUnder, Translation
<1>5. f \in d.free /\ f # VgaFrame /\ place[f].level = 0
  BY <1>1, <1>3, <1>4 DEF PrivateFrames
<1>6. f \notin TableFrames(mem, cr3)
  <2>1. new_p4 \in Frames /\ place[new_p4].level = 4 /\ new_p4 # d.p4
    BY <1>1, Phases, NewTree
  <2>2. \A g \in TableFrames(mem, new_p4) : place[g].level # 0
    BY <2>1, TablesPlaced DEF Inv
  <2> QED
    BY <1>2, <1>5, <2>2
<1>7. ASSUME NEW other \in Pages \ {page}, IndexAt(4, other) # RecursiveIndex,
             Translation(other).frame = f
      PROVE  other = f /\ InMultibootLoop(f) /\ ~Translation(other).write
  <2>1. other \in OrdinaryPages
    BY <1>7 DEF OrdinaryPages
  <2>2. other \notin HeapRange
    BY <1>1, <1>3, <1>4, <1>7 DEF PrivateFrames
  <2>3. Harmless(d, other, Translation(other))
    BY <1>1, <1>3, <1>4, <2>1, <2>2 DEF PrivateFrames
  <2>4. other = f /\ Loop(d.start, BoundOf(d) + 1, other) /\ ~Translation(other).write
    BY <1>5, <1>7, <2>3 DEF Harmless
  <2>5. InMultibootLoop(other) <=> Loop(d.start, BoundOf(d) + 1, other)
    BY <2>1, PageIsNat, LayoutHere, LoopOfStructure DEF InMultibootLoop
  <2> QED
    BY <2>4, <2>5
<1> QED
  BY <1>5, <1>6, <1>7

(* HeapFramesPrivate, for every machine: as long as init_heap gets frames,  *)
(* none of them the screen's, each page of the heap has one of its own,     *)
(* which no table is in and no other page can write to.                     *)
THEOREM HeapFramesPrivateCorrect ==
  ASSUME ZeroedMemory PROVE Spec => []HeapFramesPrivate
<1>1. (OnCourse => PInv /\ View /\ Counts) => HeapFramesPrivate
  BY InvHeapFramesPrivate DEF HeapFramesPrivate, OnCourse
<1> QED
  BY <1>1, FramesInvariance, PTL

-----------------------------------------------------------------------------
(* No frame is lost *)

HeapFrames == {Translation(page).frame : page \in HeapRange}

\* When the boot is over and memory sufficed, every frame that was handed out
\* is a table of the new root, a table below the old one or a page of the heap,
\* and none is two of these.
Accounted ==
  pc = "done" /\ ~exhausted /\ ~astray =>
    LET new == TableFrames(mem, new_p4)
        old == TableFrames(mem, d.p4) \ {d.p4, d.p3, d.p2}
    IN  /\ d.free \ pool = new \cup old \cup HeapFrames
        /\ new \cap old = {} /\ (new \cup old) \cap HeapFrames = {}

LEMMA InvAccounted == PInv /\ Counts => Accounted
<1> SUFFICES ASSUME NEW place, Inv(place), PrivateFrames(place), Accounts(place), Counts,
                    pc = "done", ~exhausted, ~astray
             PROVE  LET new == TableFrames(mem, new_p4)
                        old == TableFrames(mem, d.p4) \ {d.p4, d.p3, d.p2}
                    IN  /\ d.free \ pool = new \cup old \cup HeapFrames
                        /\ new \cap old = {} /\ (new \cup old) \cap HeapFrames = {}
  BY DEF PInv, Accounted
<1> DEFINE new == TableFrames(mem, new_p4)
           old == TableFrames(mem, d.p4) \ {d.p4, d.p3, d.p2}
<1>1. At = "done" /\ ~Pending
  BY DEF At, AtOf, Pending
<1>2. cr3 = new_p4 /\ addr = HeapStart + HeapPages
  BY <1>1, Phases DEF Inv, Roots, Settled, Counts
<1>3. HeapMade = HeapRange
  BY <1>1, <1>2, HeapFacts, FirstDigit DEF HeapMade, HeapRange
<1>4. HeapFrames = {FrameUnder(page) : page \in HeapMade}
  BY <1>2, <1>3 DEF HeapFrames, FrameUnder, Translation
<1>5. /\ Shape(mem, place, d, pool) /\ LayoutOK(d) /\ BootTree(mem, place, d)
      /\ d.free \subseteq Frames
  BY LayoutFacts DEF Inv, Shape
<1>6. /\ Owned(place) /\ Linked(mem, place, d) /\ TwoRoots(place) /\ NothingLost(place)
  BY DEF Accounts
<1>7. /\ new_p4 \in Frames /\ place[new_p4].level = 4 /\ new_p4 # d.p4
      /\ d.p4 \in Frames /\ place[d.p4].level = 4
      /\ \A f \in {d.p4, d.p3, d.p2} :
           f \in Frames /\ f \notin d.free /\ place[f].level # 0 /\ RootOf(place, f) = d.p4
  BY <1>1, <1>5, Phases, NewTree, BootPlaces, LayoutFacts
<1>8. \A f \in TableFrames(mem, new_p4) :
        f \in Frames /\ place[f].level # 0 /\ RootOf(place, f) = new_p4
  BY <1>5, <1>7, TablesPlaced
<1>9. \A f \in TableFrames(mem, d.p4) :
        f \in Frames /\ place[f].level # 0 /\ RootOf(place, f) = d.p4
  BY <1>5, <1>7, TablesPlaced
<1>10. \A f \in HeapFrames : f \in d.free \ pool /\ place[f].level = 0
  BY <1>1, <1>4 DEF PrivateFrames
<1>11. ASSUME NEW f \in new \cup old \cup HeapFrames PROVE f \in d.free \ pool
  <2>1. CASE f \in new
    BY <1>6, <1>7, <1>8, <2>1 DEF Owned
  <2>2. CASE f \in old
    BY <1>6, <1>7, <1>9, <2>2 DEF Owned
  <2> QED
    BY <1>10, <1>11, <2>1, <2>2
<1>12. ASSUME NEW f \in d.free \ pool PROVE f \in new \cup old \cup HeapFrames
  <2>1. CASE place[f].level # 0
    <3> DEFINE root == RootOf(place, f)
    <3>1. root \in Frames /\ place[root].level = 4 /\ f \in TableFrames(mem, root)
      BY <1>5, <1>6, <1>12, <2>1, TablesFound
    <3> HIDE DEF root
    <3>2. root \in {d.p4, new_p4}
      BY <1>6, <3>1 DEF TwoRoots
    <3> QED
      BY <1>7, <1>12, <3>1, <3>2
  <2>2. CASE place[f].level = 0
    <3>1. GivenToHeap(f)
      BY <1>6, <1>12, <2>2 DEF NothingLost
    <3> QED
      BY <1>1, <1>4, <3>1 DEF GivenToHeap
  <2> QED
    BY <2>1, <2>2
<1> HIDE DEF new, old
<1>13. d.free \ pool = new \cup old \cup HeapFrames
  BY <1>11, <1>12
<1>14. new \cap old = {} /\ (new \cup old) \cap HeapFrames = {}
  BY <1>7, <1>8, <1>9, <1>10 DEF new, old
<1> QED
  BY <1>13, <1>14 DEF new, old

(* For every machine: as long as memory suffices, remap_kernel and          *)
(* init_heap keep all they were given, each frame for one use, and nothing  *)
(* else becomes a table or a page of the heap.                              *)
THEOREM AccountedCorrect == ASSUME ZeroedMemory PROVE Spec => []Accounted
<1>1. (OnCourse => PInv /\ View /\ Counts) => Accounted
  BY InvAccounted DEF Accounted, OnCourse
<1> QED
  BY <1>1, FramesInvariance, PTL

-----------------------------------------------------------------------------
(* Where tables are edited *)

(* The third table of boot.s gets no new entry: the temporary pages are not  *)
(* below it, and what is created after them is below the new root.           *)
LEMMA CreatesElsewhere ==
  ASSUME NEW place, Inv(place), Accounts(place), CreateTable
  PROVE  Table \notin {d.p3, d.p2}
<1>1. pc = "job" /\ job.level \in 2 .. 4 /\ ~job.unmap
  BY JobTable DEF CreateTable, NeedsTable, OnTheWay
<1>2. /\ Table \in Frames /\ place[Table].level = job.level
      /\ PointsToTable(place, d, Table, Index)
  BY <1>1, JobTable
<1>3. /\ Shape(mem, place, d, pool) /\ BootTree(mem, place, d)
      /\ Editable(place, d, Target, job.page)
      /\ Reached(mem, Target, job.level, job.page)
      /\ job.then \in Callers /\ At = job.then
      /\ job.then = "map_old" => job.page = NewP4Page
      /\ job.then = "flush_old" => job.page = OldP4Page
  BY <1>1 DEF Inv, Shape, JobOK, At, AtOf
<1>4. ASSUME Table = d.p3 PROVE FALSE
  <2>1. job.level = 3
    BY <1>2, <1>3, <1>4, ChildFields DEF BootTree
  <2>2. Present(E4(mem, Target, job.page)) /\ Table = E4(mem, Target, job.page).frame
    BY <1>3, <2>1 DEF Reached, Table, FrameAt
  <2>3. place[Table] = Child(place, Target, IndexAt(4, job.page))
    BY <1>3, <2>2, WayPlaces
  <2>4. place[Table] = Child(place, d.p4, 0)
    BY <1>3, <1>4 DEF BootTree
  <2>5. Target = d.p4 /\ IndexAt(4, job.page) = 0
    BY <2>3, <2>4, ChildFields
  <2>6. job.then \notin {"map_old", "flush_old"}
    BY <1>3, <2>5, PlacesAssumption
  <2>7. job.then # "switch"
    BY <1>1 DEF Accounts
  <2>8. job.then \in {"pages", "multiboot", "heap"}
    BY <1>3, <2>6, <2>7 DEF Callers
  <2>9. new_p4 # d.p4 /\ Target = new_p4
    BY <1>1, <1>3, <2>8, Phases DEF Inv, Roots, Doomed, Target, TargetOf, Settled
  <2> QED
    BY <2>5, <2>9
<1> QED
  BY <1>2, <1>4 DEF PointsToTable

(* Who has stopped stores nothing.                                          *)
LEMMA NothingWhenLost ==
  ASSUME [Next]_vars, pc = "lost"
  PROVE  mem' = mem
BY DEF Next, vars, MapOrUnmap, Descend, CreateTable, NullTable, SetLeaf, ClearLeaf,
       NeedsTable, OnTheWay, flush_tlb, AfterFlush, remap_kernel, AllocateNewRoot, MapOldRoot,
       ClearNewRoot, MakeNewRecursive, PointOldAtNew, StoreRecursion, MapSections, SkipSection,
       AssertFails, BeginSection, MapSectionPage, EndSection, AtSection, MapVga,
       MapMultibootPage, RestoreOldRoot, UnmapOldRoot, SwitchRoot, UnmapGuardPage, init_heap,
       MapHeapPage, HeapMapped, PageFault, Ended

(* A store goes to a table that has a place, and none of these is another's. *)
LEMMA StoresWhereOwned ==
  ASSUME NEW place, Inv(place), Accounts(place), [Next]_vars,
         NEW f \in Frames, f \notin (d.free \ pool) \cup {d.p4}
  PROVE  mem'[f] = mem[f]
<1>1. /\ mem \in Memory /\ BootTree(mem, place, d) /\ Owned(place)
      /\ place[d.p3].level = 3 /\ place[d.p2].level = 2
  BY BootPlaces DEF Inv, Shape, Accounts
<1>2. ASSUME NEW g \in Frames, NEW i \in Indices, NEW e \in Entries,
             mem' = Put(mem, g, i, e), g \notin {d.p3, d.p2}, place[g].level # 0
      PROVE  mem'[f] = mem[f]
  <2>1. g # f
    BY <1>1, <1>2 DEF Owned
  <2> QED
    BY <1>1, <1>2, <2>1 DEF Put, Memory
<1>3. CASE CreateTable
  <2>1. pc = "job" /\ job.level > 1
    BY <1>3 DEF CreateTable, NeedsTable, OnTheWay
  <2>2. PICK h \in pool : mem' = Put(mem, Table, Index, EntryFor(h, Writeable))
    <3>1. PICK h \in pool : mem' = Stored(job.table, Index, EntryFor(h, Writeable))
      BY <1>3 DEF CreateTable, NeedsTable, OnTheWay
    <3> QED
      BY <2>1, <3>1, JobTable
  <2>3. /\ Table \in Frames /\ Index \in Indices /\ place[Table].level # 0
        /\ EntryFor(h, Writeable) \in Entries
    <3>1. h \in Frames
      BY LayoutFacts DEF Inv, Shape
    <3> QED
      BY <2>1, <3>1, JobTable, FlagsOfTables DEF EntryFor, Entries
  <2> QED
    BY <1>2, <1>3, <2>2, <2>3, CreatesElsewhere
<1>4. CASE /\ pc = "job" /\ job.level = 1
           /\ \E e \in Entries : mem' = Put(mem, Table, Index, e)
  <2>1. Table \in Frames /\ Index \in Indices /\ place[Table].level = 1
    BY <1>4, JobTable
  <2> QED
    BY <1>1, <1>2, <1>4, <2>1
<1>5. CASE \E g \in Frames, e \in Entries :
             place[g].level = 4 /\ mem' = Put(mem, g, RecursiveIndex, e)
  BY <1>1, <1>2, <1>5, ConstantFacts
<1>6. CASE ClearNewRoot
  <2>1. mem' = [mem EXCEPT ![new_p4] = EmptyTable] /\ At = "clear" /\ pc = "clear"
    BY <1>6, TemporaryFrames DEF ClearNewRoot, At, AtOf, NewRootMapped
  <2>2. new_p4 \in Frames /\ place[new_p4].level = 4
    BY <2>1, Places4 DEF Inv, Roots, Doomed
  <2>3. new_p4 # f
    BY <1>1, <2>2 DEF Owned
  <2> QED
    BY <1>1, <2>1, <2>2, <2>3 DEF Memory
<1>7. CASE mem' = mem
  BY <1>7
<1> QED
  BY <1>3, <1>4, <1>5, <1>6, <1>7, StoreCases

(* For every machine: as long as no null pointer was taken for a table,     *)
(* whatever remap_kernel and init_heap write to a table, they write to a    *)
(* frame that was given to them, or to the root of boot.s.                  *)
THEOREM StoresToOwnCorrect == ASSUME ZeroedMemory PROVE Spec => StoresToOwn
<1>1. (OnCourse => PInv) /\ [Next]_vars => [~astray => ConfinedStore]_vars
  <2>1. SUFFICES ASSUME OnCourse => PInv, [Next]_vars, ~astray PROVE ConfinedStore
    OBVIOUS
  <2>2. CASE OnCourse
    BY <2>1, <2>2, StoresWhereOwned DEF PInv, ConfinedStore
  <2>3. CASE ~OnCourse
    <3>1. pc = "lost"
      BY <2>1, <2>3 DEF OnCourse
    <3>2. mem' = mem
      BY <2>1, <3>1, NothingWhenLost
    <3> QED
      BY <3>2 DEF ConfinedStore
  <2> QED
    BY <2>2, <2>3
<1> QED
  BY <1>1, FramesInvariance, PTL DEF Spec, StoresToOwn
=============================================================================
