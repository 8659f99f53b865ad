----------------------------- MODULE TableProofs -----------------------------
(***************************************************************************)
(* Proofs about TablePlan, and with it TableGrid, for every table, every   *)
(* page height and every limit: no row is lost, repeated or moved, every   *)
(* cell has room, what the policies want together is together or excused,  *)
(* and the reports are true.                                               *)
(*                                                                         *)
(* First the grid, of which the plan only uses what it promises: the       *)
(* groups are the body rows in order whatever spans and policies have      *)
(* joined them (GroupsAreMade), and rows and columns have room for every   *)
(* cell (HeightsAreEnough, WidthsAreEnough).  Each is a fold, over the     *)
(* rows, cells or rounds in order; FoldLemmas gives its states one by one. *)
(* Then the plan, an action at a time: TableInv says where the placed      *)
(* units end, what is still to come, and what each policy still waits for. *)
(***************************************************************************)
EXTENDS TablePlan, FiniteSetTheorems, SequenceTheorems, TLAPS

(* Places in an order.  What comes before an element of a finite set tells *)
(* its place, and there is an element for every place.                     *)
Before(R, S, x) == {y \in S : <<y, x>> \in R}

Orders(R, S) ==
  /\ \A x \in S : <<x, x>> \notin R
  /\ \A x, y, z \in S : <<x, y>> \in R /\ <<y, z>> \in R => <<x, z>> \in R
  /\ \A x, y \in S : x # y => <<x, y>> \in R \/ <<y, x>> \in R

LEMMA BeforeGrows ==
  ASSUME NEW S, IsFiniteSet(S), NEW R, Orders(R, S), NEW x \in S, NEW y \in S, <<x, y>> \in R
  PROVE  Cardinality(Before(R, S, x)) < Cardinality(Before(R, S, y))
<1>1. Before(R, S, x) \subseteq Before(R, S, y) /\ x \in Before(R, S, y) /\ x \notin Before(R, S, x)
  BY DEF Before, Orders
<1>2. IsFiniteSet(Before(R, S, y))
  BY FS_Subset DEF Before
<1>3. Before(R, S, x) # Before(R, S, y)
  BY <1>1
<1> QED BY <1>1, <1>2, <1>3, FS_Subset, FS_CardinalityType

LEMMA Places ==
  ASSUME NEW S, IsFiniteSet(S), NEW R, Orders(R, S)
  PROVE  /\ Cardinality(S) \in Nat
         /\ \A x \in S : Cardinality(Before(R, S, x)) \in 0 .. Cardinality(S) - 1
         /\ \A k \in 1 .. Cardinality(S) :
              \E x \in S : Cardinality(Before(R, S, x)) = k - 1
<1> DEFINE n == Cardinality(S)
           place == [x \in S |-> Cardinality(Before(R, S, x)) + 1]
<1>1. n \in Nat
  BY FS_CardinalityType
<1>2. ASSUME NEW x \in S PROVE Cardinality(Before(R, S, x)) \in 0 .. n - 1
  <2>1. Before(R, S, x) \subseteq S /\ Before(R, S, x) # S
    BY DEF Before, Orders
  <2> QED BY <1>1, <2>1, FS_Subset, FS_CardinalityType
<1>3. place \in [S -> 1 .. n]
  BY <1>1, <1>2
<1>4. ASSUME NEW x \in S, NEW y \in S, x # y PROVE place[x] # place[y]
  <2>1. <<x, y>> \in R \/ <<y, x>> \in R
    BY <1>4 DEF Orders
  <2>2. Cardinality(Before(R, S, x)) # Cardinality(Before(R, S, y))
    BY <1>2, <2>1, BeforeGrows
  <2> QED BY <1>2, <2>2
<1> HIDE DEF place
<1>5. place \in Injection(S, 1 .. n)
  BY <1>3, <1>4 DEF Injection, IsInjective
<1>6. IsFiniteSet(1 .. n) /\ Cardinality(1 .. n) = n
  BY <1>1, FS_Interval
<1>7. place \in Surjection(S, 1 .. n)
  BY <1>5, <1>6, FS_Injection
<1>8. ASSUME NEW k \in 1 .. n PROVE \E x \in S : Cardinality(Before(R, S, x)) = k - 1
  <2>1. PICK x \in S : place[x] = k
    BY <1>7 DEF Surjection
  <2>2. Cardinality(Before(R, S, x)) + 1 = k
    BY <2>1 DEF place
  <2> QED BY <1>2, <2>2
<1> QED BY <1>1, <1>2, <1>8

LEMMA MaxIs ==
  ASSUME NEW S \in SUBSET Int, NEW m \in S, \A y \in S : m >= y
  PROVE  Max(S) = m
<1>1. \A x \in S : (\A y \in S : x >= y) => x = m
  <2> TAKE x \in S
  <2> HAVE \A y \in S : x >= y
  <2>1. x \in Int /\ m \in Int /\ x >= m /\ m >= x
    OBVIOUS
  <2> QED BY <2>1
<1> QED BY <1>1, Zenon DEF Max

LEMMA MinIs ==
  ASSUME NEW S \in SUBSET Int, NEW m \in S, \A y \in S : m =< y
  PROVE  Min(S) = m
<1>1. \A x \in S : (\A y \in S : x =< y) => x = m
  <2> TAKE x \in S
  <2> HAVE \A y \in S : x =< y
  <2>1. x \in Int /\ m \in Int /\ x =< m /\ m =< x
    OBVIOUS
  <2> QED BY <2>1
<1> QED BY <1>1, Zenon DEF Min

LEMMA AtLeastNone ==
  ASSUME NEW x \in Int
  PROVE  Max({0, x}) = IF x > 0 THEN x ELSE 0
<1>1. CASE x > 0
  <2>1. {0, x} \in SUBSET Int /\ x \in {0, x} /\ \A y \in {0, x} : x >= y
    BY <1>1
  <2>2. Max({0, x}) = x
    BY <2>1, MaxIs
  <2> QED BY <1>1, <2>2
<1>2. CASE ~(x > 0)
  <2>1. {0, x} \in SUBSET Int /\ 0 \in {0, x} /\ \A y \in {0, x} : 0 >= y
    BY <1>2
  <2>2. Max({0, x}) = 0
    BY <2>1, MaxIs
  <2> QED BY <1>2, <2>2
<1> QED BY <1>1, <1>2

(* Numbers in ascending order: each is there once, with none between it    *)
(* and the next.                                                           *)
LEMMA NumbersInOrder ==
  ASSUME NEW S \in SUBSET Int, IsFiniteSet(S)
  PROVE  LET n == Cardinality(S)
             L == Ascending(S)
         IN /\ n \in Nat /\ DOMAIN L = 1 .. n /\ L \in [1 .. n -> S]
            /\ \A k \in 1 .. n : \A x \in S :
                 /\ x < L[k] => k > 1 /\ x <= L[k - 1]
                 /\ k > 1 => L[k - 1] < L[k]
            /\ \A x \in S : n > 0 /\ x <= L[n]
<1> DEFINE n == Cardinality(S)
           R == {p \in S \X S : p[1] < p[2]}
           rank(x) == Cardinality({y \in S : y < x})
           L == Ascending(S)
<1>1. Orders(R, S)
  BY DEF Orders
<1>2. \A x \in S : Before(R, S, x) = {y \in S : y < x}
  BY DEF Before
<1>3. /\ n \in Nat /\ \A k \in 1 .. n : \E x \in S : rank(x) = k - 1
      /\ \A x \in S : rank(x) \in 0 .. n - 1
  <2>1. \A x \in S : rank(x) = Cardinality(Before(R, S, x))
    BY <1>2
  <2> HIDE DEF R, rank
  <2>2. /\ n \in Nat /\ \A x \in S : Cardinality(Before(R, S, x)) \in 0 .. n - 1
        /\ \A k \in 1 .. n : \E x \in S : Cardinality(Before(R, S, x)) = k - 1
    BY <1>1, Places
  <2> QED BY <2>1, <2>2
<1>4. \A x, y \in S : x < y => rank(x) < rank(y)
  <2> SUFFICES ASSUME NEW x \in S, NEW y \in S, x < y PROVE rank(x) < rank(y)
    OBVIOUS
  <2>1. <<x, y>> \in R
    OBVIOUS
  <2>2. rank(x) = Cardinality(Before(R, S, x)) /\ rank(y) = Cardinality(Before(R, S, y))
    BY <1>2
  <2> HIDE DEF R, rank
  <2> QED BY <1>1, <2>1, <2>2, BeforeGrows
<1>5. L = [k \in 1 .. n |-> CHOOSE x \in S : rank(x) = k - 1]
  BY DEF Ascending, Sorted
<1>6. DOMAIN L = 1 .. n /\ \A k \in 1 .. n : L[k] \in S /\ rank(L[k]) = k - 1
  <2> HIDE DEF rank
  <2> QED BY <1>3, <1>5
<1>7. L \in [1 .. n -> S]
  BY <1>5, <1>6
<1> HIDE DEF L, rank, n
<1>8. ASSUME NEW x \in S, NEW y \in S, rank(x) < rank(y) PROVE x < y
  <2>1. x \in Int /\ y \in Int /\ rank(x) \in Nat /\ rank(y) \in Nat
    BY <1>3
  <2>2. ~(y < x) /\ x # y
    BY <1>4, <1>8, <2>1
  <2> QED BY <2>1, <2>2
<1>9. ASSUME NEW k \in 1 .. n, NEW x \in S
      PROVE  /\ x < L[k] => k > 1 /\ x <= L[k - 1]
             /\ k > 1 => L[k - 1] < L[k]
  <2>1. L[k] \in S /\ rank(L[k]) = k - 1 /\ rank(x) \in Nat /\ n \in Nat
    BY <1>3, <1>6
  <2>2. ASSUME k > 1 PROVE L[k - 1] \in S /\ rank(L[k - 1]) = k - 2 /\ L[k - 1] < L[k]
    <3>1. k - 1 \in 1 .. n
      BY <2>1, <2>2
    <3>2. L[k - 1] \in S /\ rank(L[k - 1]) = k - 1 - 1
      BY <1>6, <3>1
    <3>3. k - 1 - 1 = k - 2 /\ k - 2 < k - 1
      BY <2>1
    <3>4. rank(L[k - 1]) < rank(L[k])
      BY <2>1, <3>2, <3>3
    <3> QED BY <1>8, <2>1, <3>2, <3>3, <3>4
  <2>3. ASSUME x < L[k] PROVE k > 1 /\ x <= L[k - 1]
    <3>1. rank(x) < k - 1
      BY <1>4, <2>1, <2>3
    <3>2. k > 1
      BY <2>1, <3>1
    <3>3. L[k - 1] \in S /\ rank(L[k - 1]) = k - 2
      BY <2>2, <3>2
    <3>4. L[k - 1] < x => k - 2 < rank(x)
      BY <1>4, <3>3
    <3>5. ~(k - 2 < rank(x))
      BY <2>1, <3>1
    <3>6. L[k - 1] \in Int /\ x \in Int
      BY <3>3
    <3> QED BY <3>2, <3>4, <3>5, <3>6
  <2> QED BY <2>2, <2>3
<1>10. ASSUME NEW x \in S PROVE n > 0 /\ x <= L[n]
  <2>1. rank(x) \in 0 .. n - 1 /\ n \in 1 .. n
    BY <1>3
  <2>2. L[n] \in S /\ rank(L[n]) = n - 1
    BY <1>6, <2>1
  <2>3. ~(L[n] < x)
    <3>1. L[n] < x => n - 1 < rank(x)
      BY <1>4, <2>2
    <3> QED BY <2>1, <3>1
  <2>4. L[n] \in Int /\ x \in Int
    BY <2>2
  <2>5. n > 0
    BY <1>3, <2>1
  <2> QED BY <2>3, <2>4, <2>5
<1> QED BY <1>3, <1>6, <1>7, <1>9, <1>10 DEF L, n

-----------------------------------------------------------------------------
(* The groups that spanning cells make.                                    *)

Valid(t) == IsTable(t) /\ SurfaceValid(t) /\ GridValid(t)

LEMMA TableFacts ==
  ASSUME NEW t, Valid(t)
  PROVE  /\ t.rows \in Nat \ {0} /\ t.headerRows \in 0 .. t.rows
         /\ t.orphans \in 0 .. t.rows - t.headerRows /\ t.widows \in 0 .. t.rows - t.headerRows
         /\ t.keepWithNext \in [1 .. t.rows -> BOOLEAN] /\ t.keepTogether \in BOOLEAN
BY DEF Valid, IsTable, SurfaceValid

LEMMA CellFacts ==
  ASSUME NEW t, Valid(t), NEW c \in t.cells
  PROVE  /\ c.row \in 1 .. t.rows /\ c.rows \in Nat \ {0} /\ c.height \in Nat
         /\ c.row + c.rows - 1 \in c.row .. t.rows
         /\ c.row <= t.headerRows => c.row + c.rows - 1 <= t.headerRows
         /\ RowsOf(c) = c.row .. c.row + c.rows - 1
<1>1. /\ c.row \in Nat \ {0} /\ c.col \in Nat \ {0} /\ c.rows \in Nat /\ c.cols \in Nat
      /\ c.height \in Int
  BY DEF Valid, IsTable, IsCell
<1>2. /\ c.rows > 0 /\ c.cols > 0 /\ Slots(c) \subseteq GridSlots(t) /\ c.height >= 0
      /\ c.row <= t.headerRows => c.row + c.rows - 1 <= t.headerRows
  BY DEF Valid, GridValid, SpanValid
<1>3. ASSUME NEW r \in RowsOf(c) PROVE r \in 1 .. t.rows
  <2>1. <<r, c.col>> \in Slots(c)
    BY <1>1, <1>2 DEF Slots, ColsOf
  <2> QED BY <1>2, <2>1 DEF GridSlots
<1>4. c.row \in RowsOf(c) /\ c.row + c.rows - 1 \in RowsOf(c)
  BY <1>1, <1>2 DEF RowsOf
<1>5. c.row \in 1 .. t.rows /\ c.row + c.rows - 1 \in 1 .. t.rows
  BY <1>3, <1>4
<1> QED BY <1>1, <1>2, <1>5, TableFacts DEF RowsOf

LEMMA BoundaryFacts ==
  ASSUME NEW t, Valid(t)
  PROVE  /\ Boundaries(t) \subseteq t.headerRows + 1 .. t.rows
         /\ IsFiniteSet(Boundaries(t))
         /\ t.rows > t.headerRows => t.rows \in Boundaries(t)
<1>1. Boundaries(t) \subseteq t.headerRows + 1 .. t.rows
  BY DEF Boundaries, BodyRows
<1>2. IsFiniteSet(t.headerRows + 1 .. t.rows)
  BY TableFacts, FS_Interval
<1>3. \A c \in t.cells : t.rows + 1 \notin RowsOf(c)
  BY CellFacts, TableFacts
<1> QED BY <1>1, <1>2, <1>3, TableFacts, FS_Subset DEF Boundaries, BodyRows

(* The last rows of the groups, in order.                                  *)
LEMMA LastsInOrder ==
  ASSUME NEW t, Valid(t)
  PROVE  LET n == Cardinality(Boundaries(t))
             L == Ascending(Boundaries(t))
         IN /\ n \in Nat /\ DOMAIN L = 1 .. n
            /\ \A k \in 1 .. n :
                 /\ L[k] \in Boundaries(t)
                 /\ k > 1 => L[k - 1] < L[k]
                 /\ StartOf(t, L[k]) = IF k = 1 THEN t.headerRows + 1 ELSE L[k - 1] + 1
            /\ IF n = 0 THEN t.rows = t.headerRows ELSE L[n] = t.rows
<1> DEFINE B == Boundaries(t)
           n == Cardinality(B)
           L == Ascending(B)
<1>1. /\ B \subseteq t.headerRows + 1 .. t.rows /\ IsFiniteSet(B)
      /\ t.rows > t.headerRows => t.rows \in B
      /\ t.rows \in Nat /\ t.headerRows \in 0 .. t.rows
  BY BoundaryFacts, TableFacts
<1> HIDE DEF B
<1>2. B \in SUBSET Int
  BY <1>1
<1>3. /\ n \in Nat /\ DOMAIN L = 1 .. n /\ L \in [1 .. n -> B]
      /\ \A k \in 1 .. n : \A x \in B :
           /\ x < L[k] => k > 1 /\ x <= L[k - 1]
           /\ k > 1 => L[k - 1] < L[k]
      /\ \A x \in B : n > 0 /\ x <= L[n]
  BY <1>1, <1>2, NumbersInOrder
<1>4. ASSUME NEW k \in 1 .. n
      PROVE  /\ L[k] \in B /\ k > 1 => L[k - 1] < L[k]
             /\ StartOf(t, L[k]) = IF k = 1 THEN t.headerRows + 1 ELSE L[k - 1] + 1
  <2> DEFINE earlier == {t.headerRows} \cup {r \in B : r < L[k]}
  <2> HIDE DEF L, n
  <2>1. L[k] \in B
    BY <1>3
  <2>2. k > 1 => L[k - 1] < L[k]
    BY <1>3, <2>1
  <2>3. StartOf(t, L[k]) = Max(earlier) + 1
    BY DEF StartOf, B
  <2>4. earlier \in SUBSET Int
    <3>1. t.headerRows \in Int
      BY <1>1
    <3> QED BY <1>2, <3>1, Zenon
  <2>5. ASSUME k = 1 PROVE Max(earlier) = t.headerRows
    <3>1. {r \in B : r < L[k]} = {}
      BY <1>3, <2>5
    <3>2. t.headerRows \in earlier /\ \A y \in earlier : t.headerRows >= y
      BY <1>1, <3>1
    <3> HIDE DEF earlier
    <3> QED BY <2>4, <3>2, MaxIs
  <2>6. ASSUME k # 1 PROVE Max(earlier) = L[k - 1]
    <3>1. k > 1 /\ k - 1 \in 1 .. n
      BY <1>3, <2>6
    <3>2. L[k - 1] \in B /\ L[k - 1] < L[k] /\ L[k - 1] \in t.headerRows + 1 .. t.rows
      BY <1>1, <1>3, <2>1, <3>1
    <3>3. \A y \in B : y < L[k] => L[k - 1] >= y
      <4> SUFFICES ASSUME NEW y \in B, y < L[k] PROVE L[k - 1] >= y
        OBVIOUS
      <4>1. y <= L[k - 1]
        BY <1>3
      <4> QED BY <1>2, <3>2, <4>1
    <3>4. L[k - 1] >= t.headerRows
      BY <1>1, <3>2
    <3>5. L[k - 1] \in earlier /\ \A y \in earlier : L[k - 1] >= y
      BY <3>2, <3>3, <3>4
    <3> HIDE DEF earlier
    <3> QED BY <2>4, <3>5, MaxIs
  <2> QED BY <2>1, <2>2, <2>3, <2>5, <2>6
<1>5. IF n = 0 THEN t.rows = t.headerRows ELSE L[n] = t.rows
  <2> HIDE DEF L, n
  <2>1. CASE n = 0
    BY <1>1, <1>3, <2>1
  <2>2. CASE n # 0
    <3>0. n \in 1 .. n
      BY <1>3, <2>2
    <3>1. L[n] \in t.headerRows + 1 .. t.rows
      BY <1>1, <1>3, <3>0
    <3>2. t.rows \in B
      BY <1>1, <3>1
    <3> QED BY <1>1, <1>3, <2>2, <3>1, <3>2
  <2> QED BY <2>1, <2>2
<1> QED BY <1>3, <1>4, <1>5 DEF B

-----------------------------------------------------------------------------
(* Groups in sequence, and what merging does to them.                      *)

AnyOf(s) == CHOOSE x \in s : TRUE

Largest(s) == CHOOSE x \in s : \A y \in s : x >= y

Plus(x, y) == x + y

Sums == INSTANCE FoldLemmas WITH op <- Plus, pick <- AnyOf

Numbered(groups) ==
  /\ Len(groups) \in Nat
  /\ \A k \in 1 .. Len(groups) : groups[k].first \in Int /\ groups[k].last \in Int

Rises(groups) ==
  \A i, j \in 1 .. Len(groups) : i < j => groups[i].last < groups[j].first

LEMMA FarApart ==
  ASSUME NEW w \in Int, NEW x \in Int, NEW y \in Int, NEW z \in Int, w < x, x <= y, y < z
  PROVE  w < z
OBVIOUS

LEMMA SequenceRises ==
  ASSUME NEW groups, Numbered(groups), NEW a \in Int, NEW b \in Int, InSequence(groups, a, b)
  PROVE  Rises(groups)
<1> DEFINE T == {d \in Nat : \A i \in 1 .. Len(groups) :
                   i + d + 1 <= Len(groups) => groups[i].last < groups[i + d + 1].first}
<1>1. /\ Len(groups) \in Nat
      /\ \A k \in 1 .. Len(groups) : groups[k].first \in Int /\ groups[k].last \in Int
      /\ \A k \in 1 .. Len(groups) : groups[k].first <= groups[k].last
      /\ \A k \in 2 .. Len(groups) : groups[k].first = groups[k - 1].last + 1
  BY DEF Numbered, InSequence
<1>2. \A i \in 1 .. Len(groups) :
        i + 1 <= Len(groups) => groups[i].last < groups[i + 1].first
  <2> TAKE i \in 1 .. Len(groups)
  <2> HAVE i + 1 <= Len(groups)
  <2>1. i + 1 \in 2 .. Len(groups) /\ (i + 1) - 1 = i
    BY <1>1
  <2>2. groups[i + 1].first = groups[i].last + 1
    BY <1>1, <2>1
  <2> QED BY <1>1, <2>2
<1>3. 0 \in T
  <2>1. \A i \in 1 .. Len(groups) : i + 0 + 1 = i + 1
    BY <1>1
  <2> QED BY <1>2, <2>1
<1>4. ASSUME NEW d \in T PROVE d + 1 \in T
  <2> SUFFICES ASSUME NEW i \in 1 .. Len(groups), i + (d + 1) + 1 <= Len(groups)
               PROVE  groups[i].last < groups[i + (d + 1) + 1].first
    OBVIOUS
  <2> DEFINE j == i + d + 1
  <2>1. j \in 1 .. Len(groups) /\ j + 1 = i + (d + 1) + 1 /\ j + 1 \in 1 .. Len(groups)
    BY <1>1
  <2>2. groups[i].last < groups[j].first
    BY <1>1, <2>1
  <2> HIDE DEF j
  <2>3. groups[j].last < groups[j + 1].first
    BY <1>1, <1>2, <2>1
  <2>4. groups[j].first <= groups[j].last
    BY <1>1, <2>1
  <2>5. groups[i].last < groups[j + 1].first
    <3>1. /\ groups[i].last \in Int /\ groups[j].first \in Int /\ groups[j].last \in Int
          /\ groups[j + 1].first \in Int
      BY <1>1, <2>1
    <3> QED BY <2>2, <2>3, <2>4, <3>1, FarApart
  <2> QED BY <2>1, <2>5
<1>5. T = Nat
  <2>1. T \in SUBSET Nat
    OBVIOUS
  <2> HIDE DEF T
  <2> QED BY <1>3, <1>4, <2>1, Sums!SetInduction
<1>6. ASSUME NEW i \in 1 .. Len(groups), NEW j \in 1 .. Len(groups), i < j
      PROVE  groups[i].last < groups[j].first
  <2>1. j - i - 1 \in Nat /\ i + (j - i - 1) + 1 = j /\ j <= Len(groups)
    BY <1>1, <1>6
  <2> DEFINE d == j - i - 1
  <2> HIDE DEF d, T
  <2>2. d \in T /\ i + d + 1 = j
    BY <1>5, <2>1 DEF d
  <2> QED BY <2>1, <2>2 DEF T
<1> QED BY <1>6 DEF Rises

(* Every row belongs to a group, and no group goes beyond the rows.        *)
LEMMA SequenceSpans ==
  ASSUME NEW groups, Numbered(groups), NEW a \in Int, NEW b \in Int, InSequence(groups, a, b)
  PROVE  /\ \A k \in 1 .. Len(groups) :
              a <= groups[k].first /\ groups[k].first <= groups[k].last /\ groups[k].last <= b
         /\ \A r \in a .. b : \E k \in 1 .. Len(groups) : r \in groups[k].first .. groups[k].last
<1>1. /\ Len(groups) \in Nat
      /\ \A k \in 1 .. Len(groups) : groups[k].first \in Int /\ groups[k].last \in Int
      /\ \A k \in 1 .. Len(groups) : groups[k].first <= groups[k].last
      /\ \A k \in 2 .. Len(groups) : groups[k].first = groups[k - 1].last + 1
      /\ IF Len(groups) = 0 THEN a = b + 1
         ELSE groups[1].first = a /\ groups[Len(groups)].last = b
  BY DEF Numbered, InSequence
<1>2. \A i, j \in 1 .. Len(groups) : i < j => groups[i].last < groups[j].first
  BY SequenceRises DEF Rises
<1>3. ASSUME NEW k \in 1 .. Len(groups)
      PROVE  a <= groups[k].first /\ groups[k].first <= groups[k].last /\ groups[k].last <= b
  <2>1. 1 \in 1 .. Len(groups) /\ Len(groups) \in 1 .. Len(groups) /\ Len(groups) # 0
    BY <1>1
  <2>2. groups[1].first = a /\ groups[Len(groups)].last = b
    BY <1>1, <2>1
  <2>3. a <= groups[k].first
    <3>1. CASE k = 1
      BY <1>1, <2>2, <3>1
    <3>2. CASE k # 1
      <4>1. groups[1].last < groups[k].first /\ groups[1].first <= groups[1].last
        BY <1>1, <1>2, <2>1, <3>2
      <4> QED BY <1>1, <2>1, <2>2, <4>1
    <3> QED BY <3>1, <3>2
  <2>4. groups[k].last <= b
    <3>1. CASE k = Len(groups)
      BY <1>1, <2>2, <3>1
    <3>2. CASE k # Len(groups)
      <4>1. /\ groups[k].last < groups[Len(groups)].first
            /\ groups[Len(groups)].first <= groups[Len(groups)].last
        BY <1>1, <1>2, <2>1, <3>2
      <4> QED BY <1>1, <2>1, <2>2, <4>1
    <3> QED BY <3>1, <3>2
  <2> QED BY <1>1, <2>3, <2>4
<1>4. ASSUME NEW r \in a .. b
      PROVE  \E k \in 1 .. Len(groups) : r \in groups[k].first .. groups[k].last
  <2> DEFINE T == {m \in Nat : 1 <= m /\ m <= Len(groups) /\ r <= groups[m].last =>
                     \E k \in 1 .. Len(groups) : r \in groups[k].first .. groups[k].last}
  <2>1. 0 \in T
    OBVIOUS
  <2>2. ASSUME NEW m \in T PROVE m + 1 \in T
    <3> SUFFICES ASSUME m + 1 <= Len(groups), r <= groups[m + 1].last
                 PROVE  \E k \in 1 .. Len(groups) : r \in groups[k].first .. groups[k].last
      OBVIOUS
    <3>1. m \in Nat /\ m + 1 \in 1 .. Len(groups) /\ r \in Int /\ a <= r
      BY <1>1
    <3>2. CASE groups[m + 1].first <= r
      <4>1. r \in groups[m + 1].first .. groups[m + 1].last
        BY <1>1, <3>1, <3>2
      <4> QED BY <3>1, <4>1
    <3>3. CASE ~(groups[m + 1].first <= r)
      <4>1. m # 0
        <5>1. groups[1].first = a
          BY <1>1, <3>1
        <5> QED BY <3>1, <3>3, <5>1
      <4>2. m \in 1 .. Len(groups) /\ m + 1 \in 2 .. Len(groups) /\ (m + 1) - 1 = m
        <5>1. Len(groups) \in Nat
          BY <1>1
        <5> QED BY <3>1, <4>1, <5>1
      <4>3. groups[m + 1].first = groups[m].last + 1
        BY <1>1, <4>2
      <4>4. groups[m].last \in Int /\ groups[m + 1].first \in Int
        BY <1>1, <3>1, <4>2
      <4>5. r <= groups[m].last
        BY <3>1, <3>3, <4>3, <4>4
      <4> QED BY <4>2, <4>5
    <3> QED BY <3>2, <3>3
  <2>3. T = Nat
    <3>1. T \in SUBSET Nat
      OBVIOUS
    <3> HIDE DEF T
    <3> QED BY <2>1, <2>2, <3>1, Sums!SetInduction
  <2>4. Len(groups) # 0 /\ Len(groups) \in T
    BY <1>1, <2>3
  <2> QED BY <1>1, <2>4
<1> QED BY <1>3, <1>4

(* Rows from one to another are in one of the groups.                      *)
Covers(groups, first, last) ==
  \E k \in 1 .. Len(groups) : groups[k].first <= first /\ last <= groups[k].last

Joined(groups, i, j, policy) ==
  [first |-> groups[i].first, last |-> groups[j].last, policy |-> policy,
   members |-> SubSeq(groups, i, j)]

\* The groups with g in the place of those from i to j.
Merged(G, groups, i, j, g, M) ==
  /\ M \in Seq(G \cup {g}) /\ Len(M) = Len(groups) - (j - i)
  /\ \A k \in 1 .. Len(M) :
       M[k] = IF k < i THEN groups[k] ELSE IF k = i THEN g ELSE groups[k + (j - i)]

LEMMA MergeIs ==
  ASSUME NEW G, NEW groups \in Seq(G), NEW i \in 1 .. Len(groups), NEW j \in 1 .. Len(groups),
         i < j, NEW policy
  PROVE  Merged(G, groups, i, j, Joined(groups, i, j, policy), Merge(groups, i, j, policy))
<1> DEFINE M == Merge(groups, i, j, policy)
           g == Joined(groups, i, j, policy)
           H == G \cup {g}
           n == Len(groups)
           A == SubSeq(groups, 1, i - 1)
           C == SubSeq(groups, j + 1, n)
<1>1. n \in Nat /\ \A k \in 1 .. n : groups[k] \in G
  BY LenProperties, ElementOfSeq
<1>2. M = A \o <<g>> \o C
  <2>1. ~(i >= j)
    BY <1>1
  <2> QED BY <2>1, Zenon DEF Merge, Joined
<1> HIDE DEF g, M
<1>3. /\ A \in Seq(H) /\ Len(A) = i - 1 /\ \A k \in 1 .. i - 1 : A[k] = groups[k]
  <2>1. 1 \in Int /\ i - 1 \in Int /\ \A k \in 1 .. i - 1 : groups[k] \in H
    BY <1>1
  <2> HIDE DEF H
  <2>2. /\ A \in Seq(H) /\ Len(A) = IF 1 <= i - 1 THEN i - 1 - 1 + 1 ELSE 0
        /\ \A k \in 1 .. i - 1 - 1 + 1 : A[k] = groups[1 + k - 1]
    BY <2>1, SubSeqProperties
  <2>3. i - 1 - 1 + 1 = i - 1 /\ \A k \in 1 .. i - 1 : 1 + k - 1 = k
    BY <1>1
  <2>4. Len(A) = i - 1
    BY <1>1, <2>2
  <2>5. \A k \in 1 .. i - 1 : A[k] = groups[k]
    BY <2>2, <2>3
  <2> QED BY <2>2, <2>4, <2>5
<1>4. /\ C \in Seq(H) /\ Len(C) = n - j /\ \A k \in 1 .. n - j : C[k] = groups[j + k]
  <2>1. j + 1 \in Int /\ n \in Int /\ \A k \in j + 1 .. n : groups[k] \in H
    BY <1>1
  <2> HIDE DEF H, n
  <2>2. /\ C \in Seq(H) /\ Len(C) = IF j + 1 <= n THEN n - (j + 1) + 1 ELSE 0
        /\ \A k \in 1 .. n - (j + 1) + 1 : C[k] = groups[(j + 1) + k - 1]
    BY <2>1, SubSeqProperties
  <2>3. n - (j + 1) + 1 = n - j /\ \A k \in 1 .. n - j : (j + 1) + k - 1 = j + k
    BY <1>1
  <2>4. Len(C) = n - j
    BY <1>1, <2>2 DEF n
  <2>5. \A k \in 1 .. n - j : C[k] = groups[j + k]
    BY <2>2, <2>3
  <2> QED BY <2>2, <2>4, <2>5
<1>5. <<g>> \in Seq(H) /\ Len(<<g>>) = 1 /\ <<g>>[1] = g
  OBVIOUS
<1> HIDE DEF A, C, H
<1>6. /\ A \o <<g>> \in Seq(H) /\ Len(A \o <<g>>) = i
      /\ \A k \in 1 .. i : (A \o <<g>>)[k] = IF k < i THEN groups[k] ELSE g
  <2>1. /\ A \o <<g>> \in Seq(H) /\ Len(A \o <<g>>) = Len(A) + Len(<<g>>)
        /\ \A k \in 1 .. Len(A) + Len(<<g>>) :
             (A \o <<g>>)[k] = IF k <= Len(A) THEN A[k] ELSE <<g>>[k - Len(A)]
    BY <1>3, <1>5, ConcatProperties
  <2>2. Len(A) + Len(<<g>>) = i
    BY <1>3, <1>5
  <2>3. ASSUME NEW k \in 1 .. i PROVE (A \o <<g>>)[k] = IF k < i THEN groups[k] ELSE g
    <3>1. (A \o <<g>>)[k] = IF k <= Len(A) THEN A[k] ELSE <<g>>[k - Len(A)]
      BY <2>1, <2>2
    <3>2. CASE k < i
      BY <1>3, <3>1, <3>2
    <3>3. CASE ~(k < i)
      <4>1. ~(k <= Len(A)) /\ k - Len(A) = 1
        BY <1>3, <3>3
      <4> QED BY <1>5, <3>1, <3>3, <4>1
    <3> QED BY <3>2, <3>3
  <2> QED BY <2>1, <2>2, <2>3
<1> DEFINE B == A \o <<g>>
<1> HIDE DEF B
<1>7. /\ B \o C \in Seq(H) /\ Len(B \o C) = n - (j - i)
      /\ \A k \in 1 .. n - (j - i) : (B \o C)[k] = IF k <= i THEN B[k] ELSE C[k - i]
  <2>1. B \in Seq(H) /\ Len(B) = i
    BY <1>6 DEF B
  <2>2. /\ B \o C \in Seq(H) /\ Len(B \o C) = Len(B) + Len(C)
        /\ \A k \in 1 .. Len(B) + Len(C) : (B \o C)[k] = IF k <= Len(B) THEN B[k] ELSE C[k - Len(B)]
    BY <1>4, <2>1, ConcatProperties
  <2>3. Len(B) + Len(C) = n - (j - i)
    BY <1>1, <1>4, <2>1
  <2> HIDE DEF n
  <2> QED BY <2>1, <2>2, <2>3
<1>8. ASSUME NEW k \in 1 .. n - (j - i)
      PROVE  (B \o C)[k] = IF k < i THEN groups[k] ELSE IF k = i THEN g ELSE groups[k + (j - i)]
  <2>1. CASE k <= i
    <3>1. k \in 1 .. i
      BY <1>1, <2>1
    <3>2. B[k] = IF k < i THEN groups[k] ELSE g
      BY <1>6, <3>1 DEF B
    <3> QED BY <1>7, <2>1, <3>1, <3>2
  <2>2. CASE ~(k <= i)
    <3>1. k - i \in 1 .. n - j /\ j + (k - i) = k + (j - i)
      BY <1>1, <2>2
    <3>2. C[k - i] = groups[k + (j - i)]
      BY <1>4, <3>1
    <3>3. (B \o C)[k] = C[k - i]
      BY <1>7, <2>2
    <3> QED BY <1>1, <2>2, <3>2, <3>3
  <2> QED BY <2>1, <2>2
<1>9. M = B \o C
  BY <1>2 DEF B
<1>10. M \in Seq(H) /\ Len(M) = n - (j - i)
  BY <1>7, <1>9
<1>11. \A k \in 1 .. n - (j - i) :
         M[k] = IF k < i THEN groups[k] ELSE IF k = i THEN g ELSE groups[k + (j - i)]
  <2> HIDE DEF n
  <2> QED BY <1>8, <1>9, Zenon
<1>12. Merged(G, groups, i, j, g, M)
  BY <1>10, <1>11 DEF Merged, H
<1> QED BY <1>12 DEF M, g

(* Groups of body rows, and the groups they were merged from: they end     *)
(* where no cell goes on, and those a group was merged from are its rows   *)
(* in order.                                                               *)
IsGroup(t, g) ==
  /\ g.first \in t.headerRows + 1 .. t.rows /\ g.last \in Boundaries(t)
  /\ g.first - 1 \in Boundaries(t) \cup {t.headerRows}
  /\ g.policy # "header"

Closed(t, G) ==
  \A g \in G :
    /\ IsGroup(t, g)
    /\ g.members \in Seq(G)
    /\ g.members # <<>> => InSequence(g.members, g.first, g.last)

Grouped(t, groups, a, b) ==
  InSequence(groups, a, b) /\ \E G : Closed(t, G) /\ groups \in Seq(G)

LEMMA GroupFacts ==
  ASSUME NEW t, Valid(t), NEW g, IsGroup(t, g)
  PROVE  /\ g.first \in Nat \ {0} /\ g.last \in Nat \ {0}
         /\ t.headerRows < g.first /\ g.last <= t.rows
BY TableFacts, BoundaryFacts DEF IsGroup

LEMMA GroupedFacts ==
  ASSUME NEW t, Valid(t), NEW groups, NEW a, NEW b, Grouped(t, groups, a, b)
  PROVE  /\ Numbered(groups) /\ InSequence(groups, a, b)
         /\ \A k \in 1 .. Len(groups) : IsGroup(t, groups[k])
<1>1. PICK G : Closed(t, G) /\ groups \in Seq(G)
  BY DEF Grouped
<1>2. Len(groups) \in Nat /\ \A k \in 1 .. Len(groups) : groups[k] \in G
  BY <1>1, LenProperties, ElementOfSeq
<1>3. \A k \in 1 .. Len(groups) : IsGroup(t, groups[k])
  BY <1>1, <1>2 DEF Closed
<1> QED BY <1>2, <1>3, GroupFacts DEF Numbered, Grouped

LEMMA MergeKeeps ==
  ASSUME NEW t, Valid(t), NEW a \in Int, NEW b \in Int, NEW groups, Grouped(t, groups, a, b),
         NEW i \in 1 .. Len(groups), NEW j \in i .. Len(groups), NEW policy, policy # "header"
  PROVE  LET M == Merge(groups, i, j, policy)
         IN /\ Grouped(t, M, a, b)
            /\ \A x, y \in Int : Covers(groups, x, y) => Covers(M, x, y)
            /\ Covers(M, groups[i].first, groups[j].last)
<1> DEFINE M == Merge(groups, i, j, policy)
           g == Joined(groups, i, j, policy)
           n == Len(groups)
           d == j - i
<1>1. Numbered(groups) /\ InSequence(groups, a, b) /\ \A k \in 1 .. n : IsGroup(t, groups[k])
  BY GroupedFacts
<1>2. /\ n \in Nat /\ \A k \in 1 .. n : groups[k].first \in Int /\ groups[k].last \in Int
      /\ \A k \in 1 .. n : groups[k].first <= groups[k].last
      /\ \A k \in 2 .. n : groups[k].first = groups[k - 1].last + 1
      /\ groups[1].first = a /\ groups[n].last = b
  BY <1>1 DEF Numbered, InSequence
<1>3. i \in 1 .. n /\ j \in 1 .. n /\ i <= j
  BY <1>2
<1>4. CASE i = j
  <2>1. M = groups
    BY <1>2, <1>4 DEF Merge
  <2>2. groups[i].first <= groups[i].first /\ groups[i].last <= groups[i].last
    BY <1>2
  <2>3. Covers(groups, groups[i].first, groups[j].last)
    BY <1>4, <2>2 DEF Covers
  <2> QED BY <2>1, <2>3
<1>5. CASE i # j
  <2>0. i < j /\ d \in Nat \ {0}
    BY <1>2, <1>3, <1>5
  <2>1. PICK G : Closed(t, G) /\ groups \in Seq(G)
    BY DEF Grouped
  <2> DEFINE H == G \cup {g}
  <2>2. /\ M \in Seq(H) /\ Len(M) = n - d
        /\ \A k \in 1 .. n - d : M[k] = IF k < i THEN groups[k] ELSE IF k = i THEN g ELSE groups[k + d]
    <3>1. i \in 1 .. Len(groups) /\ j \in 1 .. Len(groups) /\ i < j
      BY <1>3, <2>0
    <3>2. Merged(G, groups, i, j, g, M)
      BY <2>1, <3>1, MergeIs
    <3> HIDE DEF g, M
    <3> QED BY <3>2 DEF Merged
  <2>3. \A k, l \in 1 .. n : k < l => groups[k].last < groups[l].first
    BY <1>1, SequenceRises DEF Rises
  <2>4. g.first = groups[i].first /\ g.last = groups[j].last /\ g.policy = policy
    BY DEF Joined
  <2>5. g.first \in Int /\ g.last \in Int /\ g.first <= g.last
    <3>1. groups[i].last < groups[j].first
      BY <1>3, <2>0, <2>3
    <3>2. /\ groups[i].first \in Int /\ groups[i].last \in Int /\ groups[i].first <= groups[i].last
          /\ groups[j].first \in Int /\ groups[j].last \in Int /\ groups[j].first <= groups[j].last
      BY <1>2, <1>3
    <3> HIDE DEF g
    <3> QED BY <2>4, <3>1, <3>2
  <2>6. Closed(t, H)
    <3>1. IsGroup(t, g)
      BY <1>1, <1>3, <2>4 DEF IsGroup
    <3>2. \A k \in i .. j : groups[k] \in G
      BY <2>1, <1>2, ElementOfSeq
    <3> DEFINE S == SubSeq(groups, i, j)
    <3>3. /\ S \in Seq(G) /\ Len(S) = d + 1 /\ \A k \in 1 .. d + 1 : S[k] = groups[i + k - 1]
      <4>1. /\ S \in Seq(G) /\ Len(S) = IF i <= j THEN j - i + 1 ELSE 0
            /\ \A k \in 1 .. j - i + 1 : S[k] = groups[i + k - 1]
        BY <3>2, SubSeqProperties
      <4> QED BY <1>3, <4>1
    <3> HIDE DEF S
    <3>4. \A k \in 1 .. d + 1 : i + k - 1 \in 1 .. n
      BY <1>2, <1>3
    <3>5. InSequence(S, g.first, g.last)
      <4>1. \A k \in 1 .. d + 1 : S[k].first <= S[k].last
        BY <1>2, <3>3, <3>4
      <4>2. ASSUME NEW k \in 2 .. d + 1 PROVE S[k].first = S[k - 1].last + 1
        <5>1. k \in 1 .. d + 1 /\ k - 1 \in 1 .. d + 1
          BY <2>0
        <5>2. i + k - 1 \in 2 .. n /\ i + (k - 1) - 1 = (i + k - 1) - 1
          BY <1>2, <1>3
        <5> QED BY <1>2, <3>3, <5>1, <5>2
      <4>3. 1 \in 1 .. d + 1 /\ d + 1 \in 1 .. d + 1 /\ i + 1 - 1 = i /\ i + (d + 1) - 1 = j
        BY <1>3, <2>0
      <4>4. S[1].first = g.first /\ S[d + 1].last = g.last
        BY <2>4, <3>3, <4>3
      <4>5. Len(S) # 0
        BY <2>0, <3>3
      <4> QED BY <3>3, <4>1, <4>2, <4>4, <4>5 DEF InSequence
    <3>6. g.members = S
      BY DEF Joined, S
    <3>7. Seq(G) \subseteq Seq(H)
      OBVIOUS
    <3>8. ASSUME NEW e \in H
          PROVE  /\ IsGroup(t, e) /\ e.members \in Seq(H)
                 /\ e.members # <<>> => InSequence(e.members, e.first, e.last)
      <4>1. CASE e \in G
        BY <2>1, <3>7, <4>1 DEF Closed
      <4>2. CASE e = g
        BY <3>1, <3>3, <3>5, <3>6, <3>7, <4>2
      <4> QED BY <4>1, <4>2
    <3> QED BY <3>8 DEF Closed
  <2> HIDE DEF M, g, d, n
  <2>7. InSequence(M, a, b)
    <3>1. n - d >= 1
      BY <1>2, <1>3, <2>0 DEF d
    <3>2. ASSUME NEW k \in 1 .. n - d PROVE M[k].first <= M[k].last
      <4>1. CASE k < i
        <5>1. k \in 1 .. n /\ M[k] = groups[k]
          BY <1>2, <1>3, <2>2, <4>1
        <5> QED BY <1>2, <5>1
      <4>2. CASE k = i
        BY <2>2, <2>5, <4>2
      <4>3. CASE k > i
        <5>1. k + d \in 1 .. n /\ ~(k < i) /\ k # i
          BY <1>2, <1>3, <2>0, <4>3
        <5>2. M[k] = groups[k + d]
          BY <2>2, <5>1
        <5> QED BY <1>2, <5>1, <5>2
      <4>4. k < i \/ k = i \/ k > i
        BY <1>3
      <4> QED BY <4>1, <4>2, <4>3, <4>4, Zenon
    <3>3. ASSUME NEW k \in 2 .. n - d PROVE M[k].first = M[k - 1].last + 1
      <4>0. k \in 1 .. n - d /\ k - 1 \in 1 .. n - d /\ d \in Nat
        BY <1>2, <2>0
      <4>1. CASE k < i
        <5>1. k \in 2 .. n /\ k - 1 < i
          BY <1>2, <1>3, <2>0, <4>1
        <5>2. M[k] = groups[k] /\ M[k - 1] = groups[k - 1]
          BY <2>2, <4>0, <4>1, <5>1
        <5> QED BY <1>2, <5>1, <5>2
      <4>2. CASE k = i
        <5>1. k \in 2 .. n /\ k - 1 < i
          BY <1>2, <1>3, <2>0, <4>2
        <5>2. M[k] = g /\ M[k - 1] = groups[k - 1]
          BY <2>2, <4>0, <4>2, <5>1
        <5> QED BY <1>2, <2>4, <4>2, <5>1, <5>2
      <4>3. CASE k = i + 1
        <5>1. k + d \in 2 .. n /\ (k + d) - 1 = j
          BY <1>2, <1>3, <2>0, <4>3 DEF d
        <5>2. M[k] = groups[k + d] /\ M[k - 1] = g
          <6>1. ~(k < i) /\ k # i /\ k - 1 = i
            BY <1>3, <4>3
          <6> QED BY <2>2, <4>0, <6>1
        <5> QED BY <1>2, <2>4, <5>1, <5>2
      <4>4. CASE k > i + 1
        <5>1. k + d \in 2 .. n /\ (k + d) - 1 = (k - 1) + d /\ ~(k < i) /\ k # i
              /\ ~(k - 1 < i) /\ k - 1 # i
          BY <1>2, <1>3, <2>0, <4>4
        <5>2. M[k] = groups[k + d] /\ M[k - 1] = groups[(k - 1) + d]
          BY <2>2, <4>0, <5>1
        <5> QED BY <1>2, <5>1, <5>2
      <4> QED BY <1>3, <4>1, <4>2, <4>3, <4>4
    <3>4. M[1].first = a
      <4>1. 1 \in 1 .. n - d
        BY <1>2, <2>0, <3>1
      <4>2. CASE i = 1
        BY <1>2, <2>2, <2>4, <4>1, <4>2
      <4>3. CASE i # 1
        <5>1. 1 < i
          BY <1>3, <4>3
        <5> QED BY <1>2, <2>2, <4>1, <5>1
      <4> QED BY <4>2, <4>3
    <3>5. M[n - d].last = b
      <4>1. n - d \in 1 .. n - d /\ (n - d) + d = n /\ n - d >= i
        BY <1>2, <1>3, <2>0, <3>1 DEF d
      <4>2. CASE n - d = i
        <5>1. n = j
          BY <1>2, <1>3, <4>2 DEF d
        <5> QED BY <1>2, <2>2, <2>4, <4>1, <4>2, <5>1
      <4>3. CASE n - d # i
        <5>1. ~(n - d < i)
          BY <1>2, <1>3, <2>0, <4>1
        <5> QED BY <1>2, <2>2, <4>1, <4>3, <5>1
      <4> QED BY <4>2, <4>3
    <3> QED BY <2>2, <3>1, <3>2, <3>3, <3>4, <3>5 DEF InSequence
  <2>8. Covers(M, groups[i].first, groups[j].last)
    <3>1. i \in 1 .. n - d
      BY <1>2, <1>3, <2>0 DEF d
    <3>2. M[i] = g
      BY <2>2, <3>1
    <3>3. M[i].first <= groups[i].first /\ groups[j].last <= M[i].last
      BY <2>4, <2>5, <3>2
    <3> QED BY <2>2, <3>1, <3>3 DEF Covers
  <2>9. ASSUME NEW x \in Int, NEW y \in Int, Covers(groups, x, y) PROVE Covers(M, x, y)
    <3>1. PICK k \in 1 .. n : groups[k].first <= x /\ y <= groups[k].last
      BY <2>9 DEF Covers, n
    <3>2. CASE k < i
      <4>1. k \in 1 .. n - d
        BY <1>2, <1>3, <2>0, <3>2 DEF d
      <4>2. M[k] = groups[k]
        BY <2>2, <3>2, <4>1
      <4> QED BY <2>2, <3>1, <4>1, <4>2 DEF Covers
    <3>3. CASE k \in i .. j
      <4>1. g.first <= groups[k].first
        <5>1. CASE k = i
          BY <2>4, <2>5, <5>1
        <5>2. CASE k # i
          <6>1. groups[i].last < groups[k].first /\ groups[i].first <= groups[i].last
            BY <1>2, <1>3, <2>3, <3>3, <5>2
          <6>2. groups[i].first \in Int /\ groups[i].last \in Int /\ groups[k].first \in Int
            BY <1>2, <1>3, <3>1
          <6> HIDE DEF g
          <6> QED BY <2>4, <6>1, <6>2
        <5> QED BY <5>1, <5>2
      <4>2. groups[k].last <= g.last
        <5>1. CASE k = j
          BY <2>4, <2>5, <5>1
        <5>2. CASE k # j
          <6>1. groups[k].last < groups[j].first /\ groups[j].first <= groups[j].last
            BY <1>2, <1>3, <2>3, <3>3, <5>2
          <6>2. groups[j].first \in Int /\ groups[j].last \in Int /\ groups[k].last \in Int
            BY <1>2, <1>3, <3>1
          <6> HIDE DEF g
          <6> QED BY <2>4, <6>1, <6>2
        <5> QED BY <5>1, <5>2
      <4>0. groups[k].first \in Int /\ groups[k].last \in Int
        BY <1>2 DEF n
      <4>3. g.first <= x /\ y <= g.last
        BY <2>5, <3>1, <4>0, <4>1, <4>2
      <4>4. i \in 1 .. n - d
        BY <1>2, <1>3, <2>0 DEF d
      <4>5. M[i] = g
        BY <2>2, <4>4
      <4> QED BY <2>2, <4>3, <4>4, <4>5 DEF Covers
    <3>4. CASE k > j
      <4>1. k - d \in 1 .. n - d /\ (k - d) + d = k /\ ~(k - d < i) /\ k - d # i
        BY <1>2, <1>3, <2>0, <3>4 DEF d
      <4>2. M[k - d] = groups[k]
        BY <2>2, <4>1
      <4> QED BY <2>2, <3>1, <4>1, <4>2 DEF Covers
    <3> QED BY <1>3, <3>2, <3>3, <3>4
  <2> QED BY <2>2, <2>6, <2>7, <2>8, <2>9 DEF Grouped, M
<1> QED BY <1>4, <1>5

LEMMA SpansAreGrouped ==
  ASSUME NEW t, Valid(t)
  PROVE  Grouped(t, SpanGroups(t), t.headerRows + 1, t.rows)
<1> DEFINE B == Boundaries(t)
           n == Cardinality(B)
           L == Ascending(B)
           groups == SpanGroups(t)
           G == {groups[k] : k \in 1 .. n}
<1>1. /\ n \in Nat /\ DOMAIN L = 1 .. n
      /\ \A k \in 1 .. n :
           /\ L[k] \in B
           /\ k > 1 => L[k - 1] < L[k]
           /\ StartOf(t, L[k]) = IF k = 1 THEN t.headerRows + 1 ELSE L[k - 1] + 1
      /\ IF n = 0 THEN t.rows = t.headerRows ELSE L[n] = t.rows
  BY LastsInOrder
<1>2. t.rows \in Nat \ {0} /\ t.headerRows \in 0 .. t.rows /\ B \subseteq t.headerRows + 1 .. t.rows
  BY TableFacts, BoundaryFacts
<1>3. groups = [k \in 1 .. n |-> RowGroup(StartOf(t, L[k]), L[k])]
  BY <1>1 DEF SpanGroups
<1> HIDE DEF B, L, n, groups
<1>4. ASSUME NEW k \in 1 .. n
      PROVE  /\ L[k] \in B /\ L[k] \in Int
             /\ groups[k] = RowGroup(StartOf(t, L[k]), L[k])
             /\ k = 1 => StartOf(t, L[k]) = t.headerRows + 1
             /\ k > 1 => /\ k - 1 \in 1 .. n /\ L[k - 1] \in B /\ L[k - 1] \in Int
                         /\ L[k - 1] < L[k] /\ StartOf(t, L[k]) = L[k - 1] + 1
  <2>1. L[k] \in B /\ groups[k] = RowGroup(StartOf(t, L[k]), L[k])
    BY <1>1, <1>3
  <2>2. k = 1 => StartOf(t, L[k]) = t.headerRows + 1
    BY <1>1
  <2>3. ASSUME k > 1
        PROVE  k - 1 \in 1 .. n /\ L[k - 1] \in B /\ L[k - 1] < L[k] /\ StartOf(t, L[k]) = L[k - 1] + 1
    <3>1. k - 1 \in 1 .. n /\ k # 1
      BY <1>1, <2>3
    <3>2. L[k - 1] \in B
      BY <1>1, <3>1
    <3>3. L[k - 1] < L[k] /\ StartOf(t, L[k]) = L[k - 1] + 1
      BY <1>1, <2>3, <3>1
    <3> QED BY <3>1, <3>2, <3>3
  <2>4. B \subseteq Int
    BY <1>2
  <2> QED BY <2>1, <2>2, <2>3, <2>4
<1>5. ASSUME NEW k \in 1 .. n
      PROVE  /\ groups[k].first = StartOf(t, L[k]) /\ groups[k].last = L[k]
             /\ groups[k].policy = "none" /\ groups[k].members = <<>>
             /\ groups[k].first \in t.headerRows + 1 .. t.rows
             /\ groups[k].first <= groups[k].last
             /\ groups[k].first - 1 \in B \cup {t.headerRows}
  <2>1. /\ groups[k].first = StartOf(t, L[k]) /\ groups[k].last = L[k]
        /\ groups[k].policy = "none" /\ groups[k].members = <<>>
    <3>1. \A x, y : /\ RowGroup(x, y).first = x /\ RowGroup(x, y).last = y
                    /\ RowGroup(x, y).policy = "none" /\ RowGroup(x, y).members = <<>>
      BY DEF RowGroup
    <3>2. groups[k] = RowGroup(StartOf(t, L[k]), L[k])
      BY <1>4
    <3> QED BY <3>1, <3>2
  <2>2. CASE k = 1
    <3>1. L[k] \in t.headerRows + 1 .. t.rows
      BY <1>2, <1>4
    <3> QED BY <1>2, <1>4, <2>1, <2>2, <3>1
  <2>3. CASE k # 1
    <3>1. k > 1
      BY <2>3
    <3>2. /\ L[k - 1] \in t.headerRows + 1 .. t.rows /\ L[k] \in t.headerRows + 1 .. t.rows
          /\ L[k - 1] < L[k] /\ StartOf(t, L[k]) = L[k - 1] + 1 /\ L[k - 1] \in B
      BY <1>2, <1>4, <3>1
    <3>3. (L[k - 1] + 1) - 1 = L[k - 1]
      BY <1>2, <3>2
    <3> QED BY <1>2, <2>1, <3>2, <3>3
  <2> QED BY <2>2, <2>3
<1>6. groups \in Seq(G) /\ Len(groups) = n
  BY <1>1, <1>3
<1>7. Closed(t, G)
  <2>1. ASSUME NEW k \in 1 .. n PROVE IsGroup(t, groups[k]) /\ groups[k].members = <<>>
    BY <1>4, <1>5 DEF IsGroup, B
  <2>2. \A g \in G : IsGroup(t, g) /\ g.members = <<>>
    BY <2>1
  <2>3. <<>> \in Seq(G)
    BY EmptySeq
  <2> HIDE DEF G
  <2> QED BY <2>2, <2>3 DEF Closed
<1>8. InSequence(groups, t.headerRows + 1, t.rows)
  <2>1. ASSUME NEW k \in 2 .. n PROVE groups[k].first = groups[k - 1].last + 1
    <3>1. k \in 1 .. n /\ k > 1
      OBVIOUS
    <3>2. k - 1 \in 1 .. n /\ StartOf(t, L[k]) = L[k - 1] + 1
      BY <1>4, <3>1
    <3> QED BY <1>5, <3>1, <3>2
  <2>2. n # 0 => groups[1].first = t.headerRows + 1 /\ groups[n].last = t.rows
    <3> HAVE n # 0
    <3>1. 1 \in 1 .. n /\ n \in 1 .. n
      BY <1>1
    <3> QED BY <1>1, <1>4, <1>5, <3>1
  <2>3. n = 0 => t.headerRows + 1 = t.rows + 1
    BY <1>1, <1>2
  <2> QED BY <1>5, <1>6, <2>1, <2>2, <2>3 DEF InSequence
<1> QED BY <1>6, <1>7, <1>8 DEF Grouped, groups

LEMMA AppendKeeps ==
  ASSUME NEW t, Valid(t), NEW a \in Int, NEW m \in Int, NEW gs, Grouped(t, gs, a, m),
         NEW G, Closed(t, G), NEW g \in G, g.first = m + 1, g.first <= g.last
  PROVE  LET A == Append(gs, g)
         IN /\ Grouped(t, A, a, g.last) /\ Len(gs) \in Nat /\ Len(A) = Len(gs) + 1
            /\ \A k \in 1 .. Len(gs) : A[k] = gs[k]
            /\ A[Len(gs) + 1] = g
<1> DEFINE A == Append(gs, g)
           n == Len(gs)
<1>1. PICK F : Closed(t, F) /\ gs \in Seq(F)
  BY DEF Grouped
<1> DEFINE H == F \cup G
<1>2. Closed(t, H)
  <2>1. Seq(F) \subseteq Seq(H) /\ Seq(G) \subseteq Seq(H)
    OBVIOUS
  <2> QED BY <1>1, <2>1 DEF Closed
<1>3. gs \in Seq(H) /\ g \in H
  BY <1>1
<1>4. /\ n \in Nat /\ A \in Seq(H) /\ Len(A) = n + 1
      /\ \A k \in 1 .. n : A[k] = gs[k]
      /\ A[n + 1] = g
  <2> HIDE DEF H
  <2> QED BY <1>3, AppendProperties, LenProperties
<1> HIDE DEF A
<1>5. /\ \A k \in 1 .. n : gs[k].first <= gs[k].last
      /\ \A k \in 2 .. n : gs[k].first = gs[k - 1].last + 1
      /\ IF n = 0 THEN a = m + 1 ELSE gs[1].first = a /\ gs[n].last = m
  BY DEF Grouped, InSequence
<1>6. \A k \in 1 .. n + 1 : A[k].first <= A[k].last
  <2> TAKE k \in 1 .. n + 1
  <2>1. k \in 1 .. n \/ k = n + 1
    BY <1>4
  <2> QED BY <1>4, <1>5, <2>1
<1>7. ASSUME NEW k \in 2 .. n + 1 PROVE A[k].first = A[k - 1].last + 1
  <2>1. CASE k = n + 1
    <3>1. n # 0 /\ k - 1 = n /\ n \in 1 .. n
      BY <1>4, <2>1
    <3> QED BY <1>4, <1>5, <2>1, <3>1
  <2>2. CASE k # n + 1
    <3>1. k \in 2 .. n /\ k \in 1 .. n /\ k - 1 \in 1 .. n
      BY <1>4, <2>2
    <3> QED BY <1>4, <1>5, <3>1
  <2> QED BY <2>1, <2>2
<1>8. A[1].first = a
  <2>1. CASE n = 0
    BY <1>4, <1>5, <2>1
  <2>2. CASE n # 0
    <3>1. 1 \in 1 .. n
      BY <1>4, <2>2
    <3> QED BY <1>4, <1>5, <2>2, <3>1
  <2> QED BY <2>1, <2>2
<1>9. InSequence(A, a, g.last)
  <2>1. n + 1 # 0
    BY <1>4
  <2> QED BY <1>4, <1>6, <1>7, <1>8, <2>1 DEF InSequence
<1>10. Grouped(t, A, a, g.last)
  BY <1>2, <1>4, <1>9 DEF Grouped
<1> QED BY <1>4, <1>10 DEF A

LEMMA JoinKeeps ==
  ASSUME NEW t, Valid(t), NEW a \in Int, NEW m \in Int, NEW gs, Grouped(t, gs, a, m),
         NEW G, Closed(t, G), NEW g \in G, g.first = m + 1, g.first <= g.last
  PROVE  LET J == JoinNext(t, gs, g)
         IN /\ Grouped(t, J, a, g.last)
            /\ \A x, y \in Int : Covers(gs, x, y) => Covers(J, x, y)
            /\ Covers(J, g.first, g.last)
            /\ Len(gs) > 0 /\ t.keepWithNext[m] => Covers(J, m, m + 1)
<1> DEFINE A == Append(gs, g)
           n == Len(gs)
           J == JoinNext(t, gs, g)
<1>1. /\ Grouped(t, A, a, g.last) /\ n \in Nat /\ Len(A) = n + 1
      /\ \A k \in 1 .. n : A[k] = gs[k]
      /\ A[n + 1] = g
  BY AppendKeeps
<1> HIDE DEF A
<1>0. gs = <<>> <=> n = 0
  BY EmptySeq DEF Grouped
<1>2. IsGroup(t, g)
  BY DEF Closed
<1>3. g.first \in Int /\ g.last \in Int
  BY <1>2, GroupFacts
<1>4. \A x, y \in Int : Covers(gs, x, y) => Covers(A, x, y)
  BY <1>1 DEF Covers
<1>5. Covers(A, g.first, g.last)
  <2>1. n + 1 \in 1 .. Len(A) /\ A[n + 1].first <= g.first /\ g.last <= A[n + 1].last
    BY <1>1, <1>3
  <2> QED BY <2>1 DEF Covers
<1>6. n > 0 => Last(gs).last = m
  <2> HAVE n > 0
  <2>1. n # 0
    BY <1>1
  <2> QED BY <2>1 DEF Grouped, InSequence, Last
<1>7. CASE gs # <<>> /\ t.keepWithNext[Last(gs).last]
  <2>1. n \in 1 .. Len(A) /\ n + 1 \in n .. Len(A)
    BY <1>0, <1>1, <1>7
  <2>2. J = Merge(A, n, n + 1, "row_keep_with_next")
    BY <1>7 DEF JoinNext, A
  <2> HIDE DEF J, n
  <2>3. /\ Grouped(t, J, a, g.last)
        /\ \A x, y \in Int : Covers(A, x, y) => Covers(J, x, y)
        /\ Covers(J, A[n].first, A[n + 1].last)
    BY <1>1, <1>3, <2>1, <2>2, MergeKeeps
  <2>4. Covers(J, m, m + 1)
    <3>1. n \in 1 .. n /\ n # 0
      BY <1>0, <1>1, <1>7
    <3>2. A[n] = gs[n] /\ gs[n].last = m /\ gs[n].first <= gs[n].last
      BY <1>1, <3>1 DEF Grouped, InSequence, n
    <3>3. gs[n].first \in Int
      BY <3>1, GroupedFacts, GroupFacts DEF n
    <3>4. PICK k \in 1 .. Len(J) : J[k].first <= A[n].first /\ A[n + 1].last <= J[k].last
      BY <2>3 DEF Covers
    <3>5. J[k].first \in Int /\ J[k].last \in Int
      BY <2>3, GroupedFacts, GroupFacts
    <3>6. A[n + 1].last = g.last /\ m + 1 <= g.last
      BY <1>1
    <3>7. J[k].first <= m /\ m + 1 <= J[k].last
      BY <1>3, <3>2, <3>3, <3>4, <3>5, <3>6
    <3> QED BY <3>7 DEF Covers
  <2>5. \A x, y \in Int : Covers(gs, x, y) => Covers(J, x, y)
    BY <1>4, <2>3
  <2>6. Covers(J, g.first, g.last)
    BY <1>3, <1>5, <2>3
  <2> QED BY <2>3, <2>4, <2>5, <2>6 DEF J
<1>8. CASE ~(gs # <<>> /\ t.keepWithNext[Last(gs).last])
  <2>1. J = A
    BY <1>8, Zenon DEF JoinNext, A
  <2>2. ~(n > 0 /\ t.keepWithNext[m])
    BY <1>0, <1>1, <1>6, <1>8
  <2> QED BY <1>1, <1>4, <1>5, <2>1, <2>2
<1> QED BY <1>7, <1>8

(* The folds of the grid: over groups to keep rows, over cells to cover    *)
(* their heights and widths, over columns to give them a share, and over   *)
(* the rounds of shares.  What a fold does at one of its items is a task.  *)
Task(kind, of, item) == [kind |-> kind, of |-> of, item |-> item]

StepTo(e, s) ==
  CASE e.kind = "keep"       -> JoinNext(e.of, s, e.item)
    [] e.kind = "height"     -> CoverHeight(s, e.item)
    [] e.kind = "grow"       -> Grow(e.of[1], e.of[2], s, e.item)
    [] e.kind = "round"      -> NextRound(e.of, s)
    [] e.kind = "minimum"    -> CoverMinimum(e.of, s, e.item)
    [] e.kind = "preference" -> CoverPreference(e.of, s, e.item)

Steps == INSTANCE FoldLemmas WITH op <- StepTo, pick <- Largest

LEMMA TaskSteps ==
  ASSUME NEW of, NEW item, NEW s
  PROVE  /\ StepTo(Task("keep", of, item), s) = JoinNext(of, s, item)
         /\ StepTo(Task("height", of, item), s) = CoverHeight(s, item)
         /\ StepTo(Task("grow", of, item), s) = Grow(of[1], of[2], s, item)
         /\ StepTo(Task("round", of, item), s) = NextRound(of, s)
         /\ StepTo(Task("minimum", of, item), s) = CoverMinimum(of, s, item)
         /\ StepTo(Task("preference", of, item), s) = CoverPreference(of, s, item)
<1>1. \A kind : /\ Task(kind, of, item).kind = kind /\ Task(kind, of, item).of = of
                /\ Task(kind, of, item).item = item
  BY DEF Task
<1>2. StepTo(Task("keep", of, item), s) = JoinNext(of, s, item)
  BY <1>1 DEF StepTo
<1>3. StepTo(Task("height", of, item), s) = CoverHeight(s, item)
  BY <1>1 DEF StepTo
<1>4. StepTo(Task("grow", of, item), s) = Grow(of[1], of[2], s, item)
  BY <1>1 DEF StepTo
<1>5. StepTo(Task("round", of, item), s) = NextRound(of, s)
  BY <1>1 DEF StepTo
<1>6. StepTo(Task("minimum", of, item), s) = CoverMinimum(of, s, item)
  BY <1>1 DEF StepTo
<1>7. StepTo(Task("preference", of, item), s) = CoverPreference(of, s, item)
  BY <1>1 DEF StepTo
<1> QED BY <1>2, <1>3, <1>4, <1>5, <1>6, <1>7

LEMMA LargestPicks ==
  ASSUME NEW n \in Nat
  PROVE  \A s \in SUBSET (1 .. n) : s # {} => Largest(s) \in 1 .. n
<1>1. \A s : Largest(s) = CHOOSE x \in s : \A y \in s : x >= y
  BY DEF Largest
<1>2. Steps!Picks(1 .. n)
  BY <1>1, Steps!LastPicks
<1> QED BY <1>2 DEF Steps!Picks

Run(f, base, n, r) ==
  /\ r[0] = base /\ \A k \in 1 .. n : r[k] = StepTo(f[k], r[k - 1])
  /\ Steps!FoldOf(f, base, 1 .. n) = r[n]

LEMMA StepsAre ==
  ASSUME NEW n \in Nat, NEW f, NEW base
  PROVE  \E r : Run(f, base, n, r)
<1>1. \A s : Largest(s) = CHOOSE x \in s : \A y \in s : x >= y
  BY DEF Largest
<1> QED BY <1>1, Steps!FoldSteps DEF Run

(* Keeping rows goes through the groups one by one.                        *)
LEMMA KeepSteps ==
  ASSUME NEW t, NEW G, NEW groups \in Seq(G)
  PROVE  \E r : /\ r[0] = <<>>
                /\ \A k \in 1 .. Len(groups) : r[k] = JoinNext(t, r[k - 1], groups[k])
                /\ KeepRows(t, groups) = r[Len(groups)]
<1> DEFINE n == Len(groups)
           f == [k \in 1 .. n |-> Task("keep", t, groups[k])]
           Runs(g) == g = [s \in SUBSET (1 .. n) |-> IF s = {} THEN <<>>
                             ELSE JoinNext(t, g[s \ {Largest(s)}], groups[Largest(s)])]
<1>1. n \in Nat /\ DOMAIN groups = 1 .. n
  BY LenProperties
<1>2. KeepRows(t, groups) = (CHOOSE g : Runs(g))[1 .. n]
  BY <1>1, Zenon DEF KeepRows, FoldLeft, MapThenFoldSet, Max, Largest
<1>3. \A g : [s \in SUBSET (1 .. n) |-> IF s = {} THEN <<>>
                ELSE JoinNext(t, g[s \ {Largest(s)}], groups[Largest(s)])]
            = [s \in SUBSET (1 .. n) |-> IF s = {} THEN <<>>
                ELSE StepTo(f[Largest(s)], g[s \ {Largest(s)}])]
  <2>1. \A s \in SUBSET (1 .. n) : s # {} => f[Largest(s)] = Task("keep", t, groups[Largest(s)])
    BY <1>1, LargestPicks
  <2> HIDE DEF f, n
  <2>2. \A g : \A s \in SUBSET (1 .. n) : s # {} =>
          JoinNext(t, g[s \ {Largest(s)}], groups[Largest(s)])
            = StepTo(f[Largest(s)], g[s \ {Largest(s)}])
    BY <2>1, TaskSteps
  <2> QED BY <2>2, Zenon
<1>4. \A g : Runs(g) <=> Steps!Folds(f, <<>>, 1 .. n, g)
  BY <1>3, Zenon DEF Steps!Folds, Steps!FoldsOn
<1>5. (CHOOSE g : Runs(g)) = (CHOOSE g : Steps!Folds(f, <<>>, 1 .. n, g))
  <2> HIDE DEF Runs, f, n
  <2> QED BY <1>4, Zenon
<1>6. KeepRows(t, groups) = Steps!FoldOf(f, <<>>, 1 .. n)
  <2> HIDE DEF Runs, f, n
  <2> QED BY <1>2, <1>5, Zenon DEF Steps!FoldOf
<1>7. \E r : /\ r[0] = <<>> /\ \A k \in 1 .. n : r[k] = StepTo(f[k], r[k - 1])
             /\ Steps!FoldOf(f, <<>>, 1 .. n) = r[n]
  <2> HIDE DEF f, n
  <2>1. PICK base : base = <<>>
    OBVIOUS
  <2>2. \E r : Run(f, base, n, r)
    BY <1>1, StepsAre
  <2> QED BY <2>1, <2>2 DEF Run
<1>8. \A k \in 1 .. n : \A gs : StepTo(f[k], gs) = JoinNext(t, gs, groups[k])
  BY TaskSteps
<1> QED BY <1>6, <1>7, <1>8

LEMMA CoversLess ==
  ASSUME NEW groups, Numbered(groups), NEW x \in Int, NEW y \in Int, Covers(groups, x, y),
         NEW v \in Int, NEW w \in Int, x <= v, w <= y
  PROVE  Covers(groups, v, w)
<1>1. PICK k \in 1 .. Len(groups) : groups[k].first <= x /\ y <= groups[k].last
  BY DEF Covers
<1>2. groups[k].first \in Int /\ groups[k].last \in Int
  BY DEF Numbered
<1>3. groups[k].first <= v /\ w <= groups[k].last
  BY <1>1, <1>2
<1> QED BY <1>3 DEF Covers

(* A row kept with the next is in a group with it.                         *)
LEMMA RowsAreKept ==
  ASSUME NEW t, Valid(t)
  PROVE  LET kept == KeepRows(t, SpanGroups(t))
         IN /\ Grouped(t, kept, t.headerRows + 1, t.rows)
            /\ \A r \in BodyRows(t) \ {t.rows} : t.keepWithNext[r] => Covers(kept, r, r + 1)
<1>0. PICK groups : groups = SpanGroups(t)
  OBVIOUS
<1> DEFINE a == t.headerRows + 1
           n == Len(groups)
<1>1. t.rows \in Nat \ {0} /\ t.headerRows \in 0 .. t.rows /\ a \in Int
  BY TableFacts
<1>2. PICK G : Closed(t, G) /\ groups \in Seq(G) /\ InSequence(groups, a, t.rows)
  BY <1>0, SpansAreGrouped DEF Grouped
<1>3. /\ n \in Nat
      /\ \A k \in 1 .. n : /\ groups[k] \in G /\ groups[k].first \in Int /\ groups[k].last \in Int
                           /\ groups[k].first <= groups[k].last
      /\ \A k \in 2 .. n : groups[k].first = groups[k - 1].last + 1
      /\ IF n = 0 THEN a = t.rows + 1 ELSE groups[1].first = a /\ groups[n].last = t.rows
  <2>1. n \in Nat /\ \A k \in 1 .. n : groups[k] \in G
    BY <1>2, LenProperties, ElementOfSeq
  <2>2. \A k \in 1 .. n : groups[k].first \in Int /\ groups[k].last \in Int
    BY <1>2, <2>1, GroupFacts DEF Closed
  <2> QED BY <1>2, <2>1, <2>2 DEF InSequence
<1>4. PICK r : /\ r[0] = <<>> /\ \A k \in 1 .. n : r[k] = JoinNext(t, r[k - 1], groups[k])
               /\ KeepRows(t, groups) = r[n]
  <2>1. groups \in Seq(G)
    BY <1>2
  <2> QED BY <2>1, KeepSteps
<1> DEFINE End(k) == IF k = 0 THEN t.headerRows ELSE groups[k].last
           Good(k) ==
             /\ Grouped(t, r[k], a, End(k))
             /\ \A j \in 1 .. k : Covers(r[k], groups[j].first, groups[j].last)
             /\ \A j \in 1 .. k : j < k /\ t.keepWithNext[groups[j].last]
                  => Covers(r[k], groups[j].last, groups[j].last + 1)
           T == {k \in Nat : k <= n => Good(k)}
<1>5. 0 \in T
  <2>1. Grouped(t, <<>>, a, t.headerRows)
    <3>1. Closed(t, {}) /\ <<>> \in Seq({}) /\ InSequence(<<>>, a, t.headerRows)
      BY <1>1, EmptySeq DEF Closed, InSequence
    <3> QED BY <3>1 DEF Grouped
  <2>2. 1 .. 0 = {}
    OBVIOUS
  <2> QED BY <1>4, <2>1, <2>2
<1>6. ASSUME NEW k \in T PROVE k + 1 \in T
  <2> SUFFICES ASSUME k + 1 <= n PROVE Good(k + 1)
    BY DEF T
  <2>1. k \in Nat /\ k <= n /\ Good(k) /\ k + 1 \in 1 .. n /\ (k + 1) - 1 = k
    BY <1>3
  <2> DEFINE gs == r[k]
             g == groups[k + 1]
             J == JoinNext(t, gs, g)
  <2>2. r[k + 1] = J
    BY <1>4, <2>1
  <2>3. End(k) \in Int /\ g.first = End(k) + 1
    <3>1. CASE k = 0
      <4>1. n # 0 /\ g.first = a /\ End(k) = t.headerRows
        BY <1>3, <2>1, <3>1
      <4> QED BY <1>1, <4>1
    <3>2. CASE k # 0
      <4>1. k + 1 \in 2 .. n /\ k \in 1 .. n
        BY <1>3, <2>1, <3>2
      <4> QED BY <1>3, <2>1, <3>2, <4>1
    <3> QED BY <3>1, <3>2
  <2>4. g \in G /\ g.first <= g.last /\ g.first \in Int /\ g.last \in Int
    BY <1>3, <2>1
  <2> HIDE DEF End
  <2>5. Grouped(t, gs, a, End(k))
    BY <2>1
  <2>6. /\ Grouped(t, J, a, g.last)
        /\ \A x, y \in Int : Covers(gs, x, y) => Covers(J, x, y)
        /\ Covers(J, g.first, g.last)
        /\ Len(gs) > 0 /\ t.keepWithNext[End(k)] => Covers(J, End(k), End(k) + 1)
    <3> HIDE DEF J, g, gs
    <3> QED BY <1>1, <1>2, <2>3, <2>4, <2>5, JoinKeeps DEF J
  <2>7. End(k + 1) = g.last
    BY <2>1 DEF End
  <2>8. ASSUME NEW j \in 1 .. k + 1 PROVE Covers(J, groups[j].first, groups[j].last)
    <3>1. CASE j = k + 1
      BY <2>6, <3>1
    <3>2. CASE j # k + 1
      <4>1. j \in 1 .. k /\ j \in 1 .. n
        BY <2>1, <3>2
      <4>2. Covers(gs, groups[j].first, groups[j].last)
        BY <2>1, <4>1
      <4>3. groups[j].first \in Int /\ groups[j].last \in Int
        BY <1>3, <4>1
      <4> HIDE DEF J, gs
      <4> QED BY <2>6, <4>2, <4>3
    <3> QED BY <3>1, <3>2
  <2>9. ASSUME NEW j \in 1 .. k + 1, j < k + 1, t.keepWithNext[groups[j].last]
        PROVE  Covers(J, groups[j].last, groups[j].last + 1)
    <3>0. j \in 1 .. k /\ j \in 1 .. n /\ groups[j].last \in Int /\ groups[j].last + 1 \in Int
      BY <1>3, <2>1, <2>9
    <3>1. CASE j = k
      <4>1. End(k) = groups[j].last
        BY <3>0, <3>1 DEF End
      <4>2. Len(gs) > 0
        <5>1. Covers(gs, groups[j].first, groups[j].last)
          BY <2>1, <3>0
        <5>2. Len(gs) \in Nat
          BY <2>5, GroupedFacts DEF Numbered
        <5> HIDE DEF gs
        <5> QED BY <5>1, <5>2 DEF Covers
      <4> QED BY <2>6, <2>9, <4>1, <4>2
    <3>2. CASE j # k
      <4>1. j < k
        BY <2>1, <3>0, <3>2
      <4>2. Covers(gs, groups[j].last, groups[j].last + 1)
        BY <2>1, <2>9, <3>0, <4>1
      <4> HIDE DEF J, gs
      <4> QED BY <2>6, <3>0, <4>2
    <3> QED BY <3>1, <3>2
  <2> QED BY <2>2, <2>6, <2>7, <2>8, <2>9
<1>7. T = Nat
  <2>1. T \in SUBSET Nat
    OBVIOUS
  <2> HIDE DEF T
  <2> QED BY <1>5, <1>6, <2>1, Sums!SetInduction
<1>8. Good(n)
  BY <1>3, <1>7
<1>9. End(n) = t.rows
  BY <1>1, <1>3
<1> DEFINE kept == r[n]
<1> HIDE DEF T, End
<1>10. ASSUME NEW q \in BodyRows(t) \ {t.rows}, t.keepWithNext[q] PROVE Covers(kept, q, q + 1)
  <2>1. q \in a .. t.rows /\ q # t.rows /\ q \in Int /\ q + 1 \in Int
    BY <1>1 DEF BodyRows
  <2>2. Numbered(groups)
    BY <1>3 DEF Numbered
  <2>3. PICK k \in 1 .. n : q \in groups[k].first .. groups[k].last
    <3>1. InSequence(groups, a, t.rows) /\ a \in Int /\ t.rows \in Int
      BY <1>1, <1>2
    <3> HIDE DEF a, n
    <3> QED BY <2>1, <2>2, <3>1, SequenceSpans DEF n
  <2>4. groups[k].first \in Int /\ groups[k].last \in Int
    BY <1>3
  <2>5. CASE q < groups[k].last
    <3>1. Covers(kept, groups[k].first, groups[k].last)
      BY <1>8
    <3>2. Numbered(kept)
      BY <1>8, GroupedFacts
    <3>3. groups[k].first <= q /\ q + 1 <= groups[k].last
      BY <2>1, <2>3, <2>4, <2>5
    <3> HIDE DEF kept
    <3> QED BY <2>1, <2>4, <3>1, <3>2, <3>3, CoversLess
  <2>6. CASE ~(q < groups[k].last)
    <3>1. q = groups[k].last
      BY <2>1, <2>3, <2>4, <2>6
    <3>2. k # n
      BY <1>3, <2>1, <3>1
    <3>3. k < n
      BY <1>3, <3>2
    <3> QED BY <1>8, <1>10, <3>1, <3>3
  <2> QED BY <2>5, <2>6
<1>11. Grouped(t, kept, a, t.rows)
  BY <1>8, <1>9
<1> QED BY <1>0, <1>4, <1>10, <1>11

LEMMA SmallestIn ==
  ASSUME NEW n \in Nat, NEW S \in SUBSET (1 .. n), S # {}
  PROVE  Min(S) \in S
<1> DEFINE flipped == {n + 1 - x : x \in S}
<1>0. \A x \in S : x \in 1 .. n /\ n + 1 - x \in 1 .. n
  OBVIOUS
<1>1. flipped \in SUBSET (1 .. n) /\ flipped # {}
  BY <1>0
<1>2. \E y \in flipped : \A z \in flipped : y >= z
  <2> HIDE DEF flipped
  <2> QED BY <1>1, Sums!LargestExists
<1>3. PICK x \in S : \A z \in S : n + 1 - x >= n + 1 - z
  BY <1>2
<1>4. S \in SUBSET Int /\ \A z \in S : x =< z
  BY <1>3
<1>5. Min(S) = x
  BY <1>4, MinIs
<1> QED BY <1>5

LEMMA LargestIn ==
  ASSUME NEW n \in Nat, NEW S \in SUBSET (1 .. n), S # {}
  PROVE  Max(S) \in S
<1>1. PICK x \in S : \A z \in S : x >= z
  BY Sums!LargestExists
<1>2. Max(S) = x
  BY <1>1, MaxIs
<1> QED BY <1>2

(* The first rows that must be held together are in one group, and so are  *)
(* the last.                                                               *)
LEMMA OrphansAreHeld ==
  ASSUME NEW t, Valid(t), NEW groups, Grouped(t, groups, t.headerRows + 1, t.rows)
  PROVE  LET H == HoldOrphans(t, groups)
         IN /\ Grouped(t, H, t.headerRows + 1, t.rows)
            /\ \A x, y \in Int : Covers(groups, x, y) => Covers(H, x, y)
            /\ t.orphans > 1 => Covers(H, t.headerRows + 1, t.headerRows + t.orphans)
<1> DEFINE a == t.headerRows + 1
           n == Len(groups)
           S == {i \in DOMAIN groups : groups[i].last - t.headerRows >= t.orphans} \cup {Len(groups)}
           H == HoldOrphans(t, groups)
<1>1. /\ t.rows \in Nat \ {0} /\ t.headerRows \in 0 .. t.rows /\ a \in Int
      /\ t.orphans \in 0 .. t.rows - t.headerRows
  BY TableFacts
<1>2. /\ Numbered(groups) /\ InSequence(groups, a, t.rows)
      /\ n \in Nat /\ DOMAIN groups = 1 .. n
      /\ \A k \in 1 .. n : groups[k].first \in Int /\ groups[k].last \in Int
  BY GroupedFacts, LenProperties DEF Numbered, Grouped
<1>3. CASE t.orphans <= 1
  <2>1. H = groups
    BY <1>3 DEF HoldOrphans
  <2>2. ~(t.orphans > 1)
    BY <1>1, <1>3
  <2> QED BY <2>1, <2>2
<1>4. CASE ~(t.orphans <= 1)
  <2>1. n # 0
    BY <1>1, <1>2, <1>4 DEF InSequence
  <2>2. groups[1].first = a /\ groups[n].last = t.rows
    BY <1>2, <2>1 DEF InSequence
  <2>3. S \in SUBSET (1 .. n) /\ S # {}
    BY <1>2, <2>1
  <2>4. Min(S) \in S
    <3> HIDE DEF S
    <3> QED BY <1>2, <2>3, SmallestIn
  <2>5. PICK j \in 1 .. n : j = Min(S) /\ (groups[j].last - t.headerRows >= t.orphans \/ j = n)
    BY <1>2, <2>3, <2>4
  <2>6. H = Merge(groups, 1, j, "table_orphans")
    BY <1>4, <2>5 DEF HoldOrphans
  <2>7. 1 \in 1 .. Len(groups) /\ j \in 1 .. Len(groups)
    BY <1>2, <2>1
  <2> HIDE DEF H, n, S, a
  <2>8. /\ Grouped(t, H, a, t.rows)
        /\ \A x, y \in Int : Covers(groups, x, y) => Covers(H, x, y)
        /\ Covers(H, groups[1].first, groups[j].last)
    BY <1>1, <2>6, <2>7, MergeKeeps DEF a
  <2>9. groups[j].last \in Int /\ t.headerRows + t.orphans <= groups[j].last
    <3>1. CASE j = n
      BY <1>1, <2>2, <3>1
    <3>2. CASE groups[j].last - t.headerRows >= t.orphans
      BY <1>1, <1>2, <3>2
    <3> QED BY <2>5, <3>1, <3>2
  <2>10. Numbered(H)
    BY <2>8, GroupedFacts
  <2>11. Covers(H, a, t.headerRows + t.orphans)
    <3>1. Covers(H, a, groups[j].last) /\ a <= a /\ t.headerRows + t.orphans \in Int
      BY <1>1, <2>2, <2>8
    <3> QED BY <1>1, <2>9, <2>10, <3>1, CoversLess
  <2> QED BY <2>8, <2>11 DEF H, a
<1> QED BY <1>3, <1>4

LEMMA WidowsAreHeld ==
  ASSUME NEW t, Valid(t), NEW groups, Grouped(t, groups, t.headerRows + 1, t.rows)
  PROVE  LET H == HoldWidows(t, groups)
         IN /\ Grouped(t, H, t.headerRows + 1, t.rows)
            /\ \A x, y \in Int : Covers(groups, x, y) => Covers(H, x, y)
            /\ t.widows > 1 => Covers(H, t.rows - t.widows + 1, t.rows)
<1> DEFINE a == t.headerRows + 1
           n == Len(groups)
           S == {i \in DOMAIN groups : t.rows - groups[i].first + 1 >= t.widows} \cup {1}
           H == HoldWidows(t, groups)
<1>1. /\ t.rows \in Nat \ {0} /\ t.headerRows \in 0 .. t.rows /\ a \in Int
      /\ t.widows \in 0 .. t.rows - t.headerRows
  BY TableFacts
<1>2. /\ Numbered(groups) /\ InSequence(groups, a, t.rows)
      /\ n \in Nat /\ DOMAIN groups = 1 .. n
      /\ \A k \in 1 .. n : groups[k].first \in Int /\ groups[k].last \in Int
  BY GroupedFacts, LenProperties DEF Numbered, Grouped
<1>3. CASE t.widows <= 1
  <2>1. H = groups
    BY <1>3 DEF HoldWidows
  <2>2. ~(t.widows > 1)
    BY <1>1, <1>3
  <2> QED BY <2>1, <2>2
<1>4. CASE ~(t.widows <= 1)
  <2>1. n # 0
    BY <1>1, <1>2, <1>4 DEF InSequence
  <2>2. groups[1].first = a /\ groups[n].last = t.rows
    BY <1>2, <2>1 DEF InSequence
  <2>3. S \in SUBSET (1 .. n) /\ S # {}
    BY <1>2, <2>1
  <2>4. Max(S) \in S
    <3> HIDE DEF S
    <3> QED BY <1>2, <2>3, LargestIn
  <2>5. PICK i \in 1 .. n : i = Max(S) /\ (t.rows - groups[i].first + 1 >= t.widows \/ i = 1)
    BY <1>2, <2>3, <2>4
  <2>6. H = Merge(groups, i, n, "table_widows")
    BY <1>4, <2>5 DEF HoldWidows
  <2>7. i \in 1 .. Len(groups) /\ n \in i .. Len(groups)
    BY <1>2, <2>1
  <2> HIDE DEF H, n, S, a
  <2>8. /\ Grouped(t, H, a, t.rows)
        /\ \A x, y \in Int : Covers(groups, x, y) => Covers(H, x, y)
        /\ Covers(H, groups[i].first, groups[n].last)
    BY <1>1, <2>6, <2>7, MergeKeeps DEF a
  <2>9. groups[i].first \in Int /\ groups[i].first <= t.rows - t.widows + 1
    <3>1. CASE i = 1
      BY <1>1, <2>2, <3>1 DEF a
    <3>2. CASE t.rows - groups[i].first + 1 >= t.widows
      BY <1>1, <1>2, <3>2
    <3> QED BY <2>5, <3>1, <3>2
  <2>10. Numbered(H)
    BY <2>8, GroupedFacts
  <2>11. Covers(H, t.rows - t.widows + 1, t.rows)
    <3>1. Covers(H, groups[i].first, t.rows) /\ t.rows <= t.rows /\ t.rows - t.widows + 1 \in Int
      BY <1>1, <2>2, <2>8
    <3> QED BY <1>1, <2>9, <2>10, <3>1, CoversLess
  <2> QED BY <2>8, <2>11 DEF H, a
<1> QED BY <1>3, <1>4

(* What the policies ask for: rows from one to another.                    *)
Asked(t) ==
  (IF t.keepTogether THEN {<<t.headerRows + 1, t.rows>>}
   ELSE {<<t.headerRows + 1, t.headerRows + t.orphans>>, <<t.rows - t.widows + 1, t.rows>>})
  \cup {<<r, r + 1>> : r \in {q \in BodyRows(t) \ {t.rows} : t.keepWithNext[q]}}

(* deriveBodyGroups (table.go) divides the body rows, in order, into       *)
(* groups that divide no cell, and each group that policies have merged    *)
(* likewise. The rows that a policy wants together, because the table is   *)
(* to be kept together, as orphans or widows, or a row with the next, are  *)
(* all in one of the groups, whatever was merged before and after.         *)
THEOREM GroupsAreMade ==
  ASSUME NEW t, Valid(t)
  PROVE  /\ Grouped(t, BodyGroups(t), t.headerRows + 1, t.rows)
         /\ \A w \in Asked(t) : /\ w[1] \in Int /\ w[2] \in Int
                                /\ w[1] < w[2] => Covers(BodyGroups(t), w[1], w[2])
<1> DEFINE a == t.headerRows + 1
<1>1. /\ t.rows \in Nat \ {0} /\ t.headerRows \in 0 .. t.rows /\ a \in Int
      /\ t.orphans \in 0 .. t.rows - t.headerRows /\ t.widows \in 0 .. t.rows - t.headerRows
  BY TableFacts
<1>2. PICK kept : kept = KeepRows(t, SpanGroups(t))
  OBVIOUS
<1>3. /\ Grouped(t, kept, a, t.rows)
      /\ \A r \in BodyRows(t) \ {t.rows} : t.keepWithNext[r] => Covers(kept, r, r + 1)
  BY <1>2, RowsAreKept
<1>4. BodyGroups(t) = IF t.keepTogether THEN Merge(kept, 1, Len(kept), "table_keep_together")
                      ELSE HoldWidows(t, HoldOrphans(t, kept))
  BY <1>2 DEF BodyGroups
<1>5. \A r \in BodyRows(t) \ {t.rows} : r \in Int /\ r + 1 \in Int
  BY <1>1 DEF BodyRows
<1>6. CASE t.keepTogether
  <2> DEFINE n == Len(kept)
             M == Merge(kept, 1, n, "table_keep_together")
  <2>1. Numbered(kept) /\ InSequence(kept, a, t.rows) /\ n \in Nat
    BY <1>3, GroupedFacts DEF Numbered
  <2>2. /\ Grouped(t, M, a, t.rows)
        /\ \A x, y \in Int : Covers(kept, x, y) => Covers(M, x, y)
        /\ a < t.rows => Covers(M, a, t.rows)
    <3>1. CASE n = 0
      <4>1. M = kept
        BY <3>1 DEF Merge
      <4>2. ~(a < t.rows)
        BY <1>1, <2>1, <3>1 DEF InSequence
      <4> QED BY <1>3, <4>1, <4>2
    <3>2. CASE n # 0
      <4>1. 1 \in 1 .. Len(kept) /\ n \in 1 .. Len(kept) /\ kept[1].first = a /\ kept[n].last = t.rows
        BY <2>1, <3>2 DEF InSequence
      <4> HIDE DEF M, n, a
      <4> QED BY <1>1, <1>3, <4>1, MergeKeeps DEF M
    <3> QED BY <3>1, <3>2
  <2>3. BodyGroups(t) = M
    BY <1>4, <1>6
  <2> HIDE DEF M
  <2>4. ASSUME NEW w \in Asked(t)
        PROVE  w[1] \in Int /\ w[2] \in Int /\ (w[1] < w[2] => Covers(M, w[1], w[2]))
    <3>1. w = <<a, t.rows>> \/ \E r \in BodyRows(t) \ {t.rows} : t.keepWithNext[r] /\ w = <<r, r + 1>>
      BY <1>6 DEF Asked
    <3>2. CASE w = <<a, t.rows>>
      BY <1>1, <2>2, <3>2
    <3>3. ASSUME NEW r \in BodyRows(t) \ {t.rows}, t.keepWithNext[r], w = <<r, r + 1>>
          PROVE  w[1] \in Int /\ w[2] \in Int /\ (w[1] < w[2] => Covers(M, w[1], w[2]))
      <4>1. r \in Int /\ r + 1 \in Int /\ Covers(kept, r, r + 1)
        BY <1>3, <1>5, <3>3
      <4> QED BY <2>2, <3>3, <4>1
    <3> QED BY <3>1, <3>2, <3>3
  <2> QED BY <2>2, <2>3, <2>4
<1>7. CASE ~t.keepTogether
  <2> DEFINE O == HoldOrphans(t, kept)
             W == HoldWidows(t, O)
  <2>1. /\ Grouped(t, O, a, t.rows)
        /\ \A x, y \in Int : Covers(kept, x, y) => Covers(O, x, y)
        /\ t.orphans > 1 => Covers(O, a, t.headerRows + t.orphans)
    BY <1>3, OrphansAreHeld
  <2> HIDE DEF O
  <2>2. /\ Grouped(t, W, a, t.rows)
        /\ \A x, y \in Int : Covers(O, x, y) => Covers(W, x, y)
        /\ t.widows > 1 => Covers(W, t.rows - t.widows + 1, t.rows)
    BY <2>1, WidowsAreHeld
  <2>3. BodyGroups(t) = W
    BY <1>4, <1>7 DEF O
  <2> HIDE DEF W
  <2>4. ASSUME NEW w \in Asked(t)
        PROVE  w[1] \in Int /\ w[2] \in Int /\ (w[1] < w[2] => Covers(W, w[1], w[2]))
    <3>1. \/ w = <<a, t.headerRows + t.orphans>> \/ w = <<t.rows - t.widows + 1, t.rows>>
          \/ \E r \in BodyRows(t) \ {t.rows} : t.keepWithNext[r] /\ w = <<r, r + 1>>
      BY <1>7 DEF Asked
    <3>2. CASE w = <<a, t.headerRows + t.orphans>>
      <4>1. w[1] \in Int /\ w[2] \in Int /\ (w[1] < w[2] => t.orphans > 1)
        BY <1>1, <3>2
      <4>2. t.orphans > 1 => Covers(W, a, t.headerRows + t.orphans)
        BY <1>1, <2>1, <2>2
      <4> QED BY <3>2, <4>1, <4>2
    <3>3. CASE w = <<t.rows - t.widows + 1, t.rows>>
      <4>1. w[1] \in Int /\ w[2] \in Int /\ (w[1] < w[2] => t.widows > 1)
        BY <1>1, <3>3
      <4> QED BY <2>2, <3>3, <4>1
    <3>4. ASSUME NEW r \in BodyRows(t) \ {t.rows}, t.keepWithNext[r], w = <<r, r + 1>>
          PROVE  w[1] \in Int /\ w[2] \in Int /\ (w[1] < w[2] => Covers(W, w[1], w[2]))
      <4>1. r \in Int /\ r + 1 \in Int /\ Covers(kept, r, r + 1)
        BY <1>3, <1>5, <3>4
      <4> QED BY <2>1, <2>2, <3>4, <4>1
    <3> QED BY <3>1, <3>2, <3>3, <3>4
  <2> QED BY <2>2, <2>3, <2>4
<1> QED BY <1>6, <1>7

-----------------------------------------------------------------------------
(* The cells in order.                                                     *)
LEMMA LargestOf ==
  ASSUME NEW S \in SUBSET Int, IsFiniteSet(S), S # {}
  PROVE  Max(S) \in S /\ \A x \in S : x <= Max(S)
<1> DEFINE n == Cardinality(S)
           L == Ascending(S)
<1>1. /\ n \in Nat /\ L \in [1 .. n -> S] /\ \A x \in S : n > 0 /\ x <= L[n]
  BY NumbersInOrder
<1> HIDE DEF L, n
<1>2. PICK x \in S : TRUE
  OBVIOUS
<1>3. n \in 1 .. n
  BY <1>1, <1>2
<1>4. L[n] \in S
  BY <1>1, <1>3
<1>5. \A y \in S : L[n] >= y
  BY <1>1, <1>4
<1>6. Max(S) = L[n]
  BY <1>4, <1>5, MaxIs
<1> QED BY <1>1, <1>4, <1>6

(* The cells in order are the cells.                                       *)
LEMMA CellsDiffer ==
  ASSUME NEW t, Valid(t), NEW c \in t.cells, NEW d \in t.cells, c # d
  PROVE  c.row # d.row \/ c.col # d.col
<1>1. /\ c.row \in Int /\ c.col \in Int /\ c.rows \in Int /\ c.cols \in Int
      /\ d.row \in Int /\ d.col \in Int /\ d.rows \in Int /\ d.cols \in Int
  BY DEF Valid, IsTable, IsCell
<1>2. c.rows > 0 /\ c.cols > 0 /\ d.rows > 0 /\ d.cols > 0
  BY DEF Valid, GridValid, SpanValid
<1>3. <<c.row, c.col>> \in Slots(c) /\ <<d.row, d.col>> \in Slots(d)
  BY <1>1, <1>2 DEF Slots, RowsOf, ColsOf
<1>4. Slots(c) \cap Slots(d) = {}
  BY DEF Valid, GridValid, Tiled
<1> QED BY <1>3, <1>4

LEMMA CellsInOrder ==
  ASSUME NEW t, Valid(t)
  PROVE  LET n == Cardinality(t.cells)
             L == InOrder(t)
         IN /\ n \in Nat /\ DOMAIN L = 1 .. n /\ Len(L) = n /\ L \in [1 .. n -> t.cells]
            /\ \A c \in t.cells : \E k \in 1 .. n : L[k] = c
<1> DEFINE S == t.cells
           n == Cardinality(S)
           L == InOrder(t)
           R == {p \in S \X S : p[1].row < p[2].row \/ (p[1].row = p[2].row /\ p[1].col < p[2].col)}
           rank(x) == Cardinality({y \in S : y.row < x.row \/ (y.row = x.row /\ y.col < x.col)})
<1>1. \A c \in S : c.row \in Int /\ c.col \in Int
  BY DEF Valid, IsTable, IsCell
<1>2. Orders(R, S)
  <2>1. \A x \in S : <<x, x>> \notin R
    BY <1>1
  <2>2. \A x, y, z \in S : <<x, y>> \in R /\ <<y, z>> \in R => <<x, z>> \in R
    BY <1>1
  <2>3. \A x, y \in S : x # y => <<x, y>> \in R \/ <<y, x>> \in R
    BY <1>1, CellsDiffer
  <2> QED BY <2>1, <2>2, <2>3 DEF Orders
<1>3. \A x \in S : rank(x) = Cardinality(Before(R, S, x))
  <2>1. \A x \in S : Before(R, S, x) = {y \in S : y.row < x.row \/ (y.row = x.row /\ y.col < x.col)}
    BY DEF Before
  <2> QED BY <2>1
<1>4. IsFiniteSet(S)
  BY DEF Valid, IsTable
<1> HIDE DEF R, rank
<1>5. /\ n \in Nat /\ \A k \in 1 .. n : \E x \in S : rank(x) = k - 1
      /\ \A x \in S : rank(x) \in 0 .. n - 1
  BY <1>2, <1>3, <1>4, Places
<1>6. \A x, y \in S : x # y => rank(x) # rank(y)
  <2> SUFFICES ASSUME NEW x \in S, NEW y \in S, x # y PROVE rank(x) # rank(y)
    OBVIOUS
  <2>1. <<x, y>> \in R \/ <<y, x>> \in R
    BY <1>2 DEF Orders
  <2>2. CASE <<x, y>> \in R
    BY <1>2, <1>3, <1>4, <1>5, <2>2, BeforeGrows
  <2>3. CASE <<y, x>> \in R
    BY <1>2, <1>3, <1>4, <1>5, <2>3, BeforeGrows
  <2> QED BY <2>1, <2>2, <2>3
<1>7. L = [k \in 1 .. n |-> CHOOSE x \in S : rank(x) = k - 1]
  BY DEF InOrder, Sorted, rank
<1>8. DOMAIN L = 1 .. n /\ \A k \in 1 .. n : L[k] \in S /\ rank(L[k]) = k - 1
  BY <1>5, <1>7
<1>9. Len(L) = n /\ L \in [1 .. n -> S]
  <2>1. L \in [1 .. n -> S]
    BY <1>7, <1>8
  <2> HIDE DEF L, n
  <2>2. L \in Seq(S)
    BY <1>5, <2>1
  <2> QED BY <1>5, <1>8, <2>1, <2>2, LenProperties
<1> HIDE DEF L, n
<1>10. ASSUME NEW c \in S PROVE \E k \in 1 .. n : L[k] = c
  <2>1. rank(c) + 1 \in 1 .. n /\ (rank(c) + 1) - 1 = rank(c)
    BY <1>5
  <2>2. L[rank(c) + 1] \in S /\ rank(L[rank(c) + 1]) = rank(c)
    BY <1>8, <2>1
  <2>3. L[rank(c) + 1] = c
    BY <1>6, <2>2
  <2> QED BY <2>1, <2>3
<1> QED BY <1>5, <1>8, <1>9, <1>10 DEF L, n

-----------------------------------------------------------------------------
(* Sums.                                                                   *)
LEMMA SumIs ==
  ASSUME NEW f, NEW S
  PROVE  SumOf(f, S) = Sums!FoldOf(f, 0, S)
BY Zenon DEF SumOf, MapThenSumSet, MapThenFoldSet, Sums!FoldOf, Sums!Folds, Sums!FoldsOn, Plus, AnyOf

LEMMA SummingOf ==
  ASSUME NEW f, NEW S, IsFiniteSet(S), \A x \in S : f[x] \in Nat
  PROVE  Sums!Summing(f, S)
<1>1. Sums!IsFiniteSet(S)
  BY Zenon DEF IsFiniteSet, Sums!IsFiniteSet
<1>2. Sums!Picks(S)
  BY Sums!AnyPicks DEF AnyOf
<1>3. \A x, y \in Nat : Plus(x, y) = x + y
  BY DEF Plus
<1> QED BY <1>1, <1>2, <1>3, Zenon DEF Sums!Summing

LEMMA SumNat ==
  ASSUME NEW f, NEW S, IsFiniteSet(S), \A x \in S : f[x] \in Nat
  PROVE  SumOf(f, S) \in Nat
BY SummingOf, SumIs, Sums!SumIsNatural

LEMMA SumNone ==
  ASSUME NEW f
  PROVE  SumOf(f, {}) = 0
BY SumIs, Sums!FoldOfNone

LEMMA SumOne ==
  ASSUME NEW f, NEW x, f[x] \in Nat
  PROVE  SumOf(f, {x}) = f[x]
<1>1. IsFiniteSet({x})
  BY FS_Singleton
<1>2. Sums!Summing(f, {x})
  BY <1>1, SummingOf
<1> QED BY <1>2, SumIs, Sums!SumOfOne

AddsUp(f, S, T) ==
  /\ SumOf(f, S) = SumOf(f, T) + SumOf(f, S \ T)
  /\ SumOf(f, T) \in Nat /\ SumOf(f, S \ T) \in Nat /\ SumOf(f, S) \in Nat
  /\ SumOf(f, T) <= SumOf(f, S)

LEMMA SumMore ==
  ASSUME NEW f, NEW S, IsFiniteSet(S), \A x \in S : f[x] \in Nat,
         NEW T \in SUBSET S
  PROVE  AddsUp(f, S, T)
<1>1. Sums!Summing(f, S)
  BY SummingOf
<1>2. /\ SumOf(f, T) \in Nat /\ SumOf(f, S \ T) \in Nat
      /\ SumOf(f, S) = SumOf(f, T) + SumOf(f, S \ T)
  <2>1. /\ Sums!FoldOf(f, 0, T) \in Nat /\ Sums!FoldOf(f, 0, S \ T) \in Nat
        /\ Sums!FoldOf(f, 0, S) = Sums!FoldOf(f, 0, T) + Sums!FoldOf(f, 0, S \ T)
    BY <1>1, Sums!SumOfRest
  <2> QED BY <2>1, SumIs, Zenon
<1> QED BY <1>2 DEF AddsUp

LEMMA SumStep ==
  ASSUME NEW f, NEW S, IsFiniteSet(S), \A y \in S : f[y] \in Nat, NEW x \in S
  PROVE  SumOf(f, S) = SumOf(f, S \ {x}) + f[x] /\ SumOf(f, S \ {x}) \in Nat
<1>1. /\ SumOf(f, S) = SumOf(f, {x}) + SumOf(f, S \ {x})
      /\ SumOf(f, S \ {x}) \in Nat
  <2>1. PICK T : T = {x}
    OBVIOUS
  <2>2. T \in SUBSET S
    BY <2>1
  <2>3. SumOf(f, S) = SumOf(f, T) + SumOf(f, S \ T) /\ SumOf(f, S \ T) \in Nat
    BY <2>2, SumMore DEF AddsUp
  <2> QED BY <2>1, <2>3
<1>2. SumOf(f, {x}) = f[x] /\ f[x] \in Nat
  BY SumOne
<1> QED BY <1>1, <1>2

LEMMA SumRises ==
  ASSUME NEW f, NEW g, NEW S, IsFiniteSet(S),
         \A x \in S : f[x] \in Nat /\ g[x] \in Nat /\ f[x] <= g[x]
  PROVE  SumOf(f, S) <= SumOf(g, S)
<1>1. Sums!Summing(f, S) /\ Sums!Summing(g, S)
  BY SummingOf
<1> QED BY <1>1, SumIs, Sums!SumGrows

LEMMA SumSame ==
  ASSUME NEW f, NEW g, NEW S, \A x \in S : f[x] = g[x]
  PROVE  SumOf(f, S) = SumOf(g, S)
<1>1. Sums!Picks(S)
  BY Sums!AnyPicks DEF AnyOf
<1> QED BY <1>1, SumIs, Sums!FoldOfSame

\* Two functions that differ in one place.
DifferAt(f, g, S, x) ==
  /\ IsFiniteSet(S) /\ x \in S /\ \A y \in S : f[y] \in Nat /\ g[y] \in Nat
  /\ \A y \in S \ {x} : f[y] = g[y]

LEMMA SumChanges ==
  ASSUME NEW f, NEW g, NEW S, NEW x, DifferAt(f, g, S, x)
  PROVE  SumOf(g, S) = SumOf(f, S) + g[x] - f[x]
<1>0. /\ IsFiniteSet(S) /\ x \in S /\ \A y \in S : f[y] \in Nat /\ g[y] \in Nat
      /\ \A y \in S \ {x} : f[y] = g[y]
  BY DEF DifferAt
<1>1. Sums!Summing(f, S) /\ Sums!Summing(g, S)
  BY <1>0, SummingOf
<1>2. SumOf(g, S) + f[x] = SumOf(f, S) + g[x]
  BY <1>0, <1>1, SumIs, Sums!SumChange
<1>3. SumOf(f, S) \in Nat /\ SumOf(g, S) \in Nat /\ f[x] \in Nat /\ g[x] \in Nat
  BY <1>0, SumNat
<1> QED BY <1>2, <1>3

-----------------------------------------------------------------------------
(* Row heights.                                                            *)
LEMMA MaximaHold ==
  ASSUME NEW t, Valid(t)
  PROVE  /\ RowMaxima(t) \in [1 .. t.rows -> Nat]
         /\ \A c \in t.cells : c.rows = 1 => c.height <= RowMaxima(t)[c.row]
<1>1. ASSUME NEW r \in 1 .. t.rows
      PROVE  /\ RowMaxima(t)[r] \in Nat
             /\ \A c \in t.cells : c.row = r /\ c.rows = 1 => c.height <= RowMaxima(t)[r]
  <2> DEFINE C == {d \in t.cells : d.row = r /\ d.rows = 1}
             H == {c.height : c \in C}
             h == [c \in C |-> c.height]
  <2>1. \A c \in C : c.height \in Nat
    BY CellFacts
  <2>2. IsFiniteSet(C)
    BY FS_Subset DEF Valid, IsTable
  <2>3. h \in Surjection(C, H)
    BY DEF Surjection
  <2>4. IsFiniteSet(H) /\ H \in SUBSET Nat
    <3>1. H \in SUBSET Nat
      BY <2>1
    <3> HIDE DEF C, H, h
    <3> QED BY <2>2, <2>3, <3>1, FS_Surjection
  <2>5. RowMaxima(t)[r] = Max({0} \cup H)
    BY DEF RowMaxima
  <2>6. \A c \in t.cells : c.row = r /\ c.rows = 1 => c.height \in H
    OBVIOUS
  <2> HIDE DEF H
  <2>7. IsFiniteSet(H \cup {0}) /\ {0} \cup H = H \cup {0}
    BY <2>4, FS_AddElement
  <2>8. {0} \cup H \in SUBSET Int /\ {0} \cup H \in SUBSET Nat /\ {0} \cup H # {}
        /\ IsFiniteSet({0} \cup H)
    BY <2>4, <2>7
  <2>9. Max({0} \cup H) \in {0} \cup H /\ \A x \in {0} \cup H : x <= Max({0} \cup H)
    BY <2>8, LargestOf
  <2> QED BY <2>5, <2>6, <2>8, <2>9
<1>2. DOMAIN RowMaxima(t) = 1 .. t.rows /\ RowMaxima(t) = [r \in 1 .. t.rows |-> RowMaxima(t)[r]]
  BY DEF RowMaxima
<1>3. RowMaxima(t) \in [1 .. t.rows -> Nat]
  BY <1>1, <1>2
<1>4. \A c \in t.cells : c.row \in 1 .. t.rows
  BY CellFacts
<1> QED BY <1>1, <1>3, <1>4

LEMMA Division ==
  ASSUME NEW x \in Nat, NEW y \in Nat \ {0}
  PROVE  x \div y \in Nat /\ x % y \in 0 .. y - 1 /\ x = y * (x \div y) + (x % y)
<1>1. x \div y >= 0 /\ x \div y \in Int /\ x % y \in 0 .. y - 1
  OBVIOUS
<1>2. x = y * (x \div y) + (x % y)
  OBVIOUS
<1> QED BY <1>1, <1>2

(* Equal shares, the remainder to the first rows, make up the amount.      *)
SharedOut(n, h, shared, rows, amount) ==
  /\ shared \in [1 .. n -> Nat] /\ \A r \in 1 .. n : h[r] <= shared[r]
  /\ SumOf(shared, rows) = SumOf(h, rows) + amount

LEMMA SharesAddUp ==
  ASSUME NEW n \in Nat, NEW h \in [1 .. n -> Nat], NEW a \in 1 .. n, NEW b \in a .. n,
         NEW amount \in Nat
  PROVE  SharedOut(n, h, ShareHeight(h, a .. b, amount), a .. b, amount)
<1> DEFINE count == b - a + 1
           q == amount \div count
           m == amount % count
           shared == ShareHeight(h, a .. b, amount)
<1>1. /\ count \in Nat \ {0} /\ Cardinality(a .. b) = count
  BY FS_Interval
<1>2. Min(a .. b) = a
  <2>1. a .. b \in SUBSET Int /\ a \in a .. b /\ \A y \in a .. b : a =< y
    OBVIOUS
  <2> QED BY <2>1, MinIs
<1>3. q \in Nat /\ m \in 0 .. count - 1 /\ amount = count * q + m
  BY <1>1, Division
<1>4. shared = [r \in 1 .. n |-> IF r \notin a .. b THEN h[r]
                                ELSE h[r] + q + (IF r - a < m THEN 1 ELSE 0)]
  BY <1>1, <1>2 DEF ShareHeight
<1> HIDE DEF q, m, shared
<1>5. /\ shared \in [1 .. n -> Nat] /\ \A r \in 1 .. n : h[r] <= shared[r]
      /\ \A r \in a .. b : shared[r] = h[r] + q + (IF r - a < m THEN 1 ELSE 0)
  <2>1. \A r \in 1 .. n :
          /\ h[r] \in Nat
          /\ h[r] + q + (IF r - a < m THEN 1 ELSE 0) \in Nat
          /\ h[r] <= h[r] + q + (IF r - a < m THEN 1 ELSE 0)
    BY <1>3
  <2> QED BY <1>4, <2>1
<1> DEFINE Part(k) == a .. a + k - 1
           T == {k \in Nat : k <= count =>
                   SumOf(shared, Part(k)) = SumOf(h, Part(k)) + k * q + (IF k < m THEN k ELSE m)}
<1>6. 0 \in T
  <2>1. Part(0) = {}
    OBVIOUS
  <2>2. SumOf(shared, Part(0)) = 0 /\ SumOf(h, Part(0)) = 0
    BY <2>1, SumNone
  <2>3. 0 * q = 0 /\ (IF 0 < m THEN 0 ELSE m) = 0
    BY <1>3
  <2> HIDE DEF Part
  <2> QED BY <2>2, <2>3
<1>7. ASSUME NEW k \in T PROVE k + 1 \in T
  <2> SUFFICES ASSUME k + 1 <= count
               PROVE SumOf(shared, Part(k + 1)) = SumOf(h, Part(k + 1)) + (k + 1) * q
                                                    + (IF k + 1 < m THEN k + 1 ELSE m)
    OBVIOUS
  <2>1. k \in Nat /\ k <= count /\ a + k \in a .. b /\ a + k \in 1 .. n
    OBVIOUS
  <2>2. SumOf(shared, Part(k)) = SumOf(h, Part(k)) + k * q + (IF k < m THEN k ELSE m)
    BY <2>1
  <2>3. /\ IsFiniteSet(Part(k + 1)) /\ Part(k) \in SUBSET Part(k + 1) /\ Part(k + 1) \in SUBSET (1 .. n)
        /\ Part(k) = Part(k + 1) \ {a + k} /\ a + k \in Part(k + 1)
    <3>1. IsFiniteSet(Part(k + 1))
      BY <2>1, FS_Interval
    <3>2. Part(k) \in SUBSET Part(k + 1) /\ Part(k + 1) \in SUBSET (1 .. n)
      BY <2>1
    <3>3. a + k \in Part(k + 1)
      BY <2>1
    <3>4. a + k \notin Part(k)
      BY <2>1
    <3>5. \A x \in Part(k + 1) : x # a + k => x \in Part(k)
      BY <2>1
    <3>6. Part(k) = Part(k + 1) \ {a + k}
      <4> HIDE DEF Part
      <4> QED BY <3>2, <3>4, <3>5
    <3> QED BY <3>1, <3>2, <3>3, <3>6
  <2> HIDE DEF Part
  <2>4. ASSUME NEW f \in [1 .. n -> Nat]
        PROVE  SumOf(f, Part(k + 1)) = SumOf(f, Part(k)) + f[a + k] /\ SumOf(f, Part(k)) \in Nat
    <3>1. \A x \in Part(k + 1) : f[x] \in Nat
      BY <2>3
    <3>2. /\ SumOf(f, Part(k + 1)) = SumOf(f, Part(k + 1) \ {a + k}) + f[a + k]
          /\ SumOf(f, Part(k + 1) \ {a + k}) \in Nat
      BY <2>3, <3>1, SumStep
    <3> QED BY <2>3, <3>2
  <2>5. PICK before, after : before = SumOf(h, Part(k)) /\ after = SumOf(shared, Part(k))
    OBVIOUS
  <2>6. /\ before \in Nat /\ after \in Nat
        /\ SumOf(h, Part(k + 1)) = before + h[a + k]
        /\ SumOf(shared, Part(k + 1)) = after + shared[a + k]
    BY <1>5, <2>4, <2>5
  <2>7. shared[a + k] = h[a + k] + q + (IF k < m THEN 1 ELSE 0) /\ h[a + k] \in Nat
    BY <1>5, <2>1
  <2>8. (k + 1) * q = k * q + q /\ k * q \in Nat
    BY <1>3, <2>1
  <2>9. after = before + k * q + (IF k < m THEN k ELSE m)
    BY <2>2, <2>5
  <2>10. (IF k < m THEN k ELSE m) + (IF k < m THEN 1 ELSE 0) = IF k + 1 < m THEN k + 1 ELSE m
    BY <1>3, <2>1
  <2>11. PICK product, x, y, z :
           /\ product = k * q /\ x = (IF k < m THEN k ELSE m)
           /\ y = (IF k < m THEN 1 ELSE 0)
           /\ z = (IF k + 1 < m THEN k + 1 ELSE m)
    OBVIOUS
  <2>12. x \in Nat /\ y \in Nat /\ z = x + y
    BY <1>3, <2>1, <2>10, <2>11
  <2>13. after + (h[a + k] + q + y) = before + h[a + k] + (product + q) + z
    <3>1. after = before + product + x /\ product \in Nat
      BY <2>8, <2>9, <2>11
    <3>2. q \in Nat /\ h[a + k] \in Nat /\ before \in Nat
      BY <1>3, <2>6, <2>7
    <3> QED BY <2>12, <3>1, <3>2
  <2> QED BY <2>6, <2>7, <2>8, <2>11, <2>13
<1>8. T = Nat
  <2>1. T \in SUBSET Nat
    OBVIOUS
  <2> HIDE DEF T
  <2> QED BY <1>6, <1>7, <2>1, Sums!SetInduction
<1>9. Part(count) = a .. b
  OBVIOUS
<1>10. SumOf(shared, a .. b) = SumOf(h, a .. b) + count * q + (IF count < m THEN count ELSE m)
  <2>1. count \in T /\ count <= count
    <3> HIDE DEF T
    <3> QED BY <1>1, <1>8
  <2> HIDE DEF Part
  <2> QED BY <1>9, <2>1
<1>11. SumOf(h, a .. b) \in Nat /\ (IF count < m THEN count ELSE m) = m /\ count * q \in Nat
  <2>1. IsFiniteSet(a .. b)
    BY FS_Interval
  <2>2. \A r \in a .. b : r \in 1 .. n
    OBVIOUS
  <2>3. \A r \in a .. b : h[r] \in Nat
    BY <2>2
  <2> QED BY <1>1, <1>3, <2>1, <2>3, SumNat
<1>12. SumOf(shared, a .. b) = SumOf(h, a .. b) + amount
  BY <1>3, <1>10, <1>11
<1> QED BY <1>5, <1>12 DEF shared, SharedOut

(* Every cell gets the height it needs, and no row becomes less tall.      *)
AsTall(n, g, h) == \A r \in 1 .. n : g[r] <= h[r]

LEMMA CellRows ==
  ASSUME NEW t, Valid(t), NEW c \in t.cells
  PROVE  IsFiniteSet(RowsOf(c)) /\ RowsOf(c) \in SUBSET (1 .. t.rows)
<1>1. PICK a, b : a = c.row /\ b = c.row + c.rows - 1
  OBVIOUS
<1>2. a \in 1 .. t.rows /\ b \in a .. t.rows /\ RowsOf(c) = a .. b /\ t.rows \in Nat
  BY <1>1, CellFacts, TableFacts
<1>3. IsFiniteSet(a .. b)
  BY <1>2, FS_Interval
<1>4. a .. b \in SUBSET (1 .. t.rows)
  BY <1>2
<1> QED BY <1>2, <1>3, <1>4

LEMMA CoverIsEnough ==
  ASSUME NEW t, Valid(t), NEW h \in [1 .. t.rows -> Nat], AsTall(t.rows, RowMaxima(t), h),
         NEW c \in t.cells
  PROVE  LET covered == CoverHeight(h, c)
         IN /\ covered \in [1 .. t.rows -> Nat] /\ AsTall(t.rows, h, covered)
            /\ c.height <= SumOf(covered, RowsOf(c))
<1> DEFINE b == c.row + c.rows - 1
           covered == CoverHeight(h, c)
           deficit == c.height - SumOf(h, RowsOf(c))
<1>1. /\ c.row \in 1 .. t.rows /\ c.rows \in Nat \ {0} /\ c.height \in Nat
      /\ b \in c.row .. t.rows /\ RowsOf(c) = c.row .. b /\ t.rows \in Nat
  BY CellFacts, TableFacts
<1> HIDE DEF b
<1>2. SumOf(h, RowsOf(c)) \in Nat
  <2>1. IsFiniteSet(RowsOf(c)) /\ \A r \in RowsOf(c) : h[r] \in Nat
    BY CellRows
  <2> QED BY <2>1, SumNat
<1>3. \A r \in 1 .. t.rows : h[r] <= h[r]
  OBVIOUS
<1>4. CASE c.rows = 1
  <2>1. covered = h
    BY <1>4 DEF CoverHeight
  <2>2. RowsOf(c) = {c.row}
    BY <1>1, <1>4 DEF RowsOf
  <2>3. SumOf(h, {c.row}) = h[c.row]
    BY <1>1, SumOne
  <2>4. c.height <= RowMaxima(t)[c.row] /\ RowMaxima(t)[c.row] \in Nat /\ RowMaxima(t)[c.row] <= h[c.row]
    BY <1>1, <1>4, MaximaHold DEF AsTall
  <2>5. c.height <= h[c.row]
    BY <1>1, <2>4
  <2> QED BY <1>3, <2>1, <2>2, <2>3, <2>5 DEF AsTall
<1>5. CASE c.rows # 1 /\ deficit <= 0
  <2>1. covered = h
    BY <1>5 DEF CoverHeight
  <2>2. c.height <= SumOf(h, RowsOf(c))
    BY <1>1, <1>2, <1>5
  <2> QED BY <1>3, <2>1, <2>2 DEF AsTall
<1>6. CASE c.rows # 1 /\ deficit > 0
  <2>1. covered = ShareHeight(h, c.row .. b, deficit) /\ deficit \in Nat
    BY <1>1, <1>2, <1>6 DEF CoverHeight
  <2> HIDE DEF covered, deficit
  <2>2. /\ covered \in [1 .. t.rows -> Nat] /\ \A r \in 1 .. t.rows : h[r] <= covered[r]
        /\ SumOf(covered, c.row .. b) = SumOf(h, c.row .. b) + deficit
    <3>1. PICK n, a : n = t.rows /\ a = c.row
      OBVIOUS
    <3>2. n \in Nat /\ h \in [1 .. n -> Nat] /\ a \in 1 .. n /\ b \in a .. n
      BY <1>1, <3>1
    <3>3. SharedOut(n, h, ShareHeight(h, a .. b, deficit), a .. b, deficit)
      BY <2>1, <3>2, SharesAddUp
    <3> QED BY <2>1, <3>1, <3>3 DEF SharedOut
  <2>3. c.height <= SumOf(covered, RowsOf(c))
    BY <1>1, <1>2, <2>2 DEF deficit
  <2> QED BY <2>2, <2>3 DEF AsTall, covered
<1> QED BY <1>1, <1>2, <1>4, <1>5, <1>6

CoverHeights(base, cells) == FoldLeft(CoverHeight, base, cells)

LEMMA HeightSteps ==
  ASSUME NEW base, NEW n \in Nat, NEW cells, DOMAIN cells = 1 .. n
  PROVE  \E r : /\ r[0] = base /\ \A k \in 1 .. n : r[k] = CoverHeight(r[k - 1], cells[k])
                /\ CoverHeights(base, cells) = r[n]
<1> DEFINE f == [k \in 1 .. n |-> Task("height", <<>>, cells[k])]
           Runs(g) == g = [s \in SUBSET (1 .. n) |-> IF s = {} THEN base
                             ELSE CoverHeight(g[s \ {Largest(s)}], cells[Largest(s)])]
<1>1. CoverHeights(base, cells) = (CHOOSE g : Runs(g))[1 .. n]
  BY Zenon DEF CoverHeights, FoldLeft, MapThenFoldSet, Max, Largest
<1>2. \A g : [s \in SUBSET (1 .. n) |-> IF s = {} THEN base
                ELSE CoverHeight(g[s \ {Largest(s)}], cells[Largest(s)])]
            = [s \in SUBSET (1 .. n) |-> IF s = {} THEN base
                ELSE StepTo(f[Largest(s)], g[s \ {Largest(s)}])]
  <2>1. \A s \in SUBSET (1 .. n) : s # {} => f[Largest(s)] = Task("height", <<>>, cells[Largest(s)])
    BY LargestPicks
  <2> HIDE DEF f
  <2>2. \A g : \A s \in SUBSET (1 .. n) : s # {} =>
          CoverHeight(g[s \ {Largest(s)}], cells[Largest(s)])
            = StepTo(f[Largest(s)], g[s \ {Largest(s)}])
    BY <2>1, TaskSteps
  <2> QED BY <2>2, Zenon
<1>3. \A g : Runs(g) <=> Steps!Folds(f, base, 1 .. n, g)
  BY <1>2, Zenon DEF Steps!Folds, Steps!FoldsOn
<1>4. (CHOOSE g : Runs(g)) = (CHOOSE g : Steps!Folds(f, base, 1 .. n, g))
  <2> HIDE DEF Runs, f
  <2> QED BY <1>3, Zenon
<1>5. CoverHeights(base, cells) = Steps!FoldOf(f, base, 1 .. n)
  <2> HIDE DEF Runs, f
  <2> QED BY <1>1, <1>4, Zenon DEF Steps!FoldOf
<1>6. PICK r : Run(f, base, n, r)
  <2> HIDE DEF f
  <2> QED BY StepsAre
<1>7. \A k \in 1 .. n : \A v : StepTo(f[k], v) = CoverHeight(v, cells[k])
  BY TaskSteps
<1>8. \A k \in 1 .. n : r[k] = StepTo(f[k], r[k - 1])
  BY <1>6 DEF Run
<1> HIDE DEF f
<1> QED BY <1>5, <1>6, <1>7, <1>8 DEF Run

(* resolveRowHeights (table.go): the rows a cell spans are together at     *)
(* least as tall as the cell, for every accepted grid; what is shared out  *)
(* for one cell is not taken back for another, and no share is lost to     *)
(* rounding.                                                               *)
THEOREM HeightsAreEnough ==
  ASSUME NEW t, Valid(t)
  PROVE  /\ ResolveRowHeights(t) \in [1 .. t.rows -> Nat]
         /\ \A c \in t.cells : c.height <= SumOf(ResolveRowHeights(t), RowsOf(c))
<1> DEFINE n == Cardinality(t.cells)
           base == RowMaxima(t)
           Tall == [1 .. t.rows -> Nat]
           All == 1 .. t.rows
<1>0. PICK L : L = InOrder(t)
  OBVIOUS
<1>1. /\ n \in Nat /\ DOMAIN L = 1 .. n /\ \A k \in 1 .. n : L[k] \in t.cells
      /\ \A c \in t.cells : \E k \in 1 .. n : L[k] = c
  BY <1>0, CellsInOrder
<1> HIDE DEF n
<1>2. PICK r : /\ r[0] = base /\ \A k \in 1 .. n : r[k] = CoverHeight(r[k - 1], L[k])
               /\ ResolveRowHeights(t) = r[n]
  <2>1. ResolveRowHeights(t) = CoverHeights(base, L)
    BY <1>0, Zenon DEF ResolveRowHeights, CoverHeights
  <2>2. n \in Nat /\ DOMAIN L = 1 .. n
    BY <1>1
  <2>3. PICK from : from = base
    OBVIOUS
  <2> HIDE DEF base
  <2>4. \E r : /\ r[0] = from /\ \A k \in 1 .. n : r[k] = CoverHeight(r[k - 1], L[k])
               /\ CoverHeights(from, L) = r[n]
    BY <2>2, HeightSteps
  <2> QED BY <2>1, <2>3, <2>4
<1>3. base \in Tall
  BY MaximaHold
<1> DEFINE Enough(k) == \A j \in 1 .. k : L[j].height <= SumOf(r[k], RowsOf(L[j]))
           T == {k \in Nat : k <= n => r[k] \in Tall /\ AsTall(t.rows, base, r[k]) /\ Enough(k)}
<1> HIDE DEF base
<1>4. 0 \in T
  <2>1. AsTall(t.rows, base, base)
    BY <1>3 DEF AsTall
  <2> QED BY <1>2, <1>3, <2>1
<1>5. ASSUME NEW k \in T PROVE k + 1 \in T
  <2> SUFFICES ASSUME k + 1 <= n
               PROVE r[k + 1] \in Tall /\ AsTall(t.rows, base, r[k + 1]) /\ Enough(k + 1)
    OBVIOUS
  <2>1. /\ k \in Nat /\ k + 1 \in 1 .. n /\ (k + 1) - 1 = k
        /\ r[k] \in Tall /\ AsTall(t.rows, base, r[k]) /\ Enough(k)
    BY <1>1
  <2>2. r[k + 1] = CoverHeight(r[k], L[k + 1]) /\ L[k + 1] \in t.cells
    BY <1>1, <1>2, <2>1
  <2>3. /\ r[k + 1] \in Tall /\ AsTall(t.rows, r[k], r[k + 1])
        /\ L[k + 1].height <= SumOf(r[k + 1], RowsOf(L[k + 1]))
    <3> HIDE DEF Enough, T
    <3> QED BY <2>1, <2>2, CoverIsEnough DEF base
  <2>4. AsTall(t.rows, base, r[k + 1])
    <3>1. ASSUME NEW i \in All PROVE base[i] <= r[k + 1][i]
      <4>1. base[i] <= r[k][i] /\ r[k][i] <= r[k + 1][i]
        BY <2>1, <2>3 DEF AsTall
      <4>2. base[i] \in Nat /\ r[k][i] \in Nat /\ r[k + 1][i] \in Nat
        BY <1>3, <2>1, <2>3
      <4> QED BY <4>1, <4>2
    <3> QED BY <3>1 DEF AsTall
  <2>5. ASSUME NEW j \in 1 .. k PROVE L[j].height <= SumOf(r[k + 1], RowsOf(L[j]))
    <3>1. j \in 1 .. n
      BY <1>1, <2>1
    <3>2. L[j] \in t.cells /\ L[j].height \in Nat
      BY <1>1, <3>1, CellFacts
    <3>3. IsFiniteSet(RowsOf(L[j])) /\ RowsOf(L[j]) \in SUBSET All
      BY <3>2, CellRows
    <3>4. \A i \in RowsOf(L[j]) : r[k][i] \in Nat /\ r[k + 1][i] \in Nat /\ r[k][i] <= r[k + 1][i]
      BY <2>1, <2>3, <3>3 DEF AsTall
    <3>5. SumOf(r[k], RowsOf(L[j])) <= SumOf(r[k + 1], RowsOf(L[j]))
      BY <3>3, <3>4, SumRises
    <3>6. SumOf(r[k], RowsOf(L[j])) \in Nat /\ SumOf(r[k + 1], RowsOf(L[j])) \in Nat
      BY <3>3, <3>4, SumNat
    <3>7. L[j].height <= SumOf(r[k], RowsOf(L[j]))
      BY <2>1
    <3> QED BY <3>2, <3>5, <3>6, <3>7
  <2>6. Enough(k + 1)
    <3>1. \A j \in 1 .. k + 1 : j \in 1 .. k \/ j = k + 1
      BY <2>1
    <3> QED BY <2>3, <2>5, <3>1
  <2> QED BY <2>3, <2>4, <2>6
<1>6. T = Nat
  <2>1. T \in SUBSET Nat
    OBVIOUS
  <2> HIDE DEF T
  <2> QED BY <1>4, <1>5, <2>1, Sums!SetInduction
<1>7. r[n] \in Tall /\ Enough(n)
  <2>1. n \in T /\ n <= n
    <3> HIDE DEF T
    <3> QED BY <1>1, <1>6
  <2> QED BY <2>1
<1> QED BY <1>1, <1>2, <1>7

-----------------------------------------------------------------------------
(* Column widths: each keeps its own bounds.                               *)
FairWidths(t) ==
  {w \in [1 .. Len(t.columns) -> Nat] :
     \A i \in 1 .. Len(t.columns) :
       /\ t.columns[i].fixed => w[i] = t.columns[i].width
       /\ ~t.columns[i].fixed => t.columns[i].min <= w[i]
       /\ t.columns[i].max > 0 => w[i] <= t.columns[i].max}

LEMMA ColumnFacts ==
  ASSUME NEW t, Valid(t)
  PROVE  /\ Len(t.columns) \in Nat /\ t.width \in Nat
         /\ \A i \in 1 .. Len(t.columns) :
              LET c == t.columns[i]
              IN /\ c.min \in Nat /\ c.max \in Nat /\ c.width \in Nat /\ c.fixed \in BOOLEAN
                 /\ c.max > 0 => c.min <= c.max
                 /\ c.fixed => c.min <= c.width /\ (c.max > 0 => c.width <= c.max)
<1>1. /\ Len(t.columns) \in Nat /\ t.width \in Int /\ t.width > 0
      /\ \A i \in 1 .. Len(t.columns) : IsColumn(t.columns[i]) /\ ColumnValid(t.columns[i])
  BY DEF Valid, IsTable, SurfaceValid
<1>2. ASSUME NEW c, IsColumn(c), ColumnValid(c)
      PROVE  /\ c.min \in Nat /\ c.max \in Nat /\ c.width \in Nat /\ c.fixed \in BOOLEAN
             /\ c.max > 0 => c.min <= c.max
             /\ c.fixed => c.min <= c.width /\ (c.max > 0 => c.width <= c.max)
  BY <1>2 DEF IsColumn, ColumnValid
<1> QED BY <1>1, <1>2

LEMMA MinimaAreFair ==
  ASSUME NEW t, Valid(t)
  PROVE  MinimumWidths(t) \in FairWidths(t)
<1>1. \A i \in 1 .. Len(t.columns) :
        /\ t.columns[i].min \in Nat /\ t.columns[i].width \in Nat
        /\ t.columns[i].max > 0 => t.columns[i].min <= t.columns[i].max
        /\ t.columns[i].fixed /\ t.columns[i].max > 0 => t.columns[i].width <= t.columns[i].max
  BY ColumnFacts
<1> QED BY <1>1 DEF MinimumWidths, FairWidths

LEMMA CellColumns ==
  ASSUME NEW t, Valid(t), NEW c \in t.cells
  PROVE  /\ IsFiniteSet(ColsOf(c)) /\ ColsOf(c) \in SUBSET (1 .. Len(t.columns))
         /\ c.minWidth \in Nat /\ c.preferred \in Nat
<1>1. /\ c.row \in Nat \ {0} /\ c.col \in Nat \ {0} /\ c.rows \in Nat /\ c.cols \in Nat
      /\ c.minWidth \in Int /\ c.preferred \in Int
  BY DEF Valid, IsTable, IsCell
<1>2. /\ c.rows > 0 /\ c.cols > 0 /\ Slots(c) \subseteq GridSlots(t)
      /\ 0 <= c.minWidth /\ c.minWidth <= c.preferred
  BY DEF Valid, GridValid, SpanValid
<1>3. c.row \in RowsOf(c)
  BY <1>1, <1>2 DEF RowsOf
<1>4. ASSUME NEW i \in ColsOf(c) PROVE i \in 1 .. Len(t.columns)
  <2>1. <<c.row, i>> \in Slots(c)
    BY <1>3 DEF Slots
  <2> QED BY <1>2, <2>1 DEF GridSlots
<1>5. IsFiniteSet(ColsOf(c))
  <2>1. PICK a, b : a = c.col /\ b = c.col + c.cols - 1
    OBVIOUS
  <2>2. a \in Int /\ b \in Int /\ ColsOf(c) = a .. b
    BY <1>1, <2>1 DEF ColsOf
  <2> QED BY <2>2, FS_Interval
<1> QED BY <1>1, <1>2, <1>4, <1>5

(* The columns that grow, in order.                                        *)
LEMMA GrowingColumns ==
  ASSUME NEW t, Valid(t), NEW C \in SUBSET (1 .. Len(t.columns))
  PROVE  LET A == {i \in C : ~t.columns[i].fixed}
         IN Growing(t.columns, C) \in Seq(A) /\ IsFiniteSet(A) /\ A \in SUBSET (1 .. Len(t.columns))
<1> DEFINE A == {i \in C : ~t.columns[i].fixed}
<1>1. Len(t.columns) \in Nat
  BY ColumnFacts
<1>2. IsFiniteSet(1 .. Len(t.columns))
  BY <1>1, FS_Interval
<1>3. A \in SUBSET (1 .. Len(t.columns)) /\ IsFiniteSet(A) /\ A \in SUBSET Int
  <2>1. A \in SUBSET (1 .. Len(t.columns))
    OBVIOUS
  <2>2. 1 .. Len(t.columns) \in SUBSET Int
    BY <1>1
  <2> HIDE DEF A
  <2>3. IsFiniteSet(A)
    BY <1>2, <2>1, FS_Subset
  <2> QED BY <2>1, <2>2, <2>3
<1>4. Growing(t.columns, C) = Ascending(A)
  BY DEF Growing
<1> HIDE DEF A
<1>5. PICK n : n = Cardinality(A)
  OBVIOUS
<1>6. n \in Nat /\ Ascending(A) \in [1 .. n -> A]
  BY <1>3, <1>5, NumbersInOrder
<1>7. Ascending(A) \in Seq(A)
  BY <1>6
<1> QED BY <1>3, <1>4, <1>7 DEF A

-----------------------------------------------------------------------------
(* What is given to columns.  From these widths w and an amount, columns A *)
(* can only have grown, up to their maxima, and what they have taken and   *)
(* what is left make up the amount.                                        *)
Reached(t, w, A, amount) ==
  {s \in [widths : FairWidths(t), remaining : Nat, active : Seq(A)] :
     /\ \A i \in 1 .. Len(t.columns) : w[i] <= s.widths[i] /\ (i \notin A => s.widths[i] = w[i])
     /\ SumOf(s.widths, A) + s.remaining = SumOf(w, A) + amount}

GrowsAmong(t, A) ==
  /\ IsFiniteSet(A) /\ A \in SUBSET (1 .. Len(t.columns))
  /\ \A i \in A : ~t.columns[i].fixed

LEMMA LeastOf ==
  ASSUME NEW x \in Int, NEW y \in Int
  PROVE  Min({x, y}) = IF x <= y THEN x ELSE y
<1>1. CASE x <= y
  <2>1. {x, y} \in SUBSET Int /\ x \in {x, y} /\ \A z \in {x, y} : x =< z
    BY <1>1
  <2>2. Min({x, y}) = x
    BY <2>1, MinIs
  <2> QED BY <1>1, <2>2
<1>2. CASE ~(x <= y)
  <2>1. {x, y} \in SUBSET Int /\ y \in {x, y} /\ \A z \in {x, y} : y =< z
    BY <1>2
  <2>2. Min({x, y}) = y
    BY <2>1, MinIs
  <2> QED BY <1>2, <2>2
<1> QED BY <1>1, <1>2

LEMMA TakenFits ==
  ASSUME NEW t, Valid(t), NEW i \in 1 .. Len(t.columns), NEW width \in Nat, NEW share \in Nat,
         NEW remaining \in Nat, t.columns[i].max > 0 => width <= t.columns[i].max
  PROVE  /\ Taken(t.columns[i], width, share, remaining) \in 0 .. remaining
         /\ t.columns[i].max > 0 =>
              width + Taken(t.columns[i], width, share, remaining) <= t.columns[i].max
<1> DEFINE column == t.columns[i]
           wish == Min({share, remaining})
           left == Min({wish, column.max - width})
<1>1. column.max \in Nat
  BY ColumnFacts
<1>2. wish \in 0 .. remaining
  BY LeastOf
<1>3. Taken(column, width, share, remaining) = IF column.max = 0 THEN wish ELSE Max({0, left})
  BY DEF Taken
<1> HIDE DEF column, wish
<1>4. left = IF wish <= column.max - width THEN wish ELSE column.max - width
  BY <1>1, <1>2, LeastOf
<1> HIDE DEF left
<1>5. left \in Int
  BY <1>1, <1>2, <1>4
<1>6. Max({0, left}) = IF left > 0 THEN left ELSE 0
  BY <1>5, AtLeastNone
<1>7. column.max > 0 => width <= column.max
  BY DEF column
<1>8. Taken(column, width, share, remaining) \in 0 .. remaining
  BY <1>1, <1>2, <1>3, <1>4, <1>6, <1>7
<1>9. column.max > 0 => width + Taken(column, width, share, remaining) <= column.max
  BY <1>1, <1>2, <1>3, <1>4, <1>6, <1>7
<1> QED BY <1>8, <1>9 DEF column

LEMMA GrowReaches ==
  ASSUME NEW t, Valid(t), NEW w \in FairWidths(t), NEW A, GrowsAmong(t, A), NEW amount \in Nat,
         NEW s \in Reached(t, w, A, amount), NEW share \in Nat, NEW i \in A
  PROVE  Grow(t.columns, share, s, i) \in Reached(t, w, A, amount)
<1> DEFINE m == Len(t.columns)
           new == Grow(t.columns, share, s, i)
           taken == Taken(t.columns[i], s.widths[i], share, s.remaining)
           after == [s.widths EXCEPT ![i] = @ + taken]
<1>1. /\ m \in Nat /\ i \in 1 .. m /\ ~t.columns[i].fixed
      /\ s.widths \in [1 .. m -> Nat] /\ s.remaining \in Nat /\ s.active \in Seq(A)
      /\ \A j \in 1 .. m : /\ t.columns[j].fixed => s.widths[j] = t.columns[j].width
                           /\ ~t.columns[j].fixed => t.columns[j].min <= s.widths[j]
                           /\ t.columns[j].max > 0 => s.widths[j] <= t.columns[j].max
  BY ColumnFacts DEF Reached, FairWidths, GrowsAmong
<1>2. /\ \A j \in 1 .. m : w[j] <= s.widths[j] /\ (j \notin A => s.widths[j] = w[j])
      /\ SumOf(s.widths, A) + s.remaining = SumOf(w, A) + amount
      /\ w \in [1 .. m -> Nat]
  BY DEF Reached, FairWidths
<1>3. /\ taken \in 0 .. s.remaining
      /\ t.columns[i].max > 0 => s.widths[i] + taken <= t.columns[i].max
  BY <1>1, TakenFits
<1>4. /\ new.widths = after /\ new.remaining = s.remaining - taken
      /\ new.active = s.active \/ new.active = Append(s.active, i)
      /\ new = [widths |-> new.widths, remaining |-> new.remaining, active |-> new.active]
  BY DEF Grow
<1> HIDE DEF taken, new
<1>5. /\ after \in [1 .. m -> Nat] /\ after[i] = s.widths[i] + taken
      /\ \A j \in 1 .. m : j # i => after[j] = s.widths[j]
  BY <1>1, <1>3
<1> HIDE DEF after
<1>6. after \in FairWidths(t)
  <2>1. ASSUME NEW j \in 1 .. m
        PROVE /\ t.columns[j].fixed => after[j] = t.columns[j].width
              /\ ~t.columns[j].fixed => t.columns[j].min <= after[j]
              /\ t.columns[j].max > 0 => after[j] <= t.columns[j].max
    <3>1. CASE j = i
      <4>1. t.columns[i].min \in Nat /\ t.columns[i].min <= s.widths[i] /\ s.widths[i] \in Nat
        BY <1>1, ColumnFacts
      <4> QED BY <1>1, <1>3, <1>5, <3>1, <4>1
    <3>2. CASE j # i
      BY <1>1, <1>5, <3>2
    <3> QED BY <3>1, <3>2
  <2> QED BY <1>5, <2>1 DEF FairWidths
<1>7. new.remaining \in Nat
  BY <1>1, <1>3, <1>4
<1>8. new.active \in Seq(A)
  <2>1. Append(s.active, i) \in Seq(A)
    BY <1>1, AppendProperties
  <2> QED BY <1>1, <1>4, <2>1
<1>9. \A j \in 1 .. m : w[j] <= after[j] /\ (j \notin A => after[j] = w[j])
  <2>1. w[i] <= after[i]
    <3>1. w[i] \in Nat /\ s.widths[i] \in Nat /\ w[i] <= s.widths[i]
      BY <1>1, <1>2
    <3> QED BY <1>1, <1>3, <1>5, <3>1
  <2>2. \A j \in 1 .. m : j # i => w[j] <= after[j] /\ (j \notin A => after[j] = w[j])
    BY <1>2, <1>5
  <2> QED BY <2>1, <2>2
<1>10. SumOf(after, A) + new.remaining = SumOf(w, A) + amount
  <2>1. IsFiniteSet(A) /\ A \in SUBSET (1 .. m)
    BY DEF GrowsAmong
  <2>2. /\ \A j \in A : s.widths[j] \in Nat /\ after[j] \in Nat
        /\ \A j \in A \ {i} : s.widths[j] = after[j]
    BY <1>1, <1>5, <2>1
  <2>3. PICK old, b, a, x, y : /\ old = s.widths /\ b = SumOf(old, A) /\ a = SumOf(after, A)
                               /\ x = old[i] /\ y = after[i]
    OBVIOUS
  <2>4. a = b + y - x
    <3>1. \A j \in A : old[j] \in Nat /\ after[j] \in Nat
      BY <2>2, <2>3
    <3>2. \A j \in A \ {i} : old[j] = after[j]
      BY <2>2, <2>3
    <3>3. SumOf(after, A) = SumOf(old, A) + after[i] - old[i]
      <4>1. DifferAt(old, after, A, i)
        BY <2>1, <3>1, <3>2 DEF DifferAt
      <4> QED BY <4>1, SumChanges
    <3> QED BY <2>3, <3>3
  <2>5. b \in Nat
    BY <2>1, <2>2, <2>3, SumNat
  <2>6. b + s.remaining = SumOf(w, A) + amount
    BY <1>2, <2>3
  <2>7. x \in Nat /\ y = x + taken
    BY <1>1, <1>5, <2>3
  <2>8. a + (s.remaining - taken) = b + s.remaining
    BY <1>1, <1>3, <2>4, <2>5, <2>7
  <2> QED BY <1>4, <2>3, <2>6, <2>8
<1>11. new \in [widths : FairWidths(t), remaining : Nat, active : Seq(A)]
  BY <1>4, <1>6, <1>7, <1>8
<1>12. /\ \A j \in 1 .. m : w[j] <= new.widths[j] /\ (j \notin A => new.widths[j] = w[j])
       /\ SumOf(new.widths, A) + new.remaining = SumOf(w, A) + amount
  BY <1>4, <1>9, <1>10
<1>13. new \in Reached(t, w, A, amount)
  BY <1>11, <1>12, Zenon DEF Reached
<1> QED BY <1>13 DEF new

-----------------------------------------------------------------------------
(* The steps of the folds: one column, one round, one cell.                *)
GrowAll(columns, share, base, active) ==
  FoldLeft(LAMBDA s, i : Grow(columns, share, s, i), base, active)

GrowRun(columns, share, base, active, n, r) ==
  r[0] = base /\ \A k \in 1 .. n : r[k] = Grow(columns, share, r[k - 1], active[k])

LEMMA RoundSteps ==
  ASSUME NEW columns, NEW share, NEW base, NEW n \in Nat, NEW active, DOMAIN active = 1 .. n
  PROVE  \E r : GrowRun(columns, share, base, active, n, r)
                /\ GrowAll(columns, share, base, active) = r[n]
<1> DEFINE f == [k \in 1 .. n |-> Task("grow", <<columns, share>>, active[k])]
           Runs(g) == g = [s \in SUBSET (1 .. n) |-> IF s = {} THEN base
                             ELSE Grow(columns, share, g[s \ {Largest(s)}], active[Largest(s)])]
<1>1. GrowAll(columns, share, base, active) = (CHOOSE g : Runs(g))[1 .. n]
  BY Zenon DEF GrowAll, FoldLeft, MapThenFoldSet, Max, Largest
<1>2. \A g : [s \in SUBSET (1 .. n) |-> IF s = {} THEN base
                ELSE Grow(columns, share, g[s \ {Largest(s)}], active[Largest(s)])]
            = [s \in SUBSET (1 .. n) |-> IF s = {} THEN base
                ELSE StepTo(f[Largest(s)], g[s \ {Largest(s)}])]
  <2>1. \A s \in SUBSET (1 .. n) : s # {} => 
          f[Largest(s)] = Task("grow", <<columns, share>>, active[Largest(s)])
    BY LargestPicks
  <2> HIDE DEF f
  <2>2. \A g : \A s \in SUBSET (1 .. n) : s # {} =>
          Grow(columns, share, g[s \ {Largest(s)}], active[Largest(s)])
            = StepTo(f[Largest(s)], g[s \ {Largest(s)}])
    BY <2>1, TaskSteps
  <2> QED BY <2>2, Zenon
<1>3. \A g : Runs(g) <=> Steps!Folds(f, base, 1 .. n, g)
  BY <1>2, Zenon DEF Steps!Folds, Steps!FoldsOn
<1>4. (CHOOSE g : Runs(g)) = (CHOOSE g : Steps!Folds(f, base, 1 .. n, g))
  <2> HIDE DEF Runs, f
  <2> QED BY <1>3, Zenon
<1>5. GrowAll(columns, share, base, active) = Steps!FoldOf(f, base, 1 .. n)
  <2> HIDE DEF Runs, f
  <2> QED BY <1>1, <1>4, Zenon DEF Steps!FoldOf
<1>6. PICK r : Run(f, base, n, r)
  <2> HIDE DEF f
  <2> QED BY StepsAre
<1>7. \A k \in 1 .. n : \A v : StepTo(f[k], v) = Grow(columns, share, v, active[k])
  BY TaskSteps
<1>8. \A k \in 1 .. n : r[k] = StepTo(f[k], r[k - 1])
  BY <1>6 DEF Run
<1> HIDE DEF f
<1> QED BY <1>5, <1>6, <1>7, <1>8 DEF Run, GrowRun

AllRounds(columns, base, rounds) ==
  FoldLeft(LAMBDA s, i : NextRound(columns, s), base, rounds)

RoundRun(columns, base, rounds, n, r) ==
  r[0] = base /\ \A k \in 1 .. n : r[k] = NextRound(columns, r[k - 1])

LEMMA DistributeSteps ==
  ASSUME NEW columns, NEW base, NEW n \in Nat, NEW rounds, DOMAIN rounds = 1 .. n
  PROVE  \E r : RoundRun(columns, base, rounds, n, r) /\ AllRounds(columns, base, rounds) = r[n]
<1> DEFINE f == [k \in 1 .. n |-> Task("round", columns, rounds[k])]
           Runs(g) == g = [s \in SUBSET (1 .. n) |-> IF s = {} THEN base
                             ELSE NextRound(columns, g[s \ {Largest(s)}])]
<1>1. AllRounds(columns, base, rounds) = (CHOOSE g : Runs(g))[1 .. n]
  BY Zenon DEF AllRounds, FoldLeft, MapThenFoldSet, Max, Largest
<1>2. \A g : [s \in SUBSET (1 .. n) |-> IF s = {} THEN base
                ELSE NextRound(columns, g[s \ {Largest(s)}])]
            = [s \in SUBSET (1 .. n) |-> IF s = {} THEN base
                ELSE StepTo(f[Largest(s)], g[s \ {Largest(s)}])]
  <2>1. \A s \in SUBSET (1 .. n) : s # {} => f[Largest(s)] = Task("round", columns, rounds[Largest(s)])
    BY LargestPicks
  <2> HIDE DEF f
  <2>2. \A g : \A s \in SUBSET (1 .. n) : s # {} =>
          NextRound(columns, g[s \ {Largest(s)}]) = StepTo(f[Largest(s)], g[s \ {Largest(s)}])
    BY <2>1, TaskSteps
  <2> QED BY <2>2, Zenon
<1>3. \A g : Runs(g) <=> Steps!Folds(f, base, 1 .. n, g)
  BY <1>2, Zenon DEF Steps!Folds, Steps!FoldsOn
<1>4. (CHOOSE g : Runs(g)) = (CHOOSE g : Steps!Folds(f, base, 1 .. n, g))
  <2> HIDE DEF Runs, f
  <2> QED BY <1>3, Zenon
<1>5. AllRounds(columns, base, rounds) = Steps!FoldOf(f, base, 1 .. n)
  <2> HIDE DEF Runs, f
  <2> QED BY <1>1, <1>4, Zenon DEF Steps!FoldOf
<1>6. PICK r : Run(f, base, n, r)
  <2> HIDE DEF f
  <2> QED BY StepsAre
<1>7. \A k \in 1 .. n : \A v : StepTo(f[k], v) = NextRound(columns, v)
  BY TaskSteps
<1>8. \A k \in 1 .. n : r[k] = StepTo(f[k], r[k - 1])
  BY <1>6 DEF Run
<1> HIDE DEF f
<1> QED BY <1>5, <1>6, <1>7, <1>8 DEF Run, RoundRun

CoverMinima(t, base, cells) ==
  FoldLeft(LAMBDA s, c : CoverMinimum(t, s, c), base, cells)

MinimumRun(t, base, cells, n, r) ==
  r[0] = base /\ \A k \in 1 .. n : r[k] = CoverMinimum(t, r[k - 1], cells[k])

LEMMA MinimumSteps ==
  ASSUME NEW t, NEW base, NEW n \in Nat, NEW cells, DOMAIN cells = 1 .. n
  PROVE  \E r : MinimumRun(t, base, cells, n, r) /\ CoverMinima(t, base, cells) = r[n]
<1> DEFINE f == [k \in 1 .. n |-> Task("minimum", t, cells[k])]
           Runs(g) == g = [s \in SUBSET (1 .. n) |-> IF s = {} THEN base
                             ELSE CoverMinimum(t, g[s \ {Largest(s)}], cells[Largest(s)])]
<1>1. CoverMinima(t, base, cells) = (CHOOSE g : Runs(g))[1 .. n]
  BY Zenon DEF CoverMinima, FoldLeft, MapThenFoldSet, Max, Largest
<1>2. \A g : [s \in SUBSET (1 .. n) |-> IF s = {} THEN base
                ELSE CoverMinimum(t, g[s \ {Largest(s)}], cells[Largest(s)])]
            = [s \in SUBSET (1 .. n) |-> IF s = {} THEN base
                ELSE StepTo(f[Largest(s)], g[s \ {Largest(s)}])]
  <2>1. \A s \in SUBSET (1 .. n) : s # {} => f[Largest(s)] = Task("minimum", t, cells[Largest(s)])
    BY LargestPicks
  <2> HIDE DEF f
  <2>2. \A g : \A s \in SUBSET (1 .. n) : s # {} =>
          CoverMinimum(t, g[s \ {Largest(s)}], cells[Largest(s)])
            = StepTo(f[Largest(s)], g[s \ {Largest(s)}])
    BY <2>1, TaskSteps
  <2> QED BY <2>2, Zenon
<1>3. \A g : Runs(g) <=> Steps!Folds(f, base, 1 .. n, g)
  BY <1>2, Zenon DEF Steps!Folds, Steps!FoldsOn
<1>4. (CHOOSE g : Runs(g)) = (CHOOSE g : Steps!Folds(f, base, 1 .. n, g))
  <2> HIDE DEF Runs, f
  <2> QED BY <1>3, Zenon
<1>5. CoverMinima(t, base, cells) = Steps!FoldOf(f, base, 1 .. n)
  <2> HIDE DEF Runs, f
  <2> QED BY <1>1, <1>4, Zenon DEF Steps!FoldOf
<1>6. PICK r : Run(f, base, n, r)
  <2> HIDE DEF f
  <2> QED BY StepsAre
<1>7. \A k \in 1 .. n : \A v : StepTo(f[k], v) = CoverMinimum(t, v, cells[k])
  BY TaskSteps
<1>8. \A k \in 1 .. n : r[k] = StepTo(f[k], r[k - 1])
  BY <1>6 DEF Run
<1> HIDE DEF f
<1> QED BY <1>5, <1>6, <1>7, <1>8 DEF Run, MinimumRun

CoverPreferences(t, base, cells) ==
  FoldLeft(LAMBDA w, c : CoverPreference(t, w, c), base, cells)

PreferenceRun(t, base, cells, n, r) ==
  r[0] = base /\ \A k \in 1 .. n : r[k] = CoverPreference(t, r[k - 1], cells[k])

LEMMA PreferenceSteps ==
  ASSUME NEW t, NEW base, NEW n \in Nat, NEW cells, DOMAIN cells = 1 .. n
  PROVE  \E r : PreferenceRun(t, base, cells, n, r) /\ CoverPreferences(t, base, cells) = r[n]
<1> DEFINE f == [k \in 1 .. n |-> Task("preference", t, cells[k])]
           Runs(g) == g = [s \in SUBSET (1 .. n) |-> IF s = {} THEN base
                             ELSE CoverPreference(t, g[s \ {Largest(s)}], cells[Largest(s)])]
<1>1. CoverPreferences(t, base, cells) = (CHOOSE g : Runs(g))[1 .. n]
  BY Zenon DEF CoverPreferences, FoldLeft, MapThenFoldSet, Max, Largest
<1>2. \A g : [s \in SUBSET (1 .. n) |-> IF s = {} THEN base
                ELSE CoverPreference(t, g[s \ {Largest(s)}], cells[Largest(s)])]
            = [s \in SUBSET (1 .. n) |-> IF s = {} THEN base
                ELSE StepTo(f[Largest(s)], g[s \ {Largest(s)}])]
  <2>1. \A s \in SUBSET (1 .. n) : s # {} => f[Largest(s)] = Task("preference", t, cells[Largest(s)])
    BY LargestPicks
  <2> HIDE DEF f
  <2>2. \A g : \A s \in SUBSET (1 .. n) : s # {} =>
          CoverPreference(t, g[s \ {Largest(s)}], cells[Largest(s)])
            = StepTo(f[Largest(s)], g[s \ {Largest(s)}])
    BY <2>1, TaskSteps
  <2> QED BY <2>2, Zenon
<1>3. \A g : Runs(g) <=> Steps!Folds(f, base, 1 .. n, g)
  BY <1>2, Zenon DEF Steps!Folds, Steps!FoldsOn
<1>4. (CHOOSE g : Runs(g)) = (CHOOSE g : Steps!Folds(f, base, 1 .. n, g))
  <2> HIDE DEF Runs, f
  <2> QED BY <1>3, Zenon
<1>5. CoverPreferences(t, base, cells) = Steps!FoldOf(f, base, 1 .. n)
  <2> HIDE DEF Runs, f
  <2> QED BY <1>1, <1>4, Zenon DEF Steps!FoldOf
<1>6. PICK r : Run(f, base, n, r)
  <2> HIDE DEF f
  <2> QED BY StepsAre
<1>7. \A k \in 1 .. n : \A v : StepTo(f[k], v) = CoverPreference(t, v, cells[k])
  BY TaskSteps
<1>8. \A k \in 1 .. n : r[k] = StepTo(f[k], r[k - 1])
  BY <1>6 DEF Run
<1> HIDE DEF f
<1> QED BY <1>5, <1>6, <1>7, <1>8 DEF Run, PreferenceRun

-----------------------------------------------------------------------------
(* Rounds stay among what can be reached.                                  *)
LEMMA GreaterOf ==
  ASSUME NEW x \in Int, NEW y \in Int
  PROVE  Max({x, y}) \in {x, y}
<1>1. CASE x >= y
  <2>1. {x, y} \in SUBSET Int /\ x \in {x, y} /\ \A z \in {x, y} : x >= z
    BY <1>1
  <2>2. Max({x, y}) = x
    BY <2>1, MaxIs
  <2> QED BY <2>2
<1>2. CASE ~(x >= y)
  <2>1. {x, y} \in SUBSET Int /\ y \in {x, y} /\ \A z \in {x, y} : y >= z
    BY <1>2
  <2>2. Max({x, y}) = y
    BY <2>1, MaxIs
  <2> QED BY <2>2
<1> QED BY <1>1, <1>2

LEMMA RoundReaches ==
  ASSUME NEW t, Valid(t), NEW w \in FairWidths(t), NEW A, GrowsAmong(t, A), NEW amount \in Nat,
         NEW s \in Reached(t, w, A, amount), s.active # <<>>
  PROVE  Round(t.columns, s) \in Reached(t, w, A, amount)
<1> DEFINE Here == Reached(t, w, A, amount)
           base == [s EXCEPT !.active = <<>>]
<1>1. PICK share, n, active : /\ share = Max({1, s.remaining \div Len(s.active)})
                              /\ n = Len(s.active) /\ active = s.active
  OBVIOUS
<1>2. s.active \in Seq(A) /\ s.remaining \in Nat
  BY DEF Reached
<1>3. n \in Nat \ {0} /\ DOMAIN active = 1 .. n /\ \A k \in 1 .. n : active[k] \in A
  <2>1. n \in Nat /\ DOMAIN active = 1 .. n /\ \A k \in 1 .. n : active[k] \in A
    BY <1>1, <1>2, LenProperties, ElementOfSeq
  <2>2. n # 0
    BY <1>1, <1>2, EmptySeq
  <2> QED BY <2>1, <2>2
<1>4. share \in Nat
  <2>1. PICK q : q = s.remaining \div Len(s.active)
    OBVIOUS
  <2>2. q \in Nat
    BY <1>1, <1>2, <1>3, <2>1, Division
  <2>3. Max({1, q}) \in {1, q}
    BY <2>2, GreaterOf
  <2> QED BY <1>1, <2>1, <2>2, <2>3
<1>5. base \in Here
  <2>1. /\ s \in [widths : FairWidths(t), remaining : Nat, active : Seq(A)] /\ <<>> \in Seq(A)
        /\ \A i \in 1 .. Len(t.columns) : w[i] <= s.widths[i] /\ (i \notin A => s.widths[i] = w[i])
        /\ SumOf(s.widths, A) + s.remaining = SumOf(w, A) + amount
    BY DEF Reached
  <2>2. base.widths = s.widths /\ base.remaining = s.remaining
    BY <2>1
  <2>3. base \in [widths : FairWidths(t), remaining : Nat, active : Seq(A)]
    BY <2>1
  <2> HIDE DEF base
  <2> QED BY <2>1, <2>2, <2>3 DEF Reached
<1>6. Round(t.columns, s) = GrowAll(t.columns, share, base, active)
  <2>1. Round(t.columns, s)
          = GrowAll(t.columns, Max({1, s.remaining \div Len(s.active)}), base, s.active)
    BY Zenon DEF Round, GrowAll
  <2> HIDE DEF base
  <2> QED BY <1>1, <2>1
<1> HIDE DEF base
<1>7. PICK r : /\ r[0] = base /\ \A k \in 1 .. n : r[k] = Grow(t.columns, share, r[k - 1], active[k])
               /\ Round(t.columns, s) = r[n]
  <2>1. n \in Nat /\ DOMAIN active = 1 .. n
    BY <1>3
  <2>2. PICK r : GrowRun(t.columns, share, base, active, n, r)
                 /\ GrowAll(t.columns, share, base, active) = r[n]
    BY <2>1, RoundSteps
  <2> QED BY <1>6, <2>2 DEF GrowRun
<1> HIDE DEF Here
<1> DEFINE T == {k \in Nat : k <= n => r[k] \in Here}
<1>8. 0 \in T
  BY <1>5, <1>7
<1>9. ASSUME NEW k \in T PROVE k + 1 \in T
  <2> SUFFICES ASSUME k + 1 <= n PROVE r[k + 1] \in Here
    OBVIOUS
  <2>1. k + 1 \in 1 .. n /\ (k + 1) - 1 = k /\ r[k] \in Here
    BY <1>3
  <2>2. r[k + 1] = Grow(t.columns, share, r[k], active[k + 1]) /\ active[k + 1] \in A
    BY <1>3, <1>7, <2>1
  <2> HIDE DEF T
  <2>3. Grow(t.columns, share, r[k], active[k + 1]) \in Here
    BY <1>4, <2>1, <2>2, GrowReaches DEF Here
  <2> QED BY <2>2, <2>3
<1>10. T = Nat
  <2>1. T \in SUBSET Nat
    OBVIOUS
  <2> HIDE DEF T
  <2> QED BY <1>8, <1>9, <2>1, Sums!SetInduction
<1>11. r[n] \in Here
  <2>1. n \in T /\ n <= n
    <3> HIDE DEF T
    <3> QED BY <1>3, <1>10
  <2> QED BY <2>1
<1> QED BY <1>7, <1>11 DEF Here

LEMMA DistributeReaches ==
  ASSUME NEW t, Valid(t), NEW w \in FairWidths(t), NEW A, GrowsAmong(t, A), NEW amount \in Nat,
         NEW active \in Seq(A)
  PROVE  Distribute(t.columns, w, active, amount) \in Reached(t, w, A, amount)
<1> DEFINE Here == Reached(t, w, A, amount)
           base == [widths |-> w, remaining |-> amount, active |-> active]
<1>1. PICK n, rounds : n = amount + Len(active) /\ rounds = [k \in 1 .. n |-> k]
  OBVIOUS
<1>2. n \in Nat /\ DOMAIN rounds = 1 .. n
  BY <1>1, LenProperties
<1>3. base \in Here
  <2>1. \A i \in 1 .. Len(t.columns) : w[i] <= w[i]
    BY DEF FairWidths
  <2>2. base \in [widths : FairWidths(t), remaining : Nat, active : Seq(A)]
    OBVIOUS
  <2>3. base.widths = w /\ base.remaining = amount
    OBVIOUS
  <2> HIDE DEF base
  <2> QED BY <2>1, <2>2, <2>3 DEF Reached
<1>4. Distribute(t.columns, w, active, amount)
        = AllRounds(t.columns, base, rounds)
  BY <1>1, Zenon DEF Distribute, AllRounds
<1> HIDE DEF base
<1>5. PICK r : /\ r[0] = base /\ \A k \in 1 .. n : r[k] = NextRound(t.columns, r[k - 1])
               /\ Distribute(t.columns, w, active, amount) = r[n]
  <2>1. PICK r : RoundRun(t.columns, base, rounds, n, r) /\ AllRounds(t.columns, base, rounds) = r[n]
    BY <1>2, DistributeSteps
  <2> QED BY <1>4, <2>1 DEF RoundRun
<1>6. ASSUME NEW s \in Here PROVE NextRound(t.columns, s) \in Here
  <2>1. CASE s.remaining = 0 \/ s.active = <<>>
    BY <2>1 DEF NextRound
  <2>2. CASE s.remaining # 0 /\ s.active # <<>>
    <3>1. NextRound(t.columns, s) = Round(t.columns, s)
      BY <2>2 DEF NextRound
    <3> QED BY <2>2, <3>1, RoundReaches
  <2> QED BY <2>1, <2>2
<1> HIDE DEF Here
<1> DEFINE T == {k \in Nat : k <= n => r[k] \in Here}
<1>8. 0 \in T
  BY <1>3, <1>5
<1>9. ASSUME NEW k \in T PROVE k + 1 \in T
  <2> SUFFICES ASSUME k + 1 <= n PROVE r[k + 1] \in Here
    OBVIOUS
  <2>1. k + 1 \in 1 .. n /\ (k + 1) - 1 = k /\ r[k] \in Here
    BY <1>2
  <2> QED BY <1>5, <1>6, <2>1
<1>10. T = Nat
  <2>1. T \in SUBSET Nat
    OBVIOUS
  <2> HIDE DEF T
  <2> QED BY <1>8, <1>9, <2>1, Sums!SetInduction
<1>11. r[n] \in Here
  <2>1. n \in T /\ n <= n
    <3> HIDE DEF T
    <3> QED BY <1>2, <1>10
  <2> QED BY <2>1
<1> QED BY <1>5, <1>11 DEF Here

-----------------------------------------------------------------------------
(* What the cells and the table get.                                       *)
AsWide(t, v, w) == \A i \in 1 .. Len(t.columns) : v[i] <= w[i]

LEMMA WidthSums ==
  ASSUME NEW t, Valid(t), NEW w \in FairWidths(t), NEW X, IsFiniteSet(X),
         X \in SUBSET (1 .. Len(t.columns))
  PROVE  /\ \A i \in X : w[i] \in Nat
         /\ SumOf(w, X) \in Nat
<1>1. \A i \in X : w[i] \in Nat
  BY DEF FairWidths
<1> QED BY <1>1, SumNat

LEMMA WidthsRise ==
  ASSUME NEW t, Valid(t), NEW v \in FairWidths(t), NEW w \in FairWidths(t), AsWide(t, v, w),
         NEW X, IsFiniteSet(X), X \in SUBSET (1 .. Len(t.columns))
  PROVE  SumOf(v, X) <= SumOf(w, X)
<1>1. \A i \in X : v[i] \in Nat /\ w[i] \in Nat /\ v[i] <= w[i]
  BY WidthSums DEF AsWide
<1> QED BY <1>1, SumRises

Given(t, w, s, X, amount) ==
  /\ s.widths \in FairWidths(t) /\ AsWide(t, w, s.widths) /\ s.remaining \in Nat
  /\ SumOf(s.widths, X) + s.remaining = SumOf(w, X) + amount

LEMMA GivenAddsUp ==
  ASSUME NEW t, Valid(t), NEW w \in FairWidths(t), NEW A, GrowsAmong(t, A), NEW amount \in Nat,
         NEW s \in Reached(t, w, A, amount),
         NEW X, IsFiniteSet(X), X \in SUBSET (1 .. Len(t.columns)), A \in SUBSET X
  PROVE  Given(t, w, s, X, amount)
<1>1. /\ s.widths \in FairWidths(t) /\ s.remaining \in Nat
      /\ \A i \in 1 .. Len(t.columns) : w[i] <= s.widths[i] /\ (i \notin A => s.widths[i] = w[i])
      /\ SumOf(s.widths, A) + s.remaining = SumOf(w, A) + amount
  BY DEF Reached
<1>2. PICK v : v = s.widths
  OBVIOUS
<1>3. v \in FairWidths(t)
  BY <1>1, <1>2
<1>4. /\ SumOf(v, X) = SumOf(v, A) + SumOf(v, X \ A)
      /\ SumOf(v, A) \in Nat /\ SumOf(v, X \ A) \in Nat
  <2>1. \A i \in X : v[i] \in Nat
    BY <1>3, WidthSums
  <2>2. AddsUp(v, X, A)
    BY <2>1, SumMore
  <2> QED BY <2>2 DEF AddsUp
<1>5. /\ SumOf(w, X) = SumOf(w, A) + SumOf(w, X \ A)
      /\ SumOf(w, A) \in Nat /\ SumOf(w, X \ A) \in Nat
  <2>1. \A i \in X : w[i] \in Nat
    BY WidthSums
  <2>2. AddsUp(w, X, A)
    BY <2>1, SumMore
  <2> QED BY <2>2 DEF AddsUp
<1>6. SumOf(v, X \ A) = SumOf(w, X \ A)
  <2>1. \A i \in X \ A : v[i] = w[i]
    BY <1>1, <1>2
  <2> QED BY <2>1, SumSame
<1>7. PICK a, b, c, d, e : /\ a = SumOf(v, X) /\ b = SumOf(w, X) /\ c = SumOf(v, A)
                           /\ d = SumOf(w, A) /\ e = SumOf(w, X \ A)
  OBVIOUS
<1>8. /\ a = c + e /\ b = d + e /\ c + s.remaining = d + amount
      /\ c \in Nat /\ d \in Nat /\ e \in Nat
  BY <1>1, <1>2, <1>4, <1>5, <1>6, <1>7
<1>9. a + s.remaining = b + amount
  BY <1>1, <1>8
<1> QED BY <1>1, <1>2, <1>7, <1>9 DEF AsWide, Given

(* The columns of a span that grow, given an amount.                       *)
LEMMA SpanIsGiven ==
  ASSUME NEW t, Valid(t), NEW w \in FairWidths(t), NEW amount \in Nat,
         NEW C, IsFiniteSet(C), C \in SUBSET (1 .. Len(t.columns)),
         NEW X, IsFiniteSet(X), X \in SUBSET (1 .. Len(t.columns)), C \in SUBSET X
  PROVE  Given(t, w, Distribute(t.columns, w, Growing(t.columns, C), amount), X, amount)
<1> DEFINE A == {i \in C : ~t.columns[i].fixed}
<1>1. Growing(t.columns, C) \in Seq(A) /\ IsFiniteSet(A) /\ A \in SUBSET (1 .. Len(t.columns))
  BY GrowingColumns
<1>2. (\A i \in A : ~t.columns[i].fixed) /\ A \in SUBSET X
  OBVIOUS
<1> HIDE DEF A
<1>3. GrowsAmong(t, A)
  BY <1>1, <1>2 DEF GrowsAmong
<1>4. Distribute(t.columns, w, Growing(t.columns, C), amount) \in Reached(t, w, A, amount)
  BY <1>1, <1>3, DistributeReaches
<1> QED BY <1>2, <1>3, <1>4, GivenAddsUp

Resolved(t) == [widths : FairWidths(t), error : {"none", "track_overflow"}]

LEMMA MinimumIsCovered ==
  ASSUME NEW t, Valid(t), NEW s \in Resolved(t), NEW c \in t.cells
  PROVE  LET new == CoverMinimum(t, s, c)
         IN /\ new \in Resolved(t) /\ AsWide(t, s.widths, new.widths)
            /\ new.error = "none" => s.error = "none" /\ c.minWidth <= SpanWidth(new.widths, c)
<1> DEFINE new == CoverMinimum(t, s, c)
           deficit == c.minWidth - SpanWidth(s.widths, c)
           given == Distribute(t.columns, s.widths, Growing(t.columns, ColsOf(c)), deficit)
<1>1. s.widths \in FairWidths(t) /\ s.error \in {"none", "track_overflow"}
  BY DEF Resolved
<1>2. /\ IsFiniteSet(ColsOf(c)) /\ ColsOf(c) \in SUBSET (1 .. Len(t.columns)) /\ c.minWidth \in Nat
      /\ SpanWidth(s.widths, c) = SumOf(s.widths, ColsOf(c))
  BY CellColumns DEF SpanWidth
<1>3. SpanWidth(s.widths, c) \in Nat
  BY <1>1, <1>2, WidthSums
<1>4. AsWide(t, s.widths, s.widths)
  BY <1>1 DEF AsWide, FairWidths
<1>5. CASE s.error # "none" \/ deficit <= 0
  <2>1. new = s
    BY <1>5 DEF CoverMinimum
  <2>2. s.error = "none" => c.minWidth <= SpanWidth(s.widths, c)
    BY <1>2, <1>3, <1>5
  <2> QED BY <1>4, <2>1, <2>2
<1>6. CASE s.error = "none" /\ ~(deficit <= 0)
  <2>1. deficit \in Nat
    BY <1>2, <1>3, <1>6
  <2>2. new = IF Growing(t.columns, ColsOf(c)) = <<>> \/ given.remaining > 0
                THEN [s EXCEPT !.error = "track_overflow"] ELSE Resolving(given.widths)
    BY <1>6 DEF CoverMinimum
  <2> HIDE DEF deficit, new
  <2>3. /\ given.widths \in FairWidths(t) /\ AsWide(t, s.widths, given.widths) /\ given.remaining \in Nat
        /\ SumOf(given.widths, ColsOf(c)) + given.remaining = SumOf(s.widths, ColsOf(c)) + deficit
    <3>1. Given(t, s.widths, given, ColsOf(c), deficit)
      BY <1>1, <1>2, <2>1, SpanIsGiven
    <3> HIDE DEF given
    <3> QED BY <3>1 DEF Given
  <2> HIDE DEF given
  <2>4. CASE Growing(t.columns, ColsOf(c)) = <<>> \/ given.remaining > 0
    <3>1. new = [s EXCEPT !.error = "track_overflow"]
      BY <2>2, <2>4
    <3>2. new \in Resolved(t) /\ new.widths = s.widths /\ new.error # "none"
      BY <3>1 DEF Resolved
    <3> QED BY <1>4, <3>2 DEF new
  <2>5. CASE ~(Growing(t.columns, ColsOf(c)) = <<>> \/ given.remaining > 0)
    <3>1. new = Resolving(given.widths)
      BY <2>2, <2>5
    <3>2. new \in Resolved(t) /\ new.widths = given.widths
      BY <2>3, <3>1 DEF Resolved, Resolving
    <3>3. given.remaining = 0
      BY <2>3, <2>5
    <3>4. SumOf(given.widths, ColsOf(c)) \in Nat
      BY <1>2, <2>3, WidthSums
    <3>5. SumOf(given.widths, ColsOf(c)) = c.minWidth
      BY <1>2, <1>3, <2>3, <3>3, <3>4 DEF deficit
    <3>6. c.minWidth <= SpanWidth(new.widths, c)
      BY <1>2, <3>2, <3>5 DEF SpanWidth
    <3> QED BY <1>6, <2>3, <3>2, <3>6 DEF new
  <2> QED BY <2>4, <2>5
<1> QED BY <1>5, <1>6

LEMMA PreferenceIsCovered ==
  ASSUME NEW t, Valid(t), NEW w \in FairWidths(t), TotalWidth(w) <= t.width, NEW c \in t.cells
  PROVE  LET new == CoverPreference(t, w, c)
         IN new \in FairWidths(t) /\ AsWide(t, w, new) /\ TotalWidth(new) <= t.width
<1> DEFINE new == CoverPreference(t, w, c)
           All == 1 .. Len(t.columns)
           spare == t.width - TotalWidth(w)
           wanted == Min({c.preferred - SpanWidth(w, c), spare})
           given == Distribute(t.columns, w, Growing(t.columns, ColsOf(c)), wanted)
<1>1. /\ IsFiniteSet(ColsOf(c)) /\ ColsOf(c) \in SUBSET All /\ c.preferred \in Nat
      /\ SpanWidth(w, c) = SumOf(w, ColsOf(c))
  BY CellColumns DEF SpanWidth
<1>2. Len(t.columns) \in Nat /\ IsFiniteSet(All) /\ All \in SUBSET All /\ t.width \in Nat
  BY ColumnFacts, FS_Interval
<1>3. \A v \in FairWidths(t) : TotalWidth(v) = SumOf(v, All) /\ TotalWidth(v) \in Nat
  <2>1. \A v \in FairWidths(t) : TotalWidth(v) = SumOf(v, All)
    BY DEF TotalWidth, FairWidths
  <2> HIDE DEF All
  <2>2. \A v \in FairWidths(t) : SumOf(v, All) \in Nat
    BY <1>2, WidthSums DEF All
  <2> QED BY <2>1, <2>2
<1>4. SpanWidth(w, c) \in Nat
  BY <1>1, WidthSums
<1>5. AsWide(t, w, w)
  BY DEF AsWide, FairWidths
<1>6. spare \in Nat
  BY <1>2, <1>3
<1>7. wanted = IF c.preferred - SpanWidth(w, c) <= spare THEN c.preferred - SpanWidth(w, c) ELSE spare
  <2>1. c.preferred - SpanWidth(w, c) \in Int
    BY <1>1, <1>4
  <2> HIDE DEF spare
  <2> QED BY <1>6, <2>1, LeastOf
<1>8. wanted \in Int /\ wanted <= spare
  <2> HIDE DEF spare, wanted
  <2> QED BY <1>1, <1>4, <1>6, <1>7
<1>9. CASE wanted <= 0 \/ Growing(t.columns, ColsOf(c)) = <<>>
  <2>1. new = w
    BY <1>9 DEF CoverPreference
  <2> QED BY <1>5, <2>1
<1>10. CASE ~(wanted <= 0 \/ Growing(t.columns, ColsOf(c)) = <<>>)
  <2>1. new = given.widths
    BY <1>10 DEF CoverPreference
  <2>2. wanted \in Nat
    BY <1>8, <1>10
  <2> HIDE DEF wanted, spare, All, new
  <2>3. /\ given.widths \in FairWidths(t) /\ AsWide(t, w, given.widths) /\ given.remaining \in Nat
        /\ SumOf(given.widths, All) + given.remaining = SumOf(w, All) + wanted
    <3>1. Given(t, w, given, All, wanted)
      BY <1>1, <1>2, <2>2, SpanIsGiven DEF All
    <3> HIDE DEF given
    <3> QED BY <3>1 DEF Given
  <2> HIDE DEF given
  <2>4. TotalWidth(given.widths) + given.remaining = TotalWidth(w) + wanted
        /\ TotalWidth(given.widths) \in Nat /\ TotalWidth(w) \in Nat
    BY <1>3, <2>3
  <2>5. TotalWidth(given.widths) <= t.width
    BY <1>2, <1>8, <2>2, <2>3, <2>4 DEF spare
  <2> QED BY <2>1, <2>3, <2>5 DEF new
<1> QED BY <1>9, <1>10

LEMMA WideIsTransitive ==
  ASSUME NEW t, NEW u \in FairWidths(t), NEW v \in FairWidths(t), NEW w \in FairWidths(t),
         AsWide(t, u, v), AsWide(t, v, w)
  PROVE  AsWide(t, u, w)
<1>1. ASSUME NEW i \in 1 .. Len(t.columns) PROVE u[i] <= w[i]
  <2>1. u[i] \in Nat /\ v[i] \in Nat /\ w[i] \in Nat
    BY DEF FairWidths
  <2>2. u[i] <= v[i] /\ v[i] <= w[i]
    BY DEF AsWide
  <2> QED BY <2>1, <2>2
<1> QED BY <1>1 DEF AsWide

LEMMA SpansStayWide ==
  ASSUME NEW t, Valid(t), NEW v \in FairWidths(t), NEW w \in FairWidths(t), AsWide(t, v, w),
         NEW c \in t.cells, c.minWidth <= SpanWidth(v, c)
  PROVE  c.minWidth <= SpanWidth(w, c)
<1>1. PICK X : X = ColsOf(c)
  OBVIOUS
<1>2. IsFiniteSet(X) /\ X \in SUBSET (1 .. Len(t.columns)) /\ c.minWidth \in Nat
  BY <1>1, CellColumns
<1>3. SumOf(v, X) \in Nat /\ SumOf(w, X) \in Nat
  BY <1>2, WidthSums
<1>4. SumOf(v, X) <= SumOf(w, X)
  BY <1>2, WidthsRise
<1>5. SpanWidth(v, c) = SumOf(v, X) /\ SpanWidth(w, c) = SumOf(w, X)
  BY <1>1 DEF SpanWidth
<1> QED BY <1>2, <1>3, <1>4, <1>5

LEMMA MinimaAreCovered ==
  ASSUME NEW t, Valid(t)
  PROVE  LET covered == CoverMinima(t, Resolving(MinimumWidths(t)), InOrder(t))
         IN /\ covered \in Resolved(t)
            /\ covered.error = "none" =>
                 \A c \in t.cells : c.minWidth <= SpanWidth(covered.widths, c)
<1> DEFINE base == Resolving(MinimumWidths(t))
<1>0. PICK L, n : L = InOrder(t) /\ n = Cardinality(t.cells)
  OBVIOUS
<1>1. /\ n \in Nat /\ DOMAIN L = 1 .. n /\ \A k \in 1 .. n : L[k] \in t.cells
      /\ \A c \in t.cells : \E k \in 1 .. n : L[k] = c
  BY <1>0, CellsInOrder
<1>2. base \in Resolved(t)
  BY MinimaAreFair DEF Resolving, Resolved
<1> HIDE DEF base
<1>3. PICK r : MinimumRun(t, base, L, n, r) /\ CoverMinima(t, base, L) = r[n]
  <2>1. n \in Nat /\ DOMAIN L = 1 .. n
    BY <1>1
  <2> QED BY <2>1, MinimumSteps
<1>4. r[0] = base /\ \A k \in 1 .. n : r[k] = CoverMinimum(t, r[k - 1], L[k])
  BY <1>3 DEF MinimumRun
<1> DEFINE Wide(k) == r[k].error = "none" =>
                        \A j \in 1 .. k : L[j].minWidth <= SpanWidth(r[k].widths, L[j])
           T == {k \in Nat : k <= n => r[k] \in Resolved(t) /\ Wide(k)}
<1>5. 0 \in T
  BY <1>2, <1>4
<1>6. ASSUME NEW k \in T PROVE k + 1 \in T
  <2> SUFFICES ASSUME k + 1 <= n PROVE r[k + 1] \in Resolved(t) /\ Wide(k + 1)
    OBVIOUS
  <2>1. /\ k \in Nat /\ k + 1 \in 1 .. n /\ (k + 1) - 1 = k
        /\ r[k] \in Resolved(t) /\ Wide(k)
    BY <1>1
  <2> HIDE DEF T
  <2>2. r[k + 1] = CoverMinimum(t, r[k], L[k + 1]) /\ L[k + 1] \in t.cells
    BY <1>1, <1>4, <2>1
  <2>3. /\ r[k + 1] \in Resolved(t) /\ AsWide(t, r[k].widths, r[k + 1].widths)
        /\ r[k + 1].error = "none" =>
             r[k].error = "none" /\ L[k + 1].minWidth <= SpanWidth(r[k + 1].widths, L[k + 1])
    <3> HIDE DEF Wide
    <3> QED BY <2>1, <2>2, MinimumIsCovered
  <2>4. ASSUME r[k + 1].error = "none", NEW j \in 1 .. k
        PROVE  L[j].minWidth <= SpanWidth(r[k + 1].widths, L[j])
    <3>1. L[j] \in t.cells /\ L[j].minWidth <= SpanWidth(r[k].widths, L[j])
      BY <1>1, <2>1, <2>3, <2>4
    <3>2. r[k].widths \in FairWidths(t) /\ r[k + 1].widths \in FairWidths(t)
      BY <2>1, <2>3 DEF Resolved
    <3> HIDE DEF Wide
    <3> QED BY <2>3, <3>1, <3>2, SpansStayWide
  <2>5. Wide(k + 1)
    <3>1. \A j \in 1 .. k + 1 : j \in 1 .. k \/ j = k + 1
      BY <2>1
    <3> QED BY <2>3, <2>4, <3>1
  <2> QED BY <2>3, <2>5
<1>7. T = Nat
  <2>1. T \in SUBSET Nat
    OBVIOUS
  <2> HIDE DEF T
  <2> QED BY <1>5, <1>6, <2>1, Sums!SetInduction
<1>8. r[n] \in Resolved(t) /\ Wide(n)
  <2>1. n \in T /\ n <= n
    <3> HIDE DEF T
    <3> QED BY <1>1, <1>7
  <2> QED BY <2>1
<1>9. r[n].error = "none" => \A c \in t.cells : c.minWidth <= SpanWidth(r[n].widths, c)
  BY <1>1, <1>8
<1> HIDE DEF Wide, T
<1> QED BY <1>0, <1>3, <1>8, <1>9 DEF base

LEMMA PreferencesAreCovered ==
  ASSUME NEW t, Valid(t), NEW w \in FairWidths(t), TotalWidth(w) <= t.width
  PROVE  LET covered == CoverPreferences(t, w, InOrder(t))
         IN covered \in FairWidths(t) /\ AsWide(t, w, covered) /\ TotalWidth(covered) <= t.width
<1>0. PICK L, n : L = InOrder(t) /\ n = Cardinality(t.cells)
  OBVIOUS
<1>1. n \in Nat /\ DOMAIN L = 1 .. n /\ \A k \in 1 .. n : L[k] \in t.cells
  BY <1>0, CellsInOrder
<1>2. PICK r : PreferenceRun(t, w, L, n, r) /\ CoverPreferences(t, w, L) = r[n]
  <2>1. n \in Nat /\ DOMAIN L = 1 .. n
    BY <1>1
  <2> QED BY <2>1, PreferenceSteps
<1>3. r[0] = w /\ \A k \in 1 .. n : r[k] = CoverPreference(t, r[k - 1], L[k])
  BY <1>2 DEF PreferenceRun
<1> DEFINE Within(v) == v \in FairWidths(t) /\ AsWide(t, w, v) /\ TotalWidth(v) <= t.width
           T == {k \in Nat : k <= n => Within(r[k])}
<1>4. 0 \in T
  <2>1. AsWide(t, w, w)
    BY DEF AsWide, FairWidths
  <2> QED BY <1>3, <2>1
<1>5. ASSUME NEW k \in T PROVE k + 1 \in T
  <2> SUFFICES ASSUME k + 1 <= n PROVE Within(r[k + 1])
    OBVIOUS
  <2>1. k + 1 \in 1 .. n /\ (k + 1) - 1 = k /\ Within(r[k])
    BY <1>1
  <2> HIDE DEF T
  <2>2. r[k + 1] = CoverPreference(t, r[k], L[k + 1]) /\ L[k + 1] \in t.cells
    BY <1>1, <1>3, <2>1
  <2>3. /\ r[k + 1] \in FairWidths(t) /\ AsWide(t, r[k], r[k + 1])
        /\ TotalWidth(r[k + 1]) <= t.width
    BY <2>1, <2>2, PreferenceIsCovered
  <2> QED BY <2>1, <2>3, WideIsTransitive
<1>6. T = Nat
  <2>1. T \in SUBSET Nat
    OBVIOUS
  <2> HIDE DEF T
  <2> QED BY <1>4, <1>5, <2>1, Sums!SetInduction
<1>7. Within(r[n])
  <2>1. n \in T /\ n <= n
    <3> HIDE DEF T
    <3> QED BY <1>1, <1>6
  <2> QED BY <2>1
<1> QED BY <1>0, <1>2, <1>7

LEMMA TableIsFilled ==
  ASSUME NEW t, Valid(t), NEW w \in FairWidths(t), TotalWidth(w) <= t.width
  PROVE  LET filled == FillTable(t, w)
         IN /\ filled.error \in {"none", "track_unresolved"}
            /\ filled.error = "none" => /\ filled.widths \in FairWidths(t) /\ AsWide(t, w, filled.widths)
                                        /\ TotalWidth(filled.widths) = t.width
<1> DEFINE All == 1 .. Len(t.columns)
           spare == t.width - TotalWidth(w)
           given == Distribute(t.columns, w, Growing(t.columns, All), spare)
           filled == FillTable(t, w)
<1>1. Len(t.columns) \in Nat /\ IsFiniteSet(All) /\ All \in SUBSET All /\ t.width \in Nat
  BY ColumnFacts, FS_Interval
<1>2. \A v \in FairWidths(t) : TotalWidth(v) = SumOf(v, All) /\ TotalWidth(v) \in Nat
  <2>1. \A v \in FairWidths(t) : TotalWidth(v) = SumOf(v, All)
    BY DEF TotalWidth, FairWidths
  <2> HIDE DEF All
  <2>2. \A v \in FairWidths(t) : SumOf(v, All) \in Nat
    BY <1>1, WidthSums DEF All
  <2> QED BY <2>1, <2>2
<1>3. spare \in Nat
  BY <1>1, <1>2
<1>4. CASE spare = 0
  <2>1. filled = Resolving(w)
    BY <1>4 DEF FillTable
  <2>2. AsWide(t, w, w)
    BY DEF AsWide, FairWidths
  <2>3. TotalWidth(w) = t.width
    BY <1>1, <1>2, <1>4
  <2> QED BY <2>1, <2>2, <2>3 DEF Resolving
<1>5. CASE spare # 0
  <2>1. filled = IF Growing(t.columns, All) = <<>> \/ given.remaining > 0
                   THEN [widths |-> w, error |-> "track_unresolved"] ELSE Resolving(given.widths)
    BY <1>5 DEF FillTable
  <2> HIDE DEF filled, spare, All
  <2>2. Given(t, w, given, All, spare)
    BY <1>1, <1>3, SpanIsGiven DEF All
  <2> HIDE DEF given
  <2>3. CASE Growing(t.columns, All) = <<>> \/ given.remaining > 0
    <3>1. filled.error = "track_unresolved"
      BY <2>1, <2>3
    <3> QED BY <3>1 DEF filled
  <2>4. CASE ~(Growing(t.columns, All) = <<>> \/ given.remaining > 0)
    <3>1. filled = Resolving(given.widths)
      BY <2>1, <2>4
    <3>2. filled.widths = given.widths /\ filled.error = "none"
      BY <3>1 DEF Resolving
    <3>3. given.widths \in FairWidths(t) /\ AsWide(t, w, given.widths) /\ given.remaining = 0
      BY <2>2, <2>4 DEF Given
    <3>4. TotalWidth(given.widths) = t.width
      <4>1. SumOf(given.widths, All) + given.remaining = SumOf(w, All) + spare
        BY <2>2 DEF Given
      <4>2. /\ TotalWidth(given.widths) = SumOf(given.widths, All) /\ TotalWidth(given.widths) \in Nat
            /\ TotalWidth(w) = SumOf(w, All) /\ TotalWidth(w) \in Nat
        BY <1>2, <3>3
      <4> QED BY <1>1, <3>3, <4>1, <4>2 DEF spare
    <3> QED BY <3>2, <3>3, <3>4 DEF filled
  <2> QED BY <2>3, <2>4
<1> QED BY <1>4, <1>5

(* resolveColumnWidths (table.go): when it does not fail, every column is  *)
(* within its own bounds, fixed columns have their width, the columns a    *)
(* cell spans are together as wide as the cell must be, and all of them    *)
(* make up the width of the table, for every accepted grid.                *)
THEOREM WidthsAreEnough ==
  ASSUME NEW t, Valid(t)
  PROVE  LET resolved == ResolveColumnWidths(t)
         IN /\ resolved.error \in {"none", "track_overflow", "track_unresolved"}
            /\ resolved.error = "none" =>
                 /\ resolved.widths \in FairWidths(t) /\ TotalWidth(resolved.widths) = t.width
                 /\ \A c \in t.cells : c.minWidth <= SpanWidth(resolved.widths, c)
<1>1. PICK covered : covered = CoverMinima(t, Resolving(MinimumWidths(t)), InOrder(t))
  OBVIOUS
<1>2. PICK preferred : preferred = CoverPreferences(t, covered.widths, InOrder(t))
  OBVIOUS
<1>3. PICK resolved : resolved = ResolveColumnWidths(t)
  OBVIOUS
<1>4. resolved = IF covered.error # "none" THEN covered
                 ELSE IF TotalWidth(covered.widths) > t.width
                   THEN [covered EXCEPT !.error = "track_overflow"]
                 ELSE FillTable(t, preferred)
  <2>1. ResolveColumnWidths(t)
          = LET s == CoverMinima(t, Resolving(MinimumWidths(t)), InOrder(t))
            IN IF s.error # "none" THEN s
               ELSE IF TotalWidth(s.widths) > t.width
                 THEN [s EXCEPT !.error = "track_overflow"]
               ELSE FillTable(t, CoverPreferences(t, s.widths, InOrder(t)))
    BY Zenon DEF ResolveColumnWidths, CoverMinima, CoverPreferences
  <2> QED BY <1>1, <1>2, <1>3, <2>1
<1>5. /\ covered \in Resolved(t)
      /\ covered.error = "none" => \A c \in t.cells : c.minWidth <= SpanWidth(covered.widths, c)
  BY <1>1, MinimaAreCovered
<1>6. covered.widths \in FairWidths(t) /\ covered.error \in {"none", "track_overflow"}
  BY <1>5 DEF Resolved
<1>7. CASE covered.error # "none"
  BY <1>3, <1>4, <1>6, <1>7
<1>8. CASE covered.error = "none" /\ TotalWidth(covered.widths) > t.width
  <2>1. resolved.error = "track_overflow"
    BY <1>4, <1>5, <1>8 DEF Resolved
  <2> QED BY <1>3, <2>1
<1>9. CASE covered.error = "none" /\ ~(TotalWidth(covered.widths) > t.width)
  <2>1. TotalWidth(covered.widths) <= t.width
    <3>1. TotalWidth(covered.widths) \in Nat /\ t.width \in Nat
      <4>1. TotalWidth(covered.widths) = SumOf(covered.widths, 1 .. Len(t.columns))
        BY <1>6 DEF TotalWidth, FairWidths
      <4>2. IsFiniteSet(1 .. Len(t.columns)) /\ t.width \in Nat
        BY ColumnFacts, FS_Interval
      <4> QED BY <1>6, <4>1, <4>2, WidthSums
    <3> QED BY <1>9, <3>1
  <2>2. /\ preferred \in FairWidths(t) /\ AsWide(t, covered.widths, preferred)
        /\ TotalWidth(preferred) <= t.width
    BY <1>2, <1>6, <2>1, PreferencesAreCovered
  <2>3. resolved = FillTable(t, preferred)
    BY <1>4, <1>9
  <2>4. /\ resolved.error \in {"none", "track_unresolved"}
        /\ resolved.error = "none" =>
             /\ resolved.widths \in FairWidths(t) /\ AsWide(t, preferred, resolved.widths)
             /\ TotalWidth(resolved.widths) = t.width
    BY <2>2, <2>3, TableIsFilled
  <2>5. ASSUME resolved.error = "none", NEW c \in t.cells
        PROVE  c.minWidth <= SpanWidth(resolved.widths, c)
    <3>1. AsWide(t, covered.widths, resolved.widths)
      BY <1>6, <2>2, <2>4, <2>5, WideIsTransitive
    <3>2. c.minWidth <= SpanWidth(covered.widths, c)
      BY <1>5, <1>9
    <3> QED BY <1>6, <2>4, <2>5, <3>1, <3>2, SpansStayWide
  <2> QED BY <1>3, <2>4, <2>5
<1> QED BY <1>7, <1>8, <1>9

-----------------------------------------------------------------------------
(* Taking the first of the groups to be placed, and relaxing it.           *)
LEMMA TailIs ==
  ASSUME NEW t, NEW groups, NEW a, NEW b, Grouped(t, groups, a, b), groups # <<>>
  PROVE  /\ Len(groups) \in Nat \ {0} /\ Head(groups) = groups[1]
         /\ Len(Tail(groups)) = Len(groups) - 1
         /\ \A k \in 1 .. Len(groups) - 1 : Tail(groups)[k] = groups[k + 1]
<1>1. PICK G : Closed(t, G) /\ groups \in Seq(G)
  BY DEF Grouped
<1>2. Len(groups) \in Nat \ {0}
  BY <1>1, EmptySeq
<1> QED BY <1>1, <1>2, HeadTailProperties

LEMMA TailKeeps ==
  ASSUME NEW t, Valid(t), NEW a \in Int, NEW b \in Int, NEW groups, Grouped(t, groups, a, b),
         groups # <<>>
  PROVE  /\ IsGroup(t, Head(groups)) /\ Head(groups).first = a
         /\ Head(groups).first <= Head(groups).last
         /\ Grouped(t, Tail(groups), Head(groups).last + 1, b)
         /\ \A x, y \in Int : Covers(groups, x, y) =>
              \/ Covers(Tail(groups), x, y)
              \/ Head(groups).first <= x /\ y <= Head(groups).last
<1> DEFINE n == Len(groups)
           T == Tail(groups)
           g == Head(groups)
<1>1. PICK G : Closed(t, G) /\ groups \in Seq(G)
  BY DEF Grouped
<1>2. /\ n \in Nat \ {0} /\ g = groups[1] /\ Len(T) = n - 1
      /\ \A k \in 1 .. n - 1 : T[k] = groups[k + 1]
  BY TailIs
<1>3. T \in Seq(G) /\ g \in G
  BY <1>1, HeadTailProperties
<1> HIDE DEF T, g
<1>4. /\ \A k \in 1 .. n : groups[k].first <= groups[k].last
      /\ \A k \in 2 .. n : groups[k].first = groups[k - 1].last + 1
      /\ groups[1].first = a /\ groups[n].last = b
  BY <1>2 DEF Grouped, InSequence
<1>5. IsGroup(t, g) /\ g.first = a /\ g.first <= g.last
  <2>1. 1 \in 1 .. n
    BY <1>2
  <2> QED BY <1>1, <1>2, <1>3, <1>4, <2>1 DEF Closed
<1>6. InSequence(T, g.last + 1, b)
  <2>1. ASSUME NEW k \in 1 .. n - 1 PROVE T[k].first <= T[k].last
    <3>1. k + 1 \in 1 .. n
      BY <1>2
    <3> QED BY <1>2, <1>4, <3>1
  <2>2. ASSUME NEW k \in 2 .. n - 1 PROVE T[k].first = T[k - 1].last + 1
    <3>1. k \in 1 .. n - 1 /\ k - 1 \in 1 .. n - 1 /\ k + 1 \in 2 .. n /\ (k + 1) - 1 = k
          /\ (k - 1) + 1 = k
      BY <1>2
    <3> QED BY <1>2, <1>4, <3>1
  <2>3. CASE n = 1
    BY <1>2, <1>4, <2>1, <2>2, <2>3 DEF InSequence
  <2>4. CASE n # 1
    <3>1. /\ 1 \in 1 .. n - 1 /\ n - 1 \in 1 .. n - 1 /\ n - 1 # 0 /\ 2 \in 2 .. n
          /\ (n - 1) + 1 = n /\ 1 + 1 = 2 /\ 2 - 1 = 1
      BY <1>2, <2>4
    <3>2. T[1] = groups[2] /\ T[n - 1] = groups[n] /\ groups[2].first = groups[1].last + 1
      BY <1>2, <1>4, <3>1
    <3> QED BY <1>2, <1>4, <2>1, <2>2, <3>1, <3>2 DEF InSequence
  <2> QED BY <2>3, <2>4
<1>7. Grouped(t, T, g.last + 1, b)
  BY <1>1, <1>3, <1>6 DEF Grouped
<1>8. ASSUME NEW x \in Int, NEW y \in Int, Covers(groups, x, y)
      PROVE  Covers(T, x, y) \/ (g.first <= x /\ y <= g.last)
  <2>1. PICK k \in 1 .. n : groups[k].first <= x /\ y <= groups[k].last
    BY <1>8 DEF Covers
  <2>2. CASE k = 1
    BY <1>2, <2>1, <2>2
  <2>3. CASE k # 1
    <3>1. k - 1 \in 1 .. n - 1 /\ (k - 1) + 1 = k
      BY <1>2, <2>3
    <3>2. T[k - 1] = groups[k]
      BY <1>2, <3>1
    <3> QED BY <1>2, <2>1, <3>1, <3>2 DEF Covers
  <2> QED BY <2>2, <2>3
<1> QED BY <1>5, <1>7, <1>8 DEF T, g

Relaxed(groups) == Head(groups).members \o Tail(groups)

LEMMA RelaxKeeps ==
  ASSUME NEW t, Valid(t), NEW a \in Int, NEW b \in Int, NEW groups, Grouped(t, groups, a, b),
         groups # <<>>, Head(groups).members # <<>>
  PROVE  /\ Grouped(t, Relaxed(groups), a, b)
         /\ \A x, y \in Int : Covers(Tail(groups), x, y) => Covers(Relaxed(groups), x, y)
<1> DEFINE M == Head(groups).members
           T == Tail(groups)
           R == Relaxed(groups)
           m == Len(M)
           n == Len(T)
           e == Head(groups).last
<1>1. PICK G : Closed(t, G) /\ groups \in Seq(G)
  BY DEF Grouped
<1>2. T \in Seq(G) /\ Head(groups) \in G
  BY <1>1, HeadTailProperties
<1>3. M \in Seq(G) /\ InSequence(M, Head(groups).first, e)
  BY <1>1, <1>2 DEF Closed
<1>4. Grouped(t, T, e + 1, b) /\ Head(groups).first = a /\ IsGroup(t, Head(groups))
  BY TailKeeps
<1>5. e \in Int
  BY <1>4, GroupFacts
<1> HIDE DEF M, T, e
<1>6. m \in Nat \ {0} /\ n \in Nat
  BY <1>2, <1>3, EmptySeq, LenProperties DEF M
<1>7. /\ R \in Seq(G) /\ Len(R) = m + n
      /\ \A i \in 1 .. m + n : R[i] = IF i <= m THEN M[i] ELSE T[i - m]
  <2>1. R = M \o T
    BY DEF M, T, Relaxed
  <2> QED BY <1>2, <1>3, <2>1, ConcatProperties
<1> HIDE DEF R
<1>8. /\ \A k \in 1 .. m : M[k].first <= M[k].last
      /\ \A k \in 2 .. m : M[k].first = M[k - 1].last + 1
      /\ M[1].first = a /\ M[m].last = e
  BY <1>3, <1>4, <1>6 DEF InSequence
<1>9. /\ \A k \in 1 .. n : T[k].first <= T[k].last
      /\ \A k \in 2 .. n : T[k].first = T[k - 1].last + 1
      /\ IF n = 0 THEN e + 1 = b + 1 ELSE T[1].first = e + 1 /\ T[n].last = b
  BY <1>4 DEF Grouped, InSequence
<1>10. \A k \in 1 .. m + n : R[k].first <= R[k].last
  <2> TAKE k \in 1 .. m + n
  <2>1. CASE k <= m
    <3>1. k \in 1 .. m /\ R[k] = M[k]
      BY <1>6, <1>7, <2>1
    <3> QED BY <1>8, <3>1
  <2>2. CASE ~(k <= m)
    <3>1. k - m \in 1 .. n /\ R[k] = T[k - m]
      BY <1>6, <1>7, <2>2
    <3> QED BY <1>9, <3>1
  <2> QED BY <2>1, <2>2
<1>11. ASSUME NEW k \in 2 .. m + n PROVE R[k].first = R[k - 1].last + 1
  <2>1. k \in 1 .. m + n /\ k - 1 \in 1 .. m + n
    BY <1>6
  <2>2. CASE k <= m
    <3>1. k \in 2 .. m /\ k - 1 <= m
      BY <1>6, <2>2
    <3> QED BY <1>7, <1>8, <2>1, <2>2, <3>1
  <2>3. CASE k = m + 1
    <3>1. ~(k <= m) /\ k - m = 1 /\ k - 1 = m /\ k - 1 <= m /\ n # 0
      BY <1>6, <2>3
    <3>2. R[k] = T[1] /\ R[k - 1] = M[m]
      BY <1>7, <2>1, <3>1
    <3> QED BY <1>8, <1>9, <3>1, <3>2
  <2>4. CASE k > m + 1
    <3>1. ~(k <= m) /\ ~(k - 1 <= m) /\ k - m \in 2 .. n /\ (k - 1) - m = (k - m) - 1
      BY <1>6, <2>4
    <3>2. R[k] = T[k - m] /\ R[k - 1] = T[(k - m) - 1]
      BY <1>7, <2>1, <3>1
    <3> QED BY <1>9, <3>1, <3>2
  <2> QED BY <1>6, <2>2, <2>3, <2>4
<1>12. R[1].first = a /\ R[m + n].last = b
  <2>1. 1 \in 1 .. m + n /\ 1 <= m /\ m + n \in 1 .. m + n /\ (m + n) - m = n
    BY <1>6
  <2>2. CASE n = 0
    <3>1. m + n = m /\ m <= m /\ e = b
      BY <1>5, <1>6, <1>9, <2>2
    <3> QED BY <1>7, <1>8, <2>1, <3>1
  <2>3. CASE n # 0
    <3>1. ~(m + n <= m)
      BY <1>6, <2>3
    <3> QED BY <1>7, <1>8, <1>9, <2>1, <2>3, <3>1
  <2> QED BY <2>2, <2>3
<1>13. Grouped(t, R, a, b)
  <2>1. m + n # 0
    BY <1>6
  <2>2. InSequence(R, a, b)
    BY <1>7, <1>10, <1>11, <1>12, <2>1 DEF InSequence
  <2> QED BY <1>1, <1>7, <2>2 DEF Grouped
<1>14. ASSUME NEW x \in Int, NEW y \in Int, Covers(T, x, y) PROVE Covers(R, x, y)
  <2>1. PICK k \in 1 .. n : T[k].first <= x /\ y <= T[k].last
    BY <1>14 DEF Covers
  <2>2. m + k \in 1 .. m + n /\ ~(m + k <= m) /\ (m + k) - m = k
    BY <1>6
  <2>3. R[m + k] = T[k]
    BY <1>7, <2>2
  <2> QED BY <1>7, <2>1, <2>2, <2>3 DEF Covers
<1> QED BY <1>13, <1>14 DEF R, T

-----------------------------------------------------------------------------
(* What is placed.                                                         *)
IsSeq(p) == \E G : p \in Seq(G)

BodyOf(p) == {i \in DOMAIN p : p[i].policy # "header"}

Earlier(p, i) == {j \in BodyOf(p) : j < i}

Due(t, p, i) ==
  IF Earlier(p, i) = {} THEN t.headerRows + 1 ELSE p[Max(Earlier(p, i))].last + 1

\* One more unit, and the row that is due after it.
Appended(t, p, u, A) ==
  /\ IsSeq(A) /\ Len(p) \in Nat /\ Len(A) = Len(p) + 1 /\ DOMAIN p = 1 .. Len(p)
  /\ A[Len(p) + 1] = u /\ \A i \in 1 .. Len(p) : A[i] = p[i]
  /\ BodyOf(p) \in SUBSET (1 .. Len(p))
  /\ BodyOf(A) = BodyOf(p) \cup (IF u.policy = "header" THEN {} ELSE {Len(p) + 1})
  /\ \A i \in 1 .. Len(p) + 1 : Due(t, A, i) = Due(t, p, i)
  /\ Due(t, A, Len(p) + 2) = IF u.policy = "header" THEN Due(t, p, Len(p) + 1) ELSE u.last + 1

LEMMA AppendIs ==
  ASSUME NEW t, NEW p, IsSeq(p), NEW u
  PROVE  Appended(t, p, u, Append(p, u))
<1> DEFINE n == Len(p)
           A == Append(p, u)
<1>1. PICK G : p \in Seq(G)
  BY DEF IsSeq
<1> DEFINE H == G \cup {u}
<1>2. p \in Seq(H) /\ u \in H
  BY <1>1, SeqMonotonic
<1> HIDE DEF H
<1>3. /\ n \in Nat /\ DOMAIN p = 1 .. n
      /\ A \in Seq(H) /\ Len(A) = n + 1 /\ DOMAIN A = 1 .. n + 1
      /\ A[n + 1] = u /\ \A i \in 1 .. n : A[i] = p[i]
  BY <1>2, AppendProperties, LenProperties
<1> HIDE DEF A, n
<1>4. BodyOf(p) \in SUBSET (1 .. n)
  BY <1>3 DEF BodyOf
<1>5. BodyOf(A) = BodyOf(p) \cup (IF u.policy = "header" THEN {} ELSE {n + 1})
  <2>1. \A i : i \in 1 .. n + 1 <=> i \in 1 .. n \/ i = n + 1
    BY <1>3
  <2>2. n + 1 \notin 1 .. n
    BY <1>3
  <2>3. BodyOf(p) = {i \in 1 .. n : p[i].policy # "header"}
    BY <1>3 DEF BodyOf
  <2>4. BodyOf(A) = {i \in 1 .. n + 1 : A[i].policy # "header"}
    BY <1>3 DEF BodyOf
  <2> QED BY <1>3, <2>1, <2>2, <2>3, <2>4
<1>6. ASSUME NEW i \in 1 .. n + 1 PROVE Due(t, A, i) = Due(t, p, i)
  <2>1. Earlier(A, i) = Earlier(p, i)
    BY <1>3, <1>4, <1>5 DEF Earlier
  <2>2. CASE Earlier(p, i) = {}
    BY <2>1, <2>2 DEF Due
  <2>3. CASE Earlier(p, i) # {}
    <3>1. Earlier(p, i) \in SUBSET (1 .. n)
      BY <1>4 DEF Earlier
    <3>2. Max(Earlier(p, i)) \in 1 .. n
      BY <1>3, <2>3, <3>1, LargestIn
    <3> QED BY <1>3, <2>1, <3>2 DEF Due
  <2> QED BY <2>2, <2>3
<1>7. Due(t, A, n + 2) = IF u.policy = "header" THEN Due(t, p, n + 1) ELSE u.last + 1
  <2>1. CASE u.policy = "header"
    <3>1. Earlier(A, n + 2) = Earlier(A, n + 1)
      BY <1>3, <1>4, <1>5, <2>1 DEF Earlier
    <3>2. Due(t, A, n + 2) = Due(t, A, n + 1)
      BY <3>1 DEF Due
    <3> QED BY <1>3, <1>6, <2>1, <3>2
  <2>2. CASE u.policy # "header"
    <3>1. Earlier(A, n + 2) \in SUBSET Int /\ n + 1 \in Earlier(A, n + 2)
      BY <1>3, <1>4, <1>5, <2>2 DEF Earlier
    <3>2. \A j \in Earlier(A, n + 2) : n + 1 >= j
      BY <1>3, <1>4, <1>5, <2>2 DEF Earlier
    <3>3. Max(Earlier(A, n + 2)) = n + 1
      BY <3>1, <3>2, MaxIs
    <3> QED BY <1>3, <2>2, <3>1, <3>3 DEF Due
  <2> QED BY <2>1, <2>2
<1>8. IsSeq(A)
  BY <1>3 DEF IsSeq
<1> QED BY <1>3, <1>4, <1>5, <1>6, <1>7, <1>8 DEF Appended, A, n

\* Everything a unit may be: the header rows, or a group's.
TopOf(t, n) == IF n = 1 THEN t.caption ELSE 0

IsUnit(t, u) ==
  /\ u.page \in Nat \ {0} /\ u.top \in Nat /\ u.first <= u.last
  /\ \/ u.policy = "header" /\ u.first = 1 /\ u.last = t.headerRows
     \/ IsGroup(t, u)

Ends(h, u) == u.top + SumOf(h, u.first .. u.last)

Follows(t, h, p, i) ==
  LET begins == i = 1 \/ p[i].page = p[i - 1].page + 1
  IN /\ (p[i].policy = "header") = (begins /\ t.headerRows > 0)
     /\ begins => p[i].top = TopOf(t, p[i].page)
     /\ ~begins => p[i].page = p[i - 1].page /\ p[i].top = Ends(h, p[i - 1])

\* Units on pages up to n, each where the one before it ends.
Spread(t, h, p, n) ==
  /\ IsSeq(p) /\ n \in Nat \ {0}
  /\ \A i \in 1 .. Len(p) : IsUnit(t, p[i]) /\ p[i].page <= n /\ Follows(t, h, p, i)
  /\ \A i \in BodyOf(p) : p[i].first = Due(t, p, i)

\* Where the next unit on page n goes.
Ready(t, h, p, n, c) ==
  /\ c \in Nat
  /\ \/ /\ Len(p) > 0 /\ p[Len(p)].page = n
        /\ c = Ends(h, p[Len(p)])
     \/ /\ t.headerRows = 0 /\ c = TopOf(t, n)
        /\ IF Len(p) = 0 THEN n = 1 ELSE p[Len(p)].page + 1 = n

LEMMA UnitFacts ==
  ASSUME NEW t, Valid(t), NEW u, IsUnit(t, u)
  PROVE  /\ u.page \in Nat \ {0} /\ u.top \in Nat
         /\ u.first \in Nat \ {0} /\ u.last \in Nat \ {0} /\ u.first <= u.last /\ u.last <= t.rows
         /\ IF u.policy = "header" THEN u.first = 1 /\ u.last = t.headerRows /\ t.headerRows > 0
            ELSE IsGroup(t, u) /\ t.headerRows < u.first
<1>1. t.rows \in Nat /\ t.headerRows \in 0 .. t.rows
  BY TableFacts
<1>2. CASE u.policy = "header"
  <2>1. ~IsGroup(t, u)
    BY <1>2 DEF IsGroup
  <2> QED BY <1>1, <1>2, <2>1 DEF IsUnit
<1>3. CASE u.policy # "header"
  BY <1>1, <1>3, GroupFacts DEF IsUnit
<1> QED BY <1>2, <1>3

LEMMA SpanOfRows ==
  ASSUME NEW t, Valid(t), NEW h \in [1 .. t.rows -> Nat], NEW a \in Nat \ {0},
         NEW b \in 0 .. t.rows
  PROVE  SumOf(h, a .. b) \in Nat
<1>1. t.rows \in Nat
  BY TableFacts
<1>2. a \in Int /\ b \in Int
  BY <1>1
<1>3. IsFiniteSet(a .. b)
  BY <1>2, FS_Interval
<1>4. \A r \in a .. b : h[r] \in Nat
  BY <1>1
<1> QED BY <1>3, <1>4, SumNat

LEMMA UnitEnds ==
  ASSUME NEW t, Valid(t), NEW h \in [1 .. t.rows -> Nat], NEW u, IsUnit(t, u)
  PROVE  Ends(h, u) \in Nat
<1>1. t.rows \in Nat
  BY TableFacts
<1>2. u.top \in Nat /\ u.first \in Nat \ {0} /\ u.last \in 0 .. t.rows
  BY <1>1, UnitFacts
<1>3. SumOf(h, u.first .. u.last) \in Nat
  BY <1>2, SpanOfRows
<1> QED BY <1>2, <1>3 DEF Ends

LEMMA TopsAre ==
  ASSUME NEW t, Valid(t), NEW n \in Nat
  PROVE  TopOf(t, n) \in Nat
BY DEF TopOf, Valid, IsTable

\* A unit put where the next one goes.
LEMMA UnitIsSpread ==
  ASSUME NEW t, Valid(t), NEW h \in [1 .. t.rows -> Nat], NEW p, NEW n, NEW c,
         Spread(t, h, p, n), Ready(t, h, p, n, c),
         NEW u, IsGroup(t, u), u.first <= u.last, u.first = Due(t, p, Len(p) + 1),
         u.page = n, u.top = c
  PROVE  LET A == Append(p, u)
         IN /\ Spread(t, h, A, n) /\ Ready(t, h, A, n, Ends(h, u))
            /\ Appended(t, p, u, A)
<1> DEFINE A == Append(p, u)
           k == Len(p) + 1
<1>1. Appended(t, p, u, A) /\ n \in Nat \ {0} /\ c \in Nat
  BY AppendIs DEF Spread, Ready
<1> HIDE DEF A
<1>2. /\ IsSeq(A) /\ Len(p) \in Nat /\ Len(A) = k /\ A[k] = u
      /\ \A i \in 1 .. Len(p) : A[i] = p[i]
      /\ BodyOf(p) \in SUBSET (1 .. Len(p)) /\ BodyOf(A) \in SUBSET (BodyOf(p) \cup {k})
      /\ \A i \in 1 .. k : Due(t, A, i) = Due(t, p, i)
  BY <1>1 DEF Appended
<1>3. IsUnit(t, u) /\ u.policy # "header"
  BY <1>1 DEF IsUnit, IsGroup
<1>4. /\ u.first \in Nat \ {0} /\ u.last \in 0 .. t.rows
      /\ SumOf(h, u.first .. u.last) \in Nat
  <2>1. /\ u.first \in Nat \ {0} /\ u.last \in Nat \ {0} /\ u.last <= t.rows /\ t.rows \in Nat
    BY <1>3, TableFacts, UnitFacts
  <2>2. u.last \in 0 .. t.rows
    BY <2>1
  <2> QED BY <2>1, <2>2, SpanOfRows
<1>5. \A i \in 1 .. Len(p) : IsUnit(t, p[i]) /\ p[i].page <= n /\ Follows(t, h, p, i)
  BY DEF Spread
<1>6. ASSUME NEW i \in 1 .. Len(p) PROVE Follows(t, h, A, i)
  <2>1. CASE i = 1
    BY <1>2, <1>5, <2>1 DEF Follows
  <2>2. CASE i # 1
    <3>1. i - 1 \in 1 .. Len(p)
      BY <1>2, <2>2
    <3>2. A[i] = p[i] /\ A[i - 1] = p[i - 1] /\ Follows(t, h, p, i)
      BY <1>2, <1>5, <3>1
    <3> QED BY <3>2 DEF Follows
  <2> QED BY <2>1, <2>2
<1>7. Follows(t, h, A, k)
  <2>1. CASE Len(p) > 0 /\ p[Len(p)].page = n /\ c = Ends(h, p[Len(p)])
    <3>1. k # 1 /\ k - 1 = Len(p) /\ Len(p) \in 1 .. Len(p)
      BY <1>2, <2>1
    <3>2. A[k - 1] = p[Len(p)] /\ ~(k = 1 \/ A[k].page = A[k - 1].page + 1)
      BY <1>1, <1>2, <2>1, <3>1
    <3> QED BY <1>2, <1>3, <2>1, <3>2 DEF Follows
  <2>2. CASE /\ t.headerRows = 0 /\ c = TopOf(t, n)
             /\ IF Len(p) = 0 THEN n = 1 ELSE p[Len(p)].page + 1 = n
    <3>1. k = 1 \/ A[k].page = A[k - 1].page + 1
      <4>1. CASE Len(p) = 0
        BY <4>1
      <4>2. CASE Len(p) # 0
        <5>1. k - 1 = Len(p) /\ Len(p) \in 1 .. Len(p)
          BY <1>2, <4>2
        <5> QED BY <1>2, <2>2, <4>2, <5>1
      <4> QED BY <4>1, <4>2
    <3>2. ~(t.headerRows > 0)
      BY <2>2
    <3> QED BY <1>2, <1>3, <2>2, <3>1, <3>2 DEF Follows
  <2> QED BY <2>1, <2>2 DEF Ready
<1>8. ASSUME NEW i \in 1 .. k PROVE IsUnit(t, A[i]) /\ A[i].page <= n /\ Follows(t, h, A, i)
  <2>1. i = k \/ i \in 1 .. Len(p)
    BY <1>2
  <2> QED BY <1>1, <1>2, <1>3, <1>5, <1>6, <1>7, <2>1
<1>9. ASSUME NEW i \in BodyOf(A) PROVE A[i].first = Due(t, A, i)
  <2>1. i \in BodyOf(p) \/ i = k
    BY <1>2
  <2>2. CASE i = k
    <3>1. k \in 1 .. k
      BY <1>2
    <3> QED BY <1>2, <2>2, <3>1
  <2>3. CASE i \in BodyOf(p)
    <3>1. i \in 1 .. Len(p) /\ i \in 1 .. k /\ p[i].first = Due(t, p, i)
      BY <1>2, <2>3 DEF Spread
    <3> QED BY <1>2, <3>1
  <2> QED BY <2>1, <2>2, <2>3
<1>10. Spread(t, h, A, n)
  BY <1>1, <1>2, <1>8, <1>9 DEF Spread
<1>11. Ready(t, h, A, n, Ends(h, u))
  <2>1. k > 0 /\ Ends(h, u) \in Nat
    BY <1>1, <1>2, <1>4 DEF Ends
  <2> QED BY <1>2, <2>1 DEF Ready
<1> QED BY <1>1, <1>10, <1>11 DEF A

\* The header of a page: nothing if the table has none.
HeaderOf(t, n) ==
  IF t.headerRows = 0 THEN <<>> ELSE <<Unit(n, TopOf(t, n), 1, t.headerRows, "header")>>

HeaderEnds(t, h, n) == TopOf(t, n) + SumOf(h, 1 .. t.headerRows)

\* The same body units, and the same row due.
SameBody(t, p, A) ==
  /\ BodyOf(p) \in SUBSET (1 .. Len(p)) /\ BodyOf(A) = BodyOf(p)
  /\ \A i \in BodyOf(p) : A[i] = p[i]
  /\ Due(t, A, Len(A) + 1) = Due(t, p, Len(p) + 1)

LEMMA HeaderIsSpread ==
  ASSUME NEW t, Valid(t), NEW h \in [1 .. t.rows -> Nat], NEW p, NEW m, NEW n \in Nat \ {0},
         Spread(t, h, p, m), m <= n, IF Len(p) = 0 THEN n = 1 ELSE p[Len(p)].page + 1 = n
  PROVE  LET A == p \o HeaderOf(t, n)
         IN /\ Spread(t, h, A, n) /\ Ready(t, h, A, n, HeaderEnds(t, h, n))
            /\ SameBody(t, p, A)
<1> DEFINE A == p \o HeaderOf(t, n)
           u == Unit(n, TopOf(t, n), 1, t.headerRows, "header")
           k == Len(p) + 1
<1>1. PICK G : p \in Seq(G)
  BY DEF Spread, IsSeq
<1>2. Len(p) \in Nat /\ DOMAIN p = 1 .. Len(p) /\ m \in Nat \ {0}
  BY <1>1, LenProperties DEF Spread
<1>3. t.rows \in Nat /\ t.headerRows \in 0 .. t.rows /\ TopOf(t, n) \in Nat
  BY TableFacts, TopsAre
<1>4. SumOf(h, 1 .. t.headerRows) \in Nat
  <2>1. 1 \in Nat \ {0}
    OBVIOUS
  <2> QED BY <1>3, <2>1, SpanOfRows
<1>5. \A i \in 1 .. Len(p) : IsUnit(t, p[i]) /\ p[i].page <= m /\ Follows(t, h, p, i)
  BY DEF Spread
<1>6. \A i \in 1 .. Len(p) : p[i].page <= n
  <2> TAKE i \in 1 .. Len(p)
  <2>1. p[i].page \in Nat
    BY <1>5, UnitFacts
  <2> QED BY <1>2, <1>5, <2>1
<1>7. CASE t.headerRows = 0
  <2>1. A = p
    BY <1>1, <1>7, ConcatEmptySeq DEF HeaderOf
  <2>2. Spread(t, h, p, n)
    BY <1>5, <1>6 DEF Spread
  <2>3. 1 .. t.headerRows = {}
    BY <1>7
  <2>4. HeaderEnds(t, h, n) = TopOf(t, n)
    BY <1>3, <2>3, SumNone DEF HeaderEnds
  <2>5. Ready(t, h, p, n, HeaderEnds(t, h, n))
    BY <1>3, <1>7, <2>4 DEF Ready
  <2>6. SameBody(t, p, p)
    BY <1>2 DEF SameBody, BodyOf
  <2> HIDE DEF A
  <2> QED BY <2>1, <2>2, <2>5, <2>6 DEF A
<1>8. CASE t.headerRows # 0
  <2>1. A = Append(p, u)
    <3> DEFINE H == G \cup {u}
    <3>1. p \in Seq(H) /\ u \in H
      BY <1>1, SeqMonotonic
    <3>2. HeaderOf(t, n) = <<u>>
      BY <1>8 DEF HeaderOf
    <3> HIDE DEF H, u
    <3> QED BY <3>1, <3>2, AppendIsConcat
  <2>2. /\ u.page = n /\ u.top = TopOf(t, n) /\ u.first = 1 /\ u.last = t.headerRows
        /\ u.policy = "header"
    BY DEF Unit
  <2> HIDE DEF A, u
  <2>3. Appended(t, p, u, A)
    BY <2>1, AppendIs DEF Spread
  <2>4. /\ IsSeq(A) /\ Len(A) = k /\ A[k] = u
        /\ \A i \in 1 .. Len(p) : A[i] = p[i]
        /\ BodyOf(p) \in SUBSET (1 .. Len(p)) /\ BodyOf(A) = BodyOf(p)
        /\ \A i \in 1 .. k : Due(t, A, i) = Due(t, p, i)
        /\ Due(t, A, Len(p) + 2) = Due(t, p, k)
    BY <2>2, <2>3 DEF Appended
  <2>5. IsUnit(t, u)
    BY <1>3, <1>8, <2>2 DEF IsUnit
  <2>6. ASSUME NEW i \in 1 .. Len(p) PROVE Follows(t, h, A, i)
    <3>1. CASE i = 1
      BY <1>5, <2>4, <3>1 DEF Follows
    <3>2. CASE i # 1
      <4>1. i - 1 \in 1 .. Len(p)
        BY <1>2, <3>2
      <4>2. A[i] = p[i] /\ A[i - 1] = p[i - 1] /\ Follows(t, h, p, i)
        BY <1>5, <2>4, <4>1
      <4> QED BY <4>2 DEF Follows
    <3> QED BY <3>1, <3>2
  <2>7. Follows(t, h, A, k)
    <3>1. k = 1 \/ A[k].page = A[k - 1].page + 1
      <4>1. CASE Len(p) = 0
        BY <4>1
      <4>2. CASE Len(p) # 0
        <5>1. k - 1 = Len(p) /\ Len(p) \in 1 .. Len(p)
          BY <1>2, <4>2
        <5> QED BY <2>2, <2>4, <4>2, <5>1
      <4> QED BY <4>1, <4>2
    <3>2. t.headerRows > 0
      BY <1>3, <1>8
    <3> QED BY <2>2, <2>4, <3>1, <3>2 DEF Follows
  <2>8. ASSUME NEW i \in 1 .. k PROVE IsUnit(t, A[i]) /\ A[i].page <= n /\ Follows(t, h, A, i)
    <3>1. i = k \/ i \in 1 .. Len(p)
      BY <1>2
    <3> QED BY <1>5, <1>6, <2>2, <2>4, <2>5, <2>6, <2>7, <3>1
  <2>9. ASSUME NEW i \in BodyOf(A) PROVE A[i].first = Due(t, A, i)
    <3>1. i \in 1 .. Len(p) /\ i \in 1 .. k /\ p[i].first = Due(t, p, i)
      BY <1>2, <2>4 DEF Spread
    <3> QED BY <2>4, <3>1
  <2>10. Spread(t, h, A, n)
    BY <2>4, <2>8, <2>9 DEF Spread
  <2>11. Ends(h, u) = HeaderEnds(t, h, n) /\ HeaderEnds(t, h, n) \in Nat
    BY <1>3, <1>4, <2>2 DEF Ends, HeaderEnds
  <2>12. Ready(t, h, A, n, HeaderEnds(t, h, n))
    BY <1>2, <2>2, <2>4, <2>11 DEF Ready
  <2>13. SameBody(t, p, A)
    <3>1. Len(A) + 1 = Len(p) + 2
      BY <1>2, <2>4
    <3> QED BY <2>4, <3>1 DEF SameBody
  <2> QED BY <2>10, <2>12, <2>13 DEF A
<1> QED BY <1>7, <1>8

\* No row spanned is apart from the others.
LEMMA SpansStayWhole ==
  ASSUME NEW t, Valid(t), NEW u, IsUnit(t, u), NEW c \in t.cells,
         RowsOf(c) \cap (u.first .. u.last) # {}
  PROVE  RowsOf(c) \subseteq u.first .. u.last
<1> DEFINE e == c.row + c.rows - 1
<1>1. /\ c.row \in 1 .. t.rows /\ e \in c.row .. t.rows /\ RowsOf(c) = c.row .. e
      /\ c.row <= t.headerRows => e <= t.headerRows
  BY CellFacts
<1> HIDE DEF e
<1>2. t.rows \in Nat /\ t.headerRows \in 0 .. t.rows
  BY TableFacts
<1>3. /\ u.first \in Nat \ {0} /\ u.last \in Nat \ {0} /\ u.last <= t.rows
      /\ IF u.policy = "header" THEN u.first = 1 /\ u.last = t.headerRows
         ELSE IsGroup(t, u) /\ t.headerRows < u.first
  BY UnitFacts
<1>4. PICK r \in Nat : c.row <= r /\ r <= e /\ u.first <= r /\ r <= u.last
  BY <1>1, <1>2, <1>3
<1>5. e <= u.last
  <2>1. CASE u.policy = "header"
    BY <1>1, <1>2, <1>3, <1>4, <2>1
  <2>2. CASE u.policy # "header"
    <3>1. u.last \in Boundaries(t)
      BY <1>3, <2>2 DEF IsGroup
    <3>2. ~({u.last, u.last + 1} \subseteq RowsOf(c))
      BY <3>1 DEF Boundaries
    <3>3. e > u.last => {u.last, u.last + 1} \subseteq RowsOf(c)
      BY <1>1, <1>2, <1>3, <1>4
    <3> QED BY <1>1, <1>2, <1>3, <3>2, <3>3
  <2> QED BY <2>1, <2>2
<1>6. u.first <= c.row
  <2>1. CASE u.policy = "header"
    BY <1>1, <1>3, <2>1
  <2>2. CASE u.policy # "header"
    <3>1. u.first - 1 \in Boundaries(t) \/ u.first - 1 = t.headerRows
      BY <1>3, <2>2 DEF IsGroup
    <3>2. ASSUME u.first - 1 \in Boundaries(t), c.row < u.first PROVE FALSE
      <4>1. ~({u.first - 1, (u.first - 1) + 1} \subseteq RowsOf(c))
        BY <3>2 DEF Boundaries
      <4>2. {u.first - 1, (u.first - 1) + 1} \subseteq RowsOf(c)
        BY <1>1, <1>2, <1>3, <1>4, <3>2
      <4> QED BY <4>1, <4>2
    <3>3. ASSUME u.first - 1 = t.headerRows, c.row < u.first PROVE FALSE
      BY <1>1, <1>2, <1>3, <1>4, <3>3
    <3> QED BY <1>1, <1>3, <3>1, <3>2, <3>3
  <2> QED BY <2>1, <2>2
<1> QED BY <1>1, <1>2, <1>3, <1>5, <1>6

-----------------------------------------------------------------------------
(* The invariant.                                                          *)
Bodies == [first : Nat \ {0}, even : Nat \ {0}, odd : Nat \ {0}]

Active == outcome \in {"planning", "planned"}

TableTyped ==
  IsTable(table) /\ table.bodies \in Bodies /\ bodyPlaced \in BOOLEAN /\ bodyOverflow \in BOOLEAN

NothingYet == Started => ~bodyPlaced /\ ~bodyOverflow /\ breaks = <<>>

Measured ==
  Active =>
    /\ Valid(table)
    /\ ResolveColumnWidths(table).error = "none"
    /\ widths = ResolveColumnWidths(table).widths /\ heights = ResolveRowHeights(table)

UnitsInPlace ==
  Active => Spread(table, heights, placed, page) /\ Ready(table, heights, placed, page, cursor)

GroupsToCome ==
  Active => Grouped(table, todo, Due(table, placed, Len(placed) + 1), table.rows)

\* A page has a body unit before another is begun, and the last ends where
\* the cursor is.
PageUsed ==
  Active =>
    /\ IF bodyPlaced THEN Len(placed) \in BodyOf(placed) /\ placed[Len(placed)].page = page
       ELSE BodyOf(placed) = {} /\ page = 1 /\ cursor = HeaderEnds(table, heights, 1)
    /\ bodyOverflow = (bodyPlaced /\ cursor > Body(page))
    /\ \A i \in BodyOf(placed) : placed[i].page = page => Ends(heights, placed[i]) <= cursor
    /\ \A n \in 1 .. page - 1 : \E i \in BodyOf(placed) : placed[i].page = n

AllPlaced == Planned => todo = <<>>

PlacedAsOne(first, last) ==
  \E i \in BodyOf(placed) : placed[i].first <= first /\ last <= placed[i].last

PoliciesKept ==
  Active =>
    \A w \in Asked(table) : w[1] < w[2] =>
      Covers(todo, w[1], w[2]) \/ PlacedAsOne(w[1], w[2]) \/ Excused(w[1], w[2])

TableInv ==
  /\ TableTyped /\ NothingYet /\ Measured /\ UnitsInPlace /\ GroupsToCome /\ PageUsed
  /\ PoliciesKept /\ ReportsAreTrue /\ IsSeq(breaks) /\ AllPlaced

LEMMA EmptyIsSeq == IsSeq(<<>>)
<1>1. <<>> \in Seq({})
  BY EmptySeq
<1> QED BY <1>1 DEF IsSeq

LEMMA TableBegins == ASSUME Init PROVE TableInv
<1>1. TableTyped
  BY TablesAssumption DEF Init, TableTyped, Bodies
<1>2. ~Active
  BY DEF Init, Active
<1> QED BY <1>1, <1>2, EmptyIsSeq
     DEF Init, TableInv, NothingYet, Measured, UnitsInPlace, GroupsToCome, PageUsed, PoliciesKept,
         ReportsAreTrue, AllPlaced, Planned, Active

\* What holds of the table while it is planned.
LEMMA Sizes ==
  ASSUME TableInv, Active
  PROVE  /\ Valid(table) /\ heights \in [1 .. table.rows -> Nat]
         /\ page \in Nat \ {0} /\ cursor \in Nat
         /\ table.rows \in Nat /\ table.headerRows \in 0 .. table.rows
         /\ HeaderHeight \in Nat
         /\ \A n \in Nat : /\ Body(n) \in Nat /\ Caption(n) = TopOf(table, n)
                           /\ TopOf(table, n) \in Nat
                           /\ BodyTop(n) = HeaderEnds(table, heights, n)
                           /\ HeaderUnits(n) = HeaderOf(table, n)
<1>1. Valid(table) /\ heights \in [1 .. table.rows -> Nat]
  BY HeightsAreEnough DEF TableInv, Measured
<1>2. page \in Nat \ {0} /\ cursor \in Nat
  BY DEF TableInv, UnitsInPlace, Spread, Ready
<1>3. table.rows \in Nat /\ table.headerRows \in 0 .. table.rows
  BY <1>1, TableFacts
<1>4. HeaderHeight \in Nat
  <2>1. 1 \in Nat \ {0}
    OBVIOUS
  <2> QED BY <1>1, <1>3, <2>1, SpanOfRows DEF HeaderHeight, Height
<1>5. ASSUME NEW n \in Nat
      PROVE  /\ Body(n) \in Nat /\ Caption(n) = TopOf(table, n) /\ TopOf(table, n) \in Nat
             /\ BodyTop(n) = HeaderEnds(table, heights, n) /\ HeaderUnits(n) = HeaderOf(table, n)
  <2>1. Body(n) \in Nat
    BY DEF TableInv, TableTyped, Bodies, Body
  <2>2. Caption(n) = TopOf(table, n)
    BY DEF Caption, TopOf
  <2>3. BodyTop(n) = HeaderEnds(table, heights, n)
    BY <2>2 DEF BodyTop, HeaderEnds, HeaderHeight, Height
  <2> QED BY <1>1, <2>1, <2>2, <2>3, TopsAre DEF HeaderUnits, HeaderOf
<1> QED BY <1>1, <1>2, <1>3, <1>4, <1>5

LEMMA TableIsBegun ==
  ASSUME TableInv, ResolveTable
  PROVE  TableInv'
<1> DEFINE t == table
           h == ResolveRowHeights(t)
           p == HeaderOf(t, 1)
<1>1. /\ SurfaceValid(t) /\ GridValid(t) /\ ResolveColumnWidths(t).error = "none"
      /\ table' = t /\ bodyPlaced' = bodyPlaced /\ bodyOverflow' = bodyOverflow /\ breaks' = breaks
      /\ widths' = ResolveColumnWidths(t).widths /\ heights' = h /\ todo' = BodyGroups(t)
      /\ page' = 1 /\ cursor' = BodyTop(1)' /\ placed' = HeaderUnits(1)
      /\ notes' = HeaderTooTall(1)' /\ outcome' = "planning"
  BY DEF ResolveTable
<1>2. TableTyped /\ ~bodyPlaced /\ ~bodyOverflow /\ breaks = <<>>
  BY DEF TableInv, NothingYet, ResolveTable
<1>3. Valid(t)
  BY <1>1, <1>2 DEF TableTyped, Valid
<1>4. h \in [1 .. t.rows -> Nat]
  BY <1>3, HeightsAreEnough
<1> HIDE DEF h
<1>5. Spread(t, h, <<>>, 1)
  <2>1. Len(<<>>) = 0 /\ BodyOf(<<>>) = {}
    BY DEF BodyOf
  <2> QED BY <2>1, EmptyIsSeq DEF Spread
<1>6. /\ Spread(t, h, p, 1) /\ Ready(t, h, p, 1, HeaderEnds(t, h, 1))
      /\ BodyOf(p) = {} /\ Due(t, p, Len(p) + 1) = t.headerRows + 1
  <2> DEFINE A == <<>> \o HeaderOf(t, 1)
  <2>1. Len(<<>>) = 0 /\ 1 \in Nat \ {0} /\ 1 <= 1
    OBVIOUS
  <2>2. Spread(t, h, A, 1) /\ Ready(t, h, A, 1, HeaderEnds(t, h, 1)) /\ SameBody(t, <<>>, A)
    BY <1>3, <1>4, <1>5, <2>1, HeaderIsSpread
  <2>3. A = p
    <3> DEFINE u == Unit(1, TopOf(t, 1), 1, t.headerRows, "header")
    <3> HIDE DEF u
    <3>1. <<>> \in Seq({u}) /\ <<u>> \in Seq({u})
      OBVIOUS
    <3>2. p \in Seq({u})
      BY <3>1 DEF HeaderOf, u
    <3> HIDE DEF p
    <3> QED BY <3>2, ConcatEmptySeq DEF p
  <2>4. BodyOf(<<>>) = {} /\ Due(t, <<>>, Len(<<>>) + 1) = t.headerRows + 1
    BY DEF BodyOf, Earlier, Due
  <2> HIDE DEF A, p, t
  <2> QED BY <2>2, <2>3, <2>4 DEF SameBody
<1>7. placed' = p /\ cursor' = HeaderEnds(t, h, 1)
  <2>1. HeaderUnits(1) = p
    BY DEF HeaderUnits, HeaderOf, Caption, TopOf
  <2>2. cursor' = HeaderEnds(t, h, 1)
    BY <1>1 DEF BodyTop, Caption, HeaderHeight, Height, HeaderEnds, TopOf
  <2> QED BY <1>1, <2>1, <2>2
<1>8. TableTyped' /\ NothingYet' /\ Measured'
  <2>1. TableTyped'
    BY <1>1, <1>2 DEF TableTyped, Bodies
  <2>2. NothingYet'
    BY <1>1 DEF NothingYet, Started
  <2>3. Measured'
    BY <1>1, <1>3 DEF Measured, h
  <2> QED BY <2>1, <2>2, <2>3
<1>9. UnitsInPlace'
  BY <1>1, <1>6, <1>7 DEF UnitsInPlace
<1>10. GroupsToCome' /\ PoliciesKept'
  <2>1. /\ Grouped(t, todo', t.headerRows + 1, t.rows)
        /\ \A w \in Asked(t) : w[1] < w[2] => Covers(todo', w[1], w[2])
    BY <1>1, <1>3, GroupsAreMade
  <2> QED BY <1>1, <1>6, <1>7, <2>1 DEF GroupsToCome, PoliciesKept
<1>11. PageUsed'
  <2>1. bodyPlaced' = FALSE /\ bodyOverflow' = FALSE
    BY <1>1, <1>2 DEF TableTyped
  <2>2. BodyOf(placed') = {} /\ page' = 1 /\ cursor' = HeaderEnds(table', heights', 1)
    BY <1>1, <1>6, <1>7
  <2>3. 1 .. page' - 1 = {}
    BY <2>2
  <2> QED BY <2>1, <2>2, <2>3 DEF PageUsed
<1>12. ReportsAreTrue'
  <2>1. BodyUnits' = {}
    BY <1>6, <1>7 DEF BodyUnits, BodyOf
  <2>2. \A n \in notes' : n.code = "repeated_header_too_tall"
    BY <1>1 DEF HeaderTooTall, Note
  <2>3. Len(breaks') = page' - 1 /\ \A n \in 1 .. page' - 1 : FALSE
    BY <1>1, <1>2
  <2> QED BY <2>1, <2>2, <2>3 DEF ReportsAreTrue, Deserved
<1>13. AllPlaced' /\ IsSeq(breaks')
  BY <1>1, <1>2, EmptyIsSeq DEF AllPlaced, Planned
<1> QED BY <1>8, <1>9, <1>10, <1>11, <1>12, <1>13 DEF TableInv

\* A group's rows are placed: after these units, on this page, from this top.
Placing(n, c, q) ==
  /\ TableInv /\ Planning /\ todo # <<>> /\ n \in Nat \ {0}
  /\ Spread(table, heights, q, n) /\ Ready(table, heights, q, n, c) /\ SameBody(table, placed, q)
  /\ PlaceAt(n, c, q) /\ page' = n /\ notes \subseteq notes'

Extended(n, c, q) ==
  LET k == Len(q) + 1
  IN /\ k \in Nat \ {0} /\ Len(placed') = k
     /\ BodyOf(placed) \in SUBSET (1 .. k - 1) /\ BodyOf(placed') = BodyOf(placed) \cup {k}
     /\ \A i \in BodyOf(placed) : placed'[i] = placed[i]
     /\ placed'[k] = Unit(n, c, Group.first, Group.last, Group.policy)
     /\ Ends(heights, placed'[k]) = c + GroupHeight
     /\ c \in Nat /\ GroupHeight \in Nat

LEMMA UnitIsPlaced ==
  ASSUME NEW n, NEW c, NEW q, Placing(n, c, q)
  PROVE  /\ TableTyped' /\ NothingYet' /\ Measured' /\ UnitsInPlace' /\ GroupsToCome'
         /\ PoliciesKept' /\ Extended(n, c, q)
<1> DEFINE t == table
           h == heights
           u == Unit(n, c, Group.first, Group.last, Group.policy)
           k == Len(q) + 1
           A == Append(q, u)
<1>1. /\ todo' = Tail(todo) /\ cursor' = c + GroupHeight /\ bodyPlaced' = TRUE
      /\ bodyOverflow' = (c + GroupHeight > Body(n)) /\ placed' = q \o <<u>>
      /\ table' = t /\ widths' = widths /\ heights' = h /\ outcome' = outcome
      /\ page' = n /\ notes \subseteq notes'
  BY DEF Placing, PlaceAt
<1>2. TableInv /\ Active /\ Active' /\ outcome = "planning" /\ n \in Nat \ {0}
  BY <1>1 DEF Placing, Planning, Active
<1>3. Valid(t) /\ h \in [1 .. t.rows -> Nat] /\ t.rows \in Nat
  BY <1>2, Sizes
<1>4. /\ Due(t, placed, Len(placed) + 1) = Due(t, q, k)
      /\ Grouped(t, todo, Due(t, q, k), t.rows)
  BY <1>2 DEF Placing, SameBody, TableInv, GroupsToCome
<1>5. /\ BodyOf(placed) = BodyOf(q) /\ \A i \in BodyOf(placed) : q[i] = placed[i]
  BY DEF Placing, SameBody
<1>6. todo # <<>>
  BY DEF Placing
<1>7. Due(t, q, k) \in Int
  <2>1. Len(todo) \in Nat \ {0}
    BY <1>4, <1>6, TailIs
  <2>2. todo[1].first = Due(t, q, k) /\ 1 \in 1 .. Len(todo)
    BY <1>4, <2>1 DEF Grouped, InSequence
  <2> QED BY <1>3, <1>4, <2>2, GroupedFacts, GroupFacts
<1>8. /\ IsGroup(t, Group) /\ Group.first = Due(t, q, k) /\ Group.first <= Group.last
      /\ Grouped(t, Tail(todo), Group.last + 1, t.rows)
      /\ \A x, y \in Int : Covers(todo, x, y) =>
           Covers(Tail(todo), x, y) \/ (Group.first <= x /\ y <= Group.last)
  BY <1>3, <1>4, <1>6, <1>7, TailKeeps DEF Group
<1>9. /\ u.page = n /\ u.top = c /\ u.first = Group.first /\ u.last = Group.last
      /\ u.policy = Group.policy
  BY DEF Unit
<1> HIDE DEF u
<1>10. IsGroup(t, u) /\ u.first = Due(t, q, k) /\ u.first <= u.last
  BY <1>8, <1>9 DEF IsGroup
<1>11. placed' = A
  <2>1. PICK G : q \in Seq(G)
    BY DEF Placing, Spread, IsSeq
  <2>2. q \in Seq(G \cup {u}) /\ u \in G \cup {u}
    BY <2>1, SeqMonotonic
  <2> QED BY <1>1, <2>2, AppendIsConcat
<1> HIDE DEF A
<1>12. Spread(t, h, A, n) /\ Ready(t, h, A, n, Ends(h, u)) /\ Appended(t, q, u, A)
  BY <1>3, <1>9, <1>10, UnitIsSpread DEF A, Placing
<1>13. /\ Len(q) \in Nat /\ Len(A) = k /\ A[k] = u /\ \A i \in 1 .. Len(q) : A[i] = q[i]
       /\ BodyOf(q) \in SUBSET (1 .. Len(q)) /\ BodyOf(A) = BodyOf(q) \cup {k}
       /\ Due(t, A, Len(A) + 1) = Group.last + 1
  <2>1. u.policy # "header"
    BY <1>10 DEF IsGroup
  <2>2. Len(q) \in Nat /\ Len(A) + 1 = Len(q) + 2
    BY <1>12 DEF Appended
  <2> QED BY <1>9, <1>12, <2>1, <2>2 DEF Appended
<1>14. Ends(h, u) = c + GroupHeight
  BY <1>9 DEF Ends, GroupHeight, Height
<1>15. Extended(n, c, q)
  <2>1. k - 1 = Len(q) /\ k \in Nat \ {0}
    BY <1>13
  <2>2. \A i \in BodyOf(placed) : placed'[i] = placed[i]
    BY <1>5, <1>11, <1>13
  <2>3. c \in Nat
    BY DEF Placing, Ready
  <2>4. GroupHeight \in Nat
    <3>1. Group.first \in Nat \ {0} /\ Group.last \in 0 .. t.rows
      BY <1>3, <1>8, GroupFacts
    <3> QED BY <1>3, <3>1, SpanOfRows DEF GroupHeight, Height
  <2> QED BY <1>5, <1>11, <1>13, <1>14, <2>1, <2>2, <2>3, <2>4 DEF Extended, u
<1>16. TableTyped'
  BY <1>1, <1>2 DEF TableInv, TableTyped, Bodies
<1>17. NothingYet' /\ Measured'
  <2>1. NothingYet'
    BY <1>1, <1>2 DEF NothingYet, Started
  <2>2. Measured'
    BY <1>1, <1>2 DEF Measured, TableInv
  <2> QED BY <2>1, <2>2
<1>18. UnitsInPlace'
  BY <1>1, <1>11, <1>12, <1>14 DEF UnitsInPlace
<1>19. GroupsToCome'
  BY <1>1, <1>8, <1>11, <1>13 DEF GroupsToCome
<1>20. PoliciesKept'
  <2> SUFFICES ASSUME NEW w \in Asked(t), w[1] < w[2]
               PROVE  (Covers(todo, w[1], w[2]) \/ PlacedAsOne(w[1], w[2]) \/ Excused(w[1], w[2]))'
    BY <1>1 DEF PoliciesKept
  <2>1. w[1] \in Int /\ w[2] \in Int
    BY <1>3, GroupsAreMade
  <2>2. Covers(todo, w[1], w[2]) \/ PlacedAsOne(w[1], w[2]) \/ Excused(w[1], w[2])
    BY <1>2 DEF TableInv, PoliciesKept
  <2>3. CASE Covers(todo, w[1], w[2])
    <3>1. Covers(Tail(todo), w[1], w[2]) \/ (Group.first <= w[1] /\ w[2] <= Group.last)
      BY <1>8, <2>1, <2>3
    <3>2. CASE Covers(Tail(todo), w[1], w[2])
      BY <1>1, <3>2
    <3>3. CASE Group.first <= w[1] /\ w[2] <= Group.last
      <4>1. k \in BodyOf(A) /\ A[k].first <= w[1] /\ w[2] <= A[k].last
        BY <1>9, <1>13, <3>3
      <4> QED BY <1>11, <4>1 DEF PlacedAsOne
    <3> QED BY <3>1, <3>2, <3>3
  <2>4. CASE PlacedAsOne(w[1], w[2])
    <3>1. PICK i \in BodyOf(placed) : placed[i].first <= w[1] /\ w[2] <= placed[i].last
      BY <2>4 DEF PlacedAsOne
    <3>2. i \in BodyOf(A) /\ A[i] = placed[i]
      BY <1>5, <1>13
    <3> QED BY <1>11, <3>1, <3>2 DEF PlacedAsOne
  <2>5. CASE Excused(w[1], w[2])
    BY <1>1, <2>5 DEF Excused
  <2> QED BY <2>2, <2>3, <2>4, <2>5
<1> QED BY <1>15, <1>16, <1>17, <1>18, <1>19, <1>20

\* What a step that places a unit leaves as it is.
LEMMA PlacingIs ==
  ASSUME NEW n, NEW c, NEW q, Placing(n, c, q)
  PROVE  /\ TableInv /\ Active /\ Active' /\ Extended(n, c, q)
         /\ table' = table /\ heights' = heights /\ page' = n /\ n \in Nat \ {0}
         /\ cursor' = c + GroupHeight /\ bodyPlaced' = TRUE
         /\ bodyOverflow' = (c + GroupHeight > Body(n)) /\ notes \subseteq notes'
         /\ BodyUnits = BodyOf(placed) /\ BodyUnits' = BodyOf(placed')
<1>1. TableInv /\ Active /\ Active' /\ n \in Nat \ {0}
  BY DEF Placing, Planning, Active, PlaceAt
<1>2. /\ table' = table /\ heights' = heights /\ page' = n
      /\ cursor' = c + GroupHeight /\ bodyPlaced' = TRUE
      /\ bodyOverflow' = (c + GroupHeight > Body(n)) /\ notes \subseteq notes'
  BY DEF Placing, PlaceAt
<1>3. BodyUnits = BodyOf(placed) /\ BodyUnits' = BodyOf(placed')
  BY DEF BodyUnits, BodyOf
<1>4. Extended(n, c, q)
  BY UnitIsPlaced
<1> QED BY <1>1, <1>2, <1>3, <1>4

LEMMA PageStaysUsed ==
  ASSUME NEW n, NEW c, NEW q, Placing(n, c, q),
         \A i \in BodyOf(placed) : placed[i].page = n => Ends(heights, placed[i]) <= c,
         \A m \in 1 .. n - 1 : \E i \in BodyOf(placed) : placed[i].page = m
  PROVE  PageUsed'
<1> DEFINE k == Len(q) + 1
<1>1. /\ TableInv /\ Active /\ table' = table /\ heights' = heights /\ page' = n
      /\ n \in Nat \ {0} /\ cursor' = c + GroupHeight /\ bodyPlaced' = TRUE
      /\ bodyOverflow' = (c + GroupHeight > Body(n))
  BY PlacingIs
<1>2. /\ k \in Nat \ {0} /\ Len(placed') = k
      /\ BodyOf(placed) \in SUBSET (1 .. k - 1) /\ BodyOf(placed') = BodyOf(placed) \cup {k}
      /\ \A i \in BodyOf(placed) : placed'[i] = placed[i]
      /\ placed'[k] = Unit(n, c, Group.first, Group.last, Group.policy)
      /\ Ends(heights, placed'[k]) = c + GroupHeight
      /\ c \in Nat /\ GroupHeight \in Nat
  BY PlacingIs DEF Extended
<1> HIDE DEF k
<1>3. bodyOverflow' = (bodyPlaced' /\ cursor' > Body(page)')
  <2>1. Body(page)' = Body(n)
    BY <1>1 DEF Body
  <2> QED BY <1>1, <2>1
<1>4. Len(placed') \in BodyOf(placed') /\ placed'[Len(placed')].page = page'
  BY <1>1, <1>2 DEF Unit
<1>5. ASSUME NEW i \in BodyOf(placed'), placed'[i].page = page'
      PROVE  Ends(heights', placed'[i]) <= cursor'
  <2>1. CASE i = k
    BY <1>1, <1>2, <2>1
  <2>2. CASE i # k
    <3>1. i \in BodyOf(placed) /\ placed'[i] = placed[i]
      BY <1>2, <2>2
    <3>2. Ends(heights, placed[i]) <= c
      BY <1>1, <1>5, <3>1
    <3>3. Ends(heights, placed[i]) \in Nat
      <4>1. Valid(table) /\ heights \in [1 .. table.rows -> Nat] /\ table.rows \in Nat
        BY <1>1, Sizes
      <4>2. IsUnit(table, placed[i])
        <5>1. i \in 1 .. Len(placed)
          BY <3>1 DEF Placing, SameBody
        <5> QED BY <1>1, <5>1 DEF TableInv, UnitsInPlace, Spread
      <4> QED BY <4>1, <4>2, UnitEnds
    <3> QED BY <1>1, <1>2, <3>1, <3>2, <3>3
  <2> QED BY <2>1, <2>2
<1>6. ASSUME NEW m \in 1 .. page' - 1 PROVE \E i \in BodyOf(placed') : placed'[i].page = m
  <2>1. PICK i \in BodyOf(placed) : placed[i].page = m
    BY <1>1
  <2> QED BY <1>2, <2>1
<1> QED BY <1>1, <1>3, <1>4, <1>5, <1>6 DEF PageUsed

\* Notes stay deserved, and those about the group are.
LEMMA NotesStay ==
  ASSUME table' = table, heights' = heights, page \in Nat, page' \in Nat, page <= page',
         NEW x, Deserved(x)
  PROVE  Deserved(x)'
<1>1. CASE x.code = "repeated_header_too_tall"
  BY <1>1 DEF Deserved
<1>2. CASE \E n \in 1 .. page : Height(x.first, x.last) > Max({0, Body(n) - HeaderHeight})
  <2>1. PICK n \in 1 .. page : Height(x.first, x.last) > Max({0, Body(n) - HeaderHeight})
    BY <1>2
  <2>2. n \in 1 .. page'
    OBVIOUS
  <2>3. (Height(x.first, x.last) > Max({0, Body(n) - HeaderHeight}))'
    BY <2>1 DEF Height, HeaderHeight, Body
  <2> QED BY <2>2, <2>3 DEF Deserved
<1> QED BY <1>1, <1>2 DEF Deserved

LEMMA GroupNotes ==
  ASSUME table' = table, heights' = heights, page' \in Nat,
         NEW n \in 1 .. page', GroupHeight > Max({0, Body(n) - HeaderHeight}),
         NEW x, x.first = Group.first, x.last = Group.last
  PROVE  Deserved(x)'
<1>1. (Height(x.first, x.last) > Max({0, Body(n) - HeaderHeight}))'
  BY DEF Height, HeaderHeight, Body, GroupHeight
<1> QED BY <1>1 DEF Deserved

LEMMA OversizeNotes ==
  ASSUME NEW n \in Nat, TableInv, Active, GroupHeight \in Nat
  PROVE  /\ \A x \in Oversize(n) : /\ GroupHeight > Max({0, Body(n) - HeaderHeight})
                                   /\ x.first = Group.first /\ x.last = Group.last
         /\ GroupHeight > Max({0, Body(n) - HeaderHeight}) =>
              \E x \in Oversize(n) :
                /\ x.code \in {"rowspan_crosses_page", "unbreakable_too_tall"}
                /\ x.first = Group.first /\ x.last = Group.last
<1> DEFINE room == Max({0, Body(n) - HeaderHeight})
           code == IF Group.last > Group.first /\ Group.policy = "none"
                     THEN "rowspan_crosses_page" ELSE "unbreakable_too_tall"
           about == Note(code, Group.first, Group.last)
<1>1. room \in Nat
  <2>1. Body(n) \in Nat /\ HeaderHeight \in Nat
    BY Sizes
  <2>2. Body(n) - HeaderHeight \in Int
    BY <2>1
  <2> QED BY <2>2, AtLeastNone
<1> HIDE DEF room
<1>2. CASE GroupHeight <= room
  <2>1. Oversize(n) = {}
    BY <1>2, Zenon DEF Oversize, room
  <2>2. ~(GroupHeight > room)
    BY <1>1, <1>2
  <2> QED BY <2>1, <2>2 DEF room
<1>3. CASE ~(GroupHeight <= room)
  <2>1. Oversize(n) = {about} \cup (IF Group.policy = "none" THEN {}
                                    ELSE {Note("keep_too_large", Group.first, Group.last)})
    BY <1>3, Zenon DEF Oversize, room
  <2>2. GroupHeight > room
    BY <1>1, <1>3
  <2>3. about \in Oversize(n) /\ about.code \in {"rowspan_crosses_page", "unbreakable_too_tall"}
    BY <2>1 DEF Note
  <2>4. \A x \in Oversize(n) : x.first = Group.first /\ x.last = Group.last
    BY <2>1 DEF Note
  <2> QED BY <2>2, <2>3, <2>4 DEF room
<1> QED BY <1>2, <1>3

\* A unit goes past the end of a page only as the first that is there.
LEMMA OverflowIsReported ==
  ASSUME NEW n, NEW c, NEW q, Placing(n, c, q), Oversize(n) \subseteq notes',
         c + GroupHeight > Body(n) /\ GroupHeight > 0 =>
           /\ \A i \in BodyOf(placed) : placed[i].page # n
           /\ c = HeaderEnds(table, heights, n)
  PROVE  (\A i \in BodyUnits :
            Overflows(placed[i]) /\ Height(placed[i].first, placed[i].last) > 0
              => OverflowReported(i))'
<1> DEFINE k == Len(q) + 1
<1>1. /\ TableInv /\ Active /\ table' = table /\ heights' = heights
      /\ n \in Nat \ {0} /\ notes \subseteq notes'
      /\ BodyUnits = BodyOf(placed) /\ BodyUnits' = BodyOf(placed')
  BY PlacingIs
<1>2. /\ k \in Nat \ {0}
      /\ BodyOf(placed) \in SUBSET (1 .. k - 1) /\ BodyOf(placed') = BodyOf(placed) \cup {k}
      /\ \A i \in BodyOf(placed) : placed'[i] = placed[i]
      /\ placed'[k] = Unit(n, c, Group.first, Group.last, Group.policy)
      /\ c \in Nat /\ GroupHeight \in Nat
  BY PlacingIs DEF Extended
<1>3. /\ placed'[k].page = n /\ placed'[k].top = c
      /\ placed'[k].first = Group.first /\ placed'[k].last = Group.last
  BY <1>2 DEF Unit
<1> HIDE DEF k
<1>4. ASSUME NEW i \in BodyOf(placed),
             (Overflows(placed[i]) /\ Height(placed[i].first, placed[i].last) > 0)'
      PROVE  OverflowReported(i)'
  <2>1. Overflows(placed[i]) /\ Height(placed[i].first, placed[i].last) > 0
    BY <1>1, <1>2, <1>4 DEF Overflows, Height, Body
  <2>2. OverflowReported(i)
    BY <1>1, <2>1 DEF TableInv, ReportsAreTrue, Active
  <2>3. \A j \in BodyOf(placed') : j < i => placed'[j].page # placed'[i].page
    <3> SUFFICES ASSUME NEW j \in BodyOf(placed'), j < i
                 PROVE  placed'[j].page # placed'[i].page
      OBVIOUS
    <3>1. j \in BodyOf(placed)
      BY <1>2
    <3> QED BY <1>1, <1>2, <2>2, <3>1 DEF OverflowReported
  <2>4. Caption(placed[i].page) > 0 => (Caption(placed[i].page) > 0)'
    BY <1>1, <1>2 DEF Caption
  <2> QED BY <1>1, <1>2, <2>2, <2>3, <2>4 DEF OverflowReported
<1>5. ASSUME (Overflows(placed[k]) /\ Height(placed[k].first, placed[k].last) > 0)'
      PROVE  OverflowReported(k)'
  <2>1. c + GroupHeight > Body(n) /\ GroupHeight > 0
    BY <1>1, <1>3, <1>5 DEF Overflows, Height, Body, GroupHeight
  <2>2. \A j \in BodyOf(placed') : j < k => placed'[j].page # placed'[k].page
    BY <1>2, <1>3, <2>1
  <2>3. CASE TopOf(table, n) > 0
    <3>1. (Caption(placed[k].page) > 0)'
      BY <1>1, <1>3, <1>5, <2>3 DEF Caption, TopOf
    <3> QED BY <1>1, <1>5, <2>2, <3>1 DEF OverflowReported
  <2>4. CASE ~(TopOf(table, n) > 0)
    <3>1. /\ HeaderHeight \in Nat /\ Body(n) \in Nat /\ TopOf(table, n) \in Nat
          /\ c = TopOf(table, n) + HeaderHeight
      BY <1>1, <2>1, Sizes DEF HeaderEnds, HeaderHeight, Height
    <3>2. GroupHeight > Max({0, Body(n) - HeaderHeight})
      <4>1. Body(n) - HeaderHeight \in Int /\ GroupHeight > Body(n) - HeaderHeight
        BY <1>2, <2>1, <2>4, <3>1
      <4> QED BY <1>2, <2>1, <4>1, AtLeastNone
    <3>3. PICK x \in Oversize(n) : /\ x.code \in {"rowspan_crosses_page", "unbreakable_too_tall"}
                                   /\ x.first = Group.first /\ x.last = Group.last
      BY <1>1, <1>2, <3>2, OversizeNotes
    <3> QED BY <1>1, <1>3, <1>5, <2>2, <3>3 DEF OverflowReported
  <2> QED BY <2>3, <2>4
<1> QED BY <1>1, <1>2, <1>4, <1>5

\* The turns before this page stay explained.
LEMMA TurnsStay ==
  ASSUME NEW n, NEW c, NEW q, Placing(n, c, q), page <= n,
         NEW m \in 1 .. page - 1, breaks'[m] = breaks[m]
  PROVE  TurnExplained(m)'
<1> DEFINE k == Len(q) + 1
<1>1. /\ TableInv /\ Active /\ table' = table /\ heights' = heights
      /\ n \in Nat \ {0} /\ BodyUnits = BodyOf(placed) /\ BodyUnits' = BodyOf(placed')
  BY PlacingIs
<1>2. /\ BodyOf(placed') = BodyOf(placed) \cup {k}
      /\ \A i \in BodyOf(placed) : placed'[i] = placed[i]
      /\ placed'[k] = Unit(n, c, Group.first, Group.last, Group.policy)
  BY PlacingIs DEF Extended
<1>3. page \in Nat \ {0} /\ m # n
  <2>1. page \in Nat \ {0}
    BY <1>1, Sizes
  <2> QED BY <1>1, <2>1
<1>4. placed'[k].page = n
  BY <1>2 DEF Unit
<1> HIDE DEF k
<1>5. TurnExplained(m)
  BY <1>1 DEF TableInv, ReportsAreTrue, Active
<1>6. /\ breaks'[m].from = m /\ breaks'[m].required > breaks'[m].available
      /\ breaks'[m].reason = breaks[m].reason /\ breaks'[m].before = breaks[m].before
  BY <1>5 DEF TurnExplained
<1>7. \E i \in BodyOf(placed') : placed'[i].page = m + 1 /\ placed'[i].first = breaks'[m].before
  BY <1>1, <1>2, <1>5, <1>6 DEF TurnExplained
<1>8. \A i \in BodyOf(placed) : Overflows(placed[i])' <=> Overflows(placed[i])
  BY <1>1, <1>2 DEF Overflows, Height, Body
<1>9. (\E i \in BodyOf(placed') : placed'[i].page = m /\ Overflows(placed[i])')
        <=> \E i \in BodyOf(placed) : placed[i].page = m /\ Overflows(placed[i])
  BY <1>2, <1>3, <1>4, <1>8
<1>10. breaks[m].reason = "previous_overflow"
         <=> \E i \in BodyOf(placed) : placed[i].page = m /\ Overflows(placed[i])
  BY <1>1, <1>5 DEF TurnExplained
<1>11. breaks'[m].reason = "previous_overflow"
         <=> \E i \in BodyOf(placed') : placed'[i].page = m /\ Overflows(placed[i])'
  BY <1>6, <1>9, <1>10
<1> QED BY <1>1, <1>6, <1>7, <1>11 DEF TurnExplained

LEMMA UnitIsPlacedHere ==
  ASSUME TableInv, PlaceHere
  PROVE  TableInv'
<1>1. /\ Active /\ todo # <<>> /\ Planning /\ PlaceAt(page, cursor, placed)
      /\ notes' = notes \cup Oversize(page) /\ page' = page /\ breaks' = breaks
      /\ GroupHeight > Remaining => ~bodyPlaced
  BY DEF PlaceHere, Planning, Active, MustTurn
<1>2. /\ page \in Nat \ {0} /\ cursor \in Nat /\ Body(page) \in Nat
      /\ Spread(table, heights, placed, page) /\ Ready(table, heights, placed, page, cursor)
  BY <1>1, Sizes DEF TableInv, UnitsInPlace
<1>3. SameBody(table, placed, placed)
  <2>1. PICK G : placed \in Seq(G)
    BY <1>2 DEF Spread, IsSeq
  <2>2. DOMAIN placed = 1 .. Len(placed)
    BY <2>1, LenProperties
  <2> QED BY <2>2 DEF SameBody, BodyOf
<1>4. Placing(page, cursor, placed)
  BY <1>1, <1>2, <1>3 DEF Placing
<1> PICK n, c, q : n = page /\ c = cursor /\ q = placed /\ Placing(n, c, q)
  BY <1>4
<1>5. /\ TableTyped' /\ NothingYet' /\ Measured' /\ UnitsInPlace' /\ GroupsToCome'
      /\ PoliciesKept'
  BY UnitIsPlaced
<1>6. /\ table' = table /\ heights' = heights
      /\ BodyUnits = BodyOf(placed) /\ BodyUnits' = BodyOf(placed') /\ GroupHeight \in Nat
  BY PlacingIs DEF Extended
<1>7. /\ IF bodyPlaced THEN TRUE
         ELSE BodyOf(placed) = {} /\ page = 1 /\ cursor = HeaderEnds(table, heights, 1)
      /\ \A i \in BodyOf(placed) : placed[i].page = page => Ends(heights, placed[i]) <= cursor
      /\ \A m \in 1 .. page - 1 : \E i \in BodyOf(placed) : placed[i].page = m
  BY <1>1 DEF TableInv, PageUsed
<1>8. PageUsed'
  BY <1>7, PageStaysUsed
<1>9. cursor + GroupHeight > Body(page) /\ GroupHeight > 0 => ~bodyPlaced
  <2> SUFFICES ASSUME cursor + GroupHeight > Body(page), GroupHeight > 0, bodyPlaced PROVE FALSE
    BY DEF TableInv, TableTyped
  <2>1. Body(page) - cursor \in Int
    BY <1>2
  <2>2. ~(GroupHeight > Remaining)
    BY <1>1
  <2>3. Remaining = IF Body(page) - cursor > 0 THEN Body(page) - cursor ELSE 0
    BY <2>1, AtLeastNone DEF Remaining
  <2> QED BY <1>2, <1>6, <2>2, <2>3
<1>10. (\A i \in BodyUnits :
          Overflows(placed[i]) /\ Height(placed[i].first, placed[i].last) > 0
            => OverflowReported(i))'
  <2>1. c + GroupHeight > Body(n) /\ GroupHeight > 0 =>
          /\ \A i \in BodyOf(placed) : placed[i].page # n
          /\ c = HeaderEnds(table, heights, n)
    BY <1>7, <1>9
  <2>2. Oversize(n) \subseteq notes'
    BY <1>1
  <2> QED BY <2>1, <2>2, OverflowIsReported
<1>11. \A x \in notes' : Deserved(x)'
  <2> SUFFICES ASSUME NEW x \in notes' PROVE Deserved(x)'
    OBVIOUS
  <2>1. CASE x \in notes
    <3>1. Deserved(x)
      BY <1>1, <2>1 DEF TableInv, ReportsAreTrue, Active
    <3>2. page \in Nat /\ page' \in Nat /\ page <= page'
      BY <1>1, <1>2
    <3> QED BY <1>6, <3>1, <3>2, NotesStay
  <2>2. CASE x \in Oversize(page)
    <3>1. /\ GroupHeight > Max({0, Body(page) - HeaderHeight})
          /\ x.first = Group.first /\ x.last = Group.last
      BY <1>1, <1>2, <1>6, <2>2, OversizeNotes
    <3>2. page' \in Nat /\ page \in 1 .. page'
      BY <1>1, <1>2
    <3> QED BY <1>6, <3>1, <3>2, GroupNotes
  <2> QED BY <1>1, <2>1, <2>2
<1>12. \A m \in 1 .. page - 1 : TurnExplained(m)'
  <2> SUFFICES ASSUME NEW m \in 1 .. page - 1 PROVE TurnExplained(m)'
    OBVIOUS
  <2>1. page <= n /\ breaks'[m] = breaks[m]
    BY <1>1, <1>2
  <2> QED BY <2>1, TurnsStay
<1>13. Len(breaks) = page - 1
  BY <1>1 DEF TableInv, ReportsAreTrue, Active
<1>14. ReportsAreTrue'
  BY <1>1, <1>10, <1>11, <1>12, <1>13 DEF ReportsAreTrue
<1>15. AllPlaced' /\ IsSeq(breaks')
  BY <1>1 DEF AllPlaced, Planned, Planning, PlaceAt, TableInv
<1> QED BY <1>5, <1>8, <1>14, <1>15 DEF TableInv

LEMMA UnitIsPlacedNext ==
  ASSUME TableInv, PlaceOnNextPage
  PROVE  TableInv'
<1> DEFINE turn == [from      |-> page,
                    before    |-> Group.first,
                    reason    |-> IF bodyOverflow THEN "previous_overflow" ELSE "constraint",
                    required  |-> GroupHeight,
                    available |-> IF bodyOverflow THEN 0 ELSE Remaining]
<1>1. /\ Active /\ todo # <<>> /\ Planning
      /\ PlaceAt(page + 1, BodyTop(page + 1), placed \o HeaderUnits(page + 1))
      /\ notes' = notes \cup HeaderTooTall(page + 1) \cup Oversize(page + 1)
      /\ page' = page + 1 /\ breaks' = Append(breaks, turn)
      /\ GroupHeight > Remaining /\ bodyPlaced
  BY DEF PlaceOnNextPage, Planning, Active, MustTurn
<1> HIDE DEF turn
<1>2. /\ Valid(table) /\ heights \in [1 .. table.rows -> Nat]
      /\ page \in Nat \ {0} /\ cursor \in Nat /\ Body(page) \in Nat
      /\ BodyTop(page + 1) = HeaderEnds(table, heights, page + 1)
      /\ HeaderUnits(page + 1) = HeaderOf(table, page + 1)
      /\ Spread(table, heights, placed, page) /\ Ready(table, heights, placed, page, cursor)
  BY <1>1, Sizes DEF TableInv, UnitsInPlace
<1>3. /\ Len(placed) \in BodyOf(placed) /\ placed[Len(placed)].page = page
      /\ bodyOverflow = (cursor > Body(page))
      /\ \A i \in BodyOf(placed) : placed[i].page = page => Ends(heights, placed[i]) <= cursor
      /\ \A m \in 1 .. page - 1 : \E i \in BodyOf(placed) : placed[i].page = m
  BY <1>1 DEF TableInv, PageUsed
<1>4. BodyOf(placed) \in SUBSET (1 .. Len(placed)) /\ Len(placed) \in Nat \ {0}
  <2>1. PICK G : placed \in Seq(G)
    BY <1>2 DEF Spread, IsSeq
  <2>2. DOMAIN placed = 1 .. Len(placed) /\ Len(placed) \in Nat
    BY <2>1, LenProperties
  <2> QED BY <1>3, <2>2 DEF BodyOf
<1>5. \A i \in BodyOf(placed) : IsUnit(table, placed[i]) /\ placed[i].page <= page
  BY <1>2, <1>4 DEF Spread
<1> PICK n, c, q, last :
      /\ n = page + 1 /\ c = BodyTop(page + 1) /\ q = placed \o HeaderUnits(page + 1)
      /\ last = page
  OBVIOUS
<1>6. Placing(n, c, q)
  <2>1. /\ n \in Nat \ {0} /\ page <= n
        /\ IF Len(placed) = 0 THEN n = 1 ELSE placed[Len(placed)].page + 1 = n
    BY <1>2, <1>3, <1>4
  <2>2. /\ Spread(table, heights, placed \o HeaderOf(table, n), n)
        /\ Ready(table, heights, placed \o HeaderOf(table, n), n, HeaderEnds(table, heights, n))
        /\ SameBody(table, placed, placed \o HeaderOf(table, n))
    BY <1>2, <2>1, HeaderIsSpread
  <2>3. Spread(table, heights, q, n) /\ Ready(table, heights, q, n, c) /\ SameBody(table, placed, q)
    BY <1>2, <2>2
  <2>4. PlaceAt(n, c, q)
    BY <1>1
  <2> QED BY <1>1, <2>1, <2>3, <2>4 DEF Placing
<1>7. /\ TableTyped' /\ NothingYet' /\ Measured' /\ UnitsInPlace' /\ GroupsToCome'
      /\ PoliciesKept'
  BY <1>6, UnitIsPlaced
<1>8. /\ table' = table /\ heights' = heights
      /\ BodyUnits = BodyOf(placed) /\ BodyUnits' = BodyOf(placed') /\ GroupHeight \in Nat
      /\ Extended(n, c, q)
  BY <1>6, PlacingIs DEF Extended
<1>9. \A i \in BodyOf(placed) : placed[i].page # n
  <2> TAKE i \in BodyOf(placed)
  <2>1. placed[i].page \in Nat /\ placed[i].page <= page
    BY <1>2, <1>5, UnitFacts
  <2> QED BY <1>2, <2>1
<1>10. PageUsed'
  <2>1. \A m \in 1 .. n - 1 : \E i \in BodyOf(placed) : placed[i].page = m
    <3> TAKE m \in 1 .. n - 1
    <3>1. m = page \/ m \in 1 .. page - 1
      BY <1>2
    <3> QED BY <1>3, <3>1
  <2> QED BY <1>6, <1>9, <2>1, PageStaysUsed
<1>11. (\A i \in BodyUnits :
          Overflows(placed[i]) /\ Height(placed[i].first, placed[i].last) > 0
            => OverflowReported(i))'
  <2>1. c = HeaderEnds(table, heights, n) /\ Oversize(n) \subseteq notes'
    BY <1>1, <1>2
  <2> QED BY <1>6, <1>9, <2>1, OverflowIsReported
<1>12. \A x \in notes' : Deserved(x)'
  <2> SUFFICES ASSUME NEW x \in notes' PROVE Deserved(x)'
    OBVIOUS
  <2>1. CASE x \in notes
    <3>1. Deserved(x)
      BY <1>1, <2>1 DEF TableInv, ReportsAreTrue, Active
    <3>2. page \in Nat /\ page' \in Nat /\ page <= page'
      BY <1>1, <1>2
    <3> QED BY <1>8, <3>1, <3>2, NotesStay
  <2>2. CASE x \in Oversize(page + 1)
    <3>1. page + 1 \in Nat
      BY <1>2
    <3>2. /\ GroupHeight > Max({0, Body(page + 1) - HeaderHeight})
          /\ x.first = Group.first /\ x.last = Group.last
      BY <1>1, <1>8, <2>2, <3>1, OversizeNotes
    <3>3. page' \in Nat /\ page + 1 \in 1 .. page'
      BY <1>1, <1>2
    <3> QED BY <1>8, <3>2, <3>3, GroupNotes
  <2>3. CASE x \in HeaderTooTall(page + 1)
    <3>1. x.code = "repeated_header_too_tall"
      BY <2>3 DEF HeaderTooTall, Note
    <3> QED BY <3>1 DEF Deserved
  <2> QED BY <1>1, <2>1, <2>2, <2>3
<1>13. /\ IsSeq(breaks') /\ Len(breaks') = page /\ breaks'[page] = turn
       /\ \A m \in 1 .. page - 1 : breaks'[m] = breaks[m]
  <2>1. Len(breaks) = page - 1
    BY <1>1 DEF TableInv, ReportsAreTrue, Active
  <2>2. PICK G : breaks \in Seq(G)
    BY DEF TableInv, IsSeq
  <2> DEFINE H == G \cup {turn}
  <2>3. breaks \in Seq(H) /\ turn \in H
    BY <2>2, SeqMonotonic
  <2> HIDE DEF H
  <2>4. /\ breaks' \in Seq(H) /\ Len(breaks') = (page - 1) + 1
        /\ breaks'[(page - 1) + 1] = turn
        /\ \A m \in 1 .. page - 1 : breaks'[m] = breaks[m]
    BY <1>1, <2>1, <2>3, AppendProperties
  <2>5. (page - 1) + 1 = page
    BY <1>2
  <2> QED BY <2>4, <2>5 DEF IsSeq
<1>14. TurnExplained(last)'
  <2>1. Remaining = IF Body(page) - cursor > 0 THEN Body(page) - cursor ELSE 0
    <3>1. Body(page) - cursor \in Int
      BY <1>2
    <3> QED BY <3>1, AtLeastNone DEF Remaining
  <2>2. turn.from = page /\ turn.required > turn.available /\ turn.before = Group.first
    BY <1>1, <1>2, <1>8, <2>1 DEF turn
  <2>3. turn.reason = "previous_overflow" <=> cursor > Body(page)
    BY <1>3 DEF turn
  <2>4. /\ BodyOf(placed') = BodyOf(placed) \cup {Len(q) + 1}
        /\ \A i \in BodyOf(placed) : placed'[i] = placed[i]
        /\ placed'[Len(q) + 1].page = page + 1 /\ placed'[Len(q) + 1].first = Group.first
    BY <1>8 DEF Extended, Unit
  <2>5. (\E i \in BodyOf(placed') : placed'[i].page = page /\ Overflows(placed[i])')
          <=> \E i \in BodyOf(placed) : placed[i].page = page /\ Ends(heights, placed[i]) > Body(page)
    <3>1. page + 1 # page
      BY <1>2
    <3>2. \A i \in BodyOf(placed) :
            placed[i].page = page => (Overflows(placed[i])' <=> Ends(heights, placed[i]) > Body(page))
      BY <1>8, <2>4 DEF Overflows, Ends, Height, Body
    <3> QED BY <2>4, <3>1, <3>2
  <2>6. (\E i \in BodyOf(placed) : placed[i].page = page /\ Ends(heights, placed[i]) > Body(page))
          <=> cursor > Body(page)
    <3>1. Ends(heights, placed[Len(placed)]) = cursor
      BY <1>2, <1>3, <1>4 DEF Ready
    <3>2. ASSUME NEW i \in BodyOf(placed), placed[i].page = page,
                 Ends(heights, placed[i]) > Body(page)
          PROVE  cursor > Body(page)
      <4>1. Ends(heights, placed[i]) <= cursor
        BY <1>3, <3>2
      <4>2. Ends(heights, placed[i]) \in Nat
        <5>1. IsUnit(table, placed[i])
          BY <1>5
        <5> QED BY <1>2, <5>1, UnitEnds
      <4> QED BY <1>2, <3>2, <4>1, <4>2
    <3> QED BY <1>3, <3>1, <3>2
  <2> QED BY <1>8, <1>13, <2>2, <2>3, <2>4, <2>5, <2>6 DEF TurnExplained
<1>15. \A m \in 1 .. page' - 1 : TurnExplained(m)'
  <2> SUFFICES ASSUME NEW m \in 1 .. page' - 1 PROVE TurnExplained(m)'
    OBVIOUS
  <2>1. m = page \/ m \in 1 .. page - 1
    BY <1>1, <1>2
  <2>2. CASE m \in 1 .. page - 1
    <3>1. page <= n /\ breaks'[m] = breaks[m]
      BY <1>2, <1>13, <2>2
    <3> QED BY <1>6, <2>2, <3>1, TurnsStay
  <2>3. CASE m = page
    <3>1. m = last
      BY <2>3
    <3> QED BY <1>14, <3>1
  <2> QED BY <2>1, <2>2, <2>3
<1>16. ReportsAreTrue'
  <2>1. Len(breaks') = page' - 1
    BY <1>1, <1>2, <1>13
  <2> QED BY <1>11, <1>12, <1>15, <2>1 DEF ReportsAreTrue
<1>17. AllPlaced'
  BY <1>1 DEF AllPlaced, Planned, Planning, PlaceAt
<1> QED BY <1>7, <1>10, <1>13, <1>16, <1>17 DEF TableInv

LEMMA GroupIsRelaxed ==
  ASSUME TableInv, RelaxGroup
  PROVE  TableInv'
<1> DEFINE t == table
           x == Note("keep_too_large", Group.first, Group.last)
<1>1. /\ Active /\ ~Planned /\ todo # <<>> /\ Len(Group.members) > 1
      /\ GroupHeight > AvailableBelowHeader
      /\ todo' = Group.members \o Tail(todo) /\ notes' = notes \cup {x}
      /\ UNCHANGED <<table, widths, heights, page, cursor, bodyPlaced, bodyOverflow,
                     placed, breaks, outcome>>
  BY DEF RelaxGroup, Planning, Planned, Active, Relaxable, TooTall
<1>2. Valid(t) /\ t.rows \in Nat /\ page \in Nat \ {0}
  BY <1>1, Sizes
<1>3. x.code = "keep_too_large" /\ x.first = Group.first /\ x.last = Group.last
  BY DEF Note
<1> HIDE DEF x
<1> DEFINE a == Due(t, placed, Len(placed) + 1)
<1>4. Grouped(t, todo, a, t.rows)
  BY <1>1 DEF TableInv, GroupsToCome
<1> HIDE DEF a
<1>5. a \in Int
  <2>1. Len(todo) \in Nat \ {0}
    BY <1>1, <1>4, TailIs
  <2>2. todo[1].first = a /\ 1 \in 1 .. Len(todo)
    BY <1>4, <2>1 DEF Grouped, InSequence
  <2> QED BY <1>2, <1>4, <2>2, GroupedFacts, GroupFacts
<1>6. /\ \A v, w \in Int : Covers(todo, v, w) =>
           Covers(Tail(todo), v, w) \/ (Group.first <= v /\ w <= Group.last)
      /\ Grouped(t, todo', a, t.rows)
      /\ \A v, w \in Int : Covers(Tail(todo), v, w) => Covers(todo', v, w)
  <2>1. Head(todo).members # <<>> /\ todo # <<>> /\ t.rows \in Int /\ Valid(t)
    BY <1>1, <1>2 DEF Group
  <2>2. /\ Grouped(t, Relaxed(todo), a, t.rows)
        /\ \A v, w \in Int : Covers(Tail(todo), v, w) => Covers(Relaxed(todo), v, w)
    BY <1>4, <1>5, <2>1, RelaxKeeps, Zenon
  <2>3. \A v, w \in Int : Covers(todo, v, w) =>
          Covers(Tail(todo), v, w) \/ (Group.first <= v /\ w <= Group.last)
    BY <1>1, <1>2, <1>4, <1>5, TailKeeps DEF Group
  <2>4. todo' = Relaxed(todo)
    BY <1>1 DEF Group, Relaxed
  <2> QED BY <2>2, <2>3, <2>4
<1>7. TableTyped' /\ NothingYet' /\ IsSeq(breaks)' /\ AllPlaced'
  BY <1>1 DEF TableInv, TableTyped, Bodies, NothingYet, Started, IsSeq, AllPlaced, Planned
<1>8. Measured' /\ UnitsInPlace'
  BY <1>1 DEF TableInv, Measured, UnitsInPlace, Active
<1>9. PageUsed'
  <2>1. Body(page)' = Body(page) /\ BodyOf(placed') = BodyOf(placed) /\ Active
    BY <1>1 DEF Body
  <2> QED BY <1>1, <2>1 DEF TableInv, PageUsed
<1>10. GroupsToCome'
  BY <1>1, <1>6 DEF GroupsToCome, a
<1>11. PoliciesKept'
  <2> SUFFICES ASSUME NEW w \in Asked(t), w[1] < w[2]
               PROVE  (Covers(todo, w[1], w[2]) \/ PlacedAsOne(w[1], w[2]) \/ Excused(w[1], w[2]))'
    BY <1>1 DEF PoliciesKept
  <2>1. w[1] \in Int /\ w[2] \in Int
    BY <1>2, GroupsAreMade
  <2>2. Covers(todo, w[1], w[2]) \/ PlacedAsOne(w[1], w[2]) \/ Excused(w[1], w[2])
    BY <1>1 DEF TableInv, PoliciesKept
  <2>3. CASE Covers(todo, w[1], w[2])
    <3>1. Covers(todo', w[1], w[2]) \/ (Group.first <= w[1] /\ w[2] <= Group.last)
      BY <1>6, <2>1, <2>3
    <3>2. Group.first <= w[1] /\ w[2] <= Group.last => Excused(w[1], w[2])'
      BY <1>1, <1>3 DEF Excused
    <3> QED BY <3>1, <3>2
  <2>4. CASE PlacedAsOne(w[1], w[2])
    BY <1>1, <2>4 DEF PlacedAsOne
  <2>5. CASE Excused(w[1], w[2])
    BY <1>1, <2>5 DEF Excused
  <2> QED BY <2>2, <2>3, <2>4, <2>5
<1>12. ReportsAreTrue'
  <2>1. /\ \A i \in BodyUnits :
             Overflows(placed[i]) /\ Height(placed[i].first, placed[i].last) > 0
               => OverflowReported(i)
        /\ \A y \in notes : Deserved(y)
        /\ Len(breaks) = page - 1 /\ \A m \in 1 .. page - 1 : TurnExplained(m)
    BY <1>1 DEF TableInv, ReportsAreTrue, Active
  <2>2. ASSUME NEW i \in BodyUnits',
               (Overflows(placed[i]) /\ Height(placed[i].first, placed[i].last) > 0)'
        PROVE  OverflowReported(i)'
    <3>1. i \in BodyUnits /\ Overflows(placed[i]) /\ Height(placed[i].first, placed[i].last) > 0
      BY <1>1, <2>2 DEF BodyUnits, Overflows, Height, Body
    <3>2. OverflowReported(i)
      BY <2>1, <3>1
    <3> QED BY <1>1, <3>2 DEF OverflowReported, Caption, BodyUnits
  <2>3. ASSUME NEW y \in notes' PROVE Deserved(y)'
    <3>1. CASE y \in notes
      <4>1. page \in Nat /\ page' \in Nat /\ page <= page' /\ table' = table /\ heights' = heights
        BY <1>1, <1>2
      <4> QED BY <2>1, <3>1, <4>1, NotesStay
    <3>2. CASE y = x
      <4>1. page' \in Nat /\ page \in 1 .. page' /\ table' = table /\ heights' = heights
        BY <1>1, <1>2
      <4>2. GroupHeight > Max({0, Body(page) - HeaderHeight})
        BY <1>1 DEF AvailableBelowHeader
      <4> QED BY <1>3, <3>2, <4>1, <4>2, GroupNotes
    <3> QED BY <1>1, <3>1, <3>2
  <2>4. ASSUME NEW m \in 1 .. page' - 1 PROVE TurnExplained(m)'
    <3>1. TurnExplained(m)
      BY <1>1, <2>1
    <3> QED BY <1>1, <3>1 DEF TurnExplained, BodyUnits, Overflows, Height, Body
  <2> QED BY <1>1, <2>1, <2>2, <2>3, <2>4 DEF ReportsAreTrue
<1> QED BY <1>7, <1>8, <1>9, <1>10, <1>11, <1>12 DEF TableInv

\* A step that only ends the planning, or none at all.
LEMMA PlanStays ==
  ASSUME TableInv, outcome' = outcome \/ outcome' \notin {"resolving", "planning"},
         outcome' = "planned" => outcome = "planned" \/ (Planning /\ todo = <<>>),
         UNCHANGED <<table, widths, heights, todo, page, cursor, bodyPlaced, bodyOverflow,
                     placed, breaks, notes>>
  PROVE  TableInv'
<1>1. /\ Active' => Active
      /\ Started' => Started
  BY DEF Active, Started, Planning
<1>2. TableTyped' /\ NothingYet' /\ IsSeq(breaks)' /\ AllPlaced'
  BY <1>1 DEF TableInv, TableTyped, Bodies, NothingYet, IsSeq, AllPlaced, Planned
<1>3. Measured' /\ UnitsInPlace'
  BY <1>1 DEF TableInv, Measured, UnitsInPlace
<1>4. PageUsed'
  <2>1. Body(page)' = Body(page)
    BY DEF Body
  <2> QED BY <1>1, <2>1 DEF TableInv, PageUsed
<1>5. GroupsToCome' /\ PoliciesKept'
  BY <1>1 DEF TableInv, GroupsToCome, PoliciesKept, PlacedAsOne, Excused
<1>6. ReportsAreTrue'
  <2> SUFFICES ASSUME Active' PROVE ReportsAreTrue'
    BY DEF ReportsAreTrue, Active
  <2>1. /\ \A i \in BodyUnits :
             Overflows(placed[i]) /\ Height(placed[i].first, placed[i].last) > 0
               => OverflowReported(i)
        /\ \A x \in notes : Deserved(x)
        /\ Len(breaks) = page - 1 /\ \A n \in 1 .. page - 1 : TurnExplained(n)
    BY <1>1 DEF TableInv, ReportsAreTrue, Active
  <2>2. BodyUnits' = BodyUnits /\ \A i : Overflows(placed[i])' <=> Overflows(placed[i])
    BY DEF BodyUnits, Overflows, Height, Body
  <2>3. (\A i \in BodyUnits :
           Overflows(placed[i]) /\ Height(placed[i].first, placed[i].last) > 0
             => OverflowReported(i))'
    BY <2>1, <2>2 DEF Height, OverflowReported, Caption
  <2>4. (\A x \in notes : Deserved(x))'
    BY <2>1 DEF Deserved, Height, HeaderHeight, Body
  <2>5. (\A n \in 1 .. page - 1 : TurnExplained(n))'
    BY <2>1, <2>2 DEF TurnExplained
  <2> QED BY <2>1, <2>3, <2>4, <2>5 DEF ReportsAreTrue
<1> QED BY <1>2, <1>3, <1>4, <1>5, <1>6 DEF TableInv

LEMMA TableInvKept == TableInv /\ [Next]_tableVars => TableInv'
<1> SUFFICES ASSUME TableInv, [Next]_tableVars PROVE TableInv'
  OBVIOUS
<1>1. CASE RejectTable
  <2>1. \A reason : Fail(reason) => outcome' = reason
    BY DEF Fail
  <2>2. \/ outcome' \in {"dimensions_invalid", "grid_invalid"}
        \/ Valid(table) /\ outcome' = ResolveColumnWidths(table).error /\ outcome' # "none"
    BY <1>1, <2>1 DEF RejectTable, TableInv, TableTyped, Valid
  <2>3. outcome' \notin {"resolving", "planning", "planned"}
    BY <2>2, WidthsAreEnough
  <2> QED BY <1>1, <2>3, PlanStays DEF RejectTable, Fail
<1>2. CASE ResolveTable
  BY <1>2, TableIsBegun
<1>3. CASE RelaxGroup
  BY <1>3, GroupIsRelaxed
<1>4. CASE PlaceHere
  BY <1>4, UnitIsPlacedHere
<1>5. CASE PlaceOnNextPage
  BY <1>5, UnitIsPlacedNext
<1>6. CASE ExceedPageLimit \/ Abandon
  BY <1>6, PlanStays DEF ExceedPageLimit, Abandon, Fail
<1>7. CASE Finish
  BY <1>7, PlanStays DEF Finish, Planning
<1>8. CASE Stopped \/ UNCHANGED tableVars
  BY <1>8, PlanStays DEF Stopped, tableVars
<1> QED BY <1>1, <1>2, <1>3, <1>4, <1>5, <1>6, <1>7, <1>8 DEF Next

(* The invariant that the four properties follow from holds of every plan  *)
(* that PlanTable makes, at each group it places or relaxes.               *)
THEOREM TableIsSound == Spec => []TableInv
BY TableBegins, TableInvKept, PTL DEF Spec

-----------------------------------------------------------------------------
(* No row of a table is lost, repeated or moved: the rows placed so far    *)
(* and the groups to come are the body rows in order (placeGroup,          *)
(* placeRows), the header begins every page that startPage begins, units   *)
(* are stacked without a gap, no spanning cell is divided, and no page is  *)
(* without a body row.                                                     *)
THEOREM RowsAreInOrder == Spec => []RowsInOrder
<1>1. TableInv => RowsInOrder
  <2> SUFFICES ASSUME TableInv, Active PROVE RowsInOrder
    BY DEF RowsInOrder, Active
  <2>1. /\ Spread(table, heights, placed, page)
        /\ Grouped(table, todo, Due(table, placed, Len(placed) + 1), table.rows)
        /\ Valid(table) /\ BodyUnits = BodyOf(placed)
    BY Sizes DEF TableInv, UnitsInPlace, GroupsToCome, BodyUnits, BodyOf
  <2>2. DOMAIN placed = 1 .. Len(placed) /\ Len(placed) \in Nat
    <3>1. PICK G : placed \in Seq(G)
      BY <2>1 DEF Spread, IsSeq
    <3> QED BY <3>1, LenProperties
  <2>3. \A i \in DOMAIN placed : IsUnit(table, placed[i]) /\ Follows(table, heights, placed, i)
    BY <2>1, <2>2 DEF Spread
  <2>4. \A i : RowDue(i) = Due(table, placed, i)
    BY <2>1 DEF RowDue, Due, Earlier
  <2>5. \A i \in BodyUnits : placed[i].first = RowDue(i) /\ placed[i].first <= placed[i].last
    <3> TAKE i \in BodyUnits
    <3>1. i \in DOMAIN placed
      BY DEF BodyUnits
    <3>2. IsUnit(table, placed[i]) /\ placed[i].first = Due(table, placed, i)
      BY <2>1, <2>3, <3>1 DEF Spread
    <3> QED BY <2>1, <2>4, <3>2, UnitFacts
  <2>6. InSequence(todo, RowDue(Len(placed) + 1), table.rows)
    BY <2>1, <2>4 DEF Grouped
  <2>7. \A i \in DOMAIN placed :
          LET u == placed[i]
              begins == i = 1 \/ u.page = placed[i - 1].page + 1
          IN /\ (u.policy = "header") = (begins /\ table.headerRows > 0)
             /\ begins => u.top = Caption(u.page)
             /\ ~begins => /\ u.page = placed[i - 1].page
                           /\ u.top = placed[i - 1].top
                                        + Height(placed[i - 1].first, placed[i - 1].last)
    BY <2>3 DEF Follows, Ends, Height, Caption, TopOf
  <2>8. \A c \in table.cells, i \in DOMAIN placed :
          RowsOf(c) \cap (placed[i].first .. placed[i].last) # {}
            => RowsOf(c) \subseteq placed[i].first .. placed[i].last
    BY <2>1, <2>3, SpansStayWhole
  <2>9. ASSUME Planned, table.rows > table.headerRows
        PROVE  \A n \in 1 .. page : \E i \in BodyUnits : placed[i].page = n
    <3>1. bodyPlaced
      <4>1. Len(todo) = 0
        BY <2>9 DEF TableInv, AllPlaced
      <4>2. RowDue(Len(placed) + 1) = table.rows + 1
        BY <2>6, <4>1 DEF InSequence
      <4>3. BodyUnits = {} => RowDue(Len(placed) + 1) = table.headerRows + 1
        BY DEF RowDue
      <4>4. table.rows \in Nat /\ table.headerRows \in Nat
        BY Sizes
      <4>5. BodyUnits # {}
        BY <2>9, <4>2, <4>3, <4>4
      <4> QED BY <2>1, <4>5 DEF TableInv, PageUsed
    <3>2. /\ Len(placed) \in BodyOf(placed) /\ placed[Len(placed)].page = page
          /\ \A n \in 1 .. page - 1 : \E i \in BodyOf(placed) : placed[i].page = n
      BY <3>1 DEF TableInv, PageUsed
    <3>3. \A n \in 1 .. page : n = page \/ n \in 1 .. page - 1
      BY Sizes
    <3> QED BY <2>1, <3>2, <3>3
  <2> QED BY <2>5, <2>6, <2>7, <2>8, <2>9 DEF RowsInOrder
<1> QED BY <1>1, TableIsSound, PTL

(* A table that is planned has rows and columns with room for every cell,  *)
(* as wide together as the table and each within its bounds                *)
(* (resolveTable).                                                         *)
THEOREM EveryCellHasRoom == Spec => []CellsHaveRoom
<1>1. TableInv => CellsHaveRoom
  <2> SUFFICES ASSUME TableInv, Active PROVE CellsHaveRoom
    BY DEF CellsHaveRoom, Active
  <2>1. /\ Valid(table) /\ heights = ResolveRowHeights(table)
        /\ widths \in FairWidths(table) /\ TotalWidth(widths) = table.width
        /\ \A c \in table.cells : c.minWidth <= SpanWidth(widths, c)
    BY WidthsAreEnough DEF TableInv, Measured
  <2>2. \A i \in DOMAIN widths :
          LET column == table.columns[i]
          IN /\ column.fixed => widths[i] = column.width
             /\ ~column.fixed => widths[i] >= column.min
             /\ column.max > 0 => widths[i] <= column.max
    BY <2>1 DEF FairWidths
  <2>3. \A c \in table.cells : c.height <= SumOf(heights, RowsOf(c))
    BY <2>1, HeightsAreEnough
  <2> QED BY <2>1, <2>2, <2>3 DEF CellsHaveRoom
<1> QED BY <1>1, TableIsSound, PTL

(* What a policy wants together is on one page of the finished plan, or a  *)
(* diagnostic says of all of its rows that they were too large to keep     *)
(* (placeGroup, which relaxes the groups that deriveBodyGroups has         *)
(* merged).                                                                *)
THEOREM WhatIsWantedIsKept == Spec => []PoliciesHold
<1>1. TableInv => PoliciesHold
  <2> SUFFICES ASSUME TableInv, Planned PROVE PoliciesHold
    BY DEF PoliciesHold
  <2>1. Active /\ todo = <<>> /\ BodyUnits = BodyOf(placed)
    BY DEF TableInv, AllPlaced, Active, Planned, BodyUnits, BodyOf
  <2>2. Valid(table) /\ page \in Nat \ {0} /\ Spread(table, heights, placed, page)
    BY <2>1, Sizes DEF TableInv, UnitsInPlace
  <2>3. ASSUME NEW v \in Int, NEW w \in Int, PlacedAsOne(v, w) PROVE Together(v, w)
    <3>1. PICK i \in BodyUnits : placed[i].first <= v /\ w <= placed[i].last
      BY <2>1, <2>3 DEF PlacedAsOne
    <3>2. i \in 1 .. Len(placed)
      <4>1. PICK G : placed \in Seq(G)
        BY <2>2 DEF Spread, IsSeq
      <4> QED BY <4>1, LenProperties DEF BodyUnits
    <3>3. IsUnit(table, placed[i]) /\ placed[i].page <= page
      BY <2>2, <3>2 DEF Spread
    <3>4. placed[i].page \in 1 .. page /\ placed[i].first \in Int /\ placed[i].last \in Int
      BY <2>2, <3>3, UnitFacts
    <3>5. \A r \in v .. w : r \in placed[i].first .. placed[i].last
      BY <3>1, <3>4
    <3> QED BY <3>4, <3>5 DEF Together
  <2>4. ASSUME NEW w \in Asked(table) PROVE Wanted(w[1], w[2])
    <3> SUFFICES ASSUME w[1] < w[2] PROVE Together(w[1], w[2]) \/ Excused(w[1], w[2])
      BY DEF Wanted
    <3>1. w[1] \in Int /\ w[2] \in Int
      BY <2>2, GroupsAreMade
    <3>2. ~Covers(todo, w[1], w[2])
      BY <2>1 DEF Covers
    <3> QED BY <2>1, <2>3, <3>1, <3>2 DEF TableInv, PoliciesKept
  <2>5. table.keepTogether => Wanted(table.headerRows + 1, table.rows)
    <3> HAVE table.keepTogether
    <3>1. <<table.headerRows + 1, table.rows>> \in Asked(table)
      BY DEF Asked
    <3> QED BY <2>4, <3>1
  <2>6. \A r \in BodyRows(table) \ {table.rows} : table.keepWithNext[r] => Wanted(r, r + 1)
    <3> TAKE r \in BodyRows(table) \ {table.rows}
    <3> HAVE table.keepWithNext[r]
    <3>1. <<r, r + 1>> \in Asked(table)
      BY DEF Asked
    <3> QED BY <2>4, <3>1
  <2>7. ~table.keepTogether =>
          /\ Wanted(table.headerRows + 1, table.headerRows + table.orphans)
          /\ Wanted(table.rows - table.widows + 1, table.rows)
    <3> HAVE ~table.keepTogether
    <3>1. /\ <<table.headerRows + 1, table.headerRows + table.orphans>> \in Asked(table)
          /\ <<table.rows - table.widows + 1, table.rows>> \in Asked(table)
      BY DEF Asked
    <3> QED BY <2>4, <3>1
  <2> QED BY <2>5, <2>6, <2>7 DEF PoliciesHold
<1> QED BY <1>1, TableIsSound, PTL

(* What a plan reports is what happened: rows that end below the page are  *)
(* the first there and reported, or under the caption; rows are reported   *)
(* only if they are taller than some page; and each page turn is explained *)
(* by one break that says truly what was lacking (noteOversize,            *)
(* placeGroup).                                                            *)
THEOREM ReportsAreRight == Spec => []ReportsAreTrue
<1>1. TableInv => ReportsAreTrue
  BY DEF TableInv
<1> QED BY <1>1, TableIsSound, PTL
=============================================================================
