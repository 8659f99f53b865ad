----------------------------- MODULE FoldLemmas -----------------------------
(***************************************************************************)
(* Folds over finite sets.  The fold operators of the community modules    *)
(* take the elements of a set one at a time, each chosen by pick, and      *)
(* combine it by op with the result for the others; a recursive function   *)
(* on the parts of the set defines the result.  Proved here: that this     *)
(* function exists, how the result is made up, what it inherits from the   *)
(* values combined, and when the order does not matter.  A proof about a   *)
(* sum, or about a left fold of a sequence, takes an instance.             *)
(***************************************************************************)
EXTENDS Integers, FiniteSets, FiniteSetsExt, FiniteSetTheorems, WellFoundedInduction, TLAPS

CONSTANTS
  op(_, _),  \* combines a value and the result for the other elements
  pick(_)    \* chooses the element taken first

(* Induction, for a set of numbers.                                        *)
LEMMA SetInduction ==
  ASSUME NEW T \in SUBSET Nat, 0 \in T, \A n \in T : n + 1 \in T
  PROVE  T = Nat
<1> DEFINE rest == Nat \ T
<1>1. SUFFICES ASSUME rest # {} PROVE FALSE
  OBVIOUS
<1>2. PICK m \in rest : \A n \in rest : ~(<<n, m>> \in OpToRel(<, Nat))
  BY <1>1, WFMin, NatLessThanWellFounded
<1>3. m \in Nat /\ m # 0 /\ m - 1 \in Nat /\ m - 1 < m
  OBVIOUS
<1>4. \A n \in Nat : n < m => <<n, m>> \in OpToRel(<, Nat)
  <2> HIDE DEF rest
  <2>. QED BY <1>3, Zenon DEF OpToRel
<1>5. m - 1 \in T
  BY <1>2, <1>3, <1>4
<1>6. (m - 1) + 1 \in T
  BY <1>5
<1>. QED BY <1>3, <1>6

(* What stays at every step stays for good, and what takes the same steps  *)
(* goes the same way.                                                      *)
LEMMA StaysAsItIs ==
  ASSUME NEW f, NEW m \in Nat, NEW n \in Nat, m <= n,
         \A k \in m + 1 .. n : f[k - 1] = f[m] => f[k] = f[m]
  PROVE  f[n] = f[m]
<1> DEFINE T == {k \in Nat : m + k <= n => f[m + k] = f[m]}
<1>1. 0 \in T
  OBVIOUS
<1>2. ASSUME NEW k \in T PROVE k + 1 \in T
  <2> SUFFICES ASSUME m + (k + 1) <= n PROVE f[m + (k + 1)] = f[m]
    OBVIOUS
  <2>1. m + (k + 1) \in m + 1 .. n /\ (m + (k + 1)) - 1 = m + k /\ m + k <= n
    OBVIOUS
  <2>2. f[m + k] = f[m]
    BY <2>1
  <2>. QED BY <2>1, <2>2
<1>3. T \in SUBSET Nat
  OBVIOUS
<1> HIDE DEF T
<1>4. T = Nat
  BY <1>1, <1>2, <1>3, SetInduction
<1>5. n - m \in T /\ m + (n - m) = n
  BY <1>4
<1>. QED BY <1>5 DEF T

LEMMA StepForStep ==
  ASSUME NEW f, NEW g, NEW m \in Nat, f[0] = g[0],
         \A k \in 1 .. m : f[k - 1] = g[k - 1] => f[k] = g[k]
  PROVE  f[m] = g[m]
<1> DEFINE T == {k \in Nat : k <= m => f[k] = g[k]}
<1>1. 0 \in T
  OBVIOUS
<1>2. ASSUME NEW k \in T PROVE k + 1 \in T
  <2> SUFFICES ASSUME k + 1 <= m PROVE f[k + 1] = g[k + 1]
    OBVIOUS
  <2>1. k + 1 \in 1 .. m /\ (k + 1) - 1 = k /\ k <= m
    OBVIOUS
  <2>2. f[k] = g[k]
    BY <2>1
  <2>. QED BY <2>1, <2>2
<1>3. T \in SUBSET Nat
  OBVIOUS
<1> HIDE DEF T
<1>4. T = Nat
  BY <1>1, <1>2, <1>3, SetInduction
<1>5. m \in T
  BY <1>4
<1>. QED BY <1>5 DEF T

LEMMA Smaller ==
  ASSUME NEW S, IsFiniteSet(S), NEW s \in SUBSET S, NEW x \in s
  PROVE  /\ s \ {x} \in SUBSET S /\ IsFiniteSet(s)
         /\ Cardinality(s) \in Nat /\ Cardinality(s \ {x}) = Cardinality(s) - 1
BY FS_Subset, FS_CardinalityType, FS_RemoveElement

LEMMA Larger ==
  ASSUME NEW S, IsFiniteSet(S), NEW s \in SUBSET S
  PROVE  s = {} <=> Cardinality(s) = 0
BY FS_Subset, FS_EmptySet

(* What holds of the empty part, and of a part whenever it holds of the    *)
(* smaller ones, holds of all parts: Q is the set of those it holds of.    *)
LEMMA PartsInduction ==
  ASSUME NEW S, IsFiniteSet(S), NEW Q,
         \A s \in SUBSET S :
           (\A t \in SUBSET S : Cardinality(t) < Cardinality(s) => t \in Q) => s \in Q
  PROVE  SUBSET S \subseteq Q
<1> DEFINE T == {m \in Nat : \A s \in SUBSET S : Cardinality(s) < m => s \in Q}
<1>1. \A s \in SUBSET S : Cardinality(s) \in Nat
  BY FS_Subset, FS_CardinalityType
<1>2. 0 \in T
  BY <1>1
<1>3. ASSUME NEW m \in T PROVE m + 1 \in T
  <2>1. ASSUME NEW s \in SUBSET S, Cardinality(s) < m + 1 PROVE s \in Q
    <3>1. \A t \in SUBSET S : Cardinality(t) < Cardinality(s) => Cardinality(t) < m
      BY <1>1, <2>1
    <3>. QED BY <3>1
  <2>. QED BY <2>1
<1>4. T = Nat
  <2>1. T \in SUBSET Nat
    OBVIOUS
  <2> HIDE DEF T
  <2>. QED BY <1>2, <1>3, <2>1, SetInduction
<1>5. \A s \in SUBSET S : Cardinality(s) + 1 \in T /\ Cardinality(s) < Cardinality(s) + 1
  BY <1>1, <1>4
<1>. QED BY <1>5

(* g gives every part the result of the fold of f over it, from base on.   *)
FoldsOn(f, base, parts, g) ==
  g = [s \in parts |-> IF s = {} THEN base ELSE op(f[pick(s)], g[s \ {pick(s)}])]

Folds(f, base, S, g) == FoldsOn(f, base, SUBSET S, g)

FoldOf(f, base, S) == (CHOOSE g : Folds(f, base, S, g))[S]

Picks(S) == \A s \in SUBSET S : s # {} => pick(s) \in s

(* Up to a size, the results for the parts can be given.                   *)
Upto(S, n) == {s \in SUBSET S : Cardinality(s) <= n}

LEMMA FoldsUpto ==
  ASSUME NEW f, NEW base, NEW S, IsFiniteSet(S), Picks(S), NEW n \in Nat
  PROVE  \E g : FoldsOn(f, base, Upto(S, n), g)
<1> DEFINE Good(m, g) == FoldsOn(f, base, Upto(S, m), g)
           T == {m \in Nat : \E g : Good(m, g)}
<1>1. 0 \in T
  <2> DEFINE g == [s \in Upto(S, 0) |-> base]
  <2>1. \A s \in Upto(S, 0) : s = {}
    BY Larger, FS_Subset, FS_CardinalityType DEF Upto
  <2>2. g = [s \in Upto(S, 0) |-> IF s = {} THEN base ELSE op(f[pick(s)], g[s \ {pick(s)}])]
    BY <2>1
  <2>. QED BY <2>2 DEF FoldsOn
<1>2. ASSUME NEW m \in T PROVE m + 1 \in T
  <2>1. m \in Nat
    OBVIOUS
  <2>2. PICK g : Good(m, g)
    BY <1>2
  <2> DEFINE h == [s \in Upto(S, m + 1) |-> IF s = {} THEN base ELSE op(f[pick(s)], g[s \ {pick(s)}])]
  <2>3. \A s \in Upto(S, m + 1) : s # {} => s \ {pick(s)} \in Upto(S, m)
    <3> TAKE s \in Upto(S, m + 1)
    <3> HAVE s # {}
    <3>1. pick(s) \in s /\ s \in SUBSET S /\ Cardinality(s) <= m + 1
      BY DEF Upto, Picks
    <3>2. /\ s \ {pick(s)} \in SUBSET S /\ Cardinality(s) \in Nat
          /\ Cardinality(s \ {pick(s)}) = Cardinality(s) - 1
      BY <3>1, Smaller
    <3>. QED BY <2>1, <3>1, <3>2 DEF Upto
  <2>4. \A s \in Upto(S, m) : s \in Upto(S, m + 1)
    BY <2>1, FS_Subset, FS_CardinalityType DEF Upto
  <2>5. \A s \in Upto(S, m) : h[s] = g[s]
    BY <2>2, <2>4 DEF FoldsOn
  <2>6. h = [s \in Upto(S, m + 1) |-> IF s = {} THEN base ELSE op(f[pick(s)], h[s \ {pick(s)}])]
    BY <2>3, <2>5
  <2>7. Good(m + 1, h)
    BY <2>6 DEF FoldsOn
  <2> HIDE DEF h
  <2>8. \E k : Good(m + 1, k)
    BY <2>7
  <2>. QED BY <2>1, <2>8
<1>3. T = Nat
  <2> HIDE DEF Good
  <2>1. T \in SUBSET Nat
    OBVIOUS
  <2> HIDE DEF T
  <2>. QED BY <1>1, <1>2, <2>1, SetInduction
<1>4. n \in T
  BY <1>3
<1>. QED BY <1>4

(* The results for all parts of a finite set can be given, and this is     *)
(* what FoldOf chooses.                                                    *)
LEMMA FoldsChosen ==
  ASSUME NEW f, NEW base, NEW S, IsFiniteSet(S), Picks(S)
  PROVE  \E g : Folds(f, base, S, g) /\ FoldOf(f, base, S) = g[S]
<1>1. Cardinality(S) \in Nat
  BY FS_CardinalityType
<1>2. Upto(S, Cardinality(S)) = SUBSET S
  BY FS_Subset DEF Upto
<1>3. \E g : Folds(f, base, S, g)
  <2>1. \E g : FoldsOn(f, base, Upto(S, Cardinality(S)), g)
    BY <1>1, FoldsUpto
  <2>. QED BY <1>2, <2>1 DEF Folds
<1>4. Folds(f, base, S, CHOOSE g : Folds(f, base, S, g))
  BY <1>3, Zenon
<1>. QED BY <1>4 DEF FoldOf

LEMMA FoldsStart ==
  ASSUME NEW f, NEW base, NEW S, NEW g, Folds(f, base, S, g)
  PROVE  g[{}] = base
BY DEF Folds, FoldsOn

LEMMA FoldsStep ==
  ASSUME NEW f, NEW base, NEW S, Picks(S), NEW g, Folds(f, base, S, g),
         NEW s \in SUBSET S, s # {}
  PROVE  pick(s) \in s /\ g[s] = op(f[pick(s)], g[s \ {pick(s)}])
BY DEF Folds, FoldsOn, Picks

(* A part has the same result whatever larger set it is taken as part of.  *)
LEMMA FoldsAgree ==
  ASSUME NEW f, NEW base, NEW S, IsFiniteSet(S), Picks(S), NEW T \in SUBSET S,
         NEW g, Folds(f, base, S, g), NEW h, Folds(f, base, T, h)
  PROVE  \A s \in SUBSET T : g[s] = h[s]
<1> DEFINE Q == {s \in SUBSET T : g[s] = h[s]}
<1>1. IsFiniteSet(T) /\ Picks(T)
  BY FS_Subset DEF Picks
<1>2. ASSUME NEW s \in SUBSET T,
             \A t \in SUBSET T : Cardinality(t) < Cardinality(s) => t \in Q
      PROVE  s \in Q
  <2>1. CASE s = {}
    <3>1. g[{}] = base /\ h[{}] = base
      BY FoldsStart
    <3>. QED BY <2>1, <3>1
  <2>2. CASE s # {}
    <3> DEFINE r == s \ {pick(s)}
    <3>1. pick(s) \in s /\ g[s] = op(f[pick(s)], g[r]) /\ h[s] = op(f[pick(s)], h[r])
      BY <1>1, <2>2, FoldsStep
    <3>2. r \in SUBSET T /\ Cardinality(r) < Cardinality(s)
      BY <1>1, <3>1, Smaller
    <3>3. g[r] = h[r]
      BY <1>2, <3>2
    <3>. QED BY <3>1, <3>3
  <2>. QED BY <2>1, <2>2
<1>3. SUBSET T \subseteq Q
  <2> HIDE DEF Q
  <2>. QED BY <1>1, <1>2, PartsInduction
<1>. QED BY <1>3

-----------------------------------------------------------------------------
(* How a result is made up.                                                *)

LEMMA FoldOfNone ==
  ASSUME NEW f, NEW base
  PROVE  FoldOf(f, base, {}) = base
<1>1. Picks({})
  BY DEF Picks
<1>2. PICK g : Folds(f, base, {}, g) /\ FoldOf(f, base, {}) = g[{}]
  BY <1>1, FS_EmptySet, FoldsChosen
<1>. QED BY <1>2, FoldsStart

LEMMA FoldOfSome ==
  ASSUME NEW f, NEW base, NEW S, IsFiniteSet(S), Picks(S), S # {}
  PROVE  /\ pick(S) \in S
         /\ FoldOf(f, base, S) = op(f[pick(S)], FoldOf(f, base, S \ {pick(S)}))
<1> DEFINE T == S \ {pick(S)}
<1>1. IsFiniteSet(T) /\ T \in SUBSET S /\ Picks(T) /\ pick(S) \in S
  BY FS_Subset DEF Picks
<1>2. PICK g : Folds(f, base, S, g) /\ FoldOf(f, base, S) = g[S]
  BY FoldsChosen
<1>3. PICK h : Folds(f, base, T, h) /\ FoldOf(f, base, T) = h[T]
  BY <1>1, FoldsChosen
<1>4. g[T] = h[T]
  BY <1>1, <1>2, <1>3, FoldsAgree
<1>5. g[S] = op(f[pick(S)], g[T])
  BY <1>2, FoldsStep
<1>. QED BY <1>1, <1>2, <1>3, <1>4, <1>5

LEMMA FoldOfSame ==
  ASSUME NEW f, NEW h, NEW base, NEW S, Picks(S), \A x \in S : f[x] = h[x]
  PROVE  FoldOf(f, base, S) = FoldOf(h, base, S)
<1>0. \A s \in SUBSET S : s # {} => f[pick(s)] = h[pick(s)]
  BY DEF Picks
<1>1. \A g : [s \in SUBSET S |-> IF s = {} THEN base ELSE op(f[pick(s)], g[s \ {pick(s)}])]
              = [s \in SUBSET S |-> IF s = {} THEN base ELSE op(h[pick(s)], g[s \ {pick(s)}])]
  BY <1>0
<1>2. \A g : Folds(f, base, S, g) <=> Folds(h, base, S, g)
  BY <1>1 DEF Folds, FoldsOn
<1>3. (CHOOSE g : Folds(f, base, S, g)) = (CHOOSE g : Folds(h, base, S, g))
  BY <1>2
<1>. QED BY <1>3 DEF FoldOf

-----------------------------------------------------------------------------
(* What a result inherits.                                                 *)

(* V holds for the base and is kept by every element, so it holds for the  *)
(* results.                                                                *)
LEMMA FoldsStay ==
  ASSUME NEW V, NEW base \in V, NEW S, IsFiniteSet(S), Picks(S), NEW f,
         \A x \in S : \A v \in V : op(f[x], v) \in V,
         NEW g, Folds(f, base, S, g)
  PROVE  \A s \in SUBSET S : g[s] \in V
<1> DEFINE Q == {s \in SUBSET S : g[s] \in V}
<1>1. ASSUME NEW s \in SUBSET S,
             \A t \in SUBSET S : Cardinality(t) < Cardinality(s) => t \in Q
      PROVE  s \in Q
  <2>1. CASE s = {}
    <3>1. g[{}] = base
      BY FoldsStart
    <3>. QED BY <2>1, <3>1
  <2>2. CASE s # {}
    <3> DEFINE r == s \ {pick(s)}
    <3>0. Picks(S) /\ Folds(f, base, S, g) /\ s \in SUBSET S /\ s # {}
      BY <2>2
    <3>1. pick(s) \in s /\ g[s] = op(f[pick(s)], g[r])
      BY <3>0 DEF Folds, FoldsOn, Picks
    <3>2. r \in SUBSET S /\ Cardinality(r) < Cardinality(s)
      BY <3>1, Smaller
    <3>3. g[r] \in V
      BY <1>1, <3>2
    <3>. QED BY <3>1, <3>3
  <2>. QED BY <2>1, <2>2
<1>2. SUBSET S \subseteq Q
  <2> HIDE DEF Q
  <2>. QED BY <1>1, PartsInduction
<1>. QED BY <1>2

LEMMA FoldStays ==
  ASSUME NEW V, NEW base \in V, NEW S, IsFiniteSet(S), Picks(S), NEW f,
         \A x \in S : \A v \in V : op(f[x], v) \in V
  PROVE  FoldOf(f, base, S) \in V
<1>1. PICK g : Folds(f, base, S, g) /\ FoldOf(f, base, S) = g[S]
  BY FoldsChosen
<1>. QED BY <1>1, FoldsStay

-----------------------------------------------------------------------------
(* When the order does not matter.                                         *)

Exchange(V, f, S) ==
  /\ \A x \in S : \A v \in V : op(f[x], v) \in V
  /\ \A x, y \in S : \A v \in V : op(f[x], op(f[y], v)) = op(f[y], op(f[x], v))

LEMMA FoldsInAnyOrder ==
  ASSUME NEW V, NEW base \in V, NEW S, IsFiniteSet(S), Picks(S), NEW f, Exchange(V, f, S),
         NEW g, Folds(f, base, S, g)
  PROVE  \A s \in SUBSET S : \A x \in s : g[s] = op(f[x], g[s \ {x}])
<1> DEFINE Q == {s \in SUBSET S : \A x \in s : g[s] = op(f[x], g[s \ {x}])}
<1>0. \A s \in SUBSET S : g[s] \in V
  BY FoldsStay DEF Exchange
<1>1. ASSUME NEW s \in SUBSET S,
             \A t \in SUBSET S : Cardinality(t) < Cardinality(s) => t \in Q
      PROVE  s \in Q
  <2>1. ASSUME NEW x \in s PROVE g[s] = op(f[x], g[s \ {x}])
    <3> DEFINE y == pick(s)
    <3>0. s # {}
      OBVIOUS
    <3>1. y \in s /\ g[s] = op(f[y], g[s \ {y}])
      BY <3>0, FoldsStep
    <3>2. CASE x = y
      BY <3>1, <3>2
    <3>3. CASE x # y
      <4> DEFINE r == s \ {x, y}
      <4>0. /\ s \ {y} \in SUBSET S /\ Cardinality(s \ {y}) < Cardinality(s)
            /\ s \ {x} \in SUBSET S /\ Cardinality(s \ {x}) < Cardinality(s)
        BY <3>1, Smaller
      <4>1. s \ {y} \in Q /\ s \ {x} \in Q
        <5> HIDE DEF Q
        <5>. QED BY <1>1, <4>0
      <4>2. (s \ {y}) \ {x} = r /\ (s \ {x}) \ {y} = r /\ x \in s \ {y} /\ y \in s \ {x}
        BY <3>1, <3>3
      <4>3. g[s \ {y}] = op(f[x], g[r]) /\ g[s \ {x}] = op(f[y], g[r])
        BY <4>1, <4>2
      <4>4. x \in S /\ y \in S /\ g[r] \in V
        BY <1>0, <3>1
      <4>5. op(f[y], op(f[x], g[r])) = op(f[x], op(f[y], g[r]))
        BY <4>4 DEF Exchange
      <4> HIDE DEF r, y
      <4>. QED BY <3>1, <4>3, <4>5
    <3>. QED BY <3>2, <3>3
  <2>. QED BY <2>1
<1>2. SUBSET S \subseteq Q
  <2> HIDE DEF Q
  <2>. QED BY <1>1, PartsInduction
<1>. QED BY <1>2

LEMMA FoldWithout ==
  ASSUME NEW V, NEW base \in V, NEW S, IsFiniteSet(S), Picks(S), NEW f, Exchange(V, f, S),
         NEW x \in S
  PROVE  FoldOf(f, base, S) = op(f[x], FoldOf(f, base, S \ {x}))
<1> DEFINE T == S \ {x}
<1>1. IsFiniteSet(T) /\ T \in SUBSET S /\ Picks(T)
  BY FS_Subset DEF Picks
<1>2. PICK g : Folds(f, base, S, g) /\ FoldOf(f, base, S) = g[S]
  BY FoldsChosen
<1>3. PICK h : Folds(f, base, T, h) /\ FoldOf(f, base, T) = h[T]
  BY <1>1, FoldsChosen
<1>4. g[T] = h[T]
  BY <1>1, <1>2, <1>3, FoldsAgree
<1>5. g[S] = op(f[x], g[T])
  BY <1>2, FoldsInAnyOrder
<1>. QED BY <1>2, <1>3, <1>4, <1>5

LEMMA FoldWith ==
  ASSUME NEW V, NEW base \in V, NEW S, IsFiniteSet(S), NEW x, x \notin S,
         Picks(S \cup {x}), NEW f, Exchange(V, f, S \cup {x})
  PROVE  FoldOf(f, base, S \cup {x}) = op(f[x], FoldOf(f, base, S))
<1> DEFINE T == S \cup {x}
<1>1. IsFiniteSet(T) /\ x \in T /\ T \ {x} = S
  BY FS_AddElement
<1> HIDE DEF T
<1>2. FoldOf(f, base, T) = op(f[x], FoldOf(f, base, S))
  <2>1. Picks(T) /\ Exchange(V, f, T)
    BY DEF T
  <2>. QED BY <1>1, <2>1, FoldWithout
<1>. QED BY <1>2 DEF T

-----------------------------------------------------------------------------
(* Sums of natural numbers.                                                *)

Summing(f, S) ==
  /\ IsFiniteSet(S) /\ Picks(S)
  /\ \A x \in S : f[x] \in Nat
  /\ \A x, y \in Nat : op(x, y) = x + y

LEMMA SumsOfParts ==
  ASSUME NEW f, NEW S, Summing(f, S), NEW T \in SUBSET S
  PROVE  Summing(f, T)
BY FS_Subset DEF Summing, Picks

LEMMA SumExchange ==
  ASSUME NEW f, NEW S, Summing(f, S)
  PROVE  Exchange(Nat, f, S)
<1>1. \A x \in S : \A v \in Nat : op(f[x], v) = f[x] + v /\ f[x] + v \in Nat
  BY DEF Summing
<1>2. ASSUME NEW x \in S, NEW y \in S, NEW v \in Nat
      PROVE  op(f[x], op(f[y], v)) = op(f[y], op(f[x], v))
  <2>1. f[x] \in Nat /\ f[y] \in Nat
    BY DEF Summing
  <2>2. op(f[x], op(f[y], v)) = f[x] + (f[y] + v) /\ op(f[y], op(f[x], v)) = f[y] + (f[x] + v)
    BY <1>1, <2>1
  <2>. QED BY <2>1, <2>2
<1>3. \A x \in S : \A v \in Nat : op(f[x], v) \in Nat
  BY <1>1
<1>. QED BY <1>2, <1>3, Zenon DEF Exchange

LEMMA SumIsNatural ==
  ASSUME NEW f, NEW S, Summing(f, S)
  PROVE  FoldOf(f, 0, S) \in Nat
<1>1. \A x \in S : \A v \in Nat : op(f[x], v) \in Nat
  BY SumExchange DEF Exchange
<1>2. IsFiniteSet(S) /\ Picks(S) /\ 0 \in Nat
  BY DEF Summing
<1>. QED BY <1>1, <1>2, FoldStays

LEMMA SumWithout ==
  ASSUME NEW f, NEW S, Summing(f, S), NEW x \in S
  PROVE  /\ f[x] \in Nat /\ FoldOf(f, 0, S \ {x}) \in Nat
         /\ FoldOf(f, 0, S) = f[x] + FoldOf(f, 0, S \ {x})
<1>1. f[x] \in Nat /\ FoldOf(f, 0, S \ {x}) \in Nat
  BY SumIsNatural, SumsOfParts DEF Summing
<1>2. IsFiniteSet(S) /\ Picks(S) /\ Exchange(Nat, f, S) /\ 0 \in Nat
  BY SumExchange DEF Summing
<1>3. FoldOf(f, 0, S) = op(f[x], FoldOf(f, 0, S \ {x}))
  BY <1>2, FoldWithout
<1>. QED BY <1>1, <1>3 DEF Summing

LEMMA SumWith ==
  ASSUME NEW f, NEW S, NEW x, x \notin S, Summing(f, S \cup {x})
  PROVE  /\ f[x] \in Nat /\ FoldOf(f, 0, S) \in Nat
         /\ FoldOf(f, 0, S \cup {x}) = f[x] + FoldOf(f, 0, S)
<1> DEFINE T == S \cup {x}
<1>1. x \in T /\ T \ {x} = S /\ Summing(f, T)
  OBVIOUS
<1> HIDE DEF T
<1>2. f[x] \in Nat /\ FoldOf(f, 0, T \ {x}) \in Nat /\ FoldOf(f, 0, T) = f[x] + FoldOf(f, 0, T \ {x})
  BY <1>1, SumWithout
<1>. QED BY <1>1, <1>2 DEF T

(* A sum is the sum of a part and the sum of the rest.                     *)
LEMMA SumOfRest ==
  ASSUME NEW f, NEW S, Summing(f, S), NEW T \in SUBSET S
  PROVE  /\ FoldOf(f, 0, T) \in Nat /\ FoldOf(f, 0, S \ T) \in Nat
         /\ FoldOf(f, 0, S) = FoldOf(f, 0, T) + FoldOf(f, 0, S \ T)
<1> DEFINE Q == {s \in SUBSET S : FoldOf(f, 0, s) = FoldOf(f, 0, T \cap s) + FoldOf(f, 0, s \ T)}
<1>0. \A s \in SUBSET S : Summing(f, s) /\ FoldOf(f, 0, s) \in Nat
  BY SumsOfParts, SumIsNatural
<1>1. ASSUME NEW s \in SUBSET S,
             \A t \in SUBSET S : Cardinality(t) < Cardinality(s) => t \in Q
      PROVE  s \in Q
  <2>1. CASE s = {}
    <3>1. T \cap s = {} /\ s \ T = {} /\ FoldOf(f, 0, {}) = 0
      BY <2>1, FoldOfNone
    <3>2. 0 = 0 + 0
      OBVIOUS
    <3>. QED BY <2>1, <3>1, <3>2
  <2>2. ASSUME NEW x \in s PROVE s \in Q
    <3> DEFINE r == s \ {x}
    <3>1. r \in SUBSET S /\ Cardinality(r) < Cardinality(s)
      BY Smaller DEF Summing
    <3>2. r \in Q
      <4> HIDE DEF Q
      <4>. QED BY <1>1, <3>1
    <3>3. FoldOf(f, 0, r) = FoldOf(f, 0, T \cap r) + FoldOf(f, 0, r \ T)
      BY <3>2
    <3>4. f[x] \in Nat /\ FoldOf(f, 0, r) \in Nat /\ FoldOf(f, 0, s) = f[x] + FoldOf(f, 0, r)
      BY <1>0, SumWithout
    <3>5. FoldOf(f, 0, T \cap r) \in Nat /\ FoldOf(f, 0, r \ T) \in Nat
      BY <1>0
    <3>6. PICK a, b, c, d, e : /\ a = FoldOf(f, 0, s) /\ b = FoldOf(f, 0, T \cap s)
                               /\ c = FoldOf(f, 0, s \ T) /\ d = FoldOf(f, 0, T \cap r)
                               /\ e = FoldOf(f, 0, r \ T)
      OBVIOUS
    <3>7. a = f[x] + (d + e) /\ f[x] \in Nat /\ d \in Nat /\ e \in Nat
      BY <3>3, <3>4, <3>5, <3>6, Zenon
    <3>8. CASE x \in T
      <4>1. x \in T \cap s /\ (T \cap s) \ {x} = T \cap r /\ s \ T = r \ T /\ Summing(f, T \cap s)
        BY <1>0, <3>8
      <4>2. FoldOf(f, 0, T \cap s) = f[x] + FoldOf(f, 0, (T \cap s) \ {x})
        BY <4>1, SumWithout
      <4>3. b = f[x] + d /\ c = e
        BY <3>6, <4>1, <4>2, Zenon
      <4>4. a = b + c
        BY <3>7, <4>3
      <4>. QED BY <3>6, <4>4, Zenon
    <3>9. CASE x \notin T
      <4>1. x \in s \ T /\ (s \ T) \ {x} = r \ T /\ T \cap s = T \cap r /\ Summing(f, s \ T)
        BY <1>0, <3>9
      <4>2. FoldOf(f, 0, s \ T) = f[x] + FoldOf(f, 0, (s \ T) \ {x})
        BY <4>1, SumWithout
      <4>3. c = f[x] + e /\ b = d
        BY <3>6, <4>1, <4>2, Zenon
      <4>4. a = b + c
        BY <3>7, <4>3
      <4>. QED BY <3>6, <4>4, Zenon
    <3>. QED BY <3>8, <3>9
  <2>. QED BY <2>1, <2>2
<1>2. SUBSET S \subseteq Q
  <2>1. IsFiniteSet(S)
    BY DEF Summing
  <2> HIDE DEF Q
  <2>. QED BY <1>1, <2>1, PartsInduction
<1>3. S \in Q /\ T \cap S = T /\ T \in SUBSET S /\ S \ T \in SUBSET S
  BY <1>2
<1>. QED BY <1>0, <1>3

(* A part of a sum is at most the sum.                                     *)
LEMMA SumOfPart ==
  ASSUME NEW f, NEW S, Summing(f, S), NEW T \in SUBSET S
  PROVE  FoldOf(f, 0, T) <= FoldOf(f, 0, S)
<1>1. /\ FoldOf(f, 0, T) \in Nat /\ FoldOf(f, 0, S \ T) \in Nat
      /\ FoldOf(f, 0, S) = FoldOf(f, 0, T) + FoldOf(f, 0, S \ T)
  BY SumOfRest
<1>2. \A a, b, c : a \in Nat /\ b \in Nat /\ c = a + b => a <= c
  OBVIOUS
<1>. QED BY <1>1, <1>2, Zenon

(* A sum grows with its parts, and changes by what one part changes.       *)
LEMMA SumGrows ==
  ASSUME NEW f, NEW g, NEW S, Summing(f, S), Summing(g, S), \A x \in S : f[x] <= g[x]
  PROVE  FoldOf(f, 0, S) <= FoldOf(g, 0, S)
<1> DEFINE Q == {s \in SUBSET S : FoldOf(f, 0, s) <= FoldOf(g, 0, s)}
<1>1. \A s \in SUBSET S : Summing(f, s) /\ Summing(g, s)
  BY SumsOfParts
<1>2. ASSUME NEW s \in SUBSET S,
             \A t \in SUBSET S : Cardinality(t) < Cardinality(s) => t \in Q
      PROVE  s \in Q
  <2>1. CASE s = {}
    <3>1. FoldOf(f, 0, s) = 0 /\ FoldOf(g, 0, s) = 0
      BY <2>1, FoldOfNone
    <3>. QED BY <3>1
  <2>2. ASSUME NEW x \in s PROVE s \in Q
    <3> DEFINE r == s \ {x}
    <3>1. r \in SUBSET S /\ Cardinality(r) < Cardinality(s)
      BY Smaller DEF Summing
    <3>2. r \in Q
      <4> HIDE DEF Q
      <4>. QED BY <1>2, <3>1
    <3>3. FoldOf(f, 0, r) <= FoldOf(g, 0, r)
      BY <3>2
    <3>4. f[x] \in Nat /\ FoldOf(f, 0, r) \in Nat /\ FoldOf(f, 0, s) = f[x] + FoldOf(f, 0, r)
      <4>1. Summing(f, s)
        BY <1>1
      <4>. QED BY <4>1, SumWithout
    <3>5. g[x] \in Nat /\ FoldOf(g, 0, r) \in Nat /\ FoldOf(g, 0, s) = g[x] + FoldOf(g, 0, r)
      <4>1. Summing(g, s)
        BY <1>1
      <4>. QED BY <4>1, SumWithout
    <3> HIDE DEF r
    <3>6. FoldOf(f, 0, s) <= FoldOf(g, 0, s)
      BY <3>3, <3>4, <3>5
    <3>. QED BY <3>6
  <2>. QED BY <2>1, <2>2
<1>3. SUBSET S \subseteq Q
  <2>1. IsFiniteSet(S)
    BY DEF Summing
  <2> HIDE DEF Q
  <2>. QED BY <1>2, <2>1, PartsInduction
<1>. QED BY <1>3

LEMMA SumWithouts ==
  ASSUME NEW S, NEW x \in S
  PROVE  \A h : Summing(h, S) =>
           /\ h[x] \in Nat /\ FoldOf(h, 0, S \ {x}) \in Nat
           /\ FoldOf(h, 0, S) = h[x] + FoldOf(h, 0, S \ {x})
BY SumWithout

LEMMA SumChange ==
  ASSUME NEW f, NEW g, NEW S, Summing(f, S), Summing(g, S), NEW x \in S,
         \A y \in S \ {x} : f[y] = g[y]
  PROVE  FoldOf(g, 0, S) + f[x] = FoldOf(f, 0, S) + g[x]
<1>1. \A h : Summing(h, S) =>
        /\ h[x] \in Nat /\ FoldOf(h, 0, S \ {x}) \in Nat
        /\ FoldOf(h, 0, S) = h[x] + FoldOf(h, 0, S \ {x})
  BY SumWithouts
<1>2. FoldOf(f, 0, S \ {x}) = FoldOf(g, 0, S \ {x})
  <2>1. Picks(S \ {x})
    BY DEF Summing, Picks
  <2>. QED BY <2>1, FoldOfSame
<1>3. PICK a, b, c, d, e : a = f[x] /\ b = g[x] /\ c = FoldOf(f, 0, S \ {x})
                           /\ d = FoldOf(f, 0, S) /\ e = FoldOf(g, 0, S)
  OBVIOUS
<1>4. a \in Nat /\ b \in Nat /\ c \in Nat /\ d = a + c /\ e = b + c
  BY <1>1, <1>2, <1>3, Zenon
<1>5. e + a = d + b
  BY <1>4
<1>. QED BY <1>3, <1>5, Zenon

LEMMA SumOfOne ==
  ASSUME NEW f, NEW x, Summing(f, {x})
  PROVE  FoldOf(f, 0, {x}) = f[x]
<1>1. f[x] \in Nat /\ FoldOf(f, 0, {x}) = f[x] + FoldOf(f, 0, {x} \ {x})
  BY SumWithout
<1>2. {x} \ {x} = {} /\ FoldOf(f, 0, {}) = 0
  BY FoldOfNone
<1>3. FoldOf(f, 0, {x} \ {x}) = 0
  BY <1>2
<1>. QED BY <1>1, <1>3

-----------------------------------------------------------------------------
(* The two ways to pick: any element, and the last index of a sequence.    *)

LEMMA AnyPicks ==
  ASSUME NEW S, \A s : pick(s) = CHOOSE x \in s : TRUE
  PROVE  Picks(S)
BY Zenon DEF Picks

LEMMA LargestExists ==
  ASSUME NEW n \in Nat, NEW s \in SUBSET (1 .. n), s # {}
  PROVE  \E x \in s : \A y \in s : x >= y
<1> DEFINE T == {m \in Nat : \A t \in SUBSET (1 .. m) : t # {} => \E x \in t : \A y \in t : x >= y}
<1>1. 0 \in T
  <2>1. 1 .. 0 = {}
    OBVIOUS
  <2>. QED BY <2>1
<1>2. ASSUME NEW m \in T PROVE m + 1 \in T
  <2>1. m \in Nat
    OBVIOUS
  <2>2. ASSUME NEW t \in SUBSET (1 .. m + 1), t # {} PROVE \E x \in t : \A y \in t : x >= y
    <3>1. CASE m + 1 \in t
      BY <2>1, <3>1
    <3>2. CASE m + 1 \notin t
      <4>1. t \in SUBSET (1 .. m)
        BY <2>1, <3>2
      <4>. QED BY <2>2, <4>1
    <3>. QED BY <3>1, <3>2
  <2>. QED BY <2>1, <2>2
<1>3. T = Nat
  <2>1. T \in SUBSET Nat
    OBVIOUS
  <2> HIDE DEF T
  <2>. QED BY <1>1, <1>2, <2>1, SetInduction
<1>. QED BY <1>3

LEMMA LastPicks ==
  ASSUME NEW n \in Nat, \A s : pick(s) = CHOOSE x \in s : \A y \in s : x >= y
  PROVE  Picks(1 .. n) /\ (n > 0 => pick(1 .. n) = n /\ (1 .. n) \ {n} = 1 .. (n - 1))
<1>1. ASSUME NEW s \in SUBSET (1 .. n), s # {}
      PROVE  pick(s) \in s /\ \A y \in s : pick(s) >= y
  <2>1. \E x \in s : \A y \in s : x >= y
    BY <1>1, LargestExists
  <2>. QED BY <2>1, Zenon
<1>2. ASSUME n > 0 PROVE pick(1 .. n) = n
  <2>1. 1 .. n # {} /\ n \in 1 .. n
    BY <1>2
  <2>2. pick(1 .. n) \in 1 .. n /\ pick(1 .. n) >= n
    BY <1>1, <2>1
  <2>. QED BY <2>2
<1>. QED BY <1>1, <1>2 DEF Picks

(* A left fold goes through the places of a sequence from the first to the *)
(* last.                                                                   *)
LEMMA FoldSteps ==
  ASSUME NEW n \in Nat, \A s : pick(s) = CHOOSE x \in s : \A y \in s : x >= y,
         NEW f, NEW base
  PROVE  \E r : /\ r[0] = base /\ \A k \in 1 .. n : r[k] = op(f[k], r[k - 1])
                /\ FoldOf(f, base, 1 .. n) = r[n]
<1>1. IsFiniteSet(1 .. n) /\ Picks(1 .. n)
  BY FS_Interval, LastPicks
<1>2. PICK g : Folds(f, base, 1 .. n, g) /\ FoldOf(f, base, 1 .. n) = g[1 .. n]
  BY <1>1, FoldsChosen
<1> DEFINE r == [m \in 0 .. n |-> g[1 .. m]]
<1>3. r[0] = base
  <2>1. 1 .. 0 = {} /\ g[{}] = base
    BY <1>2, FoldsStart
  <2>. QED BY <2>1
<1>4. ASSUME NEW k \in 1 .. n PROVE r[k] = op(f[k], r[k - 1])
  <2>1. k \in Nat /\ k > 0 /\ k \in 1 .. k /\ 1 .. k \in SUBSET (1 .. n) /\ k - 1 \in 0 .. n
    OBVIOUS
  <2>2. pick(1 .. k) = k /\ (1 .. k) \ {k} = 1 .. (k - 1)
    BY <2>1, LastPicks
  <2>3. PICK s, S : s = 1 .. k /\ S = 1 .. n
    OBVIOUS
  <2>4. s \in SUBSET S /\ s # {} /\ Folds(f, base, S, g) /\ Picks(S)
    BY <1>1, <1>2, <2>1, <2>3
  <2>5. g[s] = op(f[pick(s)], g[s \ {pick(s)}])
    BY <2>4 DEF Folds, FoldsOn
  <2>6. pick(s) = k /\ s \ {k} = 1 .. (k - 1)
    BY <2>2, <2>3
  <2>7. g[s] = op(f[k], g[1 .. (k - 1)])
    BY <2>5, <2>6
  <2>8. r[k] = g[s] /\ r[k - 1] = g[1 .. (k - 1)]
    BY <2>1, <2>3
  <2> HIDE DEF r
  <2>. QED BY <2>7, <2>8
<1>5. r[n] = g[1 .. n]
  OBVIOUS
<1> HIDE DEF r
<1>. QED BY <1>2, <1>3, <1>4, <1>5

(* V[k] is what may be known of the result after k steps.                  *)
LEMMA FoldAlong ==
  ASSUME NEW n \in Nat, \A s : pick(s) = CHOOSE x \in s : \A y \in s : x >= y,
         NEW f, NEW V, NEW base \in V[0],
         \A k \in 1 .. n : \A v \in V[k - 1] : op(f[k], v) \in V[k]
  PROVE  FoldOf(f, base, 1 .. n) \in V[n]
<1>1. PICK r : /\ r[0] = base /\ \A k \in 1 .. n : r[k] = op(f[k], r[k - 1])
               /\ FoldOf(f, base, 1 .. n) = r[n]
  BY FoldSteps
<1> DEFINE T == {m \in Nat : m <= n => r[m] \in V[m]}
<1>2. 0 \in T
  BY <1>1
<1>3. ASSUME NEW m \in T PROVE m + 1 \in T
  <2> SUFFICES ASSUME m + 1 <= n PROVE r[m + 1] \in V[m + 1]
    OBVIOUS
  <2>1. m + 1 \in 1 .. n /\ (m + 1) - 1 = m /\ r[m] \in V[m]
    OBVIOUS
  <2>. QED BY <1>1, <2>1
<1>4. T = Nat
  <2>1. T \in SUBSET Nat
    OBVIOUS
  <2> HIDE DEF T
  <2>. QED BY <1>2, <1>3, <2>1, SetInduction
<1>5. n \in T
  BY <1>4
<1>. QED BY <1>1, <1>5
=============================================================================
