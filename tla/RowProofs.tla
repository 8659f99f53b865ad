----------------------------- MODULE RowProofs -----------------------------
(***************************************************************************)
(* Proofs about the planning of rows and columns, for every container: any *)
(* number of children of any tracks, bounds, weights and sizes.  First     *)
(* what sums, shares, spreads and offsets come to; then the lines, what    *)
(* one round of flexing keeps, and the boxes.  The invariant is RowInv: a  *)
(* line that is sized is held (it is within its room, its children are in  *)
(* their bounds, and room stays free only if nobody could take more), and  *)
(* between two rounds nobody is forgotten (FlexLine).                      *)
(*                                                                         *)
(* Then that the plan proper keeps to what its probe came to.  What bears  *)
(* on the main axis (MainView) determines a planning but for its cross     *)
(* sizes: from one situation there is one way onward, and one end.         *)
(***************************************************************************)
EXTENDS TableProofs, MeasuredContainer

-----------------------------------------------------------------------------
(* More about sums: of combinations, of ones, along a sequence.            *)
LEMMA TotalIs ==
  ASSUME NEW f, NEW S
  PROVE  Total(f, S) = SumOf(f, S)
BY Zenon DEF Total, SumOf

(* What holds of no element, and of a part whenever it holds without one   *)
(* of its elements, holds of the whole.                                    *)
LEMMA PartByPart ==
  ASSUME NEW S, IsFiniteSet(S), NEW Q, {} \in Q,
         \A s \in SUBSET S : \A x \in s : s \ {x} \in Q => s \in Q
  PROVE  S \in Q
<1> DEFINE T == {m \in Nat : \A s \in SUBSET S : Cardinality(s) = m => s \in Q}
<1>1. \A s \in SUBSET S : IsFiniteSet(s) /\ Cardinality(s) \in Nat
  BY FS_Subset, FS_CardinalityType
<1>2. 0 \in T
  BY <1>1, FS_EmptySet
<1>3. ASSUME NEW m \in T PROVE m + 1 \in T
  <2> SUFFICES ASSUME NEW s \in SUBSET S, Cardinality(s) = m + 1
               PROVE  s \in Q
    OBVIOUS
  <2>1. s # {}
    BY FS_EmptySet
  <2>2. PICK x \in s : TRUE
    BY <2>1
  <2>3. Cardinality(s \ {x}) = m /\ s \ {x} \in SUBSET S
    BY <1>1, FS_RemoveElement
  <2> QED BY <2>2, <2>3
<1>4. T = Nat
  <2>1. T \in SUBSET Nat
    OBVIOUS
  <2> HIDE DEF T
  <2> QED BY <1>2, <1>3, <2>1, Sums!SetInduction
<1> QED BY <1>1, <1>4

LEMMA Distributes ==
  ASSUME NEW c \in Nat, NEW a \in Nat, NEW b \in Nat
  PROVE  c * (a + b) = c * a + c * b /\ c * a \in Nat /\ c * b \in Nat
OBVIOUS

\* h is c times f and g.
Combines(S, c, f, g, h) ==
  /\ IsFiniteSet(S) /\ c \in Nat
  /\ \A x \in S : f[x] \in Nat /\ g[x] \in Nat /\ h[x] = c * f[x] + g[x]

LEMMA SumLinear ==
  ASSUME NEW S, NEW c, NEW f, NEW g, NEW h, Combines(S, c, f, g, h)
  PROVE  /\ SumOf(h, S) = c * SumOf(f, S) + SumOf(g, S)
         /\ SumOf(f, S) \in Nat /\ SumOf(g, S) \in Nat
<1>0. /\ IsFiniteSet(S) /\ c \in Nat
      /\ \A x \in S : f[x] \in Nat /\ g[x] \in Nat /\ h[x] = c * f[x] + g[x]
  BY DEF Combines
<1> DEFINE Q == {s \in SUBSET S : SumOf(h, s) = c * SumOf(f, s) + SumOf(g, s)}
<1>1. \A x \in S : h[x] \in Nat
  BY <1>0, Distributes
<1>2. {} \in Q
  <2>1. SumOf(f, {}) = 0 /\ SumOf(g, {}) = 0 /\ SumOf(h, {}) = 0
    BY SumNone
  <2>2. 0 = c * 0 + 0
    BY <1>0
  <2> QED BY <2>1, <2>2
<1>3. ASSUME NEW s \in SUBSET S, NEW x \in s, s \ {x} \in Q
      PROVE  s \in Q
  <2> DEFINE r == s \ {x}
  <2>1. SumOf(h, r) = c * SumOf(f, r) + SumOf(g, r)
    BY <1>3
  <2>2. IsFiniteSet(s)
    BY <1>0, FS_Subset
  <2>3. /\ SumOf(f, s) = SumOf(f, r) + f[x] /\ SumOf(f, r) \in Nat
        /\ SumOf(g, s) = SumOf(g, r) + g[x] /\ SumOf(g, r) \in Nat
        /\ SumOf(h, s) = SumOf(h, r) + h[x] /\ SumOf(h, r) \in Nat
    <3>1. \A y \in s : f[y] \in Nat /\ g[y] \in Nat /\ h[y] \in Nat
      BY <1>0, <1>1
    <3> QED BY <2>2, <3>1, SumStep
  <2>4. h[x] = c * f[x] + g[x] /\ f[x] \in Nat /\ g[x] \in Nat
    BY <1>0
  <2> HIDE DEF r
  <2>5. PICK p, q, a, b, u, v :
          /\ p = SumOf(f, r) /\ q = f[x] /\ a = SumOf(g, r) /\ b = g[x]
          /\ u = SumOf(h, r) /\ v = h[x]
    OBVIOUS
  <2>6. c * (p + q) = c * p + c * q /\ c * p \in Nat /\ c * q \in Nat
    BY <1>0, <2>3, <2>4, <2>5, Distributes
  <2>7. a \in Nat /\ b \in Nat /\ u = c * p + a /\ v = c * q + b
    BY <2>1, <2>3, <2>4, <2>5
  <2>8. u + v = (c * p + c * q) + (a + b)
    BY <2>6, <2>7
  <2>9. SumOf(h, s) = c * SumOf(f, s) + SumOf(g, s)
    BY <2>3, <2>5, <2>6, <2>8
  <2> QED BY <2>9
<1>4. S \in Q
  <2> HIDE DEF Q
  <2> QED BY <1>0, <1>2, <1>3, PartByPart
<1>5. SumOf(f, S) \in Nat /\ SumOf(g, S) \in Nat
  BY <1>0, SumNat
<1> QED BY <1>4, <1>5

LEMMA SumAdds ==
  ASSUME NEW S, NEW f, NEW g, NEW h, Combines(S, 1, f, g, h)
  PROVE  /\ SumOf(h, S) = SumOf(f, S) + SumOf(g, S)
         /\ SumOf(f, S) \in Nat /\ SumOf(g, S) \in Nat
<1>1. /\ SumOf(h, S) = 1 * SumOf(f, S) + SumOf(g, S)
      /\ SumOf(f, S) \in Nat /\ SumOf(g, S) \in Nat
  BY SumLinear
<1> QED BY <1>1

LEMMA SumZero ==
  ASSUME NEW S, IsFiniteSet(S), NEW f, \A x \in S : f[x] = 0
  PROVE  SumOf(f, S) = 0
<1>1. Combines(S, 1, f, f, f)
  BY DEF Combines
<1>2. SumOf(f, S) = SumOf(f, S) + SumOf(f, S) /\ SumOf(f, S) \in Nat
  BY <1>1, SumAdds
<1>3. PICK n : n = SumOf(f, S)
  OBVIOUS
<1>4. n = n + n /\ n \in Nat
  BY <1>2, <1>3
<1>5. n = 0
  BY <1>4
<1> QED BY <1>3, <1>5, Zenon

LEMMA SumTimes ==
  ASSUME NEW S, IsFiniteSet(S), NEW c \in Nat, NEW f, NEW h,
         \A x \in S : f[x] \in Nat /\ h[x] = c * f[x]
  PROVE  SumOf(h, S) = c * SumOf(f, S) /\ SumOf(f, S) \in Nat
<1>1. PICK z : z = [x \in S |-> 0]
  OBVIOUS
<1>2. Combines(S, c, f, z, h)
  BY <1>1, Distributes DEF Combines
<1>3. SumOf(z, S) = 0
  <2>1. \A x \in S : z[x] = 0
    BY <1>1
  <2> QED BY <2>1, SumZero
<1>4. SumOf(h, S) = c * SumOf(f, S) + SumOf(z, S) /\ SumOf(f, S) \in Nat
  BY <1>2, SumLinear
<1>5. PICK p, q : p = SumOf(f, S) /\ q = SumOf(h, S)
  OBVIOUS
<1>6. q = c * p + 0 /\ p \in Nat
  BY <1>3, <1>4, <1>5
<1>7. c * p \in Nat
  BY <1>6, Distributes
<1> QED BY <1>5, <1>6, <1>7

LEMMA SumOnes ==
  ASSUME NEW S, IsFiniteSet(S), NEW f, \A x \in S : f[x] = 1
  PROVE  SumOf(f, S) = Cardinality(S)
<1> DEFINE Q == {s \in SUBSET S : SumOf(f, s) = Cardinality(s)}
<1>1. {} \in Q
  BY SumNone, FS_EmptySet
<1>2. ASSUME NEW s \in SUBSET S, NEW x \in s, s \ {x} \in Q
      PROVE  s \in Q
  <2>1. /\ IsFiniteSet(s) /\ Cardinality(s) \in Nat
        /\ Cardinality(s \ {x}) = Cardinality(s) - 1
    BY FS_Subset, FS_CardinalityType, FS_RemoveElement
  <2>2. SumOf(f, s) = SumOf(f, s \ {x}) + f[x]
    <3>1. \A y \in s : f[y] \in Nat
      OBVIOUS
    <3> QED BY <2>1, <3>1, SumStep
  <2>3. SumOf(f, s \ {x}) = Cardinality(s \ {x}) /\ f[x] = 1
    BY <1>2
  <2> QED BY <2>1, <2>2, <2>3
<1>3. S \in Q
  <2> HIDE DEF Q
  <2> QED BY <1>1, <1>2, PartByPart
<1> QED BY <1>3

LEMMA SumNext ==
  ASSUME NEW f, NEW a \in Int, NEW b \in Int, a <= b + 1, \A x \in a .. b + 1 : f[x] \in Nat
  PROVE  /\ SumOf(f, a .. b + 1) = SumOf(f, a .. b) + f[b + 1]
         /\ SumOf(f, a .. b) \in Nat /\ f[b + 1] \in Nat
<1>1. PICK T : T = a .. b + 1
  OBVIOUS
<1>2. IsFiniteSet(T) /\ b + 1 \in T /\ \A x \in T : f[x] \in Nat
  BY <1>1, FS_Interval
<1>3. T \ {b + 1} = a .. b
  BY <1>1
<1>4. SumOf(f, T) = SumOf(f, T \ {b + 1}) + f[b + 1] /\ SumOf(f, T \ {b + 1}) \in Nat
  BY <1>2, SumStep
<1> QED BY <1>1, <1>2, <1>3, <1>4

\* r tells the sums of the first terms of f.
Running(f, n, r) ==
  /\ \A k \in 1 .. n : f[k] \in Nat
  /\ r[0] = 0 /\ \A k \in 1 .. n : r[k] = r[k - 1] + f[k]

LEMMA SumAlong ==
  ASSUME NEW n \in Nat, NEW f, NEW r, Running(f, n, r)
  PROVE  \A k \in 0 .. n : SumOf(f, 1 .. k) = r[k] /\ r[k] \in Nat
<1> DEFINE T == {k \in Nat : k <= n => SumOf(f, 1 .. k) = r[k] /\ r[k] \in Nat}
<1>1. 0 \in T
  <2>1. 1 .. 0 = {}
    OBVIOUS
  <2> QED BY <2>1, SumNone DEF Running
<1>2. ASSUME NEW k \in T PROVE k + 1 \in T
  <2> SUFFICES ASSUME k + 1 <= n
               PROVE  SumOf(f, 1 .. k + 1) = r[k + 1] /\ r[k + 1] \in Nat
    OBVIOUS
  <2>1. SumOf(f, 1 .. k) = r[k] /\ r[k] \in Nat
    OBVIOUS
  <2>2. \A x \in 1 .. k + 1 : f[x] \in Nat
    BY DEF Running
  <2>3. /\ SumOf(f, 1 .. k + 1) = SumOf(f, 1 .. k) + f[k + 1]
        /\ f[k + 1] \in Nat
    <3>1. 1 \in Int /\ k \in Int /\ 1 <= k + 1
      OBVIOUS
    <3> QED BY <2>2, <3>1, SumNext
  <2>4. r[k + 1] = r[k] + f[k + 1]
    <3>1. k + 1 \in 1 .. n /\ (k + 1) - 1 = k
      OBVIOUS
    <3> QED BY <3>1 DEF Running
  <2> QED BY <2>1, <2>3, <2>4
<1>3. T = Nat
  <2>1. T \in SUBSET Nat
    OBVIOUS
  <2> HIDE DEF T
  <2> QED BY <1>1, <1>2, <2>1, Sums!SetInduction
<1> QED BY <1>3

LEMMA SumShift ==
  ASSUME NEW n \in Nat, NEW a \in Nat, NEW f, NEW g,
         \A k \in 1 .. n : g[k] = f[a + k - 1] /\ g[k] \in Nat
  PROVE  SumOf(g, 1 .. n) = SumOf(f, a .. a + n - 1)
<1> DEFINE r == [k \in 0 .. n |-> SumOf(f, a .. a + k - 1)]
<1>1. r[0] = 0
  <2>1. a .. a + 0 - 1 = {}
    OBVIOUS
  <2> QED BY <2>1, SumNone
<1>2. ASSUME NEW k \in 1 .. n PROVE r[k] = r[k - 1] + g[k]
  <2>1. /\ k \in 0 .. n /\ k - 1 \in 0 .. n /\ a + k - 2 \in Int /\ a <= (a + k - 2) + 1
        /\ a + (k - 1) - 1 = a + k - 2 /\ (a + k - 2) + 1 = a + k - 1
    OBVIOUS
  <2>2. \A x \in a .. a + k - 1 : f[x] \in Nat
    <3> TAKE x \in a .. a + k - 1
    <3>1. x - a + 1 \in 1 .. n /\ a + (x - a + 1) - 1 = x
      OBVIOUS
    <3> QED BY <3>1
  <2>3. SumOf(f, a .. a + k - 1) = SumOf(f, a .. a + k - 2) + f[a + k - 1]
    BY <2>1, <2>2, SumNext
  <2> QED BY <2>1, <2>3
<1> HIDE DEF r
<1>3. Running(g, n, r)
  BY <1>1, <1>2 DEF Running
<1>4. SumOf(g, 1 .. n) = r[n]
  <2>1. n \in 0 .. n
    OBVIOUS
  <2> QED BY <1>3, <2>1, SumAlong
<1> QED BY <1>4 DEF r

-----------------------------------------------------------------------------
(* Shares: they make up the amount.                                        *)

\* The children that share are flexible or of one other kind.
Ranked(those) ==
  /\ IsFiniteSet(those) /\ those \subseteq Int
  /\ \E kind : \A i \in those : Child(i).kind \in {"flex", kind}

Ranks(those) == {p \in those \X those : Precedes(p[1], p[2])}

LEMMA RanksOrder ==
  ASSUME NEW those, Ranked(those)
  PROVE  Orders(Ranks(those), those)
<1>1. PICK kind : \A i \in those : Child(i).kind \in {"flex", kind}
  BY DEF Ranked
<1>2. those \subseteq Int
  BY DEF Ranked
<1>3. \A i, j \in those : <<i, j>> \in Ranks(those) <=> Precedes(i, j)
  BY DEF Ranks
<1>4. ASSUME NEW i \in those PROVE ~Precedes(i, i)
  BY <1>2 DEF Precedes
<1>5. ASSUME NEW i \in those, NEW j \in those, NEW k \in those, Precedes(i, j), Precedes(j, k)
      PROVE  Precedes(i, k)
  <2>1. i \in Int /\ j \in Int /\ k \in Int
    BY <1>2
  <2> QED BY <1>1, <1>5, <2>1 DEF Precedes
<1>6. ASSUME NEW i \in those, NEW j \in those, i # j PROVE Precedes(i, j) \/ Precedes(j, i)
  <2>1. i \in Int /\ j \in Int
    BY <1>2
  <2> QED BY <1>1, <1>6, <2>1 DEF Precedes
<1> QED BY <1>3, <1>4, <1>5, <1>6 DEF Orders

LEMMA FirstPlaces ==
  ASSUME NEW S, IsFiniteSet(S), NEW R, Orders(R, S), NEW rest \in 0 .. Cardinality(S)
  PROVE  SumOf([i \in S |-> IF Cardinality(Before(R, S, i)) < rest THEN 1 ELSE 0], S) = rest
<1> DEFINE place(i) == Cardinality(Before(R, S, i))
           f == [i \in S |-> IF place(i) < rest THEN 1 ELSE 0]
           A == {i \in S : place(i) < rest}
           g == [k \in 1 .. rest |-> CHOOSE i \in S : place(i) = k - 1]
<1>1. /\ Cardinality(S) \in Nat
      /\ \A i \in S : place(i) \in 0 .. Cardinality(S) - 1
      /\ \A k \in 1 .. Cardinality(S) : \E i \in S : place(i) = k - 1
  BY Places
<1>2. \A i, j \in S : place(i) = place(j) => i = j
  <2> SUFFICES ASSUME NEW i \in S, NEW j \in S, i # j
               PROVE  place(i) # place(j)
    OBVIOUS
  <2>1. <<i, j>> \in R \/ <<j, i>> \in R
    BY DEF Orders
  <2>2. place(i) < place(j) \/ place(j) < place(i)
    BY <2>1, BeforeGrows
  <2>3. place(i) \in Int /\ place(j) \in Int
    BY <1>1
  <2> HIDE DEF place
  <2> QED BY <2>2, <2>3
<1> HIDE DEF place
<1>3. IsFiniteSet(A) /\ A \in SUBSET S
  BY FS_Subset
<1>4. Cardinality(A) = rest
  <2>1. rest \in Nat
    BY <1>1
  <2>2. \A k \in 1 .. rest : g[k] \in S /\ place(g[k]) = k - 1
    <3> TAKE k \in 1 .. rest
    <3>1. k \in 1 .. Cardinality(S)
      BY <1>1
    <3> QED BY <1>1, <3>1
  <2>3. \A k \in 1 .. rest : g[k] \in A
    BY <2>1, <2>2
  <2>4. \A k, m \in 1 .. rest : k # m => g[k] # g[m]
    BY <2>2
  <2>5. \A i \in A : \E k \in 1 .. rest : g[k] = i
    <3> TAKE i \in A
    <3>1. place(i) \in Nat /\ place(i) < rest
      BY <1>1
    <3>2. PICK k : k = place(i) + 1
      OBVIOUS
    <3>3. k \in 1 .. rest /\ k - 1 = place(i)
      BY <3>1, <3>2
    <3>4. g[k] \in S /\ place(g[k]) = place(i)
      BY <2>2, <3>3
    <3>5. g[k] = i
      <4> HIDE DEF g
      <4> QED BY <1>2, <3>4
    <3> QED BY <3>3, <3>5
  <2>6. g \in [1 .. rest -> A]
    BY <2>3
  <2> HIDE DEF g, A
  <2>7. g \in Bijection(1 .. rest, A)
    BY <2>4, <2>5, <2>6 DEF Bijection, Injection, IsInjective, Surjection
  <2>8. IsFiniteSet(1 .. rest) /\ Cardinality(1 .. rest) = rest
    BY <2>1, FS_Interval
  <2> QED BY <2>7, <2>8, FS_Bijection DEF ExistsBijection
<1>5. \A i \in S : f[i] \in Nat
  OBVIOUS
<1>6. \A i \in A : f[i] = 1
  OBVIOUS
<1>7. \A i \in S \ A : f[i] = 0
  OBVIOUS
<1> HIDE DEF f, A, g
<1>8. SumOf(f, S) = SumOf(f, A) + SumOf(f, S \ A)
  BY <1>3, <1>5, SumMore DEF AddsUp
<1>9. SumOf(f, A) = rest
  BY <1>3, <1>4, <1>6, SumOnes
<1>10. SumOf(f, S \ A) = 0
  <2>1. IsFiniteSet(S \ A)
    BY FS_Subset
  <2> QED BY <1>7, <2>1, SumZero
<1>11. rest + 0 = rest
  BY <1>1
<1>12. SumOf(f, S) = rest
  BY <1>8, <1>9, <1>10, <1>11
<1> QED BY <1>12 DEF f, place

LEMMA RestIsSmall ==
  ASSUME NEW all \in Nat \ {0}, NEW amount \in Nat, NEW given \in Nat, NEW over \in Nat, NEW n \in Nat,
         amount * all = all * given + over, over + n <= all * n, n > 0
  PROVE  amount - given \in 0 .. n
<1>1. amount * all = all * amount
  OBVIOUS
<1>2. ~(amount < given)
  <2> SUFFICES ASSUME amount < given PROVE FALSE
    OBVIOUS
  <2>1. PICK d \in Nat : given = amount + d /\ d > 0
    <3>1. given - amount \in Nat /\ given = amount + (given - amount) /\ given - amount > 0
      OBVIOUS
    <3> QED BY <3>1
  <2>2. all * (amount + d) = all * amount + all * d /\ all * amount \in Nat /\ all * d \in Nat
    BY Distributes
  <2>3. PICK p, q : p = all * amount /\ q = all * d
    OBVIOUS
  <2>4. q > 0
    BY <2>1, <2>3
  <2>5. p = p + q + over /\ p \in Nat /\ q \in Nat
    BY <1>1, <2>1, <2>2, <2>3
  <2> QED BY <2>4, <2>5
<1>3. PICK d \in Nat : amount = given + d
  <2>1. amount - given \in Nat /\ amount = given + (amount - given)
    BY <1>2
  <2> QED BY <2>1
<1>4. all * (given + d) = all * given + all * d /\ all * given \in Nat /\ all * d \in Nat
  BY Distributes
<1>5. over = all * d
  BY <1>1, <1>3, <1>4
<1>6. ~(d > n)
  <2> SUFFICES ASSUME d > n PROVE FALSE
    OBVIOUS
  <2>1. PICK e \in Nat : d = n + e
    <3>1. d - n \in Nat /\ d = n + (d - n)
      OBVIOUS
    <3> QED BY <3>1
  <2>2. all * (n + e) = all * n + all * e /\ all * n \in Nat /\ all * e \in Nat
    BY Distributes
  <2>3. PICK p, q : p = all * n /\ q = all * e
    OBVIOUS
  <2>4. (p + q) + n <= p /\ p \in Nat /\ q \in Nat
    BY <1>5, <2>1, <2>2, <2>3
  <2> QED BY <2>4
<1> QED BY <1>3, <1>6

(* Every part is a share, and the shares are the amount.                   *)
Apportioned(amount, weights, shares) ==
  /\ shares \in [DOMAIN weights -> Nat]
  /\ SumOf(shares, DOMAIN weights) = amount

Weighted(amount, weights, those) ==
  /\ amount \in Nat /\ Ranked(those) /\ weights \in [those -> Nat] /\ SumOf(weights, those) > 0

LEMMA SharesMakeUp ==
  ASSUME NEW amount, NEW weights, NEW those, Weighted(amount, weights, those)
  PROVE  Apportioned(amount, weights, Shares(amount, weights))
<1>0. /\ amount \in Nat /\ Ranked(those) /\ weights \in [those -> Nat] /\ IsFiniteSet(those)
      /\ SumOf(weights, those) > 0 /\ DOMAIN weights = those
  BY DEF Weighted, Ranked
<1> DEFINE all == SumOf(weights, those)
           floor == [i \in those |-> (amount * weights[i]) \div all]
           over == [i \in those |-> (amount * weights[i]) % all]
           product == [i \in those |-> amount * weights[i]]
           n == Cardinality(those)
           given == SumOf(floor, those)
           rest == amount - given
           bump == [i \in those |-> IF Cardinality(Before(Ranks(those), those, i)) < rest THEN 1 ELSE 0]
           shares == Shares(amount, weights)
<1>1. all \in Nat \ {0}
  BY <1>0, SumNat
<1>2. \A i \in those : /\ floor[i] \in Nat /\ over[i] \in 0 .. all - 1 /\ product[i] \in Nat
                       /\ product[i] = all * floor[i] + over[i]
  <2> TAKE i \in those
  <2>1. weights[i] \in Nat
    BY <1>0
  <2>2. PICK x : x = amount * weights[i]
    OBVIOUS
  <2>3. x \in Nat
    BY <1>0, <2>1, <2>2, Distributes
  <2>4. x \div all \in Nat /\ x % all \in 0 .. all - 1 /\ x = all * (x \div all) + (x % all)
    <3> HIDE DEF all
    <3> QED BY <1>1, <2>3, Division
  <2>5. floor[i] = x \div all /\ over[i] = x % all /\ product[i] = x
    BY <2>2
  <2> HIDE DEF floor, over, product
  <2> QED BY <2>3, <2>4, <2>5
<1>3. n \in Nat /\ n > 0
  <2>1. those # {}
    BY <1>0, SumNone
  <2> QED BY <1>0, <2>1, FS_CardinalityType, FS_EmptySet
<1>4. shares = [i \in those |-> floor[i] + (IF Cardinality({j \in those : Precedes(j, i)}) < rest
                                             THEN 1 ELSE 0)]
  BY <1>0, TotalIs, Zenon DEF Shares
<1>5. \A i \in those : {j \in those : Precedes(j, i)} = Before(Ranks(those), those, i)
  BY DEF Before, Ranks
<1>6. shares = [i \in those |-> floor[i] + bump[i]]
  BY <1>4, <1>5
<1> HIDE DEF all, floor, over, product, n, shares
<1>7. given \in Nat /\ SumOf(product, those) = all * given + SumOf(over, those) /\ SumOf(over, those) \in Nat
  <2>1. Combines(those, all, floor, over, product)
    <3>1. \A i \in those : over[i] \in Nat
      BY <1>1, <1>2
    <3> QED BY <1>0, <1>1, <1>2, <3>1 DEF Combines
  <2> QED BY <2>1, SumLinear
<1>8. SumOf(product, those) = amount * all
  <2>1. \A i \in those : weights[i] \in Nat /\ product[i] = amount * weights[i]
    BY <1>0 DEF product
  <2> QED BY <1>0, <2>1, SumTimes DEF all
<1>9. SumOf(over, those) + n <= all * n
  <2>1. PICK one, more, most : /\ one = [i \in those |-> 1]
                               /\ more = [i \in those |-> over[i] + 1]
                               /\ most = [i \in those |-> all]
    OBVIOUS
  <2>2. \A i \in those : over[i] \in Nat /\ over[i] + 1 <= all
    BY <1>1, <1>2
  <2>3. SumOf(one, those) = n
    <3>1. \A i \in those : one[i] = 1
      BY <2>1
    <3> QED BY <1>0, <3>1, SumOnes DEF n
  <2>4. SumOf(more, those) = SumOf(over, those) + SumOf(one, those)
    <3>1. Combines(those, 1, over, one, more)
      BY <1>0, <2>1, <2>2 DEF Combines
    <3> QED BY <3>1, SumAdds
  <2>5. SumOf(most, those) = all * SumOf(one, those)
    <3>1. \A i \in those : one[i] \in Nat /\ most[i] = all * one[i]
      BY <1>1, <2>1
    <3> QED BY <1>0, <1>1, <3>1, SumTimes
  <2>6. SumOf(more, those) <= SumOf(most, those)
    <3>1. \A i \in those : more[i] \in Nat /\ most[i] \in Nat /\ more[i] <= most[i]
      BY <1>1, <2>1, <2>2
    <3> QED BY <1>0, <3>1, SumRises
  <2> QED BY <2>3, <2>4, <2>5, <2>6
<1> HIDE DEF given
<1>10. rest \in 0 .. n
  <2>1. PICK left : left = SumOf(over, those)
    OBVIOUS
  <2>2. left \in Nat /\ amount * all = all * given + left /\ left + n <= all * n
    BY <1>7, <1>8, <1>9, <2>1
  <2> QED BY <1>0, <1>1, <1>3, <1>7, <2>2, RestIsSmall
<1>11. SumOf(bump, those) = rest
  <2>1. Orders(Ranks(those), those)
    BY <1>0, RanksOrder
  <2> HIDE DEF rest
  <2> QED BY <1>0, <1>10, <2>1, FirstPlaces DEF n
<1>12. \A i \in those : bump[i] \in Nat
  OBVIOUS
<1> HIDE DEF bump
<1>13. shares \in [those -> Nat]
  BY <1>2, <1>6, <1>12
<1>14. SumOf(shares, those) = given + rest
  <2>1. Combines(those, 1, floor, bump, shares)
    BY <1>0, <1>2, <1>6, <1>12 DEF Combines
  <2>2. SumOf(shares, those) = SumOf(floor, those) + SumOf(bump, those)
    BY <2>1, SumAdds
  <2> QED BY <1>11, <2>2 DEF given
<1>15. given + rest = amount
  BY <1>0, <1>7
<1>16. SumOf(shares, those) = amount
  BY <1>14, <1>15
<1> QED BY <1>0, <1>13, <1>16 DEF Apportioned, shares

-----------------------------------------------------------------------------
(* Placement.                                                              *)
LEMMA SlotsAddUp ==
  ASSUME NEW total \in Nat, NEW count \in Nat \ {0}
  PROVE  /\ EvenSlots(total, count) \in [1 .. count -> Nat]
         /\ SumOf(EvenSlots(total, count), 1 .. count) = total
<1> DEFINE none == [k \in 1 .. count |-> 0]
           slots == EvenSlots(total, count)
<1>1. none \in [1 .. count -> Nat] /\ 1 \in 1 .. count /\ count \in 1 .. count
  OBVIOUS
<1>2. SharedOut(count, none, ShareHeight(none, 1 .. count, total), 1 .. count, total)
  <2> HIDE DEF none
  <2> QED BY <1>1, SharesAddUp
<1>3. Cardinality(1 .. count) = count /\ Min(1 .. count) = 1
  <2>1. Cardinality(1 .. count) = count
    BY FS_Interval
  <2>2. 1 .. count \in SUBSET Int /\ 1 \in 1 .. count /\ \A y \in 1 .. count : 1 =< y
    OBVIOUS
  <2> QED BY <2>1, <2>2, MinIs
<1>4. total \div count \in Nat /\ total % count \in 0 .. count - 1
  BY Division
<1>5. \A k \in 1 .. count :
        0 + total \div count + (IF k - 1 < total % count THEN 1 ELSE 0)
          = total \div count + (IF k <= total % count THEN 1 ELSE 0)
  BY <1>4
<1>6. ShareHeight(none, 1 .. count, total)
        = [k \in 1 .. count |-> 0 + total \div count + (IF k - 1 < total % count THEN 1 ELSE 0)]
  BY <1>3 DEF ShareHeight
<1>7. slots = ShareHeight(none, 1 .. count, total)
  BY <1>5, <1>6 DEF EvenSlots
<1>8. SumOf(none, 1 .. count) = 0
  <2>1. IsFiniteSet(1 .. count)
    BY FS_Interval
  <2> QED BY <2>1, SumZero
<1> HIDE DEF none, slots
<1>9. slots \in [1 .. count -> Nat] /\ SumOf(slots, 1 .. count) = 0 + total
  BY <1>2, <1>7, <1>8 DEF SharedOut
<1> QED BY <1>9 DEF slots

LEMMA SlotSums ==
  ASSUME NEW count \in Nat \ {0}, NEW f \in [1 .. count -> Nat]
  PROVE  /\ SumOf(f, 1 .. 0) = 0
         /\ \A k \in 0 .. count : SumOf(f, 1 .. k) \in Nat /\ SumOf(f, 1 .. k) <= SumOf(f, 1 .. count)
         /\ \A k \in 0 .. count - 1 : SumOf(f, 1 .. k + 1) = SumOf(f, 1 .. k) + f[k + 1]
<1>1. SumOf(f, 1 .. 0) = 0
  <2>1. 1 .. 0 = {}
    OBVIOUS
  <2> QED BY <2>1, SumNone
<1>2. ASSUME NEW k \in 0 .. count
      PROVE  SumOf(f, 1 .. k) \in Nat /\ SumOf(f, 1 .. k) <= SumOf(f, 1 .. count)
  <2>1. PICK S, T : S = 1 .. count /\ T = 1 .. k
    OBVIOUS
  <2>2. IsFiniteSet(S) /\ T \in SUBSET S /\ \A x \in S : f[x] \in Nat
    <3>1. T \in SUBSET S
      BY <2>1
    <3>2. IsFiniteSet(1 .. count)
      BY FS_Interval
    <3> QED BY <2>1, <3>1, <3>2
  <2>3. AddsUp(f, S, T)
    BY <2>2, SumMore
  <2> QED BY <2>1, <2>3 DEF AddsUp
<1>3. ASSUME NEW k \in 0 .. count - 1
      PROVE  SumOf(f, 1 .. k + 1) = SumOf(f, 1 .. k) + f[k + 1]
  <2>1. 1 \in Int /\ k \in Int /\ 1 <= k + 1 /\ \A x \in 1 .. k + 1 : f[x] \in Nat
    OBVIOUS
  <2> QED BY <2>1, SumNext
<1> QED BY <1>1, <1>2, <1>3

\* What is put before and between n things is within what is free.
Fitting(spread, n, free) ==
  /\ spread.leading \in Nat /\ spread.gaps \in [1 .. n - 1 -> Nat]
  /\ spread.leading + SumOf(spread.gaps, 1 .. n - 1) <= free

LEMMA NoGaps ==
  ASSUME NEW n \in Nat \ {0}
  PROVE  /\ [k \in 1 .. n - 1 |-> 0] \in [1 .. n - 1 -> Nat]
         /\ SumOf([k \in 1 .. n - 1 |-> 0], 1 .. n - 1) = 0
<1>1. IsFiniteSet(1 .. n - 1)
  BY FS_Interval
<1> QED BY <1>1, SumZero

LEMMA SpreadFits ==
  ASSUME NEW justify, NEW n \in Nat \ {0}, NEW free \in Nat
  PROVE  Fitting(Justified(justify, n, free), n, free)
<1> DEFINE none == [k \in 1 .. n - 1 |-> 0]
           around == EvenSlots(free, 2 * n)
           evenly == EvenSlots(free, n + 1)
           halves == EvenSlots(free, 2)
           between == EvenSlots(free, n - 1)
           aroundGaps == [k \in 1 .. n - 1 |-> around[2 * k] + around[2 * k + 1]]
           evenlyGaps == [k \in 1 .. n - 1 |-> evenly[k + 1]]
           spread == Justified(justify, n, free)
<1>1. none \in [1 .. n - 1 -> Nat] /\ SumOf(none, 1 .. n - 1) = 0
  BY NoGaps
<1>2. /\ 2 * n \in Nat \ {0} /\ n + 1 \in Nat \ {0} /\ 2 \in Nat \ {0}
      /\ 1 \in 1 .. 2 /\ 1 \in 1 .. n + 1 /\ 1 \in 1 .. 2 * n
  OBVIOUS
<1>3. /\ spread \in {[leading |-> halves[1], gaps |-> none], [leading |-> free, gaps |-> none],
                     [leading |-> 0, gaps |-> none], [leading |-> around[1], gaps |-> aroundGaps],
                     [leading |-> evenly[1], gaps |-> evenlyGaps]}
         \/ (spread = [leading |-> 0, gaps |-> between] /\ n > 1)
  BY DEF Justified
<1> HIDE DEF none, spread, halves, around, evenly
<1>4. halves[1] \in Nat /\ halves[1] <= free
  <2>1. halves \in [1 .. 2 -> Nat] /\ SumOf(halves, 1 .. 2) = free
    BY <1>2, SlotsAddUp DEF halves
  <2>2. /\ SumOf(halves, 1 .. 0) = 0 /\ SumOf(halves, 1 .. 0 + 1) = SumOf(halves, 1 .. 0) + halves[0 + 1]
        /\ SumOf(halves, 1 .. 1) <= SumOf(halves, 1 .. 2)
    <3>1. PICK m : m = 2
      OBVIOUS
    <3>2. m \in Nat \ {0} /\ halves \in [1 .. m -> Nat] /\ 0 \in 0 .. m - 1 /\ 1 \in 0 .. m
      BY <2>1, <3>1
    <3>3. /\ SumOf(halves, 1 .. 0) = 0
          /\ \A k \in 0 .. m : SumOf(halves, 1 .. k) <= SumOf(halves, 1 .. m)
          /\ \A k \in 0 .. m - 1 : SumOf(halves, 1 .. k + 1) = SumOf(halves, 1 .. k) + halves[k + 1]
      BY <3>2, SlotSums
    <3> QED BY <3>1, <3>2, <3>3
  <2>3. 0 + 1 = 1 /\ halves[1] \in Nat
    BY <2>1
  <2> QED BY <2>1, <2>2, <2>3
<1>5. ASSUME n > 1 PROVE between \in [1 .. n - 1 -> Nat] /\ SumOf(between, 1 .. n - 1) = free
  <2>1. n - 1 \in Nat \ {0}
    BY <1>5
  <2> QED BY <2>1, SlotsAddUp
<1>6. /\ around[1] \in Nat /\ aroundGaps \in [1 .. n - 1 -> Nat]
      /\ around[1] + SumOf(aroundGaps, 1 .. n - 1) <= free
  <2> DEFINE P == [k \in 0 .. 2 * n |-> SumOf(around, 1 .. k)]
             r == [k \in 0 .. n - 1 |-> P[2 * k + 1] - P[1]]
  <2>1. around \in [1 .. 2 * n -> Nat] /\ SumOf(around, 1 .. 2 * n) = free
    BY <1>2, SlotsAddUp DEF around
  <2>2. /\ P[0] = 0
        /\ \A k \in 0 .. 2 * n : P[k] \in Nat /\ P[k] <= free
        /\ \A k \in 0 .. 2 * n - 1 : P[k + 1] = P[k] + around[k + 1]
    <3>1. /\ SumOf(around, 1 .. 0) = 0
          /\ \A k \in 0 .. 2 * n : SumOf(around, 1 .. k) \in Nat /\ SumOf(around, 1 .. k) <= free
          /\ \A k \in 0 .. 2 * n - 1 : SumOf(around, 1 .. k + 1) = SumOf(around, 1 .. k) + around[k + 1]
      BY <1>2, <2>1, SlotSums
    <3>2. \A k \in 0 .. 2 * n - 1 : k \in 0 .. 2 * n /\ k + 1 \in 0 .. 2 * n
      OBVIOUS
    <3> QED BY <3>1, <3>2
  <2> HIDE DEF P
  <2>3. \A k \in 1 .. n - 1 : 2 * k \in 1 .. 2 * n /\ 2 * k + 1 \in 1 .. 2 * n
    OBVIOUS
  <2>4. aroundGaps \in [1 .. n - 1 -> Nat]
    <3>1. \A k \in 1 .. n - 1 : around[2 * k] + around[2 * k + 1] \in Nat
      BY <2>1, <2>3
    <3> QED BY <3>1
  <2>5. r[0] = 0
    <3>1. 0 \in 0 .. n - 1 /\ 2 * 0 + 1 = 1 /\ 1 \in 0 .. 2 * n
      OBVIOUS
    <3>2. P[1] \in Nat
      BY <2>2, <3>1
    <3> QED BY <3>1, <3>2
  <2>6. ASSUME NEW k \in 1 .. n - 1 PROVE r[k] = r[k - 1] + aroundGaps[k]
    <3>1. /\ 2 * k - 1 \in 0 .. 2 * n - 1 /\ 2 * k \in 0 .. 2 * n - 1
          /\ (2 * k - 1) + 1 = 2 * k /\ 2 * (k - 1) + 1 = 2 * k - 1
          /\ k \in 0 .. n - 1 /\ k - 1 \in 0 .. n - 1
      OBVIOUS
    <3>2. P[2 * k] = P[2 * k - 1] + around[2 * k] /\ P[2 * k + 1] = P[2 * k] + around[2 * k + 1]
      BY <2>2, <3>1
    <3>3. P[2 * k - 1] \in Nat /\ P[1] \in Nat /\ around[2 * k] \in Nat /\ around[2 * k + 1] \in Nat
      <4>1. 2 * k - 1 \in 0 .. 2 * n /\ 1 \in 0 .. 2 * n
        OBVIOUS
      <4> QED BY <2>1, <2>2, <2>3, <4>1
    <3>4. r[k] = P[2 * k + 1] - P[1] /\ r[k - 1] = P[2 * k - 1] - P[1]
      BY <3>1
    <3>5. aroundGaps[k] = around[2 * k] + around[2 * k + 1]
      OBVIOUS
    <3> HIDE DEF r, aroundGaps
    <3> QED BY <3>2, <3>3, <3>4, <3>5
  <2>7. SumOf(aroundGaps, 1 .. n - 1) = r[n - 1]
    <3>1. n - 1 \in Nat /\ n - 1 \in 0 .. n - 1
      OBVIOUS
    <3>2. \A k \in 1 .. n - 1 : aroundGaps[k] \in Nat
      BY <2>4
    <3> HIDE DEF r, aroundGaps
    <3>3. Running(aroundGaps, n - 1, r)
      BY <2>5, <2>6, <3>2 DEF Running
    <3> QED BY <3>1, <3>3, SumAlong
  <2>8. r[n - 1] = P[2 * n - 1] - P[1] /\ P[2 * n - 1] \in Nat /\ P[2 * n - 1] <= free
    <3>1. n - 1 \in 0 .. n - 1 /\ 2 * (n - 1) + 1 = 2 * n - 1 /\ 2 * n - 1 \in 0 .. 2 * n
      OBVIOUS
    <3> QED BY <2>2, <3>1
  <2>9. P[1] = around[1] /\ around[1] \in Nat
    <3>1. 0 \in 0 .. 2 * n - 1 /\ 0 + 1 = 1 /\ 1 \in 1 .. 2 * n
      OBVIOUS
    <3> QED BY <2>1, <2>2, <3>1
  <2> HIDE DEF r, aroundGaps
  <2> QED BY <2>4, <2>7, <2>8, <2>9
<1>7. /\ evenly[1] \in Nat /\ evenlyGaps \in [1 .. n - 1 -> Nat]
      /\ evenly[1] + SumOf(evenlyGaps, 1 .. n - 1) <= free
  <2> DEFINE P == [k \in 0 .. n + 1 |-> SumOf(evenly, 1 .. k)]
             r == [k \in 0 .. n - 1 |-> P[k + 1] - P[1]]
  <2>1. evenly \in [1 .. n + 1 -> Nat] /\ SumOf(evenly, 1 .. n + 1) = free
    BY <1>2, SlotsAddUp DEF evenly
  <2>2. /\ P[0] = 0
        /\ \A k \in 0 .. n + 1 : P[k] \in Nat /\ P[k] <= free
        /\ \A k \in 0 .. n : P[k + 1] = P[k] + evenly[k + 1]
    <3>1. /\ SumOf(evenly, 1 .. 0) = 0
          /\ \A k \in 0 .. n + 1 : SumOf(evenly, 1 .. k) \in Nat /\ SumOf(evenly, 1 .. k) <= free
          /\ \A k \in 0 .. (n + 1) - 1 : SumOf(evenly, 1 .. k + 1) = SumOf(evenly, 1 .. k) + evenly[k + 1]
      BY <1>2, <2>1, SlotSums
    <3>2. \A k \in 0 .. n : k \in 0 .. n + 1 /\ k + 1 \in 0 .. n + 1 /\ k \in 0 .. (n + 1) - 1
      OBVIOUS
    <3> QED BY <3>1, <3>2
  <2> HIDE DEF P
  <2>3. evenlyGaps \in [1 .. n - 1 -> Nat]
    <3>1. \A k \in 1 .. n - 1 : k + 1 \in 1 .. n + 1
      OBVIOUS
    <3> QED BY <2>1, <3>1
  <2>4. r[0] = 0
    <3>1. 0 \in 0 .. n - 1 /\ 0 + 1 = 1 /\ 1 \in 0 .. n + 1
      OBVIOUS
    <3>2. P[1] \in Nat
      BY <2>2, <3>1
    <3> QED BY <3>1, <3>2
  <2>5. ASSUME NEW k \in 1 .. n - 1 PROVE r[k] = r[k - 1] + evenlyGaps[k]
    <3>1. k \in 0 .. n /\ k \in 0 .. n - 1 /\ k - 1 \in 0 .. n - 1 /\ (k - 1) + 1 = k /\ k + 1 \in 1 .. n + 1
          /\ k \in 0 .. n + 1 /\ 1 \in 0 .. n + 1
      OBVIOUS
    <3>2. P[k + 1] = P[k] + evenly[k + 1] /\ P[k] \in Nat /\ P[1] \in Nat /\ evenly[k + 1] \in Nat
      BY <2>1, <2>2, <3>1
    <3>3. r[k] = P[k + 1] - P[1] /\ r[k - 1] = P[k] - P[1] /\ evenlyGaps[k] = evenly[k + 1]
      BY <3>1
    <3> HIDE DEF r, evenlyGaps
    <3> QED BY <3>2, <3>3
  <2>6. SumOf(evenlyGaps, 1 .. n - 1) = r[n - 1]
    <3>1. n - 1 \in Nat /\ n - 1 \in 0 .. n - 1
      OBVIOUS
    <3>2. \A k \in 1 .. n - 1 : evenlyGaps[k] \in Nat
      BY <2>3
    <3> HIDE DEF r, evenlyGaps
    <3>3. Running(evenlyGaps, n - 1, r)
      BY <2>4, <2>5, <3>2 DEF Running
    <3> QED BY <3>1, <3>3, SumAlong
  <2>7. r[n - 1] = P[n] - P[1] /\ P[n] \in Nat /\ P[n] <= free
    <3>1. n - 1 \in 0 .. n - 1 /\ (n - 1) + 1 = n /\ n \in 0 .. n + 1
      OBVIOUS
    <3> QED BY <2>2, <3>1
  <2>8. P[1] = evenly[1] /\ evenly[1] \in Nat
    <3>1. 0 \in 0 .. n /\ 0 + 1 = 1 /\ 1 \in 1 .. n + 1
      OBVIOUS
    <3> QED BY <2>1, <2>2, <3>1
  <2> HIDE DEF r, evenlyGaps
  <2> QED BY <2>3, <2>6, <2>7, <2>8
<1> HIDE DEF aroundGaps, evenlyGaps, between
<1>8. CASE spread = [leading |-> 0, gaps |-> between] /\ n > 1
  <2>1. spread.leading = 0 /\ spread.gaps = between
    BY <1>8
  <2> QED BY <1>5, <1>8, <2>1 DEF Fitting, spread
<1>9. CASE spread \in {[leading |-> halves[1], gaps |-> none], [leading |-> free, gaps |-> none],
                       [leading |-> 0, gaps |-> none]}
  <2>1. spread.leading \in {halves[1], free, 0} /\ spread.gaps = none
    BY <1>9
  <2>2. spread.leading \in Nat /\ spread.leading + 0 <= free
    BY <1>4, <2>1
  <2> QED BY <1>1, <2>1, <2>2 DEF Fitting, spread
<1>10. CASE spread = [leading |-> around[1], gaps |-> aroundGaps]
  <2>1. spread.leading = around[1] /\ spread.gaps = aroundGaps
    BY <1>10
  <2> QED BY <1>6, <2>1 DEF Fitting, spread
<1>11. CASE spread = [leading |-> evenly[1], gaps |-> evenlyGaps]
  <2>1. spread.leading = evenly[1] /\ spread.gaps = evenlyGaps
    BY <1>11
  <2> QED BY <1>7, <2>1 DEF Fitting, spread
<1> QED BY <1>3, <1>8, <1>9, <1>10, <1>11

LEMMA SumUpTo ==
  ASSUME NEW n \in Nat, NEW f \in [1 .. n -> Nat], NEW k \in 0 .. n, NEW j \in 0 .. k
  PROVE  /\ SumOf(f, 1 .. j) \in Nat /\ SumOf(f, 1 .. k) \in Nat
         /\ SumOf(f, 1 .. j) <= SumOf(f, 1 .. k)
<1>1. PICK S, T : S = 1 .. k /\ T = 1 .. j
  OBVIOUS
<1>2. IsFiniteSet(S) /\ T \in SUBSET S /\ \A x \in S : f[x] \in Nat
  <2>1. T \in SUBSET S /\ \A x \in S : f[x] \in Nat
    BY <1>1
  <2>2. IsFiniteSet(1 .. k)
    BY FS_Interval
  <2> QED BY <1>1, <2>1, <2>2
<1>3. AddsUp(f, S, T)
  BY <1>2, SumMore
<1> QED BY <1>1, <1>3 DEF AddsUp

\* Things of these sizes, with a gap between them and a spread, are within the room.
Laid(extents, n, gap, spread, free, room) ==
  /\ n \in Nat \ {0} /\ extents \in [1 .. n -> Nat] /\ gap \in Nat
  /\ free \in Nat /\ Fitting(spread, n, free) /\ room \in Nat
  /\ SumOf(extents, 1 .. n) + gap * (n - 1) + free <= room

InRow(offsets, extents, n, room) ==
  /\ \A k \in 1 .. n : offsets[k] \in Nat /\ offsets[k] + extents[k] <= room
  /\ \A j, k \in 1 .. n : j < k => offsets[j] + extents[j] <= offsets[k]

LEMMA OffsetsRise ==
  ASSUME NEW extents, NEW n, NEW gap, NEW spread, NEW free, NEW room,
         Laid(extents, n, gap, spread, free, room)
  PROVE  InRow(Offsets(extents, gap, spread), extents, n, room)
<1>0. /\ n \in Nat \ {0} /\ extents \in [1 .. n -> Nat] /\ gap \in Nat
      /\ free \in Nat /\ room \in Nat
      /\ SumOf(extents, 1 .. n) + gap * (n - 1) + free <= room
      /\ spread.leading \in Nat /\ spread.gaps \in [1 .. n - 1 -> Nat]
      /\ spread.leading + SumOf(spread.gaps, 1 .. n - 1) <= free
  BY DEF Laid, Fitting
<1>1. PICK lead, gaps : lead = spread.leading /\ gaps = spread.gaps
  OBVIOUS
<1> DEFINE step == [j \in 1 .. n |-> IF j < n THEN extents[j] + gap + gaps[j] ELSE extents[j]]
           offsets == Offsets(extents, gap, spread)
<1>2. step \in [1 .. n -> Nat] /\ \A j \in 1 .. n : extents[j] <= step[j] /\ extents[j] \in Nat
  <2>1. \A j \in 1 .. n : j < n => j \in 1 .. n - 1
    BY <1>0
  <2>2. \A j \in 1 .. n : j < n => gaps[j] \in Nat
    BY <1>0, <1>1, <2>1
  <2>3. \A j \in 1 .. n : extents[j] \in Nat
    BY <1>0
  <2>4. \A j \in 1 .. n : step[j] \in Nat /\ extents[j] <= step[j]
    <3> TAKE j \in 1 .. n
    <3>1. CASE j < n
      <4>1. step[j] = extents[j] + gap + gaps[j] /\ gaps[j] \in Nat /\ extents[j] \in Nat
        BY <2>2, <2>3, <3>1
      <4> HIDE DEF step
      <4> QED BY <1>0, <4>1
    <3>2. CASE ~(j < n)
      <4>1. step[j] = extents[j] /\ extents[j] \in Nat
        BY <2>3, <3>2
      <4> HIDE DEF step
      <4> QED BY <4>1
    <3> QED BY <3>1, <3>2
  <2>5. step \in [1 .. n -> Nat]
    BY <2>4
  <2> HIDE DEF step
  <2> QED BY <2>3, <2>4, <2>5
<1>3. ASSUME NEW k \in 1 .. n PROVE offsets[k] = lead + SumOf(step, 1 .. k - 1)
  <2> DEFINE part == [j \in 1 .. k - 1 |-> extents[j] + gap + spread.gaps[j]]
  <2>1. k \in DOMAIN extents
    BY <1>0
  <2>2. offsets[k] = spread.leading + Total(part, 1 .. k - 1)
    BY <2>1 DEF Offsets
  <2>3. \A j \in 1 .. k - 1 : part[j] = step[j]
    <3>1. \A j \in 1 .. k - 1 : j \in 1 .. n /\ j < n
      BY <1>0
    <3> QED BY <1>1, <3>1
  <2> HIDE DEF part, step
  <2>4. Total(part, 1 .. k - 1) = SumOf(step, 1 .. k - 1)
    BY <2>3, TotalIs, SumSame
  <2> QED BY <1>1, <2>2, <2>4
<1>4. SumOf(step, 1 .. n) = SumOf(extents, 1 .. n) + gap * (n - 1) + SumOf(gaps, 1 .. n - 1)
  <2>1. PICK S : S = 1 .. n - 1
    OBVIOUS
  <2>2. IsFiniteSet(S) /\ Cardinality(S) = n - 1
    <3>1. 1 \in Int /\ n - 1 \in Int
      BY <1>0
    <3>2. IsFiniteSet(S) /\ Cardinality(S) = IF 1 > n - 1 THEN 0 ELSE (n - 1) - 1 + 1
      BY <2>1, <3>1, FS_Interval
    <3> QED BY <1>0, <3>2
  <2>3. PICK one, both : one = [j \in S |-> 1] /\ both = [j \in S |-> extents[j] + gaps[j]]
    OBVIOUS
  <2>4. \A j \in S : /\ extents[j] \in Nat /\ gaps[j] \in Nat /\ gap * 1 = gap /\ one[j] = 1
                     /\ both[j] = extents[j] + gaps[j] /\ step[j] = extents[j] + gap + gaps[j]
    <3>1. \A j \in S : j \in 1 .. n /\ j < n /\ j \in 1 .. n - 1
      BY <1>0, <2>1
    <3>2. \A j \in S : extents[j] \in Nat /\ gaps[j] \in Nat
      BY <1>0, <1>1, <3>1
    <3>3. \A j \in S : step[j] = extents[j] + gap + gaps[j]
      BY <3>1
    <3>4. \A j \in S : one[j] = 1 /\ both[j] = extents[j] + gaps[j]
      BY <2>3
    <3>5. gap * 1 = gap
      BY <1>0
    <3> HIDE DEF step
    <3> QED BY <3>2, <3>3, <3>4, <3>5
  <2> HIDE DEF step
  <2>5. Combines(S, gap, one, both, step)
    <3>1. \A j \in S : one[j] \in Nat /\ both[j] \in Nat /\ step[j] = gap * one[j] + both[j]
      <4> TAKE j \in S
      <4>1. PICK x, y, z, o : x = extents[j] /\ y = gaps[j] /\ z = step[j] /\ o = one[j]
        OBVIOUS
      <4>2. x \in Nat /\ y \in Nat /\ o = 1 /\ both[j] = x + y /\ z = x + gap + y
        BY <2>4, <4>1
      <4>3. x + gap + y = gap * 1 + (x + y)
        BY <1>0, <4>2
      <4> QED BY <4>1, <4>2, <4>3
    <3> QED BY <1>0, <2>2, <3>1 DEF Combines
  <2>6. Combines(S, 1, extents, gaps, both)
    BY <2>2, <2>4 DEF Combines
  <2>7. SumOf(step, S) = gap * SumOf(one, S) + SumOf(both, S)
    BY <2>5, SumLinear
  <2>8. SumOf(one, S) = n - 1
    BY <2>2, <2>4, SumOnes
  <2>9. SumOf(both, S) = SumOf(extents, S) + SumOf(gaps, S) /\ SumOf(extents, S) \in Nat /\ SumOf(gaps, S) \in Nat
    BY <2>6, SumAdds
  <2>10. ASSUME NEW f \in [1 .. n -> Nat]
         PROVE  SumOf(f, 1 .. n) = SumOf(f, S) + f[n] /\ SumOf(f, S) \in Nat /\ f[n] \in Nat
    <3>1. 1 \in Int /\ n - 1 \in Int /\ 1 <= (n - 1) + 1 /\ (n - 1) + 1 = n
      BY <1>0
    <3>2. \A x \in 1 .. (n - 1) + 1 : f[x] \in Nat
      BY <3>1
    <3> QED BY <2>1, <3>1, <3>2, SumNext
  <2>11. SumOf(step, 1 .. n) = SumOf(step, S) + step[n] /\ SumOf(extents, 1 .. n) = SumOf(extents, S) + extents[n]
         /\ extents[n] \in Nat
    BY <1>0, <1>2, <2>10
  <2>12. step[n] = extents[n]
    BY <1>0 DEF step
  <2>13. PICK a, b, c, d : a = SumOf(extents, S) /\ b = SumOf(gaps, S) /\ c = gap * (n - 1) /\ d = extents[n]
    OBVIOUS
  <2>14. a \in Nat /\ b \in Nat /\ c \in Nat /\ d \in Nat
    <3>1. n - 1 \in Nat
      BY <1>0
    <3> QED BY <1>0, <2>9, <2>11, <2>13, <3>1, Distributes
  <2>15. (c + (a + b)) + d = (a + d) + c + b
    BY <2>14
  <2> QED BY <2>1, <2>7, <2>8, <2>9, <2>11, <2>12, <2>13, <2>15
<1> HIDE DEF step, offsets
<1>5. lead + SumOf(step, 1 .. n) <= room
  <2>1. PICK a, b, c : a = SumOf(extents, 1 .. n) /\ b = gap * (n - 1) /\ c = SumOf(gaps, 1 .. n - 1)
    OBVIOUS
  <2>2. a \in Nat /\ b \in Nat /\ c \in Nat
    <3>1. n - 1 \in Nat /\ n \in 0 .. n /\ n \in Nat
      BY <1>0
    <3>2. b \in Nat
      BY <1>0, <2>1, <3>1, Distributes
    <3>3. a \in Nat
      BY <1>0, <2>1, <3>1, SumUpTo
    <3>4. IsFiniteSet(1 .. n - 1) /\ \A x \in 1 .. n - 1 : gaps[x] \in Nat
      <4>1. IsFiniteSet(1 .. n - 1)
        BY <1>0, FS_Interval
      <4> QED BY <1>0, <1>1, <4>1
    <3>5. c \in Nat
      BY <2>1, <3>4, SumNat
    <3> QED BY <3>2, <3>3, <3>5
  <2>3. SumOf(step, 1 .. n) = a + b + c /\ a + b + free <= room /\ lead + c <= free /\ lead \in Nat
    BY <1>0, <1>1, <1>4, <2>1
  <2> QED BY <1>0, <2>2, <2>3
<1>6. ASSUME NEW k \in 1 .. n
      PROVE  /\ SumOf(step, 1 .. k) = SumOf(step, 1 .. k - 1) + step[k] /\ SumOf(step, 1 .. k - 1) \in Nat
             /\ SumOf(step, 1 .. k) <= SumOf(step, 1 .. n) /\ SumOf(step, 1 .. n) \in Nat
             /\ step[k] \in Nat /\ SumOf(step, 1 .. k) \in Nat
  <2>1. 1 \in Int /\ k - 1 \in Int /\ 1 <= (k - 1) + 1 /\ (k - 1) + 1 = k
    BY <1>0
  <2>2. \A x \in 1 .. (k - 1) + 1 : step[x] \in Nat
    BY <1>0, <1>2, <2>1
  <2>3. SumOf(step, 1 .. k) = SumOf(step, 1 .. k - 1) + step[k] /\ SumOf(step, 1 .. k - 1) \in Nat
        /\ step[k] \in Nat
    BY <2>1, <2>2, SumNext
  <2>4. n \in Nat /\ n \in 0 .. n /\ k \in 0 .. n
    BY <1>0
  <2>5. SumOf(step, 1 .. k) <= SumOf(step, 1 .. n) /\ SumOf(step, 1 .. n) \in Nat /\ SumOf(step, 1 .. k) \in Nat
    BY <1>2, <2>4, SumUpTo
  <2> QED BY <2>3, <2>5
<1>7. ASSUME NEW k \in 1 .. n PROVE offsets[k] \in Nat /\ offsets[k] + extents[k] <= room
  <2>1. PICK p, q, t : p = SumOf(step, 1 .. k - 1) /\ q = SumOf(step, 1 .. k) /\ t = SumOf(step, 1 .. n)
    OBVIOUS
  <2>2. q = p + step[k] /\ p \in Nat /\ q <= t /\ t \in Nat /\ step[k] \in Nat
    BY <1>6, <2>1
  <2>3. offsets[k] = lead + p /\ lead + t <= room /\ lead \in Nat /\ extents[k] <= step[k] /\ extents[k] \in Nat
    BY <1>0, <1>1, <1>2, <1>3, <1>5, <2>1
  <2>4. PICK x, y : x = step[k] /\ y = extents[k]
    OBVIOUS
  <2>5. lead + p \in Nat /\ (lead + p) + y <= room
    <3>1. /\ q = p + x /\ p \in Nat /\ q <= t /\ t \in Nat /\ x \in Nat
          /\ lead + t <= room /\ lead \in Nat /\ y <= x /\ y \in Nat
      BY <2>2, <2>3, <2>4
    <3>2. room \in Nat
      BY <1>0
    <3> QED BY <3>1, <3>2
  <2> QED BY <2>3, <2>4, <2>5
<1>8. ASSUME NEW j \in 1 .. n, NEW k \in 1 .. n, j < k
      PROVE  offsets[j] + extents[j] <= offsets[k]
  <2>1. PICK p, q, t : p = SumOf(step, 1 .. j - 1) /\ q = SumOf(step, 1 .. j) /\ t = SumOf(step, 1 .. k - 1)
    OBVIOUS
  <2>2. q = p + step[j] /\ p \in Nat /\ step[j] \in Nat
    BY <1>6, <2>1
  <2>3. q <= t /\ t \in Nat
    <3>1. n \in Nat /\ k - 1 \in 0 .. n /\ j \in 0 .. k - 1
      BY <1>0, <1>8
    <3> QED BY <1>2, <2>1, <3>1, SumUpTo
  <2>4. /\ offsets[j] = lead + p /\ offsets[k] = lead + t /\ lead \in Nat
        /\ extents[j] <= step[j] /\ extents[j] \in Nat
    BY <1>0, <1>1, <1>2, <1>3, <2>1
  <2> QED BY <2>2, <2>3, <2>4
<1> QED BY <1>7, <1>8 DEF InRow, offsets

-----------------------------------------------------------------------------
(* Lines.                                                                  *)
LineSet == [start : Nat \ {0}, count : Nat \ {0}, cross : Nat]

Span(l) == l.start .. l.start + l.count - 1

\* How many children are in lines.
Formed(ls) == IF ls = <<>> THEN 0 ELSE ls[Len(ls)].start + ls[Len(ls)].count - 1

\* Lines that have these many children, one after another.
Chained(ls, many) ==
  /\ ls \in Seq(LineSet)
  /\ ls # <<>> => ls[1].start = 1
  /\ \A n \in 2 .. Len(ls) : ls[n].start = ls[n - 1].start + ls[n - 1].count
  /\ Formed(ls) = many

LEMMA LineFacts ==
  ASSUME NEW ls \in Seq(LineSet)
  PROVE  /\ Len(ls) \in Nat /\ DOMAIN ls = 1 .. Len(ls) /\ (ls = <<>> <=> Len(ls) = 0)
         /\ \A n \in 1 .. Len(ls) :
              /\ ls[n] \in LineSet /\ ls[n].start \in Nat \ {0} /\ ls[n].count \in Nat \ {0}
              /\ ls[n].cross \in Nat /\ ls[n].start \in Span(ls[n]) /\ Span(ls[n]) \subseteq Nat \ {0}
              /\ IsFiniteSet(Span(ls[n]))
<1>1. Len(ls) \in Nat /\ DOMAIN ls = 1 .. Len(ls) /\ \A n \in 1 .. Len(ls) : ls[n] \in LineSet
  BY LenProperties, ElementOfSeq
<1>2. ls = <<>> <=> Len(ls) = 0
  BY EmptySeq
<1>3. ASSUME NEW n \in 1 .. Len(ls)
      PROVE  /\ ls[n].start \in Nat \ {0} /\ ls[n].count \in Nat \ {0} /\ ls[n].cross \in Nat
             /\ ls[n].start \in Span(ls[n]) /\ Span(ls[n]) \subseteq Nat \ {0}
             /\ IsFiniteSet(Span(ls[n]))
  <2>1. ls[n].start \in Nat \ {0} /\ ls[n].count \in Nat \ {0} /\ ls[n].cross \in Nat
    BY <1>1 DEF LineSet
  <2>2. ls[n].start \in Span(ls[n]) /\ Span(ls[n]) \subseteq Nat \ {0}
    BY <2>1 DEF Span
  <2>3. IsFiniteSet(Span(ls[n]))
    <3>1. ls[n].start \in Int /\ ls[n].start + ls[n].count - 1 \in Int
      BY <2>1
    <3> QED BY <3>1, FS_Interval DEF Span
  <2> QED BY <2>1, <2>2, <2>3
<1> QED BY <1>1, <1>2, <1>3

(* Every child is in one line, and what is in an earlier line comes first. *)
LEMMA LinesSpan ==
  ASSUME NEW ls, NEW many, Chained(ls, many)
  PROVE  /\ many \in Nat
         /\ \A n \in 1 .. Len(ls) : Span(ls[n]) \subseteq 1 .. many
         /\ \A i \in 1 .. many : \E n \in 1 .. Len(ls) : i \in Span(ls[n])
         /\ \A m, n \in 1 .. Len(ls) : m < n => ls[m].start + ls[m].count <= ls[n].start
<1> DEFINE groups == [n \in 1 .. Len(ls) |-> [first |-> ls[n].start,
                                             last |-> ls[n].start + ls[n].count - 1]]
<1>1. /\ Len(ls) \in Nat /\ (ls = <<>> <=> Len(ls) = 0)
      /\ \A n \in 1 .. Len(ls) : ls[n].start \in Nat \ {0} /\ ls[n].count \in Nat \ {0}
  BY LineFacts DEF Chained
<1>2. many = IF Len(ls) = 0 THEN 0 ELSE ls[Len(ls)].start + ls[Len(ls)].count - 1
  BY <1>1 DEF Chained, Formed
<1>3. many \in Nat
  <2>1. Len(ls) # 0 => Len(ls) \in 1 .. Len(ls)
    BY <1>1
  <2> QED BY <1>1, <1>2, <2>1
<1>4. /\ Len(groups) = Len(ls)
      /\ \A n \in 1 .. Len(ls) : /\ groups[n].first = ls[n].start
                                 /\ groups[n].last = ls[n].start + ls[n].count - 1
  <2>1. groups \in Seq({groups[n] : n \in 1 .. Len(ls)}) /\ Len(groups) = Len(ls)
    <3>1. groups \in [1 .. Len(ls) -> {groups[n] : n \in 1 .. Len(ls)}]
      OBVIOUS
    <3> HIDE DEF groups
    <3> QED BY <1>1, <3>1, IsASeq
  <2> QED BY <2>1
<1> HIDE DEF groups
<1>5. Numbered(groups)
  BY <1>1, <1>4 DEF Numbered
<1>6. InSequence(groups, 1, many)
  <2>1. \A n \in 1 .. Len(ls) : groups[n].first <= groups[n].last
    BY <1>1, <1>4
  <2>2. ASSUME NEW n \in 2 .. Len(ls) PROVE groups[n].first = groups[n - 1].last + 1
    <3>1. n \in 1 .. Len(ls) /\ n - 1 \in 1 .. Len(ls)
      BY <1>1
    <3>2. ls[n].start = ls[n - 1].start + ls[n - 1].count
      BY DEF Chained
    <3>3. groups[n].first = ls[n].start /\ groups[n - 1].last = ls[n - 1].start + ls[n - 1].count - 1
      BY <1>4, <3>1
    <3>4. ls[n - 1].start \in Nat /\ ls[n - 1].count \in Nat
      BY <1>1, <3>1
    <3> QED BY <3>2, <3>3, <3>4
  <2>3. Len(ls) = 0 => 1 = many + 1
    BY <1>2
  <2>4. Len(ls) # 0 => groups[1].first = 1 /\ groups[Len(ls)].last = many
    <3> SUFFICES ASSUME Len(ls) # 0 PROVE groups[1].first = 1 /\ groups[Len(ls)].last = many
      OBVIOUS
    <3>1. 1 \in 1 .. Len(ls) /\ Len(ls) \in 1 .. Len(ls)
      BY <1>1
    <3>2. ls[1].start = 1
      BY <1>1 DEF Chained
    <3> QED BY <1>2, <1>4, <3>1, <3>2
  <2> QED BY <1>4, <2>1, <2>2, <2>3, <2>4 DEF InSequence
<1>7. /\ \A n \in 1 .. Len(ls) : 1 <= groups[n].first /\ groups[n].last <= many
      /\ \A i \in 1 .. many : \E n \in 1 .. Len(ls) : i \in groups[n].first .. groups[n].last
  BY <1>3, <1>4, <1>5, <1>6, SequenceSpans
<1>8. \A m, n \in 1 .. Len(ls) : m < n => groups[m].last < groups[n].first
  BY <1>3, <1>4, <1>5, <1>6, SequenceRises DEF Rises
<1>9. \A n \in 1 .. Len(ls) : Span(ls[n]) \subseteq 1 .. many
  <2> TAKE n \in 1 .. Len(ls)
  <2>1. /\ ls[n].start \in Nat /\ ls[n].count \in Nat
        /\ 1 <= ls[n].start /\ ls[n].start + ls[n].count - 1 <= many
    BY <1>1, <1>4, <1>7
  <2> QED BY <1>3, <2>1 DEF Span
<1>10. \A i \in 1 .. many : \E n \in 1 .. Len(ls) : i \in Span(ls[n])
  BY <1>4, <1>7 DEF Span
<1>11. \A m, n \in 1 .. Len(ls) : m < n => ls[m].start + ls[m].count <= ls[n].start
  BY <1>1, <1>4, <1>8
<1> QED BY <1>3, <1>9, <1>10, <1>11

LEMMA LinesApart ==
  ASSUME NEW ls, NEW many, Chained(ls, many), NEW m \in 1 .. Len(ls), NEW n \in 1 .. Len(ls),
         NEW i, i \in Span(ls[m]), i \in Span(ls[n])
  PROVE  m = n
<1>1. \A k \in 1 .. Len(ls) : ls[k].start \in Nat /\ ls[k].count \in Nat
  BY LineFacts DEF Chained
<1>2. Len(ls) \in Nat
  BY LineFacts DEF Chained
<1>3. ASSUME NEW a \in 1 .. Len(ls), NEW b \in 1 .. Len(ls), a < b, i \in Span(ls[a]), i \in Span(ls[b])
      PROVE  FALSE
  <2>1. ls[a].start + ls[a].count <= ls[b].start
    BY <1>3, LinesSpan
  <2>2. i \in Int /\ i <= ls[a].start + ls[a].count - 1 /\ ls[b].start <= i
    BY <1>1, <1>3 DEF Span
  <2> QED BY <1>1, <2>1, <2>2
<1>4. m < n \/ n < m \/ m = n
  BY <1>2
<1> QED BY <1>3, <1>4

LEMMA ChildFacts ==
  ASSUME NEW c, IsContainer(c)
  PROVE  /\ Len(c.children) \in Nat \ {0} /\ DOMAIN c.children = 1 .. Len(c.children)
         /\ c.main \in Nat /\ c.cross \in Nat /\ c.gap \in Nat /\ c.crossGap \in Nat
         /\ c.wrap \in Wraps
         /\ \A i \in 1 .. Len(c.children) : IsChild(c.children[i])
BY DEF IsContainer

LEMMA ClampIs ==
  ASSUME NEW size \in Int, NEW min \in Nat, NEW max \in Nat
  PROVE  /\ Clamp(size, min, max) \in Nat
         /\ max > 0 => Clamp(size, min, max) <= max
         /\ Clamp(size, min, max) >= min \/ (max > 0 /\ Clamp(size, min, max) = max)
BY DEF Clamp, Larger

LEMMA BasisFacts ==
  ASSUME NEW child, IsChild(child)
  PROVE  /\ WrapBasis(child) \in Nat /\ InitialSize(child) = WrapBasis(child)
         /\ Smallest(child) \in Nat
         /\ \A available : CrossExtent(child, available, FALSE) \in Nat
<1>1. /\ child.basis \in Nat /\ child.min \in Nat /\ child.max \in Nat /\ child.shrink \in Nat
      /\ child.cross \in Nat /\ child.crossMin \in Nat /\ child.crossMax \in Nat
  BY DEF IsChild
<1>0. child.basis \in Int /\ child.cross \in Int /\ 0 \in Int
  BY <1>1
<1>2. Clamp(child.basis, child.min, child.max) \in Nat
  BY <1>0, <1>1, ClampIs
<1>3. WrapBasis(child) \in Nat /\ InitialSize(child) = WrapBasis(child)
  BY <1>1, <1>2 DEF WrapBasis, InitialSize
<1>4. Smallest(child) \in Nat
  <2>1. Clamp(IF child.shrink > 0 THEN 0 ELSE child.basis, child.min, child.max) \in Nat
    <3>1. PICK size : size = (IF child.shrink > 0 THEN 0 ELSE child.basis)
      OBVIOUS
    <3>2. size \in Int
      BY <1>0, <3>1
    <3> QED BY <1>1, <3>1, <3>2, ClampIs
  <2> QED BY <1>1, <2>1 DEF Smallest
<1>5. ASSUME NEW available PROVE CrossExtent(child, available, FALSE) \in Nat
  <2>1. CrossExtent(child, available, FALSE) = Clamp(child.cross, child.crossMin, child.crossMax)
    BY DEF CrossExtent
  <2>2. Clamp(child.cross, child.crossMin, child.crossMax) \in Nat
    BY <1>0, <1>1, ClampIs
  <2> QED BY <2>1, <2>2, Zenon
<1> QED BY <1>3, <1>4, <1>5

\* What the children of a line need, as Bases says.
Need(c, l) ==
  SumOf([i \in DOMAIN c.children |-> WrapBasis(c.children[i])], Span(l)) + c.gap * (l.count - 1)

\* A line of several children is within the room, and the next child is not.
Packed(c, ls) ==
  \A n \in 1 .. Len(ls) :
    /\ Need(c, ls[n]) > c.main => ls[n].count = 1
    /\ n < Len(ls) => Need(c, ls[n]) + c.gap + WrapBasis(c.children[ls[n + 1].start]) > c.main

\* A line is as high as each of its children wants to be.
HighEnough(c, ls) ==
  \A n \in 1 .. Len(ls) : \A i \in Span(ls[n]) :
    CrossExtent(c.children[i], c.cross, FALSE) <= ls[n].cross

LinesFormed ==
  /\ IsContainer(input)
  /\ \E many \in 0 .. Len(input.children) : Chained(lines, many)
  /\ stage # "forming" => Chained(lines, Len(input.children))
  /\ IF input.wrap # "nowrap" THEN Packed(input, lines) /\ HighEnough(input, lines)
     ELSE lines = IF stage = "forming" THEN <<>> ELSE <<Line(1, Len(input.children), input.cross)>>

LEMMA BasesAre ==
  ASSUME NEW l, l.start \in Nat, l.count \in Nat
  PROVE  Bases(l) = Need(input, l)
BY TotalIs DEF Bases, Need, Span, InLine, Child

\* The last line with one more child, or another line.
Added(c, ls, i) ==
  LET extent == CrossExtent(c.children[i], c.cross, FALSE)
      last   == ls[Len(ls)]
  IN IF ls # <<>> /\ Need(c, last) + c.gap + WrapBasis(c.children[i]) <= c.main
     THEN [ls EXCEPT ![Len(ls)] = Line(last.start, last.count + 1, Larger(last.cross, extent))]
     ELSE Append(ls, Line(i, 1, extent))

LEMMA NeedOne ==
  ASSUME NEW c, IsContainer(c), NEW i \in 1 .. Len(c.children), NEW l, l.start = i, l.count = 1
  PROVE  Need(c, l) = WrapBasis(c.children[i]) /\ Span(l) = {i}
<1>1. i \in Nat /\ i + 1 - 1 = i /\ c.gap * (1 - 1) = 0 /\ DOMAIN c.children = 1 .. Len(c.children)
  BY ChildFacts
<1>2. Span(l) = {i}
  BY <1>1 DEF Span
<1> DEFINE f == [j \in DOMAIN c.children |-> WrapBasis(c.children[j])]
<1>3. f[i] = WrapBasis(c.children[i]) /\ f[i] \in Nat
  BY <1>1, ChildFacts, BasisFacts
<1> HIDE DEF f
<1>4. SumOf(f, {i}) = f[i]
  BY <1>3, SumOne
<1>5. Need(c, l) = SumOf(f, Span(l)) + c.gap * (l.count - 1)
  BY DEF Need, f
<1>6. Need(c, l) = f[i] + 0
  BY <1>1, <1>2, <1>4, <1>5
<1> QED BY <1>2, <1>3, <1>6

LEMMA NeedMore ==
  ASSUME NEW c, IsContainer(c), NEW l \in LineSet, NEW m \in LineSet,
         m.start = l.start, m.count = l.count + 1, l.start + l.count \in 1 .. Len(c.children)
  PROVE  /\ Need(c, m) = Need(c, l) + c.gap + WrapBasis(c.children[l.start + l.count])
         /\ Need(c, l) \in Nat /\ Need(c, m) \in Nat
         /\ Span(m) = Span(l) \cup {l.start + l.count}
<1>1. l.start \in Nat \ {0} /\ l.count \in Nat \ {0}
  BY DEF LineSet
<1>2. PICK a, b : a = l.start /\ b = l.start + l.count - 1
  OBVIOUS
<1> DEFINE f == [j \in DOMAIN c.children |-> WrapBasis(c.children[j])]
<1>3. \A j \in a .. b + 1 : f[j] \in Nat /\ f[j] = WrapBasis(c.children[j])
  <2>1. \A j \in a .. b + 1 : j \in 1 .. Len(c.children)
    BY <1>1, <1>2
  <2> QED BY <2>1, ChildFacts, BasisFacts
<1> HIDE DEF f
<1>4. a \in Int /\ b \in Int /\ a <= b + 1 /\ b + 1 = l.start + l.count /\ b + 1 = m.start + m.count - 1
      /\ b + 1 \in a .. b + 1
  BY <1>1, <1>2
<1>5. SumOf(f, a .. b + 1) = SumOf(f, a .. b) + f[b + 1] /\ SumOf(f, a .. b) \in Nat
  BY <1>3, <1>4, SumNext
<1>6. Span(l) = a .. b /\ Span(m) = a .. b + 1
  BY <1>2, <1>4 DEF Span
<1>7. Span(m) = Span(l) \cup {b + 1}
  BY <1>4, <1>6
<1>8. /\ Need(c, l) = SumOf(f, a .. b) + c.gap * (l.count - 1)
      /\ Need(c, m) = SumOf(f, a .. b + 1) + c.gap * (m.count - 1)
  BY <1>6 DEF Need, f
<1>9. PICK k \in Nat : l.count = k + 1
  <2>1. l.count - 1 \in Nat /\ l.count = (l.count - 1) + 1
    BY <1>1
  <2> QED BY <2>1
<1>10. l.count - 1 = k /\ m.count - 1 = k + 1
  BY <1>9
<1>11. c.gap * (k + 1) = c.gap * k + c.gap /\ c.gap * k \in Nat /\ c.gap \in Nat
  <2>1. c.gap \in Nat
    BY ChildFacts
  <2>2. c.gap * (k + 1) = c.gap * k + c.gap * 1 /\ c.gap * k \in Nat /\ c.gap * 1 = c.gap
    BY <2>1, Distributes
  <2> QED BY <2>1, <2>2
<1>12. PICK s, g, w : s = SumOf(f, a .. b) /\ g = c.gap * k /\ w = f[b + 1]
  OBVIOUS
<1>13. Need(c, l) = s + g /\ Need(c, m) = (s + w) + (g + c.gap) /\ s \in Nat /\ g \in Nat /\ w \in Nat
  BY <1>3, <1>4, <1>5, <1>8, <1>10, <1>11, <1>12
<1>14. w = WrapBasis(c.children[l.start + l.count]) /\ c.gap \in Nat
  BY <1>3, <1>4, <1>11, <1>12
<1> QED BY <1>4, <1>7, <1>13, <1>14

LEMMA AddedKeeps ==
  ASSUME NEW c, IsContainer(c), NEW ls, NEW many \in Nat, Chained(ls, many), many + 1 \in 1 .. Len(c.children),
         Packed(c, ls), HighEnough(c, ls)
  PROVE  /\ Chained(Added(c, ls, many + 1), many + 1)
         /\ Packed(c, Added(c, ls, many + 1)) /\ HighEnough(c, Added(c, ls, many + 1))
<1> DEFINE L == Len(ls)
           i == many + 1
           last == ls[L]
           extent == CrossExtent(c.children[i], c.cross, FALSE)
           longer == Line(last.start, last.count + 1, Larger(last.cross, extent))
           fresh == Line(i, 1, extent)
           new == Added(c, ls, i)
           joins == ls # <<>> /\ Need(c, last) + c.gap + WrapBasis(c.children[i]) <= c.main
<1>1. /\ ls \in Seq(LineSet) /\ L \in Nat /\ (ls = <<>> <=> L = 0)
      /\ \A n \in 1 .. L : ls[n] \in LineSet
      /\ \A n \in 2 .. L : ls[n].start = ls[n - 1].start + ls[n - 1].count
      /\ ls # <<>> => ls[1].start = 1 /\ last.start + last.count - 1 = many
      /\ ls = <<>> => many = 0
  BY LineFacts DEF Chained, Formed
<1>2. extent \in Nat /\ i \in Nat \ {0} /\ c.main \in Nat /\ c.gap \in Nat /\ WrapBasis(c.children[i]) \in Nat
  <2>1. IsChild(c.children[i])
    BY ChildFacts
  <2>2. extent \in Nat
    BY <2>1, BasisFacts
  <2>3. WrapBasis(c.children[i]) \in Nat
    BY <2>1, BasisFacts
  <2>4. c.main \in Nat /\ c.gap \in Nat
    BY ChildFacts
  <2>5. i \in Nat \ {0}
    OBVIOUS
  <2> HIDE DEF extent, i
  <2> QED BY <2>2, <2>3, <2>4, <2>5
<1>3. CASE joins
  <2>1. L \in 1 .. L /\ L > 0 /\ last \in LineSet
    BY <1>1, <1>3
  <2>2. /\ last.start \in Nat \ {0} /\ last.count \in Nat \ {0} /\ last.cross \in Nat
        /\ last.start + last.count = i
    <3>1. last.start \in Nat \ {0} /\ last.count \in Nat \ {0} /\ last.cross \in Nat
      BY <2>1 DEF LineSet
    <3>2. last.start + last.count - 1 = many
      BY <1>1, <1>3
    <3> HIDE DEF last
    <3> QED BY <3>1, <3>2
  <2>3. /\ longer \in LineSet /\ longer.start = last.start /\ longer.count = last.count + 1
        /\ longer.cross >= last.cross /\ longer.cross >= extent
    <3>1. Larger(last.cross, extent) \in Nat /\ Larger(last.cross, extent) >= last.cross
          /\ Larger(last.cross, extent) >= extent
      <4>1. PICK a, b : a = last.cross /\ b = extent
        OBVIOUS
      <4>2. a \in Nat /\ b \in Nat
        BY <1>2, <2>2, <4>1
      <4>3. Larger(a, b) \in Nat /\ Larger(a, b) >= a /\ Larger(a, b) >= b
        BY <4>2 DEF Larger
      <4> QED BY <4>1, <4>3
    <3>2. PICK x : x = Larger(last.cross, extent)
      OBVIOUS
    <3>3. longer = [start |-> last.start, count |-> last.count + 1, cross |-> x]
      BY <3>2 DEF Line
    <3> HIDE DEF longer, last, extent
    <3>4. last.start \in Nat \ {0} /\ last.count + 1 \in Nat \ {0} /\ x \in Nat
      BY <2>2, <3>1, <3>2
    <3>5. longer \in LineSet
      BY <3>3, <3>4 DEF LineSet
    <3>6. longer.start = last.start /\ longer.count = last.count + 1 /\ longer.cross = x
      BY <3>3
    <3> QED BY <3>1, <3>2, <3>5, <3>6
  <2>4. new = [ls EXCEPT ![L] = longer]
    BY <1>3 DEF Added
  <2> HIDE DEF longer, new, extent, joins
  <2>5. /\ new \in Seq(LineSet) /\ Len(new) = L /\ new[L] = longer
        /\ \A n \in 1 .. L : n # L => new[n] = ls[n]
    <3>1. new \in Seq(LineSet) /\ Len(new) = L
      BY <1>1, <2>1, <2>3, <2>4, ExceptSeq
    <3>2. DOMAIN ls = 1 .. L
      BY <1>1, LineFacts
    <3> QED BY <2>1, <2>4, <3>1, <3>2
  <2>6. \A n \in 1 .. L : new[n].start = ls[n].start
    BY <2>3, <2>5
  <2>7. Chained(new, i)
    <3>1. new # <<>> => new[1].start = 1
      <4>1. 1 \in 1 .. L /\ ls # <<>>
        BY <1>1, <2>1
      <4> QED BY <1>1, <2>6, <4>1
    <3>2. ASSUME NEW n \in 2 .. L PROVE new[n].start = new[n - 1].start + new[n - 1].count
      <4>1. n \in 1 .. L /\ n - 1 \in 1 .. L /\ n - 1 # L
        BY <1>1
      <4>2. new[n - 1] = ls[n - 1] /\ new[n].start = ls[n].start
        BY <2>5, <2>6, <4>1
      <4> QED BY <1>1, <4>2
    <3>3. Formed(new) = i
      <4>1. new # <<>>
        BY <2>1, <2>5, EmptySeq
      <4>2. Formed(new) = longer.start + longer.count - 1
        BY <2>5, <4>1 DEF Formed
      <4> QED BY <2>2, <2>3, <4>2
    <3> QED BY <2>5, <3>1, <3>2, <3>3 DEF Chained
  <2>8. /\ Need(c, longer) = Need(c, last) + c.gap + WrapBasis(c.children[i])
        /\ Span(longer) = Span(last) \cup {i}
    BY <2>1, <2>2, <2>3, NeedMore
  <2>9. Packed(c, new)
    <3>1. ASSUME NEW n \in 1 .. L, Need(c, new[n]) > c.main PROVE new[n].count = 1
      <4>1. CASE n = L
        <5>1. Need(c, longer) <= c.main /\ Need(c, longer) \in Nat
          <6>1. Need(c, longer) \in Nat
            BY <2>1, <2>2, <2>3, NeedMore
          <6>2. Need(c, last) + c.gap + WrapBasis(c.children[i]) <= c.main
            BY <1>3 DEF joins
          <6> QED BY <2>8, <6>1, <6>2
        <5>2. Need(c, longer) > c.main
          BY <2>5, <3>1, <4>1
        <5> QED BY <1>2, <5>1, <5>2
      <4>2. CASE n # L
        BY <2>5, <3>1, <4>2 DEF Packed
      <4> QED BY <4>1, <4>2
    <3>2. ASSUME NEW n \in 1 .. L, n < L
          PROVE  Need(c, new[n]) + c.gap + WrapBasis(c.children[new[n + 1].start]) > c.main
      <4>1. new[n] = ls[n] /\ n + 1 \in 1 .. L
        BY <1>1, <2>5, <3>2
      <4>2. new[n + 1].start = ls[n + 1].start
        BY <2>6, <4>1
      <4> QED BY <3>2, <4>1, <4>2 DEF Packed
    <3> QED BY <2>5, <3>1, <3>2 DEF Packed
  <2>10. HighEnough(c, new)
    <3>1. ASSUME NEW n \in 1 .. L, NEW j \in Span(new[n])
          PROVE  CrossExtent(c.children[j], c.cross, FALSE) <= new[n].cross
      <4>1. CASE n # L
        BY <2>5, <3>1, <4>1 DEF HighEnough
      <4>2. CASE n = L /\ j = i
        BY <2>3, <2>5, <4>2 DEF extent
      <4>3. CASE n = L /\ j \in Span(last)
        <5>1. CrossExtent(c.children[j], c.cross, FALSE) <= last.cross
          BY <2>1, <4>3 DEF HighEnough
        <5>2. CrossExtent(c.children[j], c.cross, FALSE) \in Nat
          <6>1. j \in 1 .. many
            BY <2>1, <4>3, LinesSpan
          <6>2. j \in 1 .. Len(c.children)
            BY <6>1, ChildFacts
          <6> QED BY <6>2, ChildFacts, BasisFacts
        <5>3. new[n] = longer
          BY <2>5, <4>3
        <5>4. longer.cross \in Nat
          BY <2>3 DEF LineSet
        <5>5. PICK x, y, z : /\ x = CrossExtent(c.children[j], c.cross, FALSE)
                             /\ y = last.cross /\ z = longer.cross
          OBVIOUS
        <5>6. x <= y /\ y <= z /\ x \in Nat /\ y \in Nat /\ z \in Nat
          BY <2>2, <2>3, <5>1, <5>2, <5>4, <5>5
        <5>7. x <= z
          BY <5>6
        <5> QED BY <5>3, <5>5, <5>7
      <4> QED BY <2>5, <2>8, <4>1, <4>2, <4>3
    <3> QED BY <2>5, <3>1 DEF HighEnough
  <2> QED BY <2>7, <2>9, <2>10 DEF new
<1>4. CASE ~joins
  <2>1. new = Append(ls, fresh)
    BY <1>4 DEF Added
  <2>2. fresh \in LineSet /\ fresh.start = i /\ fresh.count = 1 /\ fresh.cross = extent
    <3>1. fresh = [start |-> i, count |-> 1, cross |-> extent]
      BY DEF Line
    <3> HIDE DEF fresh, extent
    <3> QED BY <1>2, <3>1 DEF LineSet
  <2> HIDE DEF new, fresh, extent
  <2>3. /\ new \in Seq(LineSet) /\ Len(new) = L + 1 /\ new[L + 1] = fresh /\ new # <<>>
        /\ \A n \in 1 .. L : new[n] = ls[n]
    BY <1>1, <2>1, <2>2, AppendProperties
  <2>4. Chained(new, i)
    <3>1. new[1].start = 1
      <4>1. CASE L = 0
        BY <1>1, <2>2, <2>3, <4>1
      <4>2. CASE L # 0
        <5>1. 1 \in 1 .. L
          BY <1>1, <4>2
        <5> QED BY <1>1, <2>3, <4>2, <5>1
      <4> QED BY <4>1, <4>2
    <3>2. ASSUME NEW n \in 2 .. L + 1 PROVE new[n].start = new[n - 1].start + new[n - 1].count
      <4>1. CASE n = L + 1
        <5>1. L # 0 /\ L \in 1 .. L /\ n - 1 = L
          BY <1>1, <4>1
        <5>2. last.start + last.count = i
          <6>1. last.start \in Nat /\ last.count \in Nat /\ ls # <<>>
            BY <1>1, <5>1 DEF LineSet
          <6>2. last.start + last.count - 1 = many
            BY <1>1, <6>1
          <6> HIDE DEF last
          <6> QED BY <6>1, <6>2
        <5>3. new[L] = last
          BY <2>3, <5>1
        <5> QED BY <2>2, <2>3, <4>1, <5>1, <5>2, <5>3
      <4>2. CASE n # L + 1
        <5>1. n \in 2 .. L /\ n \in 1 .. L /\ n - 1 \in 1 .. L
          BY <1>1, <4>2
        <5> QED BY <1>1, <2>3, <5>1
      <4> QED BY <4>1, <4>2
    <3>3. Formed(new) = i
      <4>1. Formed(new) = fresh.start + fresh.count - 1
        BY <2>3 DEF Formed
      <4> QED BY <1>2, <2>2, <4>1
    <3> QED BY <2>3, <3>1, <3>2, <3>3 DEF Chained
  <2>5. Packed(c, new)
    <3>1. ASSUME NEW n \in 1 .. L + 1, Need(c, new[n]) > c.main PROVE new[n].count = 1
      <4>1. CASE n = L + 1
        BY <2>2, <2>3, <4>1
      <4>2. CASE n # L + 1
        <5>1. n \in 1 .. L
          BY <1>1, <4>2
        <5> QED BY <2>3, <3>1, <5>1 DEF Packed
      <4> QED BY <4>1, <4>2
    <3>2. ASSUME NEW n \in 1 .. L + 1, n < L + 1
          PROVE  Need(c, new[n]) + c.gap + WrapBasis(c.children[new[n + 1].start]) > c.main
      <4>1. n \in 1 .. L /\ new[n] = ls[n]
        BY <1>1, <2>3, <3>2
      <4>2. CASE n = L
        <5>1. new[n + 1].start = i /\ ls # <<>>
          BY <1>1, <2>2, <2>3, <4>1, <4>2
        <5>2. ~(Need(c, last) + c.gap + WrapBasis(c.children[i]) <= c.main)
          BY <1>4, <5>1
        <5>3. Need(c, last) \in Nat
          <6>1. last \in LineSet
            BY <1>1, <4>1, <4>2
          <6>2. last.start \in Nat /\ last.count \in Nat /\ last.start + last.count = i
            BY <1>1, <5>1, <6>1 DEF LineSet
          <6>3. /\ Line(last.start, last.count + 1, 0) \in LineSet
                /\ Line(last.start, last.count + 1, 0).start = last.start
                /\ Line(last.start, last.count + 1, 0).count = last.count + 1
            BY <6>1 DEF LineSet, Line
          <6> QED BY <6>1, <6>2, <6>3, NeedMore
        <5> QED BY <1>2, <4>1, <4>2, <5>1, <5>2, <5>3
      <4>3. CASE n # L
        <5>1. n + 1 \in 1 .. L /\ n < L
          BY <1>1, <3>2, <4>1, <4>3
        <5> QED BY <2>3, <4>1, <5>1 DEF Packed
      <4> QED BY <4>2, <4>3
    <3> QED BY <2>3, <3>1, <3>2 DEF Packed
  <2>6. HighEnough(c, new)
    <3>1. ASSUME NEW n \in 1 .. L + 1, NEW j \in Span(new[n])
          PROVE  CrossExtent(c.children[j], c.cross, FALSE) <= new[n].cross
      <4>1. CASE n = L + 1
        <5>1. Span(fresh) = {i} /\ new[n] = fresh
          BY <2>2, <2>3, <4>1, NeedOne
        <5>2. j = i /\ new[n].cross = extent
          BY <2>2, <3>1, <5>1
        <5>3. extent <= extent
          BY <1>2
        <5> QED BY <5>2, <5>3 DEF extent
      <4>2. CASE n # L + 1
        <5>1. n \in 1 .. L
          BY <1>1, <4>2
        <5> QED BY <2>3, <5>1 DEF HighEnough
      <4> QED BY <4>1, <4>2
    <3> QED BY <2>3, <3>1 DEF HighEnough
  <2> QED BY <2>4, <2>5, <2>6 DEF new
<1> QED BY <1>3, <1>4

LEMMA NoLines ==
  ASSUME NEW c, IsContainer(c)
  PROVE  Chained(<<>>, 0) /\ Packed(c, <<>>) /\ HighEnough(c, <<>>)
<1>1. <<>> \in Seq(LineSet) /\ Len(<<>>) = 0 /\ 1 .. Len(<<>>) = {} /\ 2 .. Len(<<>>) = {}
  BY EmptySeq
<1> QED BY <1>1 DEF Chained, Packed, HighEnough, Formed

LEMMA OneLine ==
  ASSUME NEW n \in Nat \ {0}, NEW cross \in Nat
  PROVE  Chained(<<Line(1, n, cross)>>, n)
<1>1. PICK l : l = Line(1, n, cross)
  OBVIOUS
<1>2. l \in LineSet /\ l.start = 1 /\ l.count = n
  BY <1>1 DEF Line, LineSet
<1>3. <<l>> \in Seq(LineSet) /\ Len(<<l>>) = 1 /\ <<l>>[1] = l /\ <<l>> # <<>>
  BY <1>2
<1>4. 2 .. Len(<<l>>) = {}
  BY <1>3
<1>5. Formed(<<l>>) = n
  <2>1. Formed(<<l>>) = l.start + l.count - 1
    BY <1>3 DEF Formed
  <2> QED BY <1>2, <2>1
<1>6. <<l>>[1].start = 1
  BY <1>2, <1>3
<1> QED BY <1>1, <1>3, <1>4, <1>5, <1>6 DEF Chained

LEMMA NextChildIs ==
  ASSUME NEW many, Chained(lines, many)
  PROVE  NextChild = many + 1 /\ many \in Nat
<1>1. lines \in Seq(LineSet) /\ Formed(lines) = many /\ many \in Nat
  BY LinesSpan DEF Chained
<1>2. CASE lines = <<>>
  BY <1>1, <1>2 DEF NextChild, Formed
<1>3. CASE lines # <<>>
  <2>1. Len(lines) \in 1 .. Len(lines)
    BY <1>1, <1>3, LineFacts
  <2>2. LastLine.start \in Nat /\ LastLine.count \in Nat
    BY <1>1, <2>1, LineFacts DEF LastLine
  <2>3. many = LastLine.start + LastLine.count - 1
    BY <1>1, <1>3 DEF LastLine, Formed
  <2>4. NextChild = LastLine.start + LastLine.count
    BY <1>3 DEF NextChild
  <2> QED BY <1>1, <2>2, <2>3, <2>4
<1> QED BY <1>2, <1>3

LEMMA ChildIsAdded ==
  ASSUME LinesFormed, AddToLines
  PROVE  LinesFormed'
<1>0. /\ IsContainer(input) /\ stage = "forming" /\ input.wrap # "nowrap" /\ input' = input /\ stage' = stage
      /\ Packed(input, lines) /\ HighEnough(input, lines)
  BY DEF LinesFormed, AddToLines
<1>1. PICK many \in 0 .. Len(input.children) : Chained(lines, many)
  BY DEF LinesFormed
<1>2. /\ NextChild = many + 1 /\ many \in Nat /\ NextChild <= Len(input.children)
      /\ Len(input.children) \in Nat
  BY <1>0, <1>1, NextChildIs, ChildFacts DEF AddToLines
<1>3. many + 1 \in 1 .. Len(input.children)
  BY <1>2
<1>4. lines' = Added(input, lines, many + 1)
  <2>1. lines # <<>> => Bases(LastLine) = Need(input, LastLine)
    <3> SUFFICES ASSUME lines # <<>> PROVE Bases(LastLine) = Need(input, LastLine)
      OBVIOUS
    <3>1. lines \in Seq(LineSet) /\ Len(lines) \in 1 .. Len(lines)
      BY <1>1, LineFacts DEF Chained
    <3>2. LastLine.start \in Nat /\ LastLine.count \in Nat
      BY <3>1, LineFacts DEF LastLine
    <3> QED BY <3>2, BasesAre
  <2> QED BY <1>2, <2>1 DEF AddToLines, Added, Fits, LastLine, Child
<1>5. Chained(lines', many + 1) /\ Packed(input, lines') /\ HighEnough(input, lines')
  BY <1>0, <1>1, <1>2, <1>3, <1>4, AddedKeeps
<1>6. many + 1 \in 0 .. Len(input.children)
  BY <1>2
<1> QED BY <1>0, <1>5, <1>6 DEF LinesFormed

LEMMA LinesAreFormed ==
  ASSUME LinesFormed, FormLines
  PROVE  LinesFormed' /\ lines' # <<>>
<1>0. /\ IsContainer(input) /\ stage = "forming" /\ input' = input /\ stage' = "sizing"
      /\ Len(input.children) \in Nat \ {0} /\ input.cross \in Nat
  BY ChildFacts DEF LinesFormed, FormLines
<1>1. CASE input.wrap = "nowrap"
  <2>1. lines' = <<Line(1, Len(input.children), input.cross)>>
    BY <1>1 DEF FormLines
  <2>2. Chained(lines', Len(input.children))
    BY <1>0, <2>1, OneLine
  <2>3. Len(input.children) \in 0 .. Len(input.children)
    BY <1>0
  <2> QED BY <1>0, <1>1, <2>1, <2>2, <2>3 DEF LinesFormed
<1>2. CASE input.wrap # "nowrap"
  <2>1. lines' = lines /\ NextChild > Len(input.children)
    BY <1>2 DEF FormLines
  <2>2. PICK many \in 0 .. Len(input.children) : Chained(lines, many)
    BY DEF LinesFormed
  <2>3. many = Len(input.children)
    BY <1>0, <2>1, <2>2, NextChildIs
  <2>4. lines # <<>>
    BY <1>0, <2>2, <2>3 DEF Chained, Formed
  <2>5. Packed(input, lines) /\ HighEnough(input, lines)
    BY <1>2 DEF LinesFormed
  <2>6. many \in 0 .. Len(input.children)
    OBVIOUS
  <2> QED BY <1>0, <1>2, <2>1, <2>2, <2>3, <2>4, <2>5, <2>6 DEF LinesFormed
<1> QED BY <1>1, <1>2

-----------------------------------------------------------------------------
(* Sizes of one line.                                                      *)
LEMMA GivenOut ==
  ASSUME NEW S, IsFiniteSet(S), NEW K \in SUBSET S, NEW base, NEW shares, NEW new,
         \A i \in S : base[i] \in Nat, \A i \in K : shares[i] \in Nat,
         \A i \in S : new[i] = IF i \in K THEN base[i] + shares[i] ELSE base[i]
  PROVE  SumOf(new, S) = SumOf(base, S) + SumOf(shares, K)
<1>1. PICK given : given = [i \in S |-> IF i \in K THEN shares[i] ELSE 0]
  OBVIOUS
<1>2. \A i \in S : given[i] \in Nat /\ new[i] = base[i] + given[i]
  BY <1>1
<1>3. (\A i \in K : given[i] = shares[i]) /\ (\A i \in S \ K : given[i] = 0)
  BY <1>1
<1>4. SumOf(new, S) = SumOf(base, S) + SumOf(given, S)
  <2>1. Combines(S, 1, base, given, new)
    BY <1>2 DEF Combines
  <2> QED BY <2>1, SumAdds
<1>5. SumOf(given, S) = SumOf(given, K) + SumOf(given, S \ K)
  BY <1>2, SumMore DEF AddsUp
<1>6. SumOf(given, K) = SumOf(shares, K)
  BY <1>3, SumSame
<1>7. SumOf(given, S \ K) = 0
  <2>1. IsFiniteSet(S \ K)
    BY FS_Subset
  <2> QED BY <1>3, <2>1, SumZero
<1>8. SumOf(given, K) \in Nat
  <2>1. IsFiniteSet(K)
    BY FS_Subset
  <2> QED BY <1>2, <2>1, SumNat
<1> QED BY <1>4, <1>5, <1>6, <1>7, <1>8

LEMMA SumPositive ==
  ASSUME NEW f, NEW S, IsFiniteSet(S), \A x \in S : f[x] \in Nat, NEW x \in S, f[x] > 0
  PROVE  SumOf(f, S) > 0
<1>1. SumOf(f, S) = SumOf(f, S \ {x}) + f[x] /\ SumOf(f, S \ {x}) \in Nat
  BY SumStep
<1> QED BY <1>1

RoomOf(c, l) == c.main - c.gap * (l.count - 1)

LeftOf(c, l, s) == RoomOf(c, l) - SumOf(s, Span(l))

HasFlex(c, l) == \E i \in Span(l) : c.children[i].kind = "flex"

\* The bounds of a size; a maximum of a flexible child wins.
Within(child, size) ==
  /\ child.kind = "fixed" => size = child.basis
  /\ child.kind # "flex" => size >= child.min
  /\ child.kind = "flex" => /\ child.max > 0 => size <= child.max
                            /\ size >= child.min \/ (child.max > 0 /\ size = child.max)

\* What holds of a line that is sized.
HeldLine(c, l, s) ==
  /\ LeftOf(c, l, s) >= 0
  /\ LeftOf(c, l, s) > 0 => \A i \in Span(l) : Sated(c.children[i], s[i], HasFlex(c, l))
  /\ \A i \in Span(l) : Within(c.children[i], s[i])

(* What holds between two rounds.  Who is no longer active wants no more   *)
(* while room is left, and is at its smallest while room is missing.       *)
FlexLine(c, l, s, a) ==
  /\ HasFlex(c, l)
  /\ a \subseteq {i \in Span(l) : c.children[i].kind \in {"flex", "fraction"}}
  /\ \A i \in Span(l) : Within(c.children[i], s[i])
  /\ LeftOf(c, l, s) > 0 => \A i \in Span(l) : i \in a \/ Sated(c.children[i], s[i], TRUE)
  /\ LeftOf(c, l, s) < 0 =>
       \A i \in Span(l) : \/ s[i] = Smallest(c.children[i])
                          \/ i \in a /\ Weight(c.children[i], FALSE) > 0

OnLine(c, l, s) ==
  /\ IsContainer(c) /\ l \in LineSet /\ Span(l) \subseteq 1 .. Len(c.children)
  /\ s \in [1 .. Len(c.children) -> Nat]

LEMMA OnLineFacts ==
  ASSUME NEW c, NEW l, NEW s, OnLine(c, l, s)
  PROVE  /\ IsFiniteSet(Span(l)) /\ RoomOf(c, l) \in Int
         /\ SumOf(s, Span(l)) \in Nat /\ LeftOf(c, l, s) \in Int
         /\ \A i \in Span(l) :
              /\ s[i] \in Nat /\ IsChild(c.children[i]) /\ i \in Nat
              /\ Smallest(c.children[i]) \in Nat
              /\ \A growing \in BOOLEAN : Weight(c.children[i], growing) \in Nat
<1>1. l.start \in Nat \ {0} /\ l.count \in Nat \ {0}
  BY DEF OnLine, LineSet
<1>2. IsFiniteSet(Span(l))
  <2>1. l.start \in Int /\ l.start + l.count - 1 \in Int
    BY <1>1
  <2> QED BY <2>1, FS_Interval DEF Span
<1>3. RoomOf(c, l) \in Int
  <2>1. c.main \in Nat /\ c.gap \in Nat /\ l.count - 1 \in Nat
    BY <1>1, ChildFacts DEF OnLine
  <2>2. c.gap * (l.count - 1) \in Nat
    BY <2>1, Distributes
  <2> QED BY <2>1, <2>2 DEF RoomOf
<1>4. ASSUME NEW i \in Span(l)
      PROVE  /\ s[i] \in Nat /\ IsChild(c.children[i]) /\ i \in Nat
             /\ Smallest(c.children[i]) \in Nat
             /\ \A growing \in BOOLEAN : Weight(c.children[i], growing) \in Nat
  <2>1. i \in 1 .. Len(c.children) /\ Len(c.children) \in Nat
    BY ChildFacts DEF OnLine
  <2>2. s[i] \in Nat /\ IsChild(c.children[i]) /\ i \in Nat
    BY <2>1, ChildFacts DEF OnLine
  <2>3. Smallest(c.children[i]) \in Nat
    BY <2>2, BasisFacts
  <2>4. ASSUME NEW growing \in BOOLEAN PROVE Weight(c.children[i], growing) \in Nat
    <3>1. c.children[i].shrink \in Nat /\ c.children[i].basis \in Nat /\ c.children[i].grow \in Nat
      BY <2>2 DEF IsChild
    <3>2. c.children[i].shrink * c.children[i].basis \in Nat
      BY <3>1, Distributes
    <3> QED BY <3>1, <3>2, Zenon DEF Weight
  <2> QED BY <2>2, <2>3, <2>4
<1>5. SumOf(s, Span(l)) \in Nat
  BY <1>2, <1>4, SumNat
<1> QED BY <1>2, <1>3, <1>4, <1>5 DEF LeftOf

LEMMA HeldSame ==
  ASSUME NEW c, NEW l, NEW s, NEW t, HeldLine(c, l, s), \A i \in Span(l) : s[i] = t[i]
  PROVE  HeldLine(c, l, t)
<1>1. SumOf(s, Span(l)) = SumOf(t, Span(l))
  BY SumSame
<1>2. LeftOf(c, l, s) = LeftOf(c, l, t)
  BY <1>1 DEF LeftOf
<1> QED BY <1>2 DEF HeldLine

LEMMA BoundedIs ==
  ASSUME NEW child, IsChild(child), NEW size \in Int
  PROVE  /\ Bounded(child, size) \in Nat
         /\ child.kind \in {"flex", "fraction"} => Within(child, Bounded(child, size))
         /\ Bounded(child, size) < size =>
              child.kind = "flex" /\ child.max > 0 /\ Bounded(child, size) = child.max
         /\ Bounded(child, size) > size =>
              \/ child.kind # "flex" /\ Bounded(child, size) = child.min
              \/ child.kind = "flex" /\ Bounded(child, size) = Clamp(0, child.min, child.max)
<1>1. child.min \in Nat /\ child.max \in Nat
  BY DEF IsChild
<1> QED BY <1>1 DEF Bounded, Clamp, Larger, Within

\* One round over the participants P, of whom U are not frozen.
RoundOf(c, l, s, P, shares, next, U) ==
  LET wanted(i) == IF LeftOf(c, l, s) > 0 THEN s[i] + shares[i] ELSE s[i] - shares[i]
  IN /\ P \subseteq Span(l) /\ shares \in [P -> Nat]
     /\ next = [i \in 1 .. Len(c.children) |->
                  IF i \in P THEN Bounded(c.children[i], wanted(i)) ELSE s[i]]
     /\ U = {i \in P : next[i] = wanted(i)}

LEMMA RoundIs ==
  ASSUME NEW c, NEW l, NEW s, OnLine(c, l, s), NEW P, NEW shares, NEW next, NEW U,
         RoundOf(c, l, s, P, shares, next, U)
  PROVE  /\ OnLine(c, l, next)
         /\ \A i \in 1 .. Len(c.children) : i \notin Span(l) => next[i] = s[i]
<1>1. \A i \in 1 .. Len(c.children) : s[i] \in Nat /\ IsChild(c.children[i])
  BY ChildFacts DEF OnLine
<1>2. ASSUME NEW i \in 1 .. Len(c.children) PROVE next[i] \in Nat
  <2>1. PICK w : w = IF LeftOf(c, l, s) > 0 THEN s[i] + shares[i] ELSE s[i] - shares[i]
    OBVIOUS
  <2>2. next[i] = IF i \in P THEN Bounded(c.children[i], w) ELSE s[i]
    BY <2>1 DEF RoundOf
  <2>3. CASE i \in P
    <3>1. shares[i] \in Nat /\ s[i] \in Nat
      BY <1>1, <2>3 DEF RoundOf
    <3>2. w \in Int
      BY <2>1, <3>1
    <3> QED BY <1>1, <2>2, <2>3, <3>2, BoundedIs
  <2> QED BY <1>1, <2>2, <2>3
<1>3. next \in [1 .. Len(c.children) -> Nat]
  BY <1>2 DEF RoundOf
<1>4. \A i \in 1 .. Len(c.children) : i \notin Span(l) => next[i] = s[i]
  BY DEF RoundOf
<1> QED BY <1>3, <1>4 DEF OnLine

LEMMA RoundParts ==
  ASSUME NEW c, NEW l, NEW s, OnLine(c, l, s), NEW P, NEW shares, NEW next, NEW U,
         RoundOf(c, l, s, P, shares, next, U)
  PROVE  /\ P \subseteq Span(l) /\ U \subseteq P
         /\ \A i \in P : i \in 1 .. Len(c.children) /\ shares[i] \in Nat
         /\ LeftOf(c, l, s) > 0 => \A i \in P : next[i] = Bounded(c.children[i], s[i] + shares[i])
         /\ ~(LeftOf(c, l, s) > 0) => \A i \in P : next[i] = Bounded(c.children[i], s[i] - shares[i])
         /\ LeftOf(c, l, s) > 0 => \A i \in P : i \in U <=> next[i] = s[i] + shares[i]
         /\ ~(LeftOf(c, l, s) > 0) => \A i \in P : i \in U <=> next[i] = s[i] - shares[i]
         /\ \A i \in 1 .. Len(c.children) : i \notin P => next[i] = s[i]
<1>1. P \subseteq Span(l) /\ U \subseteq P /\ Span(l) \subseteq 1 .. Len(c.children)
  BY DEF RoundOf, OnLine
<1>2. \A i \in P : i \in 1 .. Len(c.children) /\ shares[i] \in Nat
  BY <1>1 DEF RoundOf
<1>3. \A i \in 1 .. Len(c.children) : i \notin P => next[i] = s[i]
  BY DEF RoundOf
<1>4. LeftOf(c, l, s) > 0 => \A i \in P : next[i] = Bounded(c.children[i], s[i] + shares[i])
  BY <1>2 DEF RoundOf
<1>5. ~(LeftOf(c, l, s) > 0) => \A i \in P : next[i] = Bounded(c.children[i], s[i] - shares[i])
  BY <1>2 DEF RoundOf
<1>6. LeftOf(c, l, s) > 0 => \A i \in P : i \in U <=> next[i] = s[i] + shares[i]
  BY <1>2 DEF RoundOf
<1>7. ~(LeftOf(c, l, s) > 0) => \A i \in P : i \in U <=> next[i] = s[i] - shares[i]
  BY <1>2 DEF RoundOf
<1> QED BY <1>1, <1>2, <1>3, <1>4, <1>5, <1>6, <1>7

LEMMA FlexParts ==
  ASSUME NEW c, NEW l, NEW s, NEW a, FlexLine(c, l, s, a)
  PROVE  /\ HasFlex(c, l) = TRUE /\ a \subseteq Span(l)
         /\ \A i \in a : c.children[i].kind \in {"flex", "fraction"}
         /\ \A i \in Span(l) : Within(c.children[i], s[i])
<1>1. HasFlex(c, l) = TRUE
  BY DEF FlexLine, HasFlex
<1>2. a \subseteq Span(l) /\ \A i \in a : c.children[i].kind \in {"flex", "fraction"}
  BY DEF FlexLine
<1>3. \A i \in Span(l) : Within(c.children[i], s[i])
  BY DEF FlexLine
<1> QED BY <1>1, <1>2, <1>3

LEMMA WeightIs ==
  ASSUME NEW child, IsChild(child)
  PROVE  /\ child.kind \in {"flex", "fraction"} /\ ~(Weight(child, TRUE) > 0) =>
              child.kind = "flex" /\ child.grow = 0
         /\ child.kind \in {"flex", "fraction"} /\ Weight(child, FALSE) > 0 =>
              child.kind = "flex" /\ child.shrink > 0
<1>0. PICK u, w : u = Weight(child, TRUE) /\ w = Weight(child, FALSE)
  OBVIOUS
<1>1. u = child.grow
  BY <1>0 DEF Weight
<1>2. /\ child.grow \in Nat /\ child.shrink \in Nat /\ child.basis \in Nat
      /\ child.kind = "fraction" => child.grow > 0
  BY DEF IsChild
<1>3. ASSUME child.kind \in {"flex", "fraction"}, w > 0
      PROVE  child.kind = "flex" /\ child.shrink > 0
  <2>1. child.kind = "fraction" => w = 0
    BY <1>0 DEF Weight
  <2>2. child.kind = "flex" => w = child.shrink * child.basis
    BY <1>0 DEF Weight
  <2>3. child.kind # "fraction"
    BY <1>3, <2>1
  <2>4. child.kind = "flex"
    BY <1>3, <2>3, Zenon
  <2>5. PICK x, y : x = child.shrink /\ y = child.basis
    OBVIOUS
  <2>6. x \in Nat /\ y \in Nat /\ x * y > 0
    BY <1>2, <1>3, <2>2, <2>4, <2>5
  <2>7. x > 0
    BY <2>6
  <2> QED BY <2>4, <2>5, <2>7
<1>4. ASSUME child.kind \in {"flex", "fraction"}, ~(u > 0)
      PROVE  child.kind = "flex" /\ child.grow = 0
  <2>1. child.grow = 0
    BY <1>1, <1>2, <1>4
  <2>2. child.kind # "fraction"
    BY <1>1, <1>2, <1>4
  <2> QED BY <1>4, <2>1, <2>2, Zenon
<1> QED BY <1>0, <1>3, <1>4, Zenon

\* P are those of a that take part.
Participating(c, a, growing, P) == P = {i \in a : Weight(c.children[i], growing) > 0}

LEMMA NextWithin ==
  ASSUME NEW c, NEW l, NEW s, OnLine(c, l, s), NEW a, FlexLine(c, l, s, a),
         NEW P \in SUBSET a, NEW shares, NEW next, NEW U, RoundOf(c, l, s, P, shares, next, U)
  PROVE  \A i \in Span(l) : Within(c.children[i], next[i])
<1>1. ASSUME NEW i \in Span(l) PROVE Within(c.children[i], next[i])
  <2>1. i \in 1 .. Len(c.children) /\ IsChild(c.children[i]) /\ s[i] \in Nat
    BY <1>1, OnLineFacts DEF OnLine
  <2>2. PICK w : w = IF LeftOf(c, l, s) > 0 THEN s[i] + shares[i] ELSE s[i] - shares[i]
    OBVIOUS
  <2>3. next[i] = IF i \in P THEN Bounded(c.children[i], w) ELSE s[i]
    BY <2>1, <2>2 DEF RoundOf
  <2>4. CASE i \in P
    <3>1. shares[i] \in Nat
      BY <2>4 DEF RoundOf
    <3>2. w \in Int
      BY <2>1, <2>2, <3>1
    <3>3. c.children[i].kind \in {"flex", "fraction"}
      BY <2>4 DEF FlexLine
    <3> QED BY <2>1, <2>3, <2>4, <3>2, <3>3, BoundedIs
  <2>5. CASE i \notin P
    BY <1>1, <2>3, <2>5 DEF FlexLine
  <2> QED BY <2>4, <2>5
<1> QED BY <1>1

LEMMA GrowsInBounds ==
  ASSUME NEW child, IsChild(child), NEW size \in Nat, Within(child, size), NEW share \in Nat,
         child.kind \in {"flex", "fraction"}
  PROVE  /\ Bounded(child, size + share) <= size + share
         /\ Bounded(child, size + share) # size + share =>
              child.kind = "flex" /\ Bounded(child, size + share) = child.max
<1>1. child.min \in Nat /\ child.max \in Nat
  BY DEF IsChild
<1> QED BY <1>1 DEF Bounded, Clamp, Larger, Within

LEMMA GrowKeeps ==
  ASSUME NEW c, NEW l, NEW s, OnLine(c, l, s), NEW a, FlexLine(c, l, s, a), LeftOf(c, l, s) > 0,
         NEW P, Participating(c, a, TRUE, P),
         NEW shares, NEW next, NEW U, RoundOf(c, l, s, P, shares, next, U),
         SumOf(shares, P) = LeftOf(c, l, s)
  PROVE  IF U = P THEN HeldLine(c, l, next) ELSE FlexLine(c, l, next, U)
<1>0. /\ IsFiniteSet(Span(l)) /\ RoomOf(c, l) \in Int /\ SumOf(s, Span(l)) \in Nat
      /\ \A i \in Span(l) : s[i] \in Nat /\ IsChild(c.children[i]) /\ i \in 1 .. Len(c.children)
  BY OnLineFacts DEF OnLine
<1>p. /\ P \subseteq Span(l) /\ U \subseteq P
      /\ \A i \in P : i \in 1 .. Len(c.children) /\ shares[i] \in Nat
      /\ \A i \in P : next[i] = Bounded(c.children[i], s[i] + shares[i])
      /\ \A i \in P : i \in U <=> next[i] = s[i] + shares[i]
      /\ \A i \in 1 .. Len(c.children) : i \notin P => next[i] = s[i]
  BY RoundParts
<1>f. a \subseteq Span(l) /\ \A i \in a : c.children[i].kind \in {"flex", "fraction"}
  BY FlexParts
<1>a. \A i \in a : i \notin P <=> ~(Weight(c.children[i], TRUE) > 0)
  BY DEF Participating
<1>u. P \subseteq a
  BY DEF Participating
<1>1. /\ P \in SUBSET Span(l) /\ P \in SUBSET a
      /\ \A i \in P : shares[i] \in Nat /\ c.children[i].kind \in {"flex", "fraction"}
  BY <1>p, <1>f, <1>u
<1> DEFINE want == [i \in Span(l) |-> IF i \in P THEN s[i] + shares[i] ELSE s[i]]
<1>2. \A i \in Span(l) : want[i] \in Nat
  BY <1>0, <1>1
<1>3. SumOf(want, Span(l)) = SumOf(s, Span(l)) + SumOf(shares, P)
  BY <1>0, <1>1, GivenOut
<1>4. ASSUME NEW i \in Span(l)
      PROVE  /\ next[i] <= want[i] /\ next[i] \in Nat
             /\ i \in P => (i \in U <=> next[i] = want[i])
             /\ i \in P /\ next[i] # want[i] => c.children[i].kind = "flex" /\ next[i] = c.children[i].max
             /\ i \notin P => next[i] = s[i] /\ want[i] = s[i]
  <2>1. CASE i \in P
    <3>1. next[i] = Bounded(c.children[i], s[i] + shares[i]) /\ want[i] = s[i] + shares[i]
      BY <2>1, <1>p
    <3>2. i \in U <=> next[i] = want[i]
      BY <2>1, <3>1, <1>p
    <3>3. Within(c.children[i], s[i])
      BY FlexParts
    <3>4. next[i] \in Nat
      BY <1>0, RoundIs DEF OnLine
    <3> HIDE DEF want
    <3> QED BY <1>0, <1>1, <2>1, <3>1, <3>2, <3>3, <3>4, GrowsInBounds
  <2>2. CASE i \notin P
    <3>1. next[i] = s[i] /\ want[i] = s[i]
      BY <1>0, <2>2, <1>p
    <3>2. next[i] \in Nat /\ s[i] \in Nat
      BY <1>0, <3>1
    <3>3. next[i] <= want[i]
      BY <3>1, <3>2
    <3> QED BY <2>2, <3>1, <3>2, <3>3
  <2> QED BY <2>1, <2>2
<1> HIDE DEF want
<1>5. \A i \in Span(l) : Within(c.children[i], next[i])
  BY <1>1, NextWithin
<1>6. SumOf(want, Span(l)) = RoomOf(c, l)
  <2>1. SumOf(want, Span(l)) = SumOf(s, Span(l)) + (RoomOf(c, l) - SumOf(s, Span(l)))
    BY <1>3 DEF LeftOf
  <2> QED BY <1>0, <2>1
<1>7. LeftOf(c, l, next) >= 0 /\ LeftOf(c, l, next) \in Int
  <2>1. SumOf(next, Span(l)) <= SumOf(want, Span(l))
    BY <1>0, <1>2, <1>4, SumRises
  <2>2. SumOf(next, Span(l)) \in Nat
    BY <1>0, <1>4, SumNat
  <2> QED BY <1>0, <1>6, <2>1, <2>2 DEF LeftOf
<1>8. CASE U = P
  <2>1. \A i \in Span(l) : next[i] = want[i]
    BY <1>4, <1>8
  <2>2. SumOf(next, Span(l)) = SumOf(want, Span(l))
    BY <2>1, SumSame
  <2>3. LeftOf(c, l, next) = 0
    BY <1>0, <1>6, <2>2 DEF LeftOf
  <2>4. HeldLine(c, l, next)
    BY <1>5, <2>3 DEF HeldLine
  <2> QED BY <1>8, <2>4
<1>9. CASE U # P
  <2>1. U \subseteq P
    BY DEF RoundOf
  <2>2. ASSUME NEW i \in Span(l) PROVE i \in U \/ Sated(c.children[i], next[i], TRUE)
    <3>1. CASE i \in P
      <4>1. i \notin U => Sated(c.children[i], next[i], TRUE)
        BY <1>4, <3>1 DEF Sated
      <4> QED BY <4>1
    <3>2. CASE i \in a /\ i \notin P
      <4>1. c.children[i].kind \in {"flex", "fraction"}
        BY <3>2 DEF FlexLine
      <4>2. ~(Weight(c.children[i], TRUE) > 0) /\ IsChild(c.children[i])
        BY <1>0, <1>a, <3>2
      <4>3. c.children[i].kind = "flex" /\ c.children[i].grow = 0
        BY <4>1, <4>2, WeightIs
      <4> QED BY <4>3 DEF Sated
    <3>3. CASE i \notin a
      <4>1. i \notin P
        BY <1>1, <3>3
      <4>2. next[i] = s[i]
        BY <1>4, <4>1
      <4>3. Sated(c.children[i], s[i], TRUE)
        BY <3>3 DEF FlexLine
      <4> QED BY <4>2, <4>3
    <3> QED BY <3>1, <3>2, <3>3
  <2>3. U \subseteq {i \in Span(l) : c.children[i].kind \in {"flex", "fraction"}}
    BY <1>1, <2>1 DEF FlexLine
  <2>4. HasFlex(c, l)
    BY DEF FlexLine
  <2>5. ~(LeftOf(c, l, next) < 0)
    BY <1>7
  <2>6. FlexLine(c, l, next, U)
    BY <1>5, <2>2, <2>3, <2>4, <2>5 DEF FlexLine
  <2> QED BY <1>9, <2>6
<1> QED BY <1>8, <1>9

LEMMA ShrinksInBounds ==
  ASSUME NEW child, IsChild(child), NEW size \in Nat, Within(child, size), NEW share \in Nat,
         child.kind = "flex", child.shrink > 0
  PROVE  /\ Bounded(child, size - share) >= size - share
         /\ Bounded(child, size - share) # size - share => Bounded(child, size - share) = Smallest(child)
<1>1. child.min \in Nat /\ child.max \in Nat
  BY DEF IsChild
<1> QED BY <1>1 DEF Bounded, Clamp, Larger, Within, Smallest

LEMMA ShrinkKeeps ==
  ASSUME NEW c, NEW l, NEW s, OnLine(c, l, s), NEW a, FlexLine(c, l, s, a), LeftOf(c, l, s) < 0,
         NEW P, Participating(c, a, FALSE, P),
         NEW shares, NEW next, NEW U, RoundOf(c, l, s, P, shares, next, U),
         SumOf(shares, P) = - LeftOf(c, l, s)
  PROVE  IF U = P THEN HeldLine(c, l, next) ELSE FlexLine(c, l, next, U)
<1>0. /\ IsFiniteSet(Span(l)) /\ RoomOf(c, l) \in Int /\ SumOf(s, Span(l)) \in Nat
      /\ LeftOf(c, l, s) \in Int
      /\ \A i \in Span(l) : s[i] \in Nat /\ IsChild(c.children[i]) /\ i \in 1 .. Len(c.children)
  BY OnLineFacts DEF OnLine
<1>n. ~(LeftOf(c, l, s) > 0)
  BY <1>0
<1>p. /\ P \subseteq Span(l) /\ U \subseteq P
      /\ \A i \in P : i \in 1 .. Len(c.children) /\ shares[i] \in Nat
      /\ \A i \in P : next[i] = Bounded(c.children[i], s[i] - shares[i])
      /\ \A i \in P : i \in U <=> next[i] = s[i] - shares[i]
      /\ \A i \in 1 .. Len(c.children) : i \notin P => next[i] = s[i]
  BY RoundParts, <1>n
<1>f. a \subseteq Span(l) /\ \A i \in a : c.children[i].kind \in {"flex", "fraction"}
  BY FlexParts
<1>a. \A i \in a : i \notin P <=> ~(Weight(c.children[i], FALSE) > 0)
  BY DEF Participating
<1>u. P \subseteq a
  BY DEF Participating
<1>1. /\ P \in SUBSET Span(l) /\ P \in SUBSET a
      /\ \A i \in P : shares[i] \in Nat /\ c.children[i].kind \in {"flex", "fraction"}
  BY <1>p, <1>f, <1>u
<1> DEFINE back == [i \in Span(l) |-> IF i \in P THEN next[i] + shares[i] ELSE next[i]]
<1>2. \A i \in Span(l) : next[i] \in Nat
  BY <1>0, RoundIs DEF OnLine
<1>3. ASSUME NEW i \in P PROVE c.children[i].kind = "flex" /\ c.children[i].shrink > 0
  <2>1. IsChild(c.children[i]) /\ Weight(c.children[i], FALSE) > 0
    BY <1>0, <1>1 DEF Participating
  <2> QED BY <1>1, <2>1, WeightIs
<1>4. ASSUME NEW i \in Span(l)
      PROVE  /\ back[i] >= s[i] /\ back[i] \in Nat
             /\ i \in P => (i \in U <=> back[i] = s[i])
             /\ i \in P /\ back[i] # s[i] => next[i] = Smallest(c.children[i])
             /\ i \notin P => next[i] = s[i] /\ back[i] = s[i]
  <2>1. CASE i \in P
    <3>1. next[i] = Bounded(c.children[i], s[i] - shares[i]) /\ back[i] = next[i] + shares[i]
      BY <2>1, <1>p
    <3>2. i \in U <=> next[i] = s[i] - shares[i]
      BY <2>1, <1>p
    <3>3. Within(c.children[i], s[i])
      BY FlexParts
    <3>4. /\ next[i] >= s[i] - shares[i]
          /\ next[i] # s[i] - shares[i] => next[i] = Smallest(c.children[i])
      <4>1. /\ s[i] \in Nat /\ shares[i] \in Nat /\ IsChild(c.children[i])
            /\ c.children[i].kind = "flex" /\ c.children[i].shrink > 0
        BY <1>0, <1>1, <1>3, <2>1
      <4>2. /\ Bounded(c.children[i], s[i] - shares[i]) >= s[i] - shares[i]
            /\ Bounded(c.children[i], s[i] - shares[i]) # s[i] - shares[i] =>
                 Bounded(c.children[i], s[i] - shares[i]) = Smallest(c.children[i])
        BY <3>3, <4>1, ShrinksInBounds
      <4> HIDE DEF back
      <4> QED BY <3>1, <4>2, Zenon
    <3>5. next[i] \in Nat /\ s[i] \in Nat /\ shares[i] \in Nat
      BY <1>0, <1>1, <1>2, <2>1
    <3> HIDE DEF back
    <3>6. back[i] = s[i] <=> next[i] = s[i] - shares[i]
      BY <3>1, <3>5
    <3>7. back[i] >= s[i] /\ back[i] \in Nat
      BY <3>1, <3>4, <3>5
    <3> QED BY <2>1, <3>2, <3>4, <3>6, <3>7
  <2>2. CASE i \notin P
    <3>1. next[i] = s[i] /\ back[i] = s[i]
      BY <1>0, <2>2, <1>p
    <3>2. back[i] \in Nat /\ s[i] \in Nat
      BY <1>0, <3>1
    <3>3. back[i] >= s[i]
      BY <3>1, <3>2
    <3> QED BY <2>2, <3>1, <3>2, <3>3
  <2> HIDE DEF back
  <2> QED BY <2>1, <2>2
<1>5. SumOf(back, Span(l)) = SumOf(next, Span(l)) + SumOf(shares, P)
  BY <1>0, <1>1, <1>2, GivenOut
<1> HIDE DEF back
<1>6. \A i \in Span(l) : Within(c.children[i], next[i])
  BY <1>1, NextWithin
<1>7. SumOf(s, Span(l)) <= SumOf(back, Span(l))
  BY <1>0, <1>4, SumRises
<1>8. SumOf(next, Span(l)) \in Nat
  BY <1>0, <1>2, SumNat
<1>9. PICK x, y, r : x = SumOf(s, Span(l)) /\ y = SumOf(next, Span(l)) /\ r = RoomOf(c, l)
  OBVIOUS
<1>10. /\ x \in Nat /\ y \in Nat /\ r \in Int /\ LeftOf(c, l, next) = r - y
       /\ SumOf(back, Span(l)) = y + (- (r - x))
  BY <1>0, <1>5, <1>8, <1>9 DEF LeftOf
<1>11. LeftOf(c, l, next) <= 0 /\ LeftOf(c, l, next) \in Int
  BY <1>7, <1>9, <1>10
<1>12. CASE U = P
  <2>1. \A i \in Span(l) : back[i] = s[i]
    BY <1>4, <1>12
  <2>2. SumOf(back, Span(l)) = SumOf(s, Span(l))
    BY <2>1, SumSame
  <2>3. LeftOf(c, l, next) = 0
    BY <1>9, <1>10, <2>2
  <2>4. HeldLine(c, l, next)
    BY <1>6, <2>3 DEF HeldLine
  <2> QED BY <1>12, <2>4
<1>13. CASE U # P
  <2>1. U \subseteq P
    BY DEF RoundOf
  <2>2. ASSUME NEW i \in Span(l)
        PROVE  next[i] = Smallest(c.children[i]) \/ (i \in U /\ Weight(c.children[i], FALSE) > 0)
    <3>1. CASE i \in P
      <4>1. Weight(c.children[i], FALSE) > 0
        BY <3>1 DEF Participating
      <4> QED BY <1>4, <3>1, <4>1
    <3>2. CASE i \notin P
      <4>1. next[i] = s[i]
        BY <1>4, <3>2
      <4>2. ~(i \in a /\ Weight(c.children[i], FALSE) > 0)
        BY <3>2 DEF Participating
      <4>3. s[i] = Smallest(c.children[i])
        BY <4>2 DEF FlexLine
      <4> QED BY <4>1, <4>3
    <3> QED BY <3>1, <3>2
  <2>3. U \subseteq {i \in Span(l) : c.children[i].kind \in {"flex", "fraction"}}
    BY <1>1, <2>1 DEF FlexLine
  <2>4. HasFlex(c, l)
    BY DEF FlexLine
  <2>5. ~(LeftOf(c, l, next) > 0)
    BY <1>11
  <2>6. FlexLine(c, l, next, U)
    BY <1>6, <2>2, <2>3, <2>4, <2>5 DEF FlexLine
  <2> QED BY <1>13, <2>6
<1> QED BY <1>12, <1>13

\* Without participants a line has all it can take, or cannot be made smaller.
LEMMA NobodyIsLeft ==
  ASSUME NEW c, NEW l, NEW s, OnLine(c, l, s), NEW a, FlexLine(c, l, s, a)
  PROVE  /\ LeftOf(c, l, s) = 0 => HeldLine(c, l, s)
         /\ LeftOf(c, l, s) > 0 /\ {i \in a : Weight(c.children[i], TRUE) > 0} = {} => HeldLine(c, l, s)
         /\ LeftOf(c, l, s) < 0 /\ {i \in a : Weight(c.children[i], FALSE) > 0} = {} =>
              SumOf([i \in 1 .. Len(c.children) |-> Smallest(c.children[i])], Span(l)) > RoomOf(c, l)
<1>0. /\ IsFiniteSet(Span(l)) /\ RoomOf(c, l) \in Int /\ SumOf(s, Span(l)) \in Nat
      /\ LeftOf(c, l, s) \in Int
      /\ \A i \in Span(l) : s[i] \in Nat /\ IsChild(c.children[i]) /\ i \in 1 .. Len(c.children)
  BY OnLineFacts DEF OnLine
<1>1. ASSUME LeftOf(c, l, s) = 0 PROVE HeldLine(c, l, s)
  BY <1>1 DEF HeldLine, FlexLine
<1>2. ASSUME LeftOf(c, l, s) > 0, {i \in a : Weight(c.children[i], TRUE) > 0} = {}
      PROVE  HeldLine(c, l, s)
  <2>1. ASSUME NEW i \in Span(l) PROVE Sated(c.children[i], s[i], TRUE)
    <3>1. CASE i \in a
      <4>1. c.children[i].kind \in {"flex", "fraction"}
        BY <3>1 DEF FlexLine
      <4>2. ~(Weight(c.children[i], TRUE) > 0) /\ IsChild(c.children[i])
        BY <1>0, <1>2, <3>1
      <4>3. c.children[i].kind = "flex" /\ c.children[i].grow = 0
        BY <4>1, <4>2, WeightIs
      <4> QED BY <4>3 DEF Sated
    <3>2. CASE i \notin a
      BY <1>2, <3>2 DEF FlexLine
    <3> QED BY <3>1, <3>2
  <2>2. HasFlex(c, l) = TRUE /\ \A i \in Span(l) : Within(c.children[i], s[i])
    BY FlexParts
  <2>3. LeftOf(c, l, s) >= 0
    BY <1>0, <1>2
  <2> QED BY <2>1, <2>2, <2>3 DEF HeldLine
<1>3. ASSUME LeftOf(c, l, s) < 0, {i \in a : Weight(c.children[i], FALSE) > 0} = {}
      PROVE  SumOf([i \in 1 .. Len(c.children) |-> Smallest(c.children[i])], Span(l)) > RoomOf(c, l)
  <2>1. PICK f : f = [i \in 1 .. Len(c.children) |-> Smallest(c.children[i])]
    OBVIOUS
  <2>2. \A i \in Span(l) : s[i] = f[i]
    <3>1. \A i \in Span(l) : s[i] = Smallest(c.children[i])
      BY <1>3 DEF FlexLine
    <3> QED BY <1>0, <2>1, <3>1
  <2>3. SumOf(s, Span(l)) = SumOf(f, Span(l))
    BY <2>2, SumSame
  <2>4. SumOf(s, Span(l)) > RoomOf(c, l)
    BY <1>0, <1>3 DEF LeftOf
  <2> QED BY <2>1, <2>3, <2>4
<1> QED BY <1>1, <1>2, <1>3

-----------------------------------------------------------------------------
(* The sizes a line starts from, and one that has no flexible child.       *)
First(c, l, s, first) ==
  first = [i \in 1 .. Len(c.children) |-> IF i \in Span(l) THEN InitialSize(c.children[i]) ELSE s[i]]

HighFixed(c, l) == \A i \in Span(l) : ~FixedTooSmall(c.children[i])

LEMMA StartsWithin ==
  ASSUME NEW child, IsChild(child)
  PROVE  /\ ~FixedTooSmall(child) => Within(child, InitialSize(child))
         /\ InitialSize(child) \in Nat
         /\ child.kind # "flex" => Smallest(child) = InitialSize(child)
         /\ \/ InitialSize(child) = Smallest(child)
            \/ child.kind = "flex" /\ Weight(child, FALSE) > 0
<1>1. /\ child.min \in Nat /\ child.max \in Nat /\ child.basis \in Nat /\ child.shrink \in Nat
      /\ child.kind \in Kinds
  BY DEF IsChild
<1>2. InitialSize(child) \in Nat
  BY BasisFacts
<1>3. CASE child.kind = "flex"
  <2>1. InitialSize(child) = Clamp(child.basis, child.min, child.max)
    BY <1>3 DEF InitialSize
  <2>2. Within(child, InitialSize(child))
    <3>1. child.basis \in Int
      BY <1>1
    <3>2. PICK z : z = InitialSize(child)
      OBVIOUS
    <3>3. z = Clamp(child.basis, child.min, child.max)
      BY <2>1, <3>2
    <3>4. /\ child.max > 0 => z <= child.max
          /\ z >= child.min \/ (child.max > 0 /\ z = child.max)
      <4>1. PICK b, least, most : b = child.basis /\ least = child.min /\ most = child.max
        OBVIOUS
      <4>2. b \in Int /\ least \in Nat /\ most \in Nat /\ z = Clamp(b, least, most)
        BY <1>1, <3>1, <3>3, <4>1
      <4>3. (most > 0 => z <= most) /\ (z >= least \/ (most > 0 /\ z = most))
        BY <4>2, ClampIs
      <4> QED BY <4>1, <4>3, Zenon
    <3>5. Within(child, z)
      BY <1>3, <3>4 DEF Within
    <3> QED BY <3>2, <3>5
  <2>3. Smallest(child) = Clamp(IF child.shrink > 0 THEN 0 ELSE child.basis, child.min, child.max)
    BY <1>3 DEF Smallest
  <2>4. PICK x, y : x = child.shrink /\ y = child.basis
    OBVIOUS
  <2>5. PICK w : w = Weight(child, FALSE)
    OBVIOUS
  <2>6. w = x * y
    BY <1>3, <2>4, <2>5 DEF Weight
  <2>7. CASE x > 0 /\ y > 0
    <3>1. w > 0
      BY <1>1, <2>4, <2>6, <2>7
    <3> QED BY <1>2, <1>3, <2>2, <2>5, <3>1
  <2>8. CASE ~(x > 0 /\ y > 0)
    <3>1. ~(x > 0) \/ y = 0
      BY <1>1, <2>4, <2>8
    <3>2. Smallest(child) = Clamp(y, child.min, child.max)
      BY <2>3, <2>4, <3>1
    <3> QED BY <1>2, <1>3, <2>1, <2>2, <2>4, <3>2
  <2> QED BY <2>7, <2>8
<1>4. CASE child.kind = "fixed"
  <2>1. InitialSize(child) = child.basis /\ Smallest(child) = child.basis
    BY <1>4 DEF InitialSize, Smallest
  <2>2. ~FixedTooSmall(child) => child.basis >= child.min
    BY <1>1, <1>4 DEF FixedTooSmall
  <2>3. ~FixedTooSmall(child) => Within(child, InitialSize(child))
    BY <1>4, <2>1, <2>2 DEF Within
  <2> QED BY <1>2, <1>4, <2>1, <2>3
<1>5. CASE child.kind \in {"auto", "fraction"}
  <2>1. InitialSize(child) = child.min /\ Smallest(child) = child.min
    BY <1>5 DEF InitialSize, Smallest
  <2>2. Within(child, InitialSize(child))
    BY <1>1, <1>5, <2>1 DEF Within
  <2> QED BY <1>2, <1>5, <2>1, <2>2
<1> QED BY <1>1, <1>3, <1>4, <1>5 DEF Kinds

LEMMA FirstSizes ==
  ASSUME NEW c, NEW l, NEW s, OnLine(c, l, s), NEW first, First(c, l, s, first)
  PROVE  /\ OnLine(c, l, first)
         /\ \A i \in Span(l) : first[i] = InitialSize(c.children[i])
         /\ \A i \in 1 .. Len(c.children) : i \notin Span(l) => first[i] = s[i]
         /\ HighFixed(c, l) => \A i \in Span(l) : Within(c.children[i], first[i])
<1>1. \A i \in Span(l) : i \in 1 .. Len(c.children) /\ IsChild(c.children[i])
  BY OnLineFacts DEF OnLine
<1>2. /\ \A i \in Span(l) : first[i] = InitialSize(c.children[i])
      /\ \A i \in 1 .. Len(c.children) : i \notin Span(l) => first[i] = s[i]
  BY <1>1 DEF First
<1>3. \A i \in 1 .. Len(c.children) : first[i] \in Nat
  <2>1. ASSUME NEW i \in 1 .. Len(c.children) PROVE first[i] \in Nat
    <3>1. CASE i \in Span(l)
      BY <1>1, <1>2, <3>1, StartsWithin
    <3>2. CASE i \notin Span(l)
      BY <1>2, <3>2 DEF OnLine
    <3> QED BY <3>1, <3>2
  <2> QED BY <2>1
<1>4. first \in [1 .. Len(c.children) -> Nat]
  BY <1>3 DEF First
<1>5. OnLine(c, l, first)
  BY <1>4 DEF OnLine
<1>6. HighFixed(c, l) => \A i \in Span(l) : Within(c.children[i], first[i])
  BY <1>1, <1>2, StartsWithin DEF HighFixed
<1> QED BY <1>2, <1>5, <1>6

(* With a flexible child the rounds begin.                                 *)
LEMMA StartsFlexing ==
  ASSUME NEW c, NEW l, NEW s, OnLine(c, l, s), NEW first, First(c, l, s, first),
         HighFixed(c, l), HasFlex(c, l)
  PROVE  FlexLine(c, l, first, {i \in Span(l) : c.children[i].kind \in {"flex", "fraction"}})
<1>0. PICK a : a = {i \in Span(l) : c.children[i].kind \in {"flex", "fraction"}}
  OBVIOUS
<1>1. \A i \in Span(l) : Within(c.children[i], first[i])
  BY FirstSizes
<1>2. ASSUME NEW i \in Span(l)
      PROVE  /\ i \in a \/ Sated(c.children[i], first[i], TRUE)
             /\ \/ first[i] = Smallest(c.children[i])
                \/ i \in a /\ Weight(c.children[i], FALSE) > 0
  <2>1. IsChild(c.children[i]) /\ first[i] = InitialSize(c.children[i])
    BY FirstSizes, OnLineFacts
  <2>2. i \in a <=> c.children[i].kind \in {"flex", "fraction"}
    BY <1>0
  <2>3. i \in a \/ c.children[i].kind \in {"fixed", "auto"}
    BY <2>1, <2>2 DEF IsChild, Kinds
  <2>4. c.children[i].kind \in {"fixed", "auto"} => Sated(c.children[i], first[i], TRUE)
    BY DEF Sated
  <2>5. \/ first[i] = Smallest(c.children[i])
        \/ c.children[i].kind = "flex" /\ Weight(c.children[i], FALSE) > 0
    BY <2>1, StartsWithin
  <2>6. c.children[i].kind = "flex" => i \in a
    BY <2>2
  <2> QED BY <2>3, <2>4, <2>5, <2>6, Zenon
<1>3. a \subseteq {i \in Span(l) : c.children[i].kind \in {"flex", "fraction"}}
  BY <1>0
<1>4. FlexLine(c, l, first, a)
  BY <1>1, <1>2, <1>3 DEF FlexLine
<1> QED BY <1>0, <1>4

(* What is left is shared out over the fractions or the automatic tracks.  *)
Shared(c, l, s, K, shares, new) ==
  /\ K \subseteq Span(l) /\ shares \in [K -> Nat] /\ SumOf(shares, K) = LeftOf(c, l, s)
  /\ \A i \in K : c.children[i].kind \in {"auto", "fraction"}
  /\ new = [i \in 1 .. Len(c.children) |-> IF i \in K THEN s[i] + shares[i] ELSE s[i]]

LEMMA SharedIsHeld ==
  ASSUME NEW c, NEW l, NEW s, OnLine(c, l, s), NEW K, NEW shares, NEW new,
         Shared(c, l, s, K, shares, new), \A i \in Span(l) : Within(c.children[i], s[i])
  PROVE  HeldLine(c, l, new) /\ OnLine(c, l, new)
<1>0. /\ IsFiniteSet(Span(l)) /\ RoomOf(c, l) \in Int /\ SumOf(s, Span(l)) \in Nat
      /\ \A i \in Span(l) : s[i] \in Nat /\ IsChild(c.children[i]) /\ i \in 1 .. Len(c.children)
  BY OnLineFacts DEF OnLine
<1>1. /\ K \in SUBSET Span(l) /\ SumOf(shares, K) = LeftOf(c, l, s)
      /\ \A i \in K : shares[i] \in Nat /\ c.children[i].kind \in {"auto", "fraction"}
  BY DEF Shared
<1>2. \A i \in 1 .. Len(c.children) : new[i] = IF i \in K THEN s[i] + shares[i] ELSE s[i]
  BY DEF Shared
<1>3. \A i \in Span(l) : new[i] = IF i \in K THEN s[i] + shares[i] ELSE s[i]
  BY <1>0, <1>2
<1>4. SumOf(new, Span(l)) = SumOf(s, Span(l)) + SumOf(shares, K)
  <2>1. \A i \in Span(l) : s[i] \in Nat
    BY <1>0
  <2>2. \A i \in K : shares[i] \in Nat
    BY <1>1
  <2> QED BY <1>0, <1>1, <1>3, <2>1, <2>2, GivenOut
<1>5. LeftOf(c, l, new) = 0
  <2>1. PICK x, r : x = SumOf(s, Span(l)) /\ r = RoomOf(c, l)
    OBVIOUS
  <2>2. x \in Nat /\ r \in Int /\ SumOf(new, Span(l)) = x + (r - x)
    BY <1>0, <1>1, <1>4, <2>1 DEF LeftOf
  <2> QED BY <2>1, <2>2 DEF LeftOf
<1>6. ASSUME NEW i \in Span(l) PROVE Within(c.children[i], new[i])
  <2>1. CASE i \in K
    <3>1. s[i] >= c.children[i].min /\ c.children[i].min \in Nat
      BY <1>0, <1>1, <2>1 DEF Within, IsChild
    <3>2. shares[i] \in Nat /\ s[i] \in Nat /\ new[i] = s[i] + shares[i]
      BY <1>0, <1>1, <1>3, <2>1
    <3>3. new[i] >= c.children[i].min
      BY <3>1, <3>2
    <3> QED BY <1>1, <2>1, <3>3 DEF Within
  <2>2. CASE i \notin K
    BY <1>3, <2>2
  <2> QED BY <2>1, <2>2
<1>7. OnLine(c, l, new)
  <2>1. ASSUME NEW i \in 1 .. Len(c.children) PROVE new[i] \in Nat
    <3>1. s[i] \in Nat
      BY DEF OnLine
    <3>2. CASE i \in K
      <4>1. shares[i] \in Nat /\ new[i] = s[i] + shares[i]
        BY <1>1, <1>2, <3>2
      <4> QED BY <3>1, <4>1
    <3>3. CASE i \notin K
      BY <1>2, <3>1, <3>3
    <3> QED BY <3>2, <3>3
  <2>2. new \in [1 .. Len(c.children) -> Nat]
    BY <2>1 DEF Shared
  <2> QED BY <2>2 DEF OnLine
<1> QED BY <1>5, <1>6, <1>7 DEF HeldLine

\* When nobody can take what is left, the line is held as it starts.
LEMMA StartIsHeld ==
  ASSUME NEW c, NEW l, NEW s, OnLine(c, l, s), NEW first, First(c, l, s, first),
         HighFixed(c, l), ~HasFlex(c, l), LeftOf(c, l, first) >= 0,
         LeftOf(c, l, first) > 0 => \A i \in Span(l) : c.children[i].kind = "fixed"
  PROVE  HeldLine(c, l, first)
<1>1. \A i \in Span(l) : Within(c.children[i], first[i])
  BY FirstSizes
<1>2. LeftOf(c, l, first) > 0 => \A i \in Span(l) : Sated(c.children[i], first[i], HasFlex(c, l))
  BY DEF Sated
<1> QED BY <1>1, <1>2 DEF HeldLine

\* A line whose first sizes do not fit is too narrow.
LEMMA StartIsTooMuch ==
  ASSUME NEW c, NEW l, NEW s, OnLine(c, l, s), NEW first, First(c, l, s, first),
         RoomOf(c, l) < 0 \/ (LeftOf(c, l, first) < 0 /\ ~HasFlex(c, l))
  PROVE  SumOf([i \in 1 .. Len(c.children) |-> Smallest(c.children[i])], Span(l)) > RoomOf(c, l)
<1>0. PICK f : f = [i \in 1 .. Len(c.children) |-> Smallest(c.children[i])]
  OBVIOUS
<1>1. /\ IsFiniteSet(Span(l)) /\ RoomOf(c, l) \in Int
      /\ \A i \in Span(l) : /\ IsChild(c.children[i]) /\ i \in 1 .. Len(c.children)
                            /\ Smallest(c.children[i]) \in Nat
  BY OnLineFacts DEF OnLine
<1>2. \A i \in Span(l) : f[i] \in Nat /\ f[i] = Smallest(c.children[i])
  BY <1>0, <1>1
<1>3. SumOf(f, Span(l)) \in Nat
  BY <1>1, <1>2, SumNat
<1>4. CASE RoomOf(c, l) < 0
  <2>1. SumOf(f, Span(l)) > RoomOf(c, l)
    BY <1>1, <1>3, <1>4
  <2> QED BY <1>0, <2>1
<1>5. CASE LeftOf(c, l, first) < 0 /\ ~HasFlex(c, l)
  <2>1. \A i \in Span(l) : f[i] = first[i]
    <3>1. \A i \in Span(l) : c.children[i].kind # "flex"
      BY <1>5 DEF HasFlex
    <3>2. \A i \in Span(l) : Smallest(c.children[i]) = InitialSize(c.children[i])
      BY <1>1, <3>1, StartsWithin
    <3>3. \A i \in Span(l) : first[i] = InitialSize(c.children[i])
      BY FirstSizes
    <3> QED BY <1>2, <3>2, <3>3, Zenon
  <2>2. SumOf(f, Span(l)) = SumOf(first, Span(l))
    BY <2>1, SumSame
  <2>3. RoomOf(c, l) - SumOf(f, Span(l)) < 0
    BY <1>5, <2>2 DEF LeftOf
  <2>4. SumOf(f, Span(l)) > RoomOf(c, l)
    BY <1>1, <1>3, <2>3
  <2> QED BY <1>0, <2>4
<1> QED BY <1>4, <1>5

-----------------------------------------------------------------------------
(* The state.                                                              *)
Stages == {"forming", "sizing", "flexing", "planned", "overflow", "refused"}

RowTypes ==
  /\ sizes \in [1 .. Len(input.children) -> Nat]
  /\ round \in Nat /\ stage \in Stages
  /\ line \in 0 .. Len(lines) + 1
  /\ stage = "forming" <=> line = 0
  /\ stage = "flexing" => line <= Len(lines)

\* Lines that are sized are held, and between two rounds nobody is forgotten.
SizedLines ==
  /\ \A n \in 1 .. line - 1 : HeldLine(input, lines[n], sizes)
  /\ stage = "flexing" => FlexLine(input, lines[line], sizes, active)

RowInv == LinesFormed /\ RowTypes /\ SizedLines /\ OverflowIsDeserved /\ BoxesApart

LEMMA LineOn ==
  ASSUME LinesFormed, RowTypes, stage # "forming", NEW n \in 1 .. Len(lines)
  PROVE  /\ OnLine(input, lines[n], sizes)
         /\ Room(lines[n]) = RoomOf(input, lines[n]) /\ InLine(lines[n]) = Span(lines[n])
         /\ \A f : Total(f, InLine(lines[n])) = SumOf(f, Span(lines[n]))
         /\ DOMAIN sizes = 1 .. Len(input.children) /\ DOMAIN lines = 1 .. Len(lines)
         /\ TooNarrow(lines[n]) <=>
              SumOf([i \in 1 .. Len(input.children) |-> Smallest(input.children[i])], Span(lines[n]))
                > RoomOf(input, lines[n])
<1>1. Chained(lines, Len(input.children)) /\ IsContainer(input)
  BY DEF LinesFormed
<1>2. lines[n] \in LineSet /\ DOMAIN lines = 1 .. Len(lines)
  BY <1>1, LineFacts DEF Chained
<1>3. Span(lines[n]) \subseteq 1 .. Len(input.children)
  BY <1>1, LinesSpan
<1>4. OnLine(input, lines[n], sizes)
  BY <1>1, <1>2, <1>3 DEF OnLine, RowTypes
<1>5. Room(lines[n]) = RoomOf(input, lines[n]) /\ InLine(lines[n]) = Span(lines[n])
  BY DEF Room, RoomOf, InLine, Span
<1>6. \A f : Total(f, InLine(lines[n])) = SumOf(f, Span(lines[n]))
  BY <1>5, TotalIs
<1>7. DOMAIN sizes = 1 .. Len(input.children)
  BY DEF RowTypes
<1>8. TooNarrow(lines[n]) <=>
        SumOf([i \in 1 .. Len(input.children) |-> Smallest(input.children[i])], Span(lines[n]))
          > RoomOf(input, lines[n])
  BY <1>5, <1>6, <1>7 DEF TooNarrow, Child
<1> QED BY <1>2, <1>4, <1>5, <1>6, <1>7, <1>8

\* What changes on one line leaves the others held.
LEMMA OthersStay ==
  ASSUME NEW c, NEW ls, Chained(ls, Len(c.children)), NEW k \in 1 .. Len(ls),
         NEW s, NEW t, \A n \in 1 .. k - 1 : HeldLine(c, ls[n], s),
         \A i \in 1 .. Len(c.children) : i \notin Span(ls[k]) => t[i] = s[i]
  PROVE  /\ \A n \in 1 .. k - 1 : HeldLine(c, ls[n], t)
         /\ HeldLine(c, ls[k], t) => \A n \in 1 .. (k + 1) - 1 : HeldLine(c, ls[n], t)
<1>0. Len(ls) \in Nat
  BY LineFacts DEF Chained
<1>1. ASSUME NEW n \in 1 .. k - 1 PROVE HeldLine(c, ls[n], t)
  <2>1. n \in 1 .. Len(ls) /\ n # k
    BY <1>0
  <2>2. ASSUME NEW i \in Span(ls[n]) PROVE s[i] = t[i]
    <3>1. i \in 1 .. Len(c.children)
      BY <2>1, LinesSpan
    <3>2. i \notin Span(ls[k])
      BY <2>1, LinesApart
    <3> QED BY <3>1, <3>2
  <2> QED BY <2>2, HeldSame
<1>2. \A n \in 1 .. (k + 1) - 1 : n \in 1 .. k - 1 \/ n = k
  BY <1>0
<1> QED BY <1>1, <1>2

(* One step of sizing: the line is left flexing, or it is held and done.   *)
SizingStep ==
  /\ UNCHANGED <<input, lines, boxes>>
  /\ stage # "forming" /\ line \in 1 .. Len(lines)
  /\ sizes' \in [1 .. Len(input.children) -> Nat] /\ round' \in Nat
  /\ \A i \in 1 .. Len(input.children) : i \notin Span(lines[line]) => sizes'[i] = sizes[i]
  /\ \/ /\ stage' = "flexing" /\ line' = line
        /\ FlexLine(input, lines[line], sizes', active')
     \/ stage' = "sizing" /\ line' = line + 1 /\ HeldLine(input, lines[line], sizes')
     \/ stage' = "refused" /\ line' = line
     \/ /\ stage' = "overflow" /\ line' = line
        /\ TooNarrow(lines[line]) \/ \E i \in DOMAIN sizes : FixedTooSmall(Child(i))

LEMMA SizingKeeps ==
  ASSUME RowInv, SizingStep
  PROVE  RowInv'
<1>0. /\ LinesFormed /\ RowTypes /\ SizedLines /\ Chained(lines, Len(input.children))
      /\ line \in 1 .. Len(lines) /\ Len(lines) \in Nat
      /\ stage' # "forming" /\ stage' # "planned" /\ stage' \in Stages
  <2>1. stage' # "forming" /\ stage' # "planned" /\ stage' \in Stages
    BY DEF SizingStep, Stages
  <2>2. LinesFormed /\ RowTypes /\ SizedLines /\ Chained(lines, Len(input.children))
    BY DEF RowInv, LinesFormed, SizingStep
  <2>3. Len(lines) \in Nat
    BY <2>2, LineFacts DEF Chained
  <2> QED BY <2>1, <2>2, <2>3 DEF SizingStep
<1>1. LinesFormed'
  <2>1. input' = input /\ lines' = lines /\ stage # "forming"
    BY DEF SizingStep
  <2> QED BY <1>0, <2>1 DEF LinesFormed
<1>2. RowTypes'
  <2>1. input' = input /\ lines' = lines
    BY DEF SizingStep
  <2>2. line' \in 1 .. Len(lines) + 1 /\ (stage' = "flexing" => line' <= Len(lines))
    BY <1>0 DEF SizingStep
  <2>3. line' \in 0 .. Len(lines) + 1 /\ line' # 0
    BY <2>2
  <2> QED BY <1>0, <2>1, <2>2, <2>3 DEF RowTypes, SizingStep
<1>3. /\ \A n \in 1 .. line - 1 : HeldLine(input, lines[n], sizes')
      /\ HeldLine(input, lines[line], sizes') =>
           \A n \in 1 .. (line + 1) - 1 : HeldLine(input, lines[n], sizes')
  <2>1. \A n \in 1 .. line - 1 : HeldLine(input, lines[n], sizes)
    BY <1>0 DEF SizedLines
  <2>2. \A i \in 1 .. Len(input.children) : i \notin Span(lines[line]) => sizes'[i] = sizes[i]
    BY DEF SizingStep
  <2> QED BY <1>0, <2>1, <2>2, OthersStay
<1>4. SizedLines'
  <2>1. input' = input /\ lines' = lines
    BY DEF SizingStep
  <2>2. CASE line' = line
    <3>1. stage' = "flexing" => FlexLine(input, lines[line], sizes', active')
      BY <2>2, <1>0 DEF SizingStep
    <3> QED BY <1>3, <2>1, <2>2, <3>1 DEF SizedLines
  <2>3. CASE line' = line + 1 /\ stage' = "sizing" /\ HeldLine(input, lines[line], sizes')
    BY <1>3, <2>1, <2>3 DEF SizedLines
  <2> QED BY <2>2, <2>3 DEF SizingStep
<1>5. OverflowIsDeserved'
  <2>1. input' = input /\ lines' = lines
    BY DEF SizingStep
  <2>2. DOMAIN sizes' = DOMAIN sizes
    BY <1>0 DEF RowTypes, SizingStep
  <2>3. DOMAIN lines = 1 .. Len(lines)
    BY <1>0, LineFacts DEF Chained
  <2>4. PICK k : k = line
    OBVIOUS
  <2>5. TooNarrow(lines[k]) => TooNarrow(lines[k])'
    BY <2>1, <2>2 DEF TooNarrow, Room, Child, InLine
  <2>6. (\E i \in DOMAIN sizes : FixedTooSmall(Child(i))) => (\E i \in DOMAIN sizes : FixedTooSmall(Child(i)))'
    BY <2>1, <2>2 DEF Child
  <2>7. SUFFICES ASSUME stage' = "overflow" PROVE OverflowIsDeserved'
    BY DEF OverflowIsDeserved
  <2>8. TooNarrow(lines[k]) \/ \E i \in DOMAIN sizes : FixedTooSmall(Child(i))
    BY <2>4, <2>7 DEF SizingStep
  <2>9. k \in DOMAIN lines'
    BY <1>0, <2>1, <2>3, <2>4
  <2> QED BY <2>5, <2>6, <2>8, <2>9 DEF OverflowIsDeserved
<1>6. BoxesApart'
  BY <1>0 DEF BoxesApart
<1> QED BY <1>1, <1>2, <1>4, <1>5, <1>6 DEF RowInv

LEMMA SizeLineIsStep ==
  ASSUME RowInv, SizeLine
  PROVE  SizingStep
<1>0. /\ LinesFormed /\ RowTypes /\ stage = "sizing" /\ line \in 1 .. Len(lines)
      /\ IsContainer(input) /\ UNCHANGED <<input, lines, boxes>> /\ round \in Nat
  <2>1. LinesFormed /\ RowTypes /\ stage = "sizing" /\ UNCHANGED <<input, lines, boxes>> /\ line <= Len(lines)
    BY DEF RowInv, SizeLine
  <2>2. Len(lines) \in Nat
    BY <2>1, LineFacts DEF LinesFormed, Chained
  <2> QED BY <2>1, <2>2 DEF RowTypes, LinesFormed
<1>1. PICK l : l = lines[line]
  OBVIOUS
<1>2. /\ OnLine(input, l, sizes) /\ Room(l) = RoomOf(input, l) /\ InLine(l) = Span(l)
      /\ \A f : Total(f, InLine(l)) = SumOf(f, Span(l))
      /\ DOMAIN sizes = 1 .. Len(input.children)
      /\ SumOf([i \in 1 .. Len(input.children) |-> Smallest(input.children[i])], Span(l))
           > RoomOf(input, l) => TooNarrow(l)
  BY <1>0, <1>1, LineOn
<1>3. PICK first : first = [i \in DOMAIN sizes |-> IF i \in InLine(l) THEN InitialSize(Child(i)) ELSE sizes[i]]
  OBVIOUS
<1>4. First(input, l, sizes, first)
  BY <1>2, <1>3 DEF First, Child
<1>5. PICK left : left = Room(l) - Total(first, InLine(l))
  OBVIOUS
<1>6. left = LeftOf(input, l, first)
  BY <1>2, <1>5 DEF LeftOf
<1>7. /\ OnLine(input, l, first)
      /\ \A i \in 1 .. Len(input.children) : i \notin Span(l) => first[i] = sizes[i]
      /\ HighFixed(input, l) => \A i \in Span(l) : Within(input.children[i], first[i])
  BY <1>2, <1>4, FirstSizes
<1>8. /\ left \in Int /\ RoomOf(input, l) \in Int /\ Span(l) \subseteq 1 .. Len(input.children)
      /\ IsFiniteSet(Span(l)) /\ \A i \in Span(l) : IsChild(input.children[i]) /\ i \in Nat
  BY <1>6, <1>7, OnLineFacts DEF OnLine
<1>9. PICK flexes, fractions, autos, fixed :
        flexes = OfKind(l, "flex") /\ fractions = OfKind(l, "fraction") /\ autos = OfKind(l, "auto")
        /\ fixed = OfKind(l, "fixed")
  OBVIOUS
<1>10. /\ \A i : i \in flexes <=> i \in Span(l) /\ input.children[i].kind = "flex"
       /\ \A i : i \in fractions <=> i \in Span(l) /\ input.children[i].kind = "fraction"
       /\ \A i : i \in autos <=> i \in Span(l) /\ input.children[i].kind = "auto"
       /\ \A i : i \in fixed <=> i \in Span(l) /\ input.children[i].kind = "fixed"
  BY <1>2, <1>9 DEF OfKind, Child
<1>11. flexes = {} <=> ~HasFlex(input, l)
  BY <1>10 DEF HasFlex
<1>12. (\E i \in fixed : Child(i).basis < Child(i).min) <=> ~HighFixed(input, l)
  BY <1>10 DEF HighFixed, FixedTooSmall, Child
<1>13. IF Room(l) < 0 \/ (\E i \in fixed : Child(i).basis < Child(i).min) \/ (left < 0 /\ flexes = {})
       THEN stage' = "overflow" /\ UNCHANGED <<sizes, active, round, line>>
       ELSE IF flexes # {}
       THEN /\ sizes' = first /\ active' = flexes \cup fractions /\ round' = 0
            /\ stage' = "flexing" /\ UNCHANGED line
       ELSE /\ sizes' = CASE left > 0 /\ fractions # {} ->
                               WithShares(first, [i \in fractions |-> Child(i).grow], left)
                          [] left > 0 /\ fractions = {} /\ autos # {} ->
                               WithShares(first, [i \in autos |-> 1], left)
                          [] OTHER -> first
            /\ line' = line + 1 /\ UNCHANGED <<active, round, stage>>
  BY <1>1, <1>3, <1>5, <1>9 DEF SizeLine
<1>14. sizes \in [1 .. Len(input.children) -> Nat]
  BY <1>0 DEF RowTypes
<1>15. CASE Room(l) < 0 \/ ~HighFixed(input, l) \/ (left < 0 /\ flexes = {})
  <2>1. stage' = "overflow" /\ UNCHANGED <<sizes, active, round, line>>
    BY <1>12, <1>13, <1>15, Zenon
  <2>2. TooNarrow(l) \/ \E i \in DOMAIN sizes : FixedTooSmall(Child(i))
    <3>1. CASE ~HighFixed(input, l)
      BY <1>2, <1>8, <3>1 DEF HighFixed, Child
    <3>2. CASE Room(l) < 0 \/ (left < 0 /\ flexes = {})
      <4>1. RoomOf(input, l) < 0 \/ (LeftOf(input, l, first) < 0 /\ ~HasFlex(input, l))
        BY <1>2, <1>6, <1>11, <3>2
      <4> QED BY <1>2, <1>4, <4>1, StartIsTooMuch
    <3> QED BY <1>15, <3>1, <3>2
  <2> QED BY <1>0, <1>1, <1>14, <2>1, <2>2 DEF SizingStep
<1>16. CASE HighFixed(input, l) /\ flexes # {} /\ ~(Room(l) < 0)
  <2>1. /\ sizes' = first /\ active' = flexes \cup fractions /\ round' = 0
        /\ stage' = "flexing" /\ line' = line
    BY <1>12, <1>13, <1>16, Zenon
  <2>2. active' = {i \in Span(l) : input.children[i].kind \in {"flex", "fraction"}}
    BY <1>10, <2>1
  <2>3. FlexLine(input, l, sizes', active')
    BY <1>2, <1>4, <1>11, <1>16, <2>1, <2>2, StartsFlexing
  <2>4. sizes' \in [1 .. Len(input.children) -> Nat]
    BY <1>7, <2>1 DEF OnLine
  <2> QED BY <1>0, <1>1, <1>7, <2>1, <2>3, <2>4 DEF SizingStep
<1>17. CASE HighFixed(input, l) /\ flexes = {} /\ ~(Room(l) < 0) /\ ~(left < 0)
  <2>1. /\ line' = line + 1 /\ UNCHANGED <<active, round, stage>>
        /\ sizes' = CASE left > 0 /\ fractions # {} ->
                           WithShares(first, [i \in fractions |-> Child(i).grow], left)
                      [] left > 0 /\ fractions = {} /\ autos # {} ->
                           WithShares(first, [i \in autos |-> 1], left)
                      [] OTHER -> first
    BY <1>12, <1>13, <1>17, Zenon
  <2>2. ASSUME NEW K, NEW weights, left > 0, K = fractions \/ K = autos, K # {},
               weights \in [K -> Nat], \A i \in K : weights[i] > 0,
               sizes' = WithShares(first, weights, left)
        PROVE  /\ HeldLine(input, l, sizes') /\ OnLine(input, l, sizes')
               /\ \A i \in 1 .. Len(input.children) : i \notin Span(l) => sizes'[i] = sizes[i]
    <3>1. K \subseteq Span(l) /\ \A i \in K : input.children[i].kind \in {"auto", "fraction"}
      BY <1>10, <2>2
    <3>2. IsFiniteSet(K) /\ K \subseteq Int
      BY <1>8, <3>1, FS_Subset
    <3>3. Ranked(K)
      <4>1. \E kind : \A i \in K : Child(i).kind \in {"flex", kind}
        BY <1>10, <2>2 DEF Child
      <4> QED BY <3>2, <4>1 DEF Ranked
    <3>4. SumOf(weights, K) > 0
      <4>1. PICK x \in K : TRUE
        BY <2>2
      <4>2. \A y \in K : weights[y] \in Nat
        BY <2>2
      <4>3. weights[x] > 0
        BY <2>2, <4>1
      <4> QED BY <3>2, <4>2, <4>3, SumPositive
    <3>5. Weighted(left, weights, K)
      <4>1. left \in Nat
        BY <1>8, <2>2
      <4> QED BY <2>2, <3>3, <3>4, <4>1 DEF Weighted
    <3>6. PICK shares : shares = Shares(left, weights)
      OBVIOUS
    <3>7. Apportioned(left, weights, shares) /\ DOMAIN weights = K
      BY <2>2, <3>5, <3>6, SharesMakeUp
    <3>8. DOMAIN first = 1 .. Len(input.children)
      BY <1>7 DEF OnLine
    <3>9. sizes' = [i \in 1 .. Len(input.children) |-> IF i \in K THEN first[i] + shares[i] ELSE first[i]]
      BY <2>2, <3>6, <3>7, <3>8 DEF WithShares
    <3>10. Shared(input, l, first, K, shares, sizes')
      BY <1>6, <3>1, <3>7, <3>9 DEF Shared, Apportioned
    <3>11. \A i \in Span(l) : Within(input.children[i], first[i])
      BY <1>7, <1>17
    <3>12. HeldLine(input, l, sizes') /\ OnLine(input, l, sizes')
      BY <1>7, <3>10, <3>11, SharedIsHeld
    <3>13. \A i \in 1 .. Len(input.children) : i \notin Span(l) => sizes'[i] = sizes[i]
      BY <1>7, <3>1, <3>9
    <3> QED BY <3>12, <3>13
  <2>3. CASE left > 0 /\ fractions # {}
    <3>1. PICK weights : weights = [i \in fractions |-> Child(i).grow]
      OBVIOUS
    <3>2. sizes' = WithShares(first, weights, left)
      BY <2>1, <2>3, <3>1
    <3>3. \A i \in fractions : Child(i).grow \in Nat /\ Child(i).grow > 0
      BY <1>8, <1>10 DEF IsChild, Child
    <3>4. weights \in [fractions -> Nat] /\ \A i \in fractions : weights[i] > 0
      BY <3>1, <3>3
    <3>5. /\ HeldLine(input, l, sizes') /\ OnLine(input, l, sizes')
          /\ \A i \in 1 .. Len(input.children) : i \notin Span(l) => sizes'[i] = sizes[i]
      BY <2>2, <2>3, <3>2, <3>4
    <3>6. sizes' \in [1 .. Len(input.children) -> Nat]
      BY <3>5 DEF OnLine
    <3> QED BY <1>0, <1>1, <2>1, <3>5, <3>6 DEF SizingStep
  <2>4. CASE left > 0 /\ fractions = {} /\ autos # {}
    <3>1. PICK weights : weights = [i \in autos |-> 1]
      OBVIOUS
    <3>2. sizes' = WithShares(first, weights, left)
      BY <2>1, <2>4, <3>1
    <3>4. weights \in [autos -> Nat] /\ \A i \in autos : weights[i] > 0
      BY <3>1
    <3>5. /\ HeldLine(input, l, sizes') /\ OnLine(input, l, sizes')
          /\ \A i \in 1 .. Len(input.children) : i \notin Span(l) => sizes'[i] = sizes[i]
      BY <2>2, <2>4, <3>2, <3>4
    <3>6. sizes' \in [1 .. Len(input.children) -> Nat]
      BY <3>5 DEF OnLine
    <3> QED BY <1>0, <1>1, <2>1, <3>5, <3>6 DEF SizingStep
  <2>5. CASE ~(left > 0) \/ (fractions = {} /\ autos = {})
    <3>1. sizes' = first
      BY <2>1, <2>5
    <3>2. left > 0 => \A i \in Span(l) : input.children[i].kind = "fixed"
      BY <1>8, <1>10, <1>17, <2>5 DEF IsChild, Kinds
    <3>3. LeftOf(input, l, first) >= 0 /\ (LeftOf(input, l, first) > 0 <=> left > 0)
      BY <1>6, <1>8, <1>17
    <3>4. HeldLine(input, l, first)
      BY <1>2, <1>4, <1>11, <1>17, <3>2, <3>3, StartIsHeld
    <3>5. sizes' \in [1 .. Len(input.children) -> Nat]
      BY <1>7, <3>1 DEF OnLine
    <3> QED BY <1>0, <1>1, <1>7, <2>1, <3>1, <3>4, <3>5 DEF SizingStep
  <2> QED BY <2>3, <2>4, <2>5
<1> QED BY <1>15, <1>16, <1>17

(* One round of sharing, in terms of the line.                             *)
LEMMA SharingIsStep ==
  ASSUME RowInv, stage = "flexing", ShareOnce, LeftOf(input, lines[line], sizes) # 0,
         UNCHANGED <<input, lines, boxes>>
  PROVE  SizingStep
<1>0. /\ LinesFormed /\ RowTypes /\ line \in 1 .. Len(lines) /\ IsContainer(input)
      /\ round \in Nat /\ sizes \in [1 .. Len(input.children) -> Nat]
      /\ FlexLine(input, lines[line], sizes, active)
  <2>1. LinesFormed /\ RowTypes /\ FlexLine(input, lines[line], sizes, active)
    BY DEF RowInv, SizedLines
  <2>2. Len(lines) \in Nat
    BY <2>1, LineFacts DEF LinesFormed, Chained
  <2> QED BY <2>1, <2>2 DEF RowTypes, LinesFormed
<1>1. PICK l : l = lines[line]
  OBVIOUS
<1>2. /\ OnLine(input, l, sizes) /\ Room(l) = RoomOf(input, l) /\ InLine(l) = Span(l)
      /\ \A f : Total(f, InLine(l)) = SumOf(f, Span(l))
      /\ DOMAIN sizes = 1 .. Len(input.children)
      /\ SumOf([i \in 1 .. Len(input.children) |-> Smallest(input.children[i])], Span(l))
           > RoomOf(input, l) => TooNarrow(l)
  BY <1>0, <1>1, LineOn
<1> DEFINE free == Free
           P == {i \in active : Weight(Child(i), free > 0) > 0}
           amount == IF free > 0 THEN free ELSE -free
           weights == [i \in P |-> Weight(Child(i), free > 0)]
           shares == Shares(amount, weights)
           wanted(i) == IF free > 0 THEN sizes[i] + shares[i] ELSE sizes[i] - shares[i]
           next == [i \in DOMAIN sizes |-> IF i \in P THEN Bounded(Child(i), wanted(i)) ELSE sizes[i]]
           U == {i \in P : next[i] = wanted(i)}
<1>14. IF P = {}
       THEN IF free < 0 THEN stage' = "overflow" /\ UNCHANGED <<line, sizes, active, round>>
                        ELSE LineIsSized
       ELSE /\ sizes' = next
            /\ IF U = P
               THEN /\ line' = line + 1 /\ active' = {} /\ round' = 0
                    /\ stage' = "sizing"
               ELSE /\ active' = U /\ round' = round + 1
                    /\ UNCHANGED <<line, stage>>
  BY Zenon DEF ShareOnce
<1>13. U = {i \in P : next[i] = IF free > 0 THEN sizes[i] + shares[i] ELSE sizes[i] - shares[i]}
  OBVIOUS
<1> HIDE DEF U
<1>12. next = [i \in DOMAIN sizes |->
                 IF i \in P
                 THEN Bounded(Child(i), IF free > 0 THEN sizes[i] + shares[i] ELSE sizes[i] - shares[i])
                 ELSE sizes[i]]
  OBVIOUS
<1> HIDE DEF next, wanted
<1>11. shares = Shares(amount, weights)
  OBVIOUS
<1> HIDE DEF shares
<1>10. weights = [i \in P |-> Weight(Child(i), free > 0)]
  OBVIOUS
<1> HIDE DEF weights
<1>9. amount = IF free > 0 THEN free ELSE -free
  OBVIOUS
<1> HIDE DEF amount
<1>8. P = {i \in active : Weight(Child(i), free > 0) > 0}
  OBVIOUS
<1> HIDE DEF P
<1>3. free = Free
  OBVIOUS
<1> HIDE DEF free
<1>4. free = LeftOf(input, l, sizes)
  BY <1>1, <1>2, <1>3 DEF LeftOf, Free
<1>5. /\ free \in Int /\ free # 0 /\ IsFiniteSet(Span(l)) /\ Span(l) \subseteq 1 .. Len(input.children)
      /\ \A i \in Span(l) : i \in Nat /\ \A growing \in BOOLEAN : Weight(input.children[i], growing) \in Nat
  <2>1. /\ LeftOf(input, l, sizes) \in Int /\ IsFiniteSet(Span(l))
        /\ \A i \in Span(l) : i \in Nat /\ \A growing \in BOOLEAN : Weight(input.children[i], growing) \in Nat
    BY <1>2, OnLineFacts
  <2>2. Span(l) \subseteq 1 .. Len(input.children)
    BY <1>2 DEF OnLine
  <2> QED BY <1>1, <1>4, <2>1, <2>2
<1>6. PICK growing \in BOOLEAN : (free > 0 => growing = TRUE) /\ (~(free > 0) => growing = FALSE)
  <2>1. CASE free > 0
    BY <2>1, Zenon
  <2>2. CASE ~(free > 0)
    BY <2>2, Zenon
  <2> QED BY <2>1, <2>2
<1>w. \A i : Weight(Child(i), free > 0) = Weight(input.children[i], growing)
  <2>1. CASE free > 0
    BY <1>6, <2>1 DEF Weight, Child
  <2>2. CASE ~(free > 0)
    BY <1>6, <2>2 DEF Weight, Child
  <2> QED BY <2>1, <2>2
<1>7. Participating(input, active, growing, P)
  BY <1>8, <1>w DEF Participating
<1>15. FlexLine(input, l, sizes, active)
  BY <1>0, <1>1
<1>16. CASE P = {}
  <2>1. CASE free < 0
    <3>1. stage' = "overflow" /\ UNCHANGED <<line, sizes, active, round>>
      BY <1>14, <1>16, <2>1
    <3>2. growing = FALSE
      BY <1>5, <1>6, <2>1
    <3>3. {i \in active : Weight(input.children[i], FALSE) > 0} = {}
      BY <1>7, <1>16, <3>2 DEF Participating
    <3>4. TooNarrow(l)
      BY <1>2, <1>4, <1>15, <2>1, <3>3, NobodyIsLeft
    <3> QED BY <1>0, <1>1, <3>1, <3>4 DEF SizingStep
  <2>2. CASE ~(free < 0)
    <3>1. LineIsSized
      BY <1>14, <1>16, <2>2
    <3>2. free > 0 /\ growing = TRUE
      BY <1>5, <1>6, <2>2
    <3>3. {i \in active : Weight(input.children[i], TRUE) > 0} = {}
      BY <1>7, <1>16, <3>2 DEF Participating
    <3>4. HeldLine(input, l, sizes)
      BY <1>2, <1>4, <1>15, <3>2, <3>3, NobodyIsLeft
    <3> QED BY <1>0, <1>1, <3>1, <3>4 DEF SizingStep, LineIsSized
  <2> QED BY <2>1, <2>2
<1>17. CASE P # {}
  <2>1. /\ P \subseteq active /\ active \subseteq Span(l)
        /\ \A i \in P : input.children[i].kind \in {"flex", "fraction"} /\ Weight(input.children[i], growing) > 0
    BY <1>7, <1>15, FlexParts DEF Participating
  <2>2. P \subseteq Span(l) /\ IsFiniteSet(P) /\ P \subseteq Int
    BY <1>5, <2>1, FS_Subset
  <2>3. Ranked(P)
    <3>1. \A i \in P : Child(i).kind \in {"flex", "fraction"}
      BY <2>1 DEF Child
    <3> QED BY <2>2, <3>1 DEF Ranked
  <2>4. \A i \in P : weights[i] = Weight(input.children[i], growing)
    BY <1>10, <1>w
  <2>5. \A i \in P : weights[i] \in Nat /\ weights[i] > 0
    BY <1>5, <2>1, <2>2, <2>4
  <2>6. weights \in [P -> Nat]
    BY <1>10, <2>5
  <2>7. SumOf(weights, P) > 0
    <3>1. PICK x \in P : TRUE
      BY <1>17
    <3>2. \A y \in P : weights[y] \in Nat
      BY <2>5
    <3> QED BY <2>2, <2>5, <3>1, <3>2, SumPositive
  <2>8. amount \in Nat
    BY <1>5, <1>9
  <2>9. Weighted(amount, weights, P)
    BY <2>3, <2>6, <2>7, <2>8 DEF Weighted
  <2>10. DOMAIN weights = P
    BY <2>6
  <2>11. shares \in [P -> Nat] /\ SumOf(shares, P) = amount
    BY <1>11, <2>9, <2>10, SharesMakeUp DEF Apportioned
  <2>12. RoundOf(input, l, sizes, P, shares, next, U)
    BY <1>2, <1>4, <1>12, <1>13, <2>2, <2>11 DEF RoundOf, Child
  <2>13. IF U = P THEN HeldLine(input, l, next) ELSE FlexLine(input, l, next, U)
    <3>1. CASE free > 0
      <4>1. Participating(input, active, TRUE, P)
        BY <1>6, <1>7, <3>1
      <4>2. SumOf(shares, P) = LeftOf(input, l, sizes)
        BY <1>4, <1>9, <2>11, <3>1
      <4> QED BY <1>2, <1>4, <1>15, <2>12, <3>1, <4>1, <4>2, GrowKeeps
    <3>2. CASE ~(free > 0)
      <4>1. Participating(input, active, FALSE, P)
        BY <1>6, <1>7, <3>2
      <4>2. SumOf(shares, P) = - LeftOf(input, l, sizes) /\ LeftOf(input, l, sizes) < 0
        BY <1>4, <1>5, <1>9, <2>11, <3>2
      <4> QED BY <1>2, <1>15, <2>12, <4>1, <4>2, ShrinkKeeps
    <3> QED BY <3>1, <3>2
  <2>14. /\ next \in [1 .. Len(input.children) -> Nat]
         /\ \A i \in 1 .. Len(input.children) : i \notin Span(l) => next[i] = sizes[i]
    BY <1>2, <2>12, RoundIs DEF OnLine
  <2>15. sizes' = next
    BY <1>14, <1>17
  <2>16. CASE U = P
    <3>1. line' = line + 1 /\ round' = 0 /\ stage' = "sizing"
      BY <1>14, <1>17, <2>16
    <3>2. HeldLine(input, l, sizes')
      BY <2>13, <2>15, <2>16
    <3> QED BY <1>0, <1>1, <2>14, <2>15, <3>1, <3>2 DEF SizingStep
  <2>17. CASE U # P
    <3>1. active' = U /\ round' = round + 1 /\ line' = line /\ stage' = stage
      BY <1>14, <1>17, <2>17
    <3>2. FlexLine(input, l, sizes', active')
      BY <2>13, <2>15, <2>17, <3>1
    <3>3. round' \in Nat
      BY <1>0, <3>1
    <3> QED BY <1>0, <1>1, <2>14, <2>15, <3>1, <3>2, <3>3 DEF SizingStep
  <2> QED BY <2>16, <2>17
<1> QED BY <1>16, <1>17

LEMMA FreezeRoundIsStep ==
  ASSUME RowInv, FreezeRound
  PROVE  SizingStep
<1>0. /\ LinesFormed /\ RowTypes /\ line \in 1 .. Len(lines) /\ IsContainer(input)
      /\ round \in Nat /\ sizes \in [1 .. Len(input.children) -> Nat] /\ stage = "flexing"
      /\ FlexLine(input, lines[line], sizes, active) /\ UNCHANGED <<input, lines, boxes>>
  <2>1. /\ LinesFormed /\ RowTypes /\ stage = "flexing" /\ UNCHANGED <<input, lines, boxes>>
        /\ FlexLine(input, lines[line], sizes, active)
    BY DEF RowInv, SizedLines, FreezeRound
  <2>2. Len(lines) \in Nat
    BY <2>1, LineFacts DEF LinesFormed, Chained
  <2> QED BY <2>1, <2>2 DEF RowTypes, LinesFormed
<1>1. PICK l : l = lines[line]
  OBVIOUS
<1>2. /\ OnLine(input, l, sizes) /\ Room(l) = RoomOf(input, l)
      /\ \A f : Total(f, InLine(l)) = SumOf(f, Span(l))
  BY <1>0, <1>1, LineOn
<1>3. Free = LeftOf(input, l, sizes)
  BY <1>1, <1>2 DEF LeftOf, Free
<1>4. Cardinality(active) \in Nat
  <2>1. IsFiniteSet(Span(l)) /\ active \subseteq Span(l)
    BY <1>0, <1>1, <1>2, OnLineFacts, FlexParts
  <2> QED BY <2>1, FS_Subset, FS_CardinalityType
<1>5. CASE round > Cardinality(active)
  <2>1. stage' = "refused" /\ UNCHANGED <<line, sizes, active, round>>
    <3>1. PICK many : many = Cardinality(active)
      OBVIOUS
    <3>2. ~(round <= many /\ Free = 0)
      BY <1>0, <1>4, <1>5, <3>1
    <3> QED BY <1>5, <3>1, <3>2 DEF FreezeRound
  <2> QED BY <1>0, <2>1 DEF SizingStep
<1>6. CASE round <= Cardinality(active) /\ Free = 0
  <2>1. LineIsSized
    <3>1. ~(round > Cardinality(active))
      BY <1>0, <1>4, <1>6
    <3> QED BY <1>6, <3>1 DEF FreezeRound
  <2>2. HeldLine(input, l, sizes)
    BY <1>0, <1>1, <1>2, <1>3, <1>6, NobodyIsLeft
  <2> QED BY <1>0, <1>1, <2>1, <2>2 DEF SizingStep, LineIsSized
<1>7. CASE ~(round > Cardinality(active)) /\ Free # 0
  <2>1. ShareOnce
    BY <1>7 DEF FreezeRound
  <2> QED BY <1>0, <1>1, <1>3, <1>7, <2>1, SharingIsStep
<1>8. round <= Cardinality(active) \/ round > Cardinality(active)
  BY <1>0, <1>4
<1> QED BY <1>5, <1>6, <1>7, <1>8

-----------------------------------------------------------------------------
(* Placement.                                                              *)
LEMMA LineOfIs ==
  ASSUME NEW many, Chained(lines, many), NEW i \in 1 .. many
  PROVE  /\ LineOf(i) \in 1 .. Len(lines) /\ i \in Span(lines[LineOf(i)])
         /\ \A n \in 1 .. Len(lines) : i \in Span(lines[n]) => LineOf(i) = n
<1>1. DOMAIN lines = 1 .. Len(lines)
  BY LineFacts DEF Chained
<1>2. \E n \in DOMAIN lines : i \in InLine(lines[n])
  BY <1>1, LinesSpan DEF InLine, Span
<1>3. LineOf(i) \in DOMAIN lines /\ i \in InLine(lines[LineOf(i)])
  BY <1>2 DEF LineOf
<1>4. LineOf(i) \in 1 .. Len(lines) /\ i \in Span(lines[LineOf(i)])
  BY <1>1, <1>3 DEF InLine, Span
<1> QED BY <1>4, LinesApart

\* Where the children of a line begin.
PlacedOn(c, l, s) ==
  Offsets([k \in 1 .. l.count |-> s[l.start + k - 1]], c.gap,
          Justified(c.justify, l.count, LeftOf(c, l, s)))

LEMMA LineIsPlaced ==
  ASSUME NEW c, NEW l, NEW s, OnLine(c, l, s), HeldLine(c, l, s)
  PROVE  /\ \A i \in Span(l) : PlacedOn(c, l, s)[i - l.start + 1] \in Nat
         /\ \A i \in Span(l) : PlacedOn(c, l, s)[i - l.start + 1] + s[i] <= c.main
         /\ \A i, j \in Span(l) : i < j =>
              PlacedOn(c, l, s)[i - l.start + 1] + s[i] <= PlacedOn(c, l, s)[j - l.start + 1]
<1>0. PICK extents, spread, free, n, a :
        /\ extents = [k \in 1 .. l.count |-> s[l.start + k - 1]]
        /\ spread = Justified(c.justify, l.count, LeftOf(c, l, s))
        /\ free = LeftOf(c, l, s) /\ n = l.count /\ a = l.start
  OBVIOUS
<1>1. n \in Nat \ {0} /\ a \in Nat \ {0} /\ c.gap \in Nat /\ c.main \in Nat /\ Span(l) = a .. a + n - 1
  BY <1>0, ChildFacts DEF OnLine, LineSet, Span
<1>2. PICK offsets : offsets = PlacedOn(c, l, s)
  OBVIOUS
<1>3. offsets = Offsets(extents, c.gap, spread)
  BY <1>0, <1>2 DEF PlacedOn
<1>4. free \in Nat
  <2>1. free \in Int /\ free >= 0
    BY <1>0, OnLineFacts DEF HeldLine
  <2> QED BY <2>1
<1>5. \A i \in Span(l) : s[i] \in Nat
  BY OnLineFacts
<1>6. ASSUME NEW k \in 1 .. n PROVE extents[k] = s[a + k - 1] /\ extents[k] \in Nat
  <2>1. a + k - 1 \in Span(l)
    BY <1>1
  <2> QED BY <1>0, <1>5, <2>1
<1>7. extents \in [1 .. n -> Nat]
  BY <1>0, <1>6
<1>8. SumOf(extents, 1 .. n) = SumOf(s, Span(l))
  <2>1. \A k \in 1 .. n : extents[k] = s[a + k - 1] /\ extents[k] \in Nat
    BY <1>6
  <2>2. n \in Nat /\ a \in Nat
    BY <1>1
  <2>3. SumOf(extents, 1 .. n) = SumOf(s, a .. a + n - 1)
    BY <2>1, <2>2, SumShift
  <2> QED BY <1>1, <2>3, Zenon
<1>9. Laid(extents, n, c.gap, spread, free, c.main)
  <2>1. Fitting(spread, n, free)
    BY <1>0, <1>1, <1>4, SpreadFits
  <2>2. SumOf(extents, 1 .. n) + c.gap * (n - 1) + free <= c.main
    <3>1. PICK p, x, m : p = c.gap * (n - 1) /\ x = SumOf(s, Span(l)) /\ m = c.main
      OBVIOUS
    <3>2. p \in Nat
      <4>1. n - 1 \in Nat
        BY <1>1
      <4> QED BY <1>1, <3>1, <4>1, Distributes
    <3>3. x \in Nat /\ m \in Nat
      BY <1>1, <3>1, OnLineFacts
    <3>4. free = (m - p) - x
      BY <1>0, <3>1 DEF LeftOf, RoomOf
    <3>5. x + p + free <= m
      BY <3>2, <3>3, <3>4
    <3> QED BY <1>8, <3>1, <3>5
  <2> QED BY <1>1, <1>4, <1>7, <2>1, <2>2 DEF Laid
<1>10. InRow(offsets, extents, n, c.main)
  BY <1>3, <1>9, OffsetsRise
<1>11. ASSUME NEW i \in Span(l)
       PROVE  /\ i - a + 1 \in 1 .. n /\ extents[i - a + 1] = s[i]
              /\ offsets[i - a + 1] \in Nat /\ offsets[i - a + 1] + s[i] <= c.main
  <2>1. i - a + 1 \in 1 .. n /\ a + (i - a + 1) - 1 = i
    BY <1>1
  <2>2. extents[i - a + 1] = s[i]
    BY <1>6, <2>1
  <2> QED BY <1>10, <2>1, <2>2 DEF InRow
<1>12. ASSUME NEW i \in Span(l), NEW j \in Span(l), i < j
       PROVE  offsets[i - a + 1] + s[i] <= offsets[j - a + 1]
  <2>1. i - a + 1 < j - a + 1
    BY <1>1, <1>12
  <2>2. i - a + 1 \in 1 .. n /\ j - a + 1 \in 1 .. n /\ extents[i - a + 1] = s[i]
    BY <1>11
  <2> QED BY <1>10, <2>1, <2>2 DEF InRow
<1> QED BY <1>0, <1>2, <1>11, <1>12

(* The lines on the cross axis.                                            *)
LinesAreApart(c, ls, laid) ==
  /\ \A n \in 1 .. Len(ls) :
       /\ laid[n].cross \in Nat /\ laid[n].extent \in Nat
       /\ laid[n].cross + laid[n].extent <= c.cross
       /\ c.wrap # "nowrap" => ls[n].cross <= laid[n].extent
  /\ \A m, n \in 1 .. Len(ls) :
       m # n => Apart(laid[m].cross, laid[m].extent, laid[n].cross, laid[n].extent)

LEMMA RequiredIs ==
  ASSUME NEW many, Chained(lines, many), lines # <<>>, IsContainer(input)
  PROVE  /\ RequiredCross \in Nat /\ Len(lines) \in Nat \ {0} /\ DOMAIN lines = 1 .. Len(lines)
         /\ LineCrosses \in [1 .. Len(lines) -> Nat]
         /\ \A n \in 1 .. Len(lines) : LineCrosses[n] = lines[n].cross
         /\ SumOf(LineCrosses, 1 .. Len(lines)) \in Nat
         /\ RequiredCross = SumOf(LineCrosses, 1 .. Len(lines)) + input.crossGap * (Len(lines) - 1)
<1>1. /\ Len(lines) \in Nat \ {0} /\ DOMAIN lines = 1 .. Len(lines)
      /\ \A n \in 1 .. Len(lines) : lines[n].cross \in Nat
  BY LineFacts DEF Chained
<1>2. /\ LineCrosses \in [1 .. Len(lines) -> Nat]
      /\ \A n \in 1 .. Len(lines) : LineCrosses[n] = lines[n].cross
  BY <1>1 DEF LineCrosses
<1>3. SumOf(LineCrosses, 1 .. Len(lines)) \in Nat
  <2>1. IsFiniteSet(1 .. Len(lines))
    BY <1>1, FS_Interval
  <2>2. \A n \in 1 .. Len(lines) : LineCrosses[n] \in Nat
    BY <1>2
  <2> QED BY <2>1, <2>2, SumNat
<1>4. RequiredCross = SumOf(LineCrosses, 1 .. Len(lines)) + input.crossGap * (Len(lines) - 1)
  BY <1>1, TotalIs DEF RequiredCross
<1>5. input.crossGap * (Len(lines) - 1) \in Nat
  <2>1. Len(lines) - 1 \in Nat /\ input.crossGap \in Nat
    BY <1>1, ChildFacts
  <2> QED BY <2>1, Distributes
<1>6. RequiredCross \in Nat
  BY <1>3, <1>4, <1>5
<1> QED BY <1>1, <1>2, <1>3, <1>4, <1>6

LEMMA StartSpread ==
  ASSUME NEW n \in Nat \ {0}, NEW free
  PROVE  Fitting(Justified("start", n, free), n, 0)
<1>1. Justified("start", n, free) = [leading |-> 0, gaps |-> [k \in 1 .. n - 1 |-> 0]]
  BY DEF Justified
<1>2. PICK gaps : gaps = [k \in 1 .. n - 1 |-> 0]
  OBVIOUS
<1>3. gaps \in [1 .. n - 1 -> Nat] /\ SumOf(gaps, 1 .. n - 1) = 0
  BY <1>2, NoGaps
<1>4. Fitting([leading |-> 0, gaps |-> gaps], n, 0)
  BY <1>3 DEF Fitting
<1> QED BY <1>1, <1>2, <1>4

\* The extents of the lines and where they start, before they are mirrored.
CrossLaid(n, crosses, gap, room, free, content, extents, starts) ==
  /\ n \in Nat \ {0} /\ crosses \in [1 .. n -> Nat] /\ gap \in Nat /\ room \in Nat /\ free \in Nat
  /\ SumOf(crosses, 1 .. n) \in Nat /\ SumOf(crosses, 1 .. n) + gap * (n - 1) + free = room
  /\ extents = [k \in 1 .. n |-> crosses[k] + IF content = "stretch" THEN EvenSlots(free, n)[k] ELSE 0]
  /\ starts = Offsets(extents, gap, Justified(IF content = "stretch" THEN "start" ELSE content, n, free))

LEMMA LinesFit ==
  ASSUME NEW n, NEW crosses, NEW gap, NEW room, NEW free, NEW content, NEW extents, NEW starts,
         CrossLaid(n, crosses, gap, room, free, content, extents, starts)
  PROVE  /\ InRow(starts, extents, n, room)
         /\ \A k \in 1 .. n : extents[k] \in Nat /\ crosses[k] <= extents[k]
<1>0. /\ n \in Nat \ {0} /\ crosses \in [1 .. n -> Nat] /\ gap \in Nat /\ room \in Nat /\ free \in Nat
      /\ SumOf(crosses, 1 .. n) \in Nat /\ SumOf(crosses, 1 .. n) + gap * (n - 1) + free = room
      /\ extents = [k \in 1 .. n |-> crosses[k] + IF content = "stretch" THEN EvenSlots(free, n)[k] ELSE 0]
      /\ starts = Offsets(extents, gap, Justified(IF content = "stretch" THEN "start" ELSE content, n, free))
  BY DEF CrossLaid
<1>1. PICK growth : growth = EvenSlots(free, n)
  OBVIOUS
<1>2. growth \in [1 .. n -> Nat] /\ SumOf(growth, 1 .. n) = free
  BY <1>0, <1>1, SlotsAddUp
<1>3. PICK p : p = gap * (n - 1)
  OBVIOUS
<1>4. p \in Nat
  <2>1. n - 1 \in Nat
    BY <1>0
  <2> QED BY <1>0, <1>3, <2>1, Distributes
<1>5. CASE content = "stretch"
  <2>1. \A k \in 1 .. n : extents[k] = crosses[k] + growth[k] /\ extents[k] \in Nat
    BY <1>0, <1>1, <1>2, <1>5
  <2>2. extents \in [1 .. n -> Nat]
    BY <1>0, <2>1
  <2>3. SumOf(extents, 1 .. n) = SumOf(crosses, 1 .. n) + SumOf(growth, 1 .. n)
    <3>1. IsFiniteSet(1 .. n)
      BY <1>0, FS_Interval
    <3>2. \A k \in 1 .. n : crosses[k] \in Nat /\ growth[k] \in Nat /\ extents[k] = 1 * crosses[k] + growth[k]
      BY <1>0, <1>2, <2>1
    <3>3. Combines(1 .. n, 1, crosses, growth, extents)
      BY <3>1, <3>2 DEF Combines
    <3> QED BY <3>3, SumAdds
  <2>4. SumOf(extents, 1 .. n) + gap * (n - 1) + 0 <= room
    <3>1. PICK x, y : x = SumOf(crosses, 1 .. n) /\ y = SumOf(extents, 1 .. n)
      OBVIOUS
    <3>2. x \in Nat /\ y = x + free /\ x + p + free = room
      BY <1>0, <1>2, <1>3, <2>3, <3>1
    <3>3. y + p + 0 <= room
      BY <1>0, <1>4, <3>2
    <3> QED BY <1>3, <3>1, <3>3
  <2>5. Fitting(Justified("start", n, free), n, 0)
    BY <1>0, StartSpread
  <2>6. Laid(extents, n, gap, Justified("start", n, free), 0, room)
    BY <1>0, <2>2, <2>4, <2>5 DEF Laid
  <2>7. InRow(starts, extents, n, room)
    BY <1>0, <1>5, <2>6, OffsetsRise
  <2>8. \A k \in 1 .. n : crosses[k] <= extents[k]
    BY <1>0, <1>2, <2>1
  <2> QED BY <2>1, <2>7, <2>8
<1>6. CASE content # "stretch"
  <2>1. \A k \in 1 .. n : extents[k] = crosses[k] /\ extents[k] \in Nat
    BY <1>0, <1>6
  <2>2. extents \in [1 .. n -> Nat]
    BY <1>0, <2>1
  <2>3. SumOf(extents, 1 .. n) = SumOf(crosses, 1 .. n)
    BY <2>1, SumSame
  <2>4. SumOf(extents, 1 .. n) + gap * (n - 1) + free <= room
    <3>1. PICK x : x = SumOf(crosses, 1 .. n) + gap * (n - 1) + free
      OBVIOUS
    <3>2. x \in Nat /\ x <= room
      BY <1>0, <3>1
    <3> QED BY <2>3, <3>1, <3>2
  <2>5. Fitting(Justified(content, n, free), n, free)
    BY <1>0, SpreadFits
  <2>6. Laid(extents, n, gap, Justified(content, n, free), free, room)
    BY <1>0, <2>2, <2>4, <2>5 DEF Laid
  <2>7. InRow(starts, extents, n, room)
    BY <1>0, <1>6, <2>6, OffsetsRise
  <2>8. \A k \in 1 .. n : crosses[k] <= extents[k]
    BY <1>0, <2>1
  <2> QED BY <2>1, <2>7, <2>8
<1> QED BY <1>5, <1>6

LEMMA PlacedLinesFit ==
  ASSUME NEW many, Chained(lines, many), lines # <<>>, IsContainer(input),
         input.wrap = "nowrap" => Len(lines) = 1,
         ~(input.wrap # "nowrap" /\ RequiredCross > input.cross)
  PROVE  /\ LinesAreApart(input, lines, PlacedLines)
         /\ input.wrap = "nowrap" => PlacedLines[1] = [cross |-> 0, extent |-> input.cross]
<1>1. /\ RequiredCross \in Nat /\ Len(lines) \in Nat \ {0} /\ DOMAIN lines = 1 .. Len(lines)
      /\ LineCrosses \in [1 .. Len(lines) -> Nat]
      /\ \A n \in 1 .. Len(lines) : LineCrosses[n] = lines[n].cross
      /\ SumOf(LineCrosses, 1 .. Len(lines)) \in Nat
      /\ RequiredCross = SumOf(LineCrosses, 1 .. Len(lines)) + input.crossGap * (Len(lines) - 1)
  BY RequiredIs
<1>2. input.cross \in Nat /\ input.crossGap \in Nat
  BY ChildFacts
<1>3. CASE input.wrap = "nowrap"
  <2>1. PlacedLines = <<[cross |-> 0, extent |-> input.cross]>>
    BY <1>3 DEF PlacedLines
  <2>2. PlacedLines[1] = [cross |-> 0, extent |-> input.cross]
    BY <2>1
  <2>3. PlacedLines[1].cross = 0 /\ PlacedLines[1].extent = input.cross
    BY <2>2
  <2>4. 1 .. Len(lines) = {1}
    <3>1. Len(lines) = 1 /\ 1 .. 1 = {1}
      BY <1>3
    <3> QED BY <3>1, Zenon
  <2>5. LinesAreApart(input, lines, PlacedLines)
    BY <1>2, <1>3, <2>3, <2>4 DEF LinesAreApart
  <2> QED BY <2>2, <2>5
<1>4. CASE input.wrap # "nowrap"
  <2> DEFINE free == input.cross - RequiredCross
             stretch == input.content = "stretch"
             growth == EvenSlots(free, Len(lines))
             extents == [n \in DOMAIN lines |-> lines[n].cross + (IF stretch THEN growth[n] ELSE 0)]
             starts == Offsets(extents, input.crossGap,
                               Justified(IF stretch THEN "start" ELSE input.content, Len(lines), free))
             laid == PlacedLines
             k == Len(lines)
  <2>1. laid = [n \in DOMAIN lines |->
                    [extent |-> extents[n],
                     cross |-> IF input.wrap = "wrap-reverse"
                               THEN input.cross - starts[n] - extents[n] ELSE starts[n]]]
    BY <1>4, Zenon DEF PlacedLines
  <2>2. free \in Nat
    BY <1>1, <1>2, <1>4
  <2>3. extents = [n \in 1 .. k |-> LineCrosses[n] + IF input.content = "stretch" THEN EvenSlots(free, k)[n] ELSE 0]
    BY <1>1
  <2>4. starts = Offsets(extents, input.crossGap,
                         Justified(IF input.content = "stretch" THEN "start" ELSE input.content, k, free))
    BY Zenon
  <2>5. SumOf(LineCrosses, 1 .. k) + input.crossGap * (k - 1) + free = input.cross
    <3>1. PICK x, p, m, r : /\ x = SumOf(LineCrosses, 1 .. k) /\ p = input.crossGap * (k - 1)
                            /\ m = input.cross /\ r = RequiredCross
      OBVIOUS
    <3>2. m \in Nat /\ r \in Nat /\ r = x + p /\ free = m - r
      BY <1>1, <1>2, <3>1
    <3> HIDE DEF free, k
    <3>3. (x + p) + free = m
      BY <2>2, <3>2
    <3> QED BY <3>1, <3>3
  <2>6. k \in Nat \ {0} /\ LineCrosses \in [1 .. k -> Nat] /\ SumOf(LineCrosses, 1 .. k) \in Nat
    BY <1>1
  <2>7. \A n \in 1 .. k : LineCrosses[n] = lines[n].cross
    BY <1>1
  <2>8. Len(lines) = k /\ DOMAIN lines = 1 .. k
    BY <1>1
  <2>9. laid = PlacedLines
    OBVIOUS
  <2> HIDE DEF laid, starts, extents, growth, stretch, free, k
  <2>10. /\ InRow(starts, extents, k, input.cross)
         /\ \A n \in 1 .. k : extents[n] \in Nat /\ LineCrosses[n] <= extents[n]
    <3>1. CrossLaid(k, LineCrosses, input.crossGap, input.cross, free, input.content, extents, starts)
      BY <1>2, <2>2, <2>3, <2>4, <2>5, <2>6 DEF CrossLaid
    <3> QED BY <3>1, LinesFit
  <2>11. ASSUME NEW n \in 1 .. k
         PROVE  /\ starts[n] \in Nat /\ extents[n] \in Nat /\ starts[n] + extents[n] <= input.cross
                /\ laid[n].extent = extents[n]
                /\ laid[n].cross = IF input.wrap = "wrap-reverse"
                                     THEN input.cross - starts[n] - extents[n] ELSE starts[n]
    <3>1. starts[n] \in Nat /\ starts[n] + extents[n] <= input.cross
      BY <2>10 DEF InRow
    <3>2. laid[n] = [extent |-> extents[n],
                       cross |-> IF input.wrap = "wrap-reverse"
                                 THEN input.cross - starts[n] - extents[n] ELSE starts[n]]
      BY <2>1, <2>8
    <3> QED BY <2>10, <3>1, <3>2
  <2>12. ASSUME NEW n \in 1 .. k
         PROVE  /\ laid[n].cross \in Nat /\ laid[n].extent \in Nat
                /\ laid[n].cross + laid[n].extent <= input.cross
                /\ lines[n].cross <= laid[n].extent
    <3>1. PICK x, y, m : x = starts[n] /\ y = extents[n] /\ m = input.cross
      OBVIOUS
    <3>2. x \in Nat /\ y \in Nat /\ m \in Nat /\ x + y <= m
      BY <1>2, <2>11, <3>1
    <3>3. laid[n].extent = y /\ laid[n].cross = IF input.wrap = "wrap-reverse" THEN (m - x) - y ELSE x
      BY <2>11, <3>1
    <3>4. lines[n].cross <= y
      BY <2>7, <2>10, <3>1
    <3>5. laid[n].cross \in Nat /\ laid[n].cross + y <= m
      BY <3>2, <3>3
    <3> QED BY <3>1, <3>2, <3>3, <3>4, <3>5
  <2>13. ASSUME NEW m \in 1 .. k, NEW n \in 1 .. k, m < n
         PROVE  Apart(laid[m].cross, laid[m].extent, laid[n].cross, laid[n].extent)
    <3>1. starts[m] + extents[m] <= starts[n]
      BY <2>10, <2>13 DEF InRow
    <3>2. PICK a, b, c, d, r : /\ a = starts[m] /\ b = extents[m] /\ c = starts[n] /\ d = extents[n]
                               /\ r = input.cross
      OBVIOUS
    <3>3. /\ a \in Nat /\ b \in Nat /\ c \in Nat /\ d \in Nat /\ r \in Nat /\ a + b <= c
      BY <1>2, <2>11, <3>1, <3>2
    <3>4. CASE input.wrap = "wrap-reverse"
      <4>1. laid[m].cross = (r - a) - b /\ laid[n].cross = (r - c) - d /\ laid[n].extent = d
        BY <2>11, <3>2, <3>4
      <4>2. laid[n].cross + laid[n].extent <= laid[m].cross
        BY <3>3, <4>1
      <4> QED BY <4>2 DEF Apart
    <3>5. CASE input.wrap # "wrap-reverse"
      <4>1. laid[m].cross = a /\ laid[m].extent = b /\ laid[n].cross = c
        BY <2>11, <3>2, <3>5
      <4>2. laid[m].cross + laid[m].extent <= laid[n].cross
        BY <3>3, <4>1
      <4> QED BY <4>2 DEF Apart
    <3> QED BY <3>4, <3>5
  <2>14. ASSUME NEW m \in 1 .. k, NEW n \in 1 .. k, m # n
         PROVE  Apart(laid[m].cross, laid[m].extent, laid[n].cross, laid[n].extent)
    <3>1. m < n \/ n < m
      BY <2>6, <2>14
    <3> QED BY <2>13, <3>1 DEF Apart
  <2>15. LinesAreApart(input, lines, laid)
    BY <2>8, <2>12, <2>14 DEF LinesAreApart
  <2> QED BY <1>4, <2>9, <2>15
<1> QED BY <1>3, <1>4

(* A child is inside its line, unless it is stretched where nothing wraps. *)
LEMMA CrossFits ==
  ASSUME NEW child, IsChild(child), NEW available \in Nat, NEW least,
         least => CrossExtent(child, available, FALSE) <= available,
         child.align # "stretch" => CrossExtent(child, available, FALSE) <= available,
         NEW extent, extent = CrossExtent(child, available, child.align = "stretch"),
         NEW offset,
         offset = IF child.align = "stretch" THEN 0 ELSE CrossOffset(child.align, available - extent)
  PROVE  /\ extent \in Nat /\ offset \in Nat
         /\ child.align # "stretch" \/ least => offset + extent <= available
<1>1. /\ child.crossMin \in Nat /\ child.crossMax \in Nat /\ child.cross \in Nat
      /\ child.crossMax > 0 => child.crossMin <= child.crossMax
  BY DEF IsChild
<1>2. CASE child.align = "stretch"
  <2>1. extent = Clamp(available, child.crossMin, child.crossMax) /\ offset = 0
    BY <1>2 DEF CrossExtent
  <2>2. extent \in Nat
    <3>1. PICK x, lo, hi : x = available /\ lo = child.crossMin /\ hi = child.crossMax
      OBVIOUS
    <3>2. x \in Int /\ lo \in Nat /\ hi \in Nat /\ extent = Clamp(x, lo, hi)
      BY <1>1, <2>1, <3>1
    <3> QED BY <3>2, ClampIs
  <2>3. least => extent <= available
    <3>1. CrossExtent(child, available, FALSE) = Clamp(child.cross, child.crossMin, child.crossMax)
      BY DEF CrossExtent
    <3>2. PICK x, y, lo, hi, z : /\ x = available /\ y = child.cross /\ lo = child.crossMin /\ hi = child.crossMax
                                 /\ z = Clamp(child.cross, child.crossMin, child.crossMax)
      OBVIOUS
    <3>3. /\ x \in Nat /\ y \in Nat /\ lo \in Nat /\ hi \in Nat /\ (hi > 0 => lo <= hi)
          /\ z = Clamp(y, lo, hi) /\ extent = Clamp(x, lo, hi) /\ (least => z <= x)
      BY <1>1, <2>1, <3>1, <3>2
    <3>4. z >= lo
      BY <3>3 DEF Clamp, Larger
    <3>5. least => lo <= x
      <4>1. z \in Int
        BY <3>3, ClampIs
      <4> QED BY <3>3, <3>4, <4>1
    <3>6. least => extent <= x
      BY <3>3, <3>5 DEF Clamp, Larger
    <3> QED BY <3>2, <3>6
  <2> QED BY <1>2, <2>1, <2>2, <2>3
<1>3. CASE child.align # "stretch"
  <2>1. extent = CrossExtent(child, available, FALSE)
    BY <1>3 DEF CrossExtent
  <2>2. extent \in Nat /\ extent <= available
    BY <1>3, <2>1, BasisFacts
  <2>3. PICK room : room = available - extent
    OBVIOUS
  <2>4. room \in Nat
    BY <2>2, <2>3
  <2>5. offset = CrossOffset(child.align, room)
    BY <1>3, <2>3
  <2>6. offset \in Nat /\ offset <= room
    BY <2>4, <2>5 DEF CrossOffset
  <2>7. offset + extent <= available
    BY <2>2, <2>3, <2>4, <2>6
  <2> QED BY <2>2, <2>6, <2>7
<1> QED BY <1>2, <1>3

(* What is known when children are placed.                                *)
LEMMA AllIsSized ==
  ASSUME RowInv, Place
  PROVE  /\ IsContainer(input) /\ Chained(lines, Len(input.children)) /\ lines # <<>>
         /\ Len(input.children) \in Nat \ {0} /\ DOMAIN sizes = 1 .. Len(input.children)
         /\ input.wrap = "nowrap" =>
              Len(lines) = 1 /\ lines[1] = Line(1, Len(input.children), input.cross)
         /\ input.wrap # "nowrap" => HighEnough(input, lines)
         /\ \A n \in 1 .. Len(lines) : HeldLine(input, lines[n], sizes) /\ OnLine(input, lines[n], sizes)
         /\ RowTypes /\ UNCHANGED <<input, lines, line, sizes, active, round>>
<1>1. /\ LinesFormed /\ RowTypes /\ SizedLines /\ stage = "sizing" /\ line > Len(lines)
      /\ UNCHANGED <<input, lines, line, sizes, active, round>>
  BY DEF RowInv, Place
<1>2. IsContainer(input) /\ Chained(lines, Len(input.children)) /\ Len(input.children) \in Nat \ {0}
  BY <1>1, ChildFacts DEF LinesFormed
<1>3. Len(lines) \in Nat
  BY <1>2, LineFacts DEF Chained
<1>4. lines # <<>>
  BY <1>2 DEF Chained, Formed
<1>5. input.wrap = "nowrap" => Len(lines) = 1 /\ lines[1] = Line(1, Len(input.children), input.cross)
  <2>1. input.wrap = "nowrap" => lines = <<Line(1, Len(input.children), input.cross)>>
    BY <1>1 DEF LinesFormed
  <2>2. \A l : Len(<<l>>) = 1 /\ <<l>>[1] = l
    OBVIOUS
  <2> QED BY <2>1, <2>2
<1>6. input.wrap # "nowrap" => HighEnough(input, lines)
  BY <1>1 DEF LinesFormed
<1>7. ASSUME NEW n \in 1 .. Len(lines)
      PROVE  HeldLine(input, lines[n], sizes) /\ OnLine(input, lines[n], sizes)
  <2>1. n \in 1 .. line - 1
    BY <1>1, <1>3 DEF RowTypes
  <2>2. OnLine(input, lines[n], sizes)
    BY <1>1, LineOn
  <2> QED BY <1>1, <2>1, <2>2 DEF SizedLines
<1>8. DOMAIN sizes = 1 .. Len(input.children)
  BY <1>1 DEF RowTypes
<1> QED BY <1>1, <1>2, <1>4, <1>5, <1>6, <1>7, <1>8

\* The room a child has across its line.
LEMMA ChildHasRoom ==
  ASSUME RowInv, Place, ~(input.wrap # "nowrap" /\ RequiredCross > input.cross),
         NEW i \in 1 .. Len(input.children)
  PROVE  /\ LineOf(i) \in 1 .. Len(lines) /\ i \in Span(lines[LineOf(i)])
         /\ PlacedLines[LineOf(i)].extent \in Nat
         /\ input.wrap # "nowrap" =>
              CrossExtent(Child(i), PlacedLines[LineOf(i)].extent, FALSE) <= PlacedLines[LineOf(i)].extent
         /\ input.wrap = "nowrap" => PlacedLines[LineOf(i)].extent = input.cross
<1>1. /\ IsContainer(input) /\ Chained(lines, Len(input.children)) /\ lines # <<>>
      /\ input.wrap = "nowrap" => Len(lines) = 1
      /\ input.wrap # "nowrap" => HighEnough(input, lines)
  BY AllIsSized
<1>2. /\ LineOf(i) \in 1 .. Len(lines) /\ i \in Span(lines[LineOf(i)])
  BY <1>1, LineOfIs
<1>3. /\ LinesAreApart(input, lines, PlacedLines)
      /\ input.wrap = "nowrap" => PlacedLines[1] = [cross |-> 0, extent |-> input.cross]
  BY <1>1, PlacedLinesFit
<1>4. PICK n, e : n = LineOf(i) /\ e = PlacedLines[n].extent
  OBVIOUS
<1>5. e \in Nat /\ (input.wrap # "nowrap" => lines[n].cross <= e)
  BY <1>2, <1>3, <1>4 DEF LinesAreApart
<1>6. input.wrap = "nowrap" => e = input.cross
  <2>1. input.wrap = "nowrap" => n = 1
    <3>1. n \in 1 .. Len(lines) /\ (input.wrap = "nowrap" => Len(lines) = 1)
      BY <1>1, <1>2, <1>4
    <3>2. ASSUME input.wrap = "nowrap" PROVE n = 1
      <4>1. Len(lines) = 1
        BY <3>1, <3>2
      <4>2. n \in 1 .. 1
        BY <3>1, <4>1
      <4> QED BY <4>2
    <3> QED BY <3>2
  <2> QED BY <1>3, <1>4, <2>1
<1>7. input.wrap # "nowrap" => CrossExtent(Child(i), e, FALSE) <= e
  <2> SUFFICES ASSUME input.wrap # "nowrap" PROVE CrossExtent(Child(i), e, FALSE) <= e
    OBVIOUS
  <2>1. CrossExtent(input.children[i], input.cross, FALSE) <= lines[n].cross
    BY <1>1, <1>2, <1>4 DEF HighEnough
  <2>2. CrossExtent(Child(i), e, FALSE) = CrossExtent(input.children[i], input.cross, FALSE)
    BY DEF CrossExtent, Child
  <2>3. IsChild(input.children[i])
    BY <1>1, ChildFacts
  <2>4. CrossExtent(input.children[i], input.cross, FALSE) \in Nat
    BY <2>3, BasisFacts
  <2>5. lines[n].cross \in Nat
    BY <1>1, <1>2, <1>4, LineFacts DEF Chained
  <2>6. PICK x, y, w : /\ x = CrossExtent(input.children[i], input.cross, FALSE) /\ y = lines[n].cross
                       /\ w = input.wrap
    OBVIOUS
  <2>7. x <= e
    <3>1. x \in Nat /\ y \in Nat /\ e \in Nat /\ x <= y
      BY <1>5, <2>1, <2>4, <2>5, <2>6
    <3>2. y <= e
      BY <1>5, <2>6
    <3> QED BY <3>1, <3>2
  <2> QED BY <2>2, <2>6, <2>7
<1> QED BY <1>2, <1>4, <1>5, <1>6, <1>7, Zenon

\* What a refusal to place says.
PlacingOverflows ==
  \/ input.wrap # "nowrap" /\ RequiredCross > input.cross
  \/ \E i \in DOMAIN sizes : /\ Child(i).align # "stretch"
                             /\ ExtentIn(PlacedLines, i) > PlacedLines[LineOf(i)].extent

LEMMA RefusalIsDeserved ==
  ASSUME RowInv, Place, PlacingOverflows
  PROVE  \/ input.wrap # "nowrap" /\ RequiredCross > input.cross
         \/ \E i \in DOMAIN sizes : CrossExtent(Child(i), input.cross, FALSE) > input.cross
<1> SUFFICES ASSUME ~(input.wrap # "nowrap" /\ RequiredCross > input.cross)
             PROVE  \E i \in DOMAIN sizes : CrossExtent(Child(i), input.cross, FALSE) > input.cross
  OBVIOUS
<1>1. PICK i \in DOMAIN sizes : /\ Child(i).align # "stretch"
                                /\ ExtentIn(PlacedLines, i) > PlacedLines[LineOf(i)].extent
  BY DEF PlacingOverflows
<1>2. i \in 1 .. Len(input.children)
  BY AllIsSized
<1>3. PICK e : e = PlacedLines[LineOf(i)].extent
  OBVIOUS
<1>4. /\ e \in Nat /\ (input.wrap # "nowrap" => CrossExtent(Child(i), e, FALSE) <= e)
      /\ input.wrap = "nowrap" => e = input.cross
  BY <1>2, <1>3, ChildHasRoom
<1>5. ExtentIn(PlacedLines, i) = CrossExtent(Child(i), e, FALSE)
  BY <1>1, <1>3 DEF ExtentIn, CrossExtent
<1>6. CrossExtent(Child(i), e, FALSE) > e
  BY <1>1, <1>3, <1>5
<1>7. CrossExtent(Child(i), e, FALSE) \in Nat
  <2>1. IsChild(Child(i))
    BY <1>2, AllIsSized, ChildFacts DEF Child
  <2> QED BY <2>1, BasisFacts
<1>8. input.wrap = "nowrap"
  <2>1. PICK x : x = CrossExtent(Child(i), e, FALSE)
    OBVIOUS
  <2>2. x \in Nat /\ x > e /\ (input.wrap # "nowrap" => x <= e)
    BY <1>4, <1>6, <1>7, <2>1
  <2> QED BY <1>4, <2>2
<1>9. CrossExtent(Child(i), input.cross, FALSE) > input.cross
  BY <1>4, <1>6, <1>8
<1> QED BY <1>1, <1>9

\* The box of a child.
BoxOf(i) ==
  LET n == LineOf(i)
      extent == ExtentIn(PlacedLines, i)
  IN [main |-> Mirror(MainOffsets[n][i - lines[n].start + 1], sizes[i]),
      size |-> sizes[i],
      cross |-> PlacedLines[n].cross
                + (IF Child(i).align = "stretch" THEN 0
                   ELSE CrossOffset(Child(i).align, PlacedLines[n].extent - extent)),
      extent |-> extent]

(* A box is in the region, and in its line unless it is stretched where    *)
(* nothing wraps.                                                          *)
LEMMA BoxIsInside ==
  ASSUME RowInv, Place, ~PlacingOverflows, NEW i \in 1 .. Len(input.children),
         NEW box, box = BoxOf(i), NEW p, p = PlacedLines[LineOf(i)]
  PROVE  /\ box.main \in Nat /\ box.size = sizes[i] /\ box.main + box.size <= input.main
         /\ box.cross \in Nat /\ box.extent \in Nat /\ p.cross <= box.cross
         /\ Child(i).align # "stretch" \/ input.wrap # "nowrap" =>
              box.cross + box.extent <= p.cross + p.extent
         /\ p.cross \in Nat /\ p.extent \in Nat /\ p.cross + p.extent <= input.cross
<1>1. /\ IsContainer(input) /\ Chained(lines, Len(input.children)) /\ lines # <<>>
      /\ input.wrap = "nowrap" => Len(lines) = 1
      /\ DOMAIN sizes = 1 .. Len(input.children) /\ input.main \in Nat /\ IsChild(Child(i))
  BY AllIsSized, ChildFacts DEF Child
<1>2. ~(input.wrap # "nowrap" /\ RequiredCross > input.cross)
  BY DEF PlacingOverflows
<1>3. PICK n : n = LineOf(i)
  OBVIOUS
<1>4. n \in 1 .. Len(lines) /\ i \in Span(lines[n]) /\ p = PlacedLines[n] /\ DOMAIN lines = 1 .. Len(lines)
  BY <1>1, <1>3, LineOfIs, LineFacts DEF Chained
<1>5. LinesAreApart(input, lines, PlacedLines)
  BY <1>1, <1>2, PlacedLinesFit
<1>6. p.cross \in Nat /\ p.extent \in Nat /\ p.cross + p.extent <= input.cross
  BY <1>4, <1>5 DEF LinesAreApart
<1>7. PICK l : l = lines[n]
  OBVIOUS
<1>8. OnLine(input, l, sizes) /\ HeldLine(input, l, sizes)
  BY <1>4, <1>7, AllIsSized
<1>9. MainOffsets[n] = PlacedOn(input, l, sizes)
  <2>1. MainOffsets[n] = Offsets([k \in 1 .. l.count |-> sizes[l.start + k - 1]], input.gap,
                                 Justified(input.justify, l.count, input.main - UsedMain(l)))
    BY <1>4, <1>7 DEF MainOffsets
  <2>2. input.main - UsedMain(l) = LeftOf(input, l, sizes)
    <3>1. UsedMain(l) = SumOf(sizes, Span(l)) + input.gap * (l.count - 1)
      BY TotalIs DEF UsedMain, InLine, Span
    <3>2. PICK x, q, m : x = SumOf(sizes, Span(l)) /\ q = input.gap * (l.count - 1) /\ m = input.main
      OBVIOUS
    <3>3. x \in Nat /\ m \in Nat /\ q \in Nat
      <4>1. l.count - 1 \in Nat /\ input.gap \in Nat
        BY <1>8, ChildFacts DEF OnLine, LineSet
      <4> QED BY <1>1, <1>8, <3>2, <4>1, OnLineFacts, Distributes
    <3>4. m - (x + q) = (m - q) - x
      BY <3>3
    <3> QED BY <3>1, <3>2, <3>4 DEF LeftOf, RoomOf
  <2> QED BY <2>1, <2>2 DEF PlacedOn
<1>10. PICK o, s, m : o = MainOffsets[n][i - l.start + 1] /\ s = sizes[i] /\ m = input.main
  OBVIOUS
<1>11. o \in Nat /\ o + s <= m /\ s \in Nat /\ m \in Nat
  BY <1>1, <1>4, <1>7, <1>8, <1>9, <1>10, LineIsPlaced, OnLineFacts
<1>12. PICK extent, offset :
         /\ extent = ExtentIn(PlacedLines, i)
         /\ offset = IF Child(i).align = "stretch" THEN 0 ELSE CrossOffset(Child(i).align, p.extent - extent)
  OBVIOUS
<1>13. box = [main |-> Mirror(o, s), size |-> s, cross |-> p.cross + offset, extent |-> extent]
  BY <1>3, <1>4, <1>7, <1>10, <1>12 DEF BoxOf
<1>14. box.main = Mirror(o, s) /\ box.size = s /\ box.cross = p.cross + offset /\ box.extent = extent
  BY <1>13
<1>15. Mirror(o, s) \in Nat /\ Mirror(o, s) + s <= m
  BY <1>10, <1>11 DEF Mirror
<1>16. /\ extent \in Nat /\ offset \in Nat
       /\ Child(i).align # "stretch" \/ input.wrap # "nowrap" => offset + extent <= p.extent
  <2>1. extent = CrossExtent(Child(i), p.extent, Child(i).align = "stretch")
    BY <1>12 DEF ExtentIn
  <2>2. input.wrap # "nowrap" => CrossExtent(Child(i), p.extent, FALSE) <= p.extent
    BY <1>2, ChildHasRoom
  <2>3. Child(i).align # "stretch" => CrossExtent(Child(i), p.extent, FALSE) <= p.extent
    <3> SUFFICES ASSUME Child(i).align # "stretch" PROVE CrossExtent(Child(i), p.extent, FALSE) <= p.extent
      OBVIOUS
    <3>1. ~(extent > p.extent)
      BY <1>1, <1>12 DEF PlacingOverflows
    <3>2. extent = CrossExtent(Child(i), p.extent, FALSE)
      BY <2>1 DEF CrossExtent
    <3>3. extent \in Nat
      BY <1>1, <3>2, BasisFacts
    <3>4. extent <= p.extent
      BY <1>6, <3>1, <3>3
    <3> QED BY <3>2, <3>4
  <2> QED BY <1>1, <1>6, <1>12, <2>1, <2>2, <2>3, CrossFits
<1>17. PICK a, b : a = p.cross /\ b = p.extent
  OBVIOUS
<1>18. /\ a \in Nat /\ b \in Nat /\ a + offset \in Nat /\ a <= a + offset
       /\ Child(i).align # "stretch" \/ input.wrap # "nowrap" => (a + offset) + extent <= a + b
  BY <1>6, <1>16, <1>17
<1> QED BY <1>6, <1>10, <1>14, <1>15, <1>16, <1>17, <1>18

(* Two boxes: in one line by their order, in two lines by the lines.       *)
LEMMA BoxesOfLine ==
  ASSUME RowInv, Place, ~PlacingOverflows, NEW i \in 1 .. Len(input.children),
         NEW j \in 1 .. Len(input.children), i < j, LineOf(i) = LineOf(j),
         NEW a, NEW b, a = BoxOf(i), b = BoxOf(j)
  PROVE  IF input.reverse THEN b.main + b.size <= a.main ELSE a.main + a.size <= b.main
<1>1. /\ IsContainer(input) /\ Chained(lines, Len(input.children)) /\ input.main \in Nat
  BY AllIsSized, ChildFacts
<1>2. PICK n, l : n = LineOf(i) /\ l = lines[n]
  OBVIOUS
<1>3. n \in 1 .. Len(lines) /\ i \in Span(l) /\ j \in Span(l) /\ DOMAIN lines = 1 .. Len(lines)
  BY <1>1, <1>2, LineOfIs, LineFacts DEF Chained
<1>4. OnLine(input, l, sizes) /\ HeldLine(input, l, sizes)
  BY <1>2, <1>3, AllIsSized
<1>5. MainOffsets[n] = PlacedOn(input, l, sizes)
  <2>1. MainOffsets[n] = Offsets([k \in 1 .. l.count |-> sizes[l.start + k - 1]], input.gap,
                                 Justified(input.justify, l.count, input.main - UsedMain(l)))
    BY <1>2, <1>3 DEF MainOffsets
  <2>2. input.main - UsedMain(l) = LeftOf(input, l, sizes)
    <3>1. UsedMain(l) = SumOf(sizes, Span(l)) + input.gap * (l.count - 1)
      BY TotalIs DEF UsedMain, InLine, Span
    <3>2. PICK x, q, m : x = SumOf(sizes, Span(l)) /\ q = input.gap * (l.count - 1) /\ m = input.main
      OBVIOUS
    <3>3. x \in Nat /\ m \in Nat /\ q \in Nat
      <4>1. l.count - 1 \in Nat /\ input.gap \in Nat
        BY <1>4, ChildFacts DEF OnLine, LineSet
      <4> QED BY <1>1, <1>4, <3>2, <4>1, OnLineFacts, Distributes
    <3>4. m - (x + q) = (m - q) - x
      BY <3>3
    <3> QED BY <3>1, <3>2, <3>4 DEF LeftOf, RoomOf
  <2> QED BY <2>1, <2>2 DEF PlacedOn
<1>6. PICK o, s, u, t, m : /\ o = MainOffsets[n][i - l.start + 1] /\ s = sizes[i]
                           /\ u = MainOffsets[n][j - l.start + 1] /\ t = sizes[j] /\ m = input.main
  OBVIOUS
<1>7. o \in Nat /\ u \in Nat /\ s \in Nat /\ t \in Nat /\ m \in Nat /\ o + s <= u
  BY <1>1, <1>3, <1>4, <1>5, <1>6, LineIsPlaced, OnLineFacts
<1>8. a.main = Mirror(o, s) /\ a.size = s /\ b.main = Mirror(u, t) /\ b.size = t
  BY <1>2, <1>6 DEF BoxOf
<1>9. CASE input.reverse
  <2>1. Mirror(o, s) = (m - o) - s /\ Mirror(u, t) = (m - u) - t
    BY <1>6, <1>9 DEF Mirror
  <2>2. ((m - u) - t) + t <= (m - o) - s
    BY <1>7
  <2> QED BY <1>8, <1>9, <2>1, <2>2
<1>10. CASE ~input.reverse
  <2>1. Mirror(o, s) = o /\ Mirror(u, t) = u
    BY <1>10 DEF Mirror
  <2> QED BY <1>7, <1>8, <1>10, <2>1
<1> QED BY <1>9, <1>10

LEMMA BoxesOfLines ==
  ASSUME RowInv, Place, ~PlacingOverflows, NEW i \in 1 .. Len(input.children),
         NEW j \in 1 .. Len(input.children), LineOf(i) # LineOf(j),
         NEW a, NEW b, a = BoxOf(i), b = BoxOf(j)
  PROVE  Apart(a.cross, a.extent, b.cross, b.extent)
<1>1. /\ IsContainer(input) /\ Chained(lines, Len(input.children)) /\ lines # <<>>
      /\ input.wrap = "nowrap" => Len(lines) = 1
  BY AllIsSized
<1>2. LineOf(i) \in 1 .. Len(lines) /\ LineOf(j) \in 1 .. Len(lines)
  BY <1>1, LineOfIs
<1>3. input.wrap # "nowrap"
  <2> SUFFICES ASSUME input.wrap = "nowrap" PROVE FALSE
    OBVIOUS
  <2>1. Len(lines) = 1
    BY <1>1
  <2>2. LineOf(i) \in 1 .. 1 /\ LineOf(j) \in 1 .. 1
    BY <1>2, <2>1
  <2> QED BY <2>2
<1>4. PICK p, q : p = PlacedLines[LineOf(i)] /\ q = PlacedLines[LineOf(j)]
  OBVIOUS
<1>5. Apart(p.cross, p.extent, q.cross, q.extent)
  <2>1. LinesAreApart(input, lines, PlacedLines)
    BY <1>1, PlacedLinesFit DEF PlacingOverflows
  <2> QED BY <1>2, <1>4, <2>1 DEF LinesAreApart
<1>6. /\ a.cross \in Nat /\ a.extent \in Nat /\ p.cross <= a.cross
      /\ a.cross + a.extent <= p.cross + p.extent /\ p.cross \in Nat /\ p.extent \in Nat
  BY <1>3, <1>4, BoxIsInside
<1>7. /\ b.cross \in Nat /\ b.extent \in Nat /\ q.cross <= b.cross
      /\ b.cross + b.extent <= q.cross + q.extent /\ q.cross \in Nat /\ q.extent \in Nat
  BY <1>3, <1>4, BoxIsInside
<1>8. PICK ac, ae, bc, be, pc, pe, qc, qe :
        /\ ac = a.cross /\ ae = a.extent /\ bc = b.cross /\ be = b.extent
        /\ pc = p.cross /\ pe = p.extent /\ qc = q.cross /\ qe = q.extent
  OBVIOUS
<1>9. /\ ac \in Nat /\ ae \in Nat /\ pc <= ac /\ ac + ae <= pc + pe /\ pc \in Nat /\ pe \in Nat
      /\ bc \in Nat /\ be \in Nat /\ qc <= bc /\ bc + be <= qc + qe /\ qc \in Nat /\ qe \in Nat
      /\ pc + pe <= qc \/ qc + qe <= pc
  BY <1>5, <1>6, <1>7, <1>8 DEF Apart
<1>10. ac + ae <= bc \/ bc + be <= ac
  BY <1>9
<1> QED BY <1>8, <1>10 DEF Apart

LEMMA PlaceKeeps ==
  ASSUME RowInv, Place
  PROVE  RowInv'
<1>0. /\ IsContainer(input) /\ Chained(lines, Len(input.children)) /\ lines # <<>>
      /\ Len(input.children) \in Nat \ {0} /\ DOMAIN sizes = 1 .. Len(input.children)
      /\ RowTypes /\ LinesFormed /\ SizedLines /\ UNCHANGED <<input, lines, line, sizes, active, round>>
      /\ stage = "sizing"
  BY AllIsSized DEF RowInv, Place
<1>1. IF PlacingOverflows THEN stage' = "overflow" /\ UNCHANGED boxes
      ELSE stage' = "planned" /\ boxes' = [i \in DOMAIN sizes |-> BoxOf(i)]
  BY Zenon DEF Place, PlacingOverflows, BoxOf
<1>2. stage' \in {"overflow", "planned"}
  BY <1>1
<1>3. LinesFormed'
  BY <1>0, <1>2 DEF LinesFormed
<1>4. RowTypes'
  BY <1>0, <1>2 DEF RowTypes, Stages
<1>5. SizedLines'
  BY <1>0, <1>2 DEF SizedLines
<1>6. OverflowIsDeserved'
  <2> SUFFICES ASSUME stage' = "overflow" PROVE OverflowIsDeserved'
    BY DEF OverflowIsDeserved
  <2>1. PlacingOverflows
    BY <1>1
  <2>2. \/ input.wrap # "nowrap" /\ RequiredCross > input.cross
        \/ \E i \in DOMAIN sizes : CrossExtent(Child(i), input.cross, FALSE) > input.cross
    BY <2>1, RefusalIsDeserved
  <2>3. RequiredCross' = RequiredCross
    BY <1>0 DEF RequiredCross, LineCrosses
  <2>4. (\E i \in DOMAIN sizes : CrossExtent(Child(i), input.cross, FALSE) > input.cross) =>
        (\E i \in DOMAIN sizes : CrossExtent(Child(i), input.cross, FALSE) > input.cross)'
    BY <1>0 DEF Child
  <2> QED BY <1>0, <2>2, <2>3, <2>4 DEF OverflowIsDeserved
<1>7. BoxesApart'
  <2> SUFFICES ASSUME stage' = "planned" PROVE BoxesApart'
    BY DEF BoxesApart
  <2>1. ~PlacingOverflows /\ boxes' = [i \in DOMAIN sizes |-> BoxOf(i)]
    BY <1>1
  <2>2. DOMAIN boxes' = 1 .. Len(input.children)
    BY <1>0, <2>1
  <2>3. \A i : LineOf(i)' = LineOf(i) /\ Child(i)' = Child(i)
    BY <1>0 DEF LineOf, Child, InLine
  <2>4. input' = input
    BY <1>0
  <2>5. ASSUME NEW i \in 1 .. Len(input.children), NEW a, a = boxes'[i]
        PROVE  /\ a.main >= 0 /\ a.main + a.size <= input.main /\ a.cross >= 0
               /\ Child(i).align # "stretch" \/ input.wrap # "nowrap" => a.cross + a.extent <= input.cross
    <3>1. a = BoxOf(i)
      BY <1>0, <2>1, <2>5
    <3>2. PICK p : p = PlacedLines[LineOf(i)]
      OBVIOUS
    <3>3. /\ a.main \in Nat /\ a.main + a.size <= input.main
          /\ a.cross \in Nat /\ a.extent \in Nat
          /\ Child(i).align # "stretch" \/ input.wrap # "nowrap" => a.cross + a.extent <= p.cross + p.extent
          /\ p.cross \in Nat /\ p.extent \in Nat /\ p.cross + p.extent <= input.cross
      BY <2>1, <3>1, <3>2, BoxIsInside
    <3>4. PICK x, y, z, w, r : x = a.cross /\ y = a.extent /\ z = p.cross /\ w = p.extent /\ r = input.cross
      OBVIOUS
    <3>5. r \in Nat
      BY <1>0, <3>4, ChildFacts
    <3>6. x + y <= z + w => x + y <= r
      BY <3>3, <3>4, <3>5
    <3> QED BY <3>3, <3>4, <3>6
  <2>6. ASSUME NEW i \in 1 .. Len(input.children), NEW j \in 1 .. Len(input.children),
               NEW a, NEW b, a = boxes'[i], b = boxes'[j], i < j
        PROVE  IF LineOf(i) = LineOf(j)
               THEN IF input.reverse THEN b.main + b.size <= a.main ELSE a.main + a.size <= b.main
               ELSE Apart(a.cross, a.extent, b.cross, b.extent)
    <3>1. a = BoxOf(i) /\ b = BoxOf(j)
      BY <1>0, <2>1, <2>6
    <3>2. CASE LineOf(i) = LineOf(j)
      BY <2>1, <2>6, <3>1, <3>2, BoxesOfLine
    <3>3. CASE LineOf(i) # LineOf(j)
      BY <2>1, <3>1, <3>3, BoxesOfLines
    <3> QED BY <3>2, <3>3
  <2>7. ASSUME NEW i \in DOMAIN boxes', NEW j \in DOMAIN boxes', NEW a, NEW b, a = boxes'[i], b = boxes'[j]
        PROVE  /\ a.main >= 0 /\ a.main + a.size <= input'.main /\ a.cross >= 0
               /\ (Child(i)'.align # "stretch" \/ input'.wrap # "nowrap") => a.cross + a.extent <= input'.cross
               /\ i < j => IF LineOf(i)' = LineOf(j)'
                           THEN IF input'.reverse THEN b.main + b.size <= a.main ELSE a.main + a.size <= b.main
                           ELSE Apart(a.cross, a.extent, b.cross, b.extent)
    <3>1. i \in 1 .. Len(input.children) /\ j \in 1 .. Len(input.children)
      BY <2>2
    <3>2. /\ a.main >= 0 /\ a.main + a.size <= input.main /\ a.cross >= 0
          /\ Child(i).align # "stretch" \/ input.wrap # "nowrap" => a.cross + a.extent <= input.cross
      BY <2>5, <2>7, <3>1
    <3>3. i < j => IF LineOf(i) = LineOf(j)
                   THEN IF input.reverse THEN b.main + b.size <= a.main ELSE a.main + a.size <= b.main
                   ELSE Apart(a.cross, a.extent, b.cross, b.extent)
      BY <2>6, <2>7, <3>1
    <3> QED BY <2>3, <2>4, <3>2, <3>3, Zenon
  <2> QED BY <2>7 DEF BoxesApart
<1> QED BY <1>3, <1>4, <1>5, <1>6, <1>7 DEF RowInv

(* The other steps.                                                        *)
LEMMA AddKeeps ==
  ASSUME RowInv, AddToLines
  PROVE  RowInv'
<1>1. /\ LinesFormed /\ RowTypes /\ stage' = stage /\ stage = "forming"
      /\ UNCHANGED <<input, line, sizes, active, round, boxes>>
  BY DEF RowInv, AddToLines
<1>2. LinesFormed'
  BY <1>1, ChildIsAdded
<1>3. Len(lines') \in Nat
  <2>1. \E many : Chained(lines', many)
    BY <1>2 DEF LinesFormed
  <2> QED BY <2>1, LineFacts DEF Chained
<1>4. line = 0 /\ line \in 0 .. Len(lines') + 1
  BY <1>1, <1>3 DEF RowTypes
<1>5. RowTypes'
  BY <1>1, <1>4 DEF RowTypes
<1>6. SizedLines'
  BY <1>1, <1>4 DEF SizedLines
<1>7. OverflowIsDeserved' /\ BoxesApart'
  BY <1>1 DEF OverflowIsDeserved, BoxesApart
<1> QED BY <1>2, <1>5, <1>6, <1>7 DEF RowInv

LEMMA FormKeeps ==
  ASSUME RowInv, FormLines
  PROVE  RowInv'
<1>1. /\ LinesFormed /\ RowTypes /\ stage' = "sizing" /\ line' = 1
      /\ UNCHANGED <<input, sizes, active, round, boxes>>
  BY DEF RowInv, FormLines
<1>2. LinesFormed' /\ lines' # <<>>
  BY <1>1, LinesAreFormed
<1>3. Len(lines') \in Nat
  <2>1. \E many : Chained(lines', many)
    BY <1>2 DEF LinesFormed
  <2> QED BY <2>1, LineFacts DEF Chained
<1>4. line' \in 0 .. Len(lines') + 1 /\ line' # 0
  BY <1>1, <1>3
<1>5. RowTypes'
  BY <1>1, <1>4 DEF RowTypes, Stages
<1>6. SizedLines'
  BY <1>1 DEF SizedLines
<1>7. OverflowIsDeserved' /\ BoxesApart'
  BY <1>1 DEF OverflowIsDeserved, BoxesApart
<1> QED BY <1>2, <1>5, <1>6, <1>7 DEF RowInv

LEMMA StepKeeps ==
  ASSUME RowInv, Step
  PROVE  RowInv'
<1>1. CASE AddToLines
  BY <1>1, AddKeeps
<1>2. CASE FormLines
  BY <1>2, FormKeeps
<1>3. CASE SizeLine
  BY <1>3, SizeLineIsStep, SizingKeeps
<1>4. CASE FreezeRound
  BY <1>4, FreezeRoundIsStep, SizingKeeps
<1>5. CASE Place
  BY <1>5, PlaceKeeps
<1> QED BY <1>1, <1>2, <1>3, <1>4, <1>5 DEF Step

LEMMA BegunHolds ==
  ASSUME NEW c, IsContainer(c), Begun(c)
  PROVE  RowInv
<1>1. /\ input = c /\ lines = <<>> /\ line = 0 /\ round = 0 /\ stage = "forming"
      /\ sizes = [i \in DOMAIN c.children |-> 0]
      /\ DOMAIN c.children = 1 .. Len(c.children) /\ Len(c.children) \in Nat \ {0} /\ Len(<<>>) = 0
  BY ChildFacts DEF Begun
<1>2. Chained(lines, 0) /\ Packed(input, lines) /\ HighEnough(input, lines) /\ 0 \in 0 .. Len(c.children)
  BY <1>1, NoLines
<1>3. LinesFormed
  BY <1>1, <1>2 DEF LinesFormed
<1>4. sizes \in [1 .. Len(input.children) -> Nat]
  BY <1>1
<1>5. RowTypes
  BY <1>1, <1>4 DEF RowTypes, Stages
<1>6. SizedLines /\ OverflowIsDeserved /\ BoxesApart
  BY <1>1 DEF SizedLines, OverflowIsDeserved, BoxesApart
<1> QED BY <1>3, <1>5, <1>6 DEF RowInv

LEMMA BeginKeeps ==
  ASSUME NEW c, IsContainer(c), Begin(c)
  PROVE  RowInv'
<1>1. /\ input' = c /\ lines' = <<>> /\ line' = 0 /\ round' = 0 /\ stage' = "forming"
      /\ sizes' = [i \in DOMAIN c.children |-> 0]
      /\ DOMAIN c.children = 1 .. Len(c.children) /\ Len(c.children) \in Nat \ {0} /\ Len(<<>>) = 0
  BY ChildFacts DEF Begin
<1>2. Chained(lines', 0) /\ Packed(input', lines') /\ HighEnough(input', lines') /\ 0 \in 0 .. Len(c.children)
  BY <1>1, NoLines
<1>3. LinesFormed'
  BY <1>1, <1>2 DEF LinesFormed
<1>4. sizes' \in [1 .. Len(input'.children) -> Nat]
  BY <1>1
<1>5. RowTypes'
  BY <1>1, <1>4 DEF RowTypes, Stages
<1>6. SizedLines' /\ OverflowIsDeserved' /\ BoxesApart'
  BY <1>1 DEF SizedLines, OverflowIsDeserved, BoxesApart
<1> QED BY <1>3, <1>5, <1>6 DEF RowInv

(* What the properties say follows.                                        *)
LEMMA LinesAreFilledThen ==
  ASSUME RowInv
  PROVE  LinesAreFilled
<1>0. LinesFormed /\ RowTypes /\ SizedLines /\ OverflowIsDeserved /\ IsContainer(input)
  BY DEF RowInv, LinesFormed
<1>1. Len(input.children) \in Nat \ {0}
  BY <1>0, ChildFacts
<1>2. LinesAreGreedy
  <2> SUFFICES ASSUME stage # "forming" PROVE LinesAreGreedy
    BY DEF LinesAreGreedy
  <2>1. Chained(lines, Len(input.children))
    BY <1>0 DEF LinesFormed
  <2>2. /\ Len(lines) \in Nat /\ DOMAIN lines = 1 .. Len(lines)
        /\ \A n \in 1 .. Len(lines) : lines[n].start \in Nat \ {0} /\ lines[n].count \in Nat \ {0}
    BY <2>1, LineFacts DEF Chained
  <2>3. lines # <<>>
    BY <1>1, <2>1 DEF Chained, Formed
  <2>4. NextChild = Len(input.children) + 1
    BY <2>1, NextChildIs
  <2>5. lines[1].start = 1
    BY <2>1, <2>3 DEF Chained
  <2>6. ASSUME NEW n \in DOMAIN lines
        PROVE  /\ lines[n].count > 0
               /\ n > 1 => lines[n].start = lines[n - 1].start + lines[n - 1].count
    <3>1. n > 1 => n \in 2 .. Len(lines)
      BY <2>2
    <3> QED BY <2>1, <2>2, <3>1 DEF Chained
  <2>7. ASSUME input.wrap # "nowrap", NEW n \in DOMAIN lines
        PROVE  /\ Bases(lines[n]) > input.main => lines[n].count = 1
               /\ n < Len(lines) =>
                    Bases(lines[n]) + input.gap + WrapBasis(Child(lines[n + 1].start)) > input.main
    <3>1. Packed(input, lines)
      BY <1>0, <2>7 DEF LinesFormed
    <3>2. Bases(lines[n]) = Need(input, lines[n])
      BY <2>2, BasesAre
    <3> QED BY <2>2, <3>1, <3>2 DEF Packed, Child
  <2> QED BY <2>3, <2>4, <2>5, <2>6, <2>7 DEF LinesAreGreedy
<1>3. RoomIsTaken
  <2>1. ASSUME NEW n \in 1 .. line - 1, NEW l, l = lines[n], NEW left,
               left = Room(l) - Total(sizes, InLine(l)), NEW flexible, flexible = (OfKind(l, "flex") # {})
        PROVE  left >= 0 /\ (left > 0 => \A i \in InLine(l) : Sated(Child(i), sizes[i], flexible))
    <3>1. n \in 1 .. Len(lines) /\ stage # "forming"
      <4>1. Len(lines) \in Nat
        <5>1. \E many : Chained(lines, many)
          BY <1>0 DEF LinesFormed
        <5> QED BY <5>1, LineFacts DEF Chained
      <4> QED BY <1>0, <4>1 DEF RowTypes
    <3>2. HeldLine(input, l, sizes)
      BY <1>0, <2>1 DEF SizedLines
    <3>3. Room(l) = RoomOf(input, l) /\ InLine(l) = Span(l) /\ Total(sizes, InLine(l)) = SumOf(sizes, Span(l))
      BY <1>0, <2>1, <3>1, LineOn
    <3>4. left = LeftOf(input, l, sizes)
      BY <2>1, <3>3 DEF LeftOf
    <3>5. flexible <=> HasFlex(input, l)
      BY <2>1, <3>3 DEF OfKind, HasFlex, Child
    <3>6. ASSUME left > 0, NEW i \in InLine(l) PROVE Sated(Child(i), sizes[i], flexible)
      <4>1. Sated(Child(i), sizes[i], HasFlex(input, l))
        BY <3>2, <3>3, <3>4, <3>6 DEF HeldLine, Child
      <4> QED BY <3>5, <4>1 DEF Sated
    <3>7. left >= 0
      BY <3>2, <3>4 DEF HeldLine
    <3> QED BY <3>6, <3>7
  <2> QED BY <2>1 DEF RoomIsTaken
<1> QED BY <1>0, <1>2, <1>3 DEF LinesAreFilled

LEMMA SizesInBoundsThen ==
  ASSUME RowInv
  PROVE  SizesInBounds
<1>0. LinesFormed /\ RowTypes /\ SizedLines
  BY DEF RowInv
<1>1. ASSUME NEW i \in DOMAIN sizes, Sized(i) PROVE InBounds(Child(i), sizes[i])
  <2>1. PICK n \in DOMAIN lines : i \in InLine(lines[n]) /\ (n < line \/ (n = line /\ stage = "flexing"))
    BY <1>1 DEF Sized
  <2>2. DOMAIN lines = 1 .. Len(lines) /\ Len(lines) \in Nat
    <3>1. \E many : Chained(lines, many)
      BY <1>0 DEF LinesFormed
    <3> QED BY <3>1, LineFacts DEF Chained
  <2>3. i \in Span(lines[n])
    BY <2>1 DEF InLine, Span
  <2>4. Within(Child(i), sizes[i])
    <3>1. CASE n < line
      <4>1. n \in 1 .. line - 1
        BY <1>0, <2>2, <3>1 DEF RowTypes
      <4> QED BY <1>0, <2>3, <4>1 DEF SizedLines, HeldLine, Child
    <3>2. CASE n = line /\ stage = "flexing"
      BY <1>0, <2>3, <3>2 DEF SizedLines, FlexLine, Child
    <3> QED BY <2>1, <3>1, <3>2
  <2> QED BY <2>4 DEF Within, InBounds
<1> QED BY <1>1 DEF SizesInBounds

-----------------------------------------------------------------------------
(* Authored containers: what is planned is always a container.             *)
LEMMA SomeIsLargest ==
  ASSUME NEW n \in Nat \ {0}, NEW f, \A i \in 1 .. n : f[i] \in Nat
  PROVE  \E i \in 1 .. n : \A j \in 1 .. n : f[i] >= f[j]
<1> DEFINE Q == {s \in SUBSET (1 .. n) : s # {} => \E i \in s : \A j \in s : f[i] >= f[j]}
<1>1. {} \in Q
  OBVIOUS
<1>2. ASSUME NEW s \in SUBSET (1 .. n), NEW x \in s, s \ {x} \in Q PROVE s \in Q
  <2>1. CASE s \ {x} = {}
    <3>1. \A j \in s : j = x
      BY <2>1
    <3>2. f[x] \in Nat
      OBVIOUS
    <3>3. \A j \in s : f[x] >= f[j]
      BY <3>1, <3>2
    <3> QED BY <3>3
  <2>2. CASE s \ {x} # {}
    <3>1. PICK i \in s \ {x} : \A j \in s \ {x} : f[i] >= f[j]
      BY <1>2, <2>2
    <3>2. \A j \in s : f[j] \in Nat
      OBVIOUS
    <3>3. CASE f[i] >= f[x]
      <4>1. \A j \in s : f[i] >= f[j]
        BY <3>1, <3>3
      <4> QED BY <4>1
    <3>4. CASE ~(f[i] >= f[x])
      <4>1. f[x] >= f[x] /\ f[x] >= f[i]
        BY <3>2, <3>4
      <4>2. \A j \in s : f[x] >= f[j]
        BY <3>1, <3>2, <4>1
      <4> QED BY <4>2
    <3> QED BY <3>3, <3>4
  <2> QED BY <2>1, <2>2
<1>3. IsFiniteSet(1 .. n)
  BY FS_Interval
<1>5. \A s \in SUBSET (1 .. n) : \A x \in s : s \ {x} \in Q => s \in Q
  BY <1>2
<1> HIDE DEF Q
<1>4. 1 .. n \in Q
  BY <1>1, <1>3, <1>5, PartByPart
<1>6. 1 \in 1 .. n
  OBVIOUS
<1> QED BY <1>4, <1>6 DEF Q

LEMMA LengthIs ==
  ASSUME NEW n \in Nat, NEW f, f = [i \in 1 .. n |-> f[i]]
  PROVE  Len(f) = n /\ DOMAIN f = 1 .. n
<1>1. DOMAIN f = 1 .. n
  OBVIOUS
<1>2. PICK S : S = {f[i] : i \in 1 .. n}
  OBVIOUS
<1>3. f \in [1 .. n -> S]
  BY <1>2
<1>4. f \in Seq(S)
  BY <1>3, SeqDef
<1>5. DOMAIN f = 1 .. Len(f) /\ Len(f) \in Nat
  BY <1>4, LenProperties
<1> QED BY <1>1, <1>5

IsAuthored(a) == \E A \in Authored : a \in A

LEMMA AuthoredFacts ==
  ASSUME NEW a, IsAuthored(a)
  PROVE  /\ a.direction \in {"row", "column"} /\ a.wrap \in Wraps
         /\ a.width \in Nat \ {0} /\ a.height \in Nat \ {0}
         /\ a.gap \in Nat /\ a.crossGap \in Nat /\ a.crossSize \in Nat
         /\ Len(a.items) \in Nat \ {0} /\ DOMAIN a.items = 1 .. Len(a.items)
         /\ \A i \in 1 .. Len(a.items) : IsItem(a.items[i], a.width)
BY AuthoredAssumption DEF IsAuthored

LEMMA ChildIsChild ==
  ASSUME IsAuthored(authored), NEW i \in Indices, NEW need \in Nat, NEW cross \in Nat
  PROVE  IsChild(ChildOf(i, need, cross)) /\ ChildOf(i, need, cross).cross = cross
<1>1. PICK item : item = Item(i)
  OBVIOUS
<1>2. /\ authored.width \in Nat \ {0} /\ IsItem(item, authored.width)
  BY <1>1, AuthoredFacts DEF Indices, Item
<1>3. /\ item.kind \in Kinds
      /\ item.basis \in Nat /\ item.min \in Nat /\ item.max \in Nat /\ item.grow \in Nat /\ item.shrink \in Nat
      /\ item.crossSize \in Nat /\ item.crossMin \in Nat /\ item.crossMax \in Nat
      /\ item.kind = "fraction" => item.grow > 0
      /\ item.crossMax > 0 => item.crossMin <= item.crossMax
      /\ IsContent(item.content, authored.width)
  BY <1>2 DEF IsItem
<1>4. /\ item.content.least \in Nat /\ item.content.most \in Nat
      /\ item.content.heights[authored.width] \in Nat
  BY <1>2, <1>3 DEF IsContent
<1>5. MainNeed(i).preferred \in Nat
  <2>1. CASE ~ContentBasis(i)
    BY <2>1 DEF MainNeed
  <2>2. CASE ContentBasis(i) /\ IsRow
    BY <1>1, <1>4, <2>2 DEF MainNeed
  <2>3. CASE ContentBasis(i) /\ ~IsRow
    BY <1>1, <1>4, <2>3 DEF MainNeed
  <2> QED BY <2>1, <2>2, <2>3
<1>6. PICK basis, min : /\ basis = IF ContentBasis(i) THEN MainNeed(i).preferred ELSE item.basis
                        /\ min = Larger(item.min, need)
  OBVIOUS
<1>7. basis \in Nat /\ min \in Nat
  BY <1>3, <1>5, <1>6 DEF Larger
<1>8. ChildOf(i, need, cross) =
        [kind |-> item.kind, grow |-> item.grow, shrink |-> item.shrink, max |-> item.max,
         basis |-> basis, min |-> min, cross |-> cross, crossMin |-> item.crossMin,
         crossMax |-> item.crossMax, align |-> item.align]
  BY <1>1, <1>6, Zenon DEF ChildOf
<1>9. PICK child : child = ChildOf(i, need, cross)
  OBVIOUS
<1>10. /\ child.kind = item.kind /\ child.grow = item.grow /\ child.shrink = item.shrink
       /\ child.max = item.max /\ child.basis = basis /\ child.min = min /\ child.cross = cross
       /\ child.crossMin = item.crossMin /\ child.crossMax = item.crossMax
  BY <1>8, <1>9
<1>11. IsChild(child)
  BY <1>3, <1>7, <1>10 DEF IsChild
<1> QED BY <1>9, <1>10, <1>11

LEMMA ContainerIsContainer ==
  ASSUME IsAuthored(authored), NEW children, children = [i \in Indices |-> children[i]],
         \A i \in Indices : IsChild(children[i]), NEW cross \in Nat, NEW content,
         NEW c, c = ContainerWith(children, cross, content)
  PROVE  /\ IsContainer(c)
         /\ \A j : IsContainer([c EXCEPT !.justify = j])
<1>1. /\ authored.wrap \in Wraps /\ authored.width \in Nat \ {0} /\ authored.height \in Nat \ {0}
      /\ authored.gap \in Nat /\ authored.crossGap \in Nat
      /\ Len(authored.items) \in Nat \ {0} /\ Indices = 1 .. Len(authored.items)
  BY AuthoredFacts DEF Indices
<1>2. Len(children) = Len(authored.items) /\ DOMAIN children = 1 .. Len(authored.items)
  BY <1>1, LengthIs
<1>3. PICK main : main = IF IsRow THEN authored.width ELSE authored.height
  OBVIOUS
<1>4. main \in Nat
  BY <1>1, <1>3
<1>5. c = [children |-> children, main |-> main, cross |-> cross,
           gap |-> authored.gap, crossGap |-> authored.crossGap, wrap |-> authored.wrap,
           justify |-> authored.justify, content |-> content, reverse |-> authored.reverse]
  BY <1>3, Zenon DEF ContainerWith
<1>6. ASSUME NEW d, d.children = children, d.main = main, d.cross \in Nat, d.gap = authored.gap,
             d.crossGap = authored.crossGap, d.wrap = authored.wrap
      PROVE  IsContainer(d)
  BY <1>1, <1>2, <1>4, <1>6 DEF IsContainer
<1>7. IsContainer(c)
  BY <1>5, <1>6
<1>8. ASSUME NEW j PROVE IsContainer([c EXCEPT !.justify = j])
  <2>1. PICK d : d = [c EXCEPT !.justify = j]
    OBVIOUS
  <2>2. /\ d.children = children /\ d.main = main /\ d.cross \in Nat /\ d.gap = authored.gap
        /\ d.crossGap = authored.crossGap /\ d.wrap = authored.wrap
    BY <1>5, <2>1
  <2> QED BY <1>6, <2>1, <2>2
<1> QED BY <1>7, <1>8

\* What the children of the plan proper are measured to be.
LEMMA MeasuredFacts ==
  ASSUME IsAuthored(authored), Measurable
  PROVE  /\ \A i \in Indices : IsChild(MeasuredChild(i)) /\ MeasuredChild(i).cross \in Nat
         /\ RegionCross \in Nat
<1>1. /\ authored.width \in Nat \ {0} /\ authored.height \in Nat \ {0} /\ authored.crossSize \in Nat
      /\ Len(authored.items) \in Nat \ {0} /\ Indices = 1 .. Len(authored.items)
      /\ \A i \in Indices : IsItem(Item(i), authored.width)
  BY AuthoredFacts DEF Indices, Item
<1>2. ASSUME NEW i \in Indices PROVE IsChild(MeasuredChild(i)) /\ MeasuredChild(i).cross \in Nat
  <2>1. PICK w : w = MeasureWidth(i)
    OBVIOUS
  <2>2. w \in 1 .. authored.width
    BY <2>1 DEF Measurable, CanBeMeasured
  <2>3. IsContent(Item(i).content, authored.width) /\ Item(i).crossSize \in Nat
    BY <1>1 DEF IsItem
  <2>4. /\ Item(i).content.heights[w] \in Nat /\ Item(i).content.least \in Nat
        /\ Item(i).content.most \in Nat /\ Item(i).content.heights[authored.width] \in Nat
    BY <1>1, <2>2, <2>3 DEF IsContent
  <2>5. Measurement(i).height \in Nat
    BY <2>1, <2>4 DEF Measurement
  <2>6. MeasuredCross(i) \in Nat
    <3>1. w \in Nat
      BY <1>1, <2>2
    <3>2. FlowWidth(i) \in Nat
      BY <2>1, <2>4, <3>1 DEF FlowWidth
    <3> QED BY <1>1, <2>5, <3>2 DEF MeasuredCross
  <2>7. MainNeed(i).least \in Nat
    <3>1. CASE ~ContentBasis(i)
      BY <3>1 DEF MainNeed
    <3>2. CASE ContentBasis(i) /\ IsRow
      BY <2>4, <3>2 DEF MainNeed
    <3>3. CASE ContentBasis(i) /\ ~IsRow
      BY <2>4, <3>3 DEF MainNeed
    <3> QED BY <3>1, <3>2, <3>3
  <2>8. PICK need, cross : /\ need = IF IsRow THEN MainNeed(i).least ELSE Measurement(i).height
                           /\ cross = IF Item(i).crossSize > 0 THEN Item(i).crossSize ELSE MeasuredCross(i)
    OBVIOUS
  <2>9. need \in Nat /\ cross \in Nat
    BY <2>3, <2>5, <2>6, <2>7, <2>8
  <2>10. MeasuredChild(i) = ChildOf(i, need, cross)
    BY <2>8 DEF MeasuredChild
  <2>11. IsChild(ChildOf(i, need, cross)) /\ ChildOf(i, need, cross).cross = cross
    BY <2>9, ChildIsChild
  <2> QED BY <2>9, <2>10, <2>11
<1>3. Highest \in Nat
  <2>1. PICK f : f = [i \in Indices |-> MeasuredChild(i).cross]
    OBVIOUS
  <2>2. PICK S : S = {MeasuredChild(i).cross : i \in Indices}
    OBVIOUS
  <2>3. \A i \in Indices : f[i] = MeasuredChild(i).cross /\ f[i] \in Nat
    BY <1>2, <2>1
  <2>4. \A x : x \in S <=> \E i \in Indices : x = f[i]
    BY <2>2, <2>3
  <2>5. \E i \in Indices : \A j \in Indices : f[i] >= f[j]
    BY <1>1, <2>3, SomeIsLargest
  <2>6. \E x \in S : \A y \in S : x >= y
    BY <2>4, <2>5
  <2>7. Max(S) \in S
    BY <2>6 DEF Max
  <2>8. Max(S) \in Nat
    BY <2>3, <2>4, <2>7
  <2> QED BY <2>2, <2>8 DEF Highest
<1>4. RegionCross \in Nat
  <2>1. BodyCross \in Nat
    BY <1>1 DEF BodyCross
  <2>2. CASE authored.crossSize > 0
    BY <1>1, <2>2 DEF RegionCross
  <2>3. CASE ~(authored.crossSize > 0) /\ IsRow
    <3>1. authored.crossSize = 0
      BY <1>1, <2>3
    <3> QED BY <1>3, <2>3, <3>1 DEF RegionCross
  <2>4. CASE ~(authored.crossSize > 0) /\ ~IsRow
    BY <2>1, <2>4 DEF RegionCross
  <2> QED BY <2>2, <2>3, <2>4
<1> QED BY <1>2, <1>4

-----------------------------------------------------------------------------
(* The planning of an authored container is invariant.                     *)
Unplanned == lines = <<>> /\ line = 0 /\ stage = "forming"

\* What a column is probed with is a container made of what is authored.
Intrinsic ==
  \E children, cross, content :
    /\ input = ContainerWith(children, cross, content)
    /\ children = [i \in Indices |-> children[i]]
    /\ \A i \in Indices : IsChild(children[i])

MeasuredInv ==
  /\ phase \in Phases
  /\ phase # "engine" => IsAuthored(authored)
  /\ phase = "intrinsic" => Intrinsic
  /\ \/ RowInv
     \/ Unplanned /\ phase \in {"authored", "measure", "unsupported"}

LEMMA RowStays ==
  ASSUME UNCHANGED rowVars
  PROVE  RowInv' = RowInv /\ Unplanned' = Unplanned
<1>1. /\ input' = input /\ lines' = lines /\ line' = line /\ sizes' = sizes /\ active' = active
      /\ round' = round /\ stage' = stage /\ boxes' = boxes
  BY DEF rowVars
<1>2. Unplanned' = Unplanned
  BY <1>1 DEF Unplanned
<1>3. LinesFormed' = LinesFormed
  BY <1>1 DEF LinesFormed
<1>4. RowTypes' = RowTypes
  BY <1>1 DEF RowTypes
<1>5. SizedLines' = SizedLines
  BY <1>1 DEF SizedLines
<1>6. OverflowIsDeserved' = OverflowIsDeserved
  BY <1>1, Zenon DEF OverflowIsDeserved, TooNarrow, Child, InLine, Room, RequiredCross, LineCrosses
<1>7. BoxesApart' = BoxesApart
  <2>1. \A i : LineOf(i)' = LineOf(i)
    BY <1>1, Zenon DEF LineOf, InLine
  <2>2. \A i : Child(i)' = Child(i)
    BY <1>1 DEF Child
  <2> QED BY <1>1, <2>1, <2>2 DEF BoxesApart
<1> QED BY <1>2, <1>3, <1>4, <1>5, <1>6, <1>7 DEF RowInv

LEMMA MeasuredInitHolds ==
  ASSUME MeasuredInit
  PROVE  MeasuredInv
<1>1. CASE RowInit /\ phase = "engine"
  <2>1. PICK C \in Containers : \E c \in C : Begun(c)
    BY <1>1 DEF RowInit
  <2>2. PICK c \in C : Begun(c)
    BY <2>1
  <2>3. IsContainer(c)
    BY ContainersAreAuthored
  <2>4. RowInv
    BY <2>2, <2>3, BegunHolds
  <2> QED BY <1>1, <2>4 DEF MeasuredInv, Phases
<1>2. CASE (\E A \in Authored : authored \in A) /\ phase = "authored" /\ Begun([children |-> <<>>])
  <2>1. Unplanned
    BY <1>2 DEF Begun, Unplanned
  <2>2. IsAuthored(authored)
    BY <1>2 DEF IsAuthored
  <2> QED BY <1>2, <2>1, <2>2 DEF MeasuredInv, Phases
<1> QED BY <1>1, <1>2 DEF MeasuredInit

\* What does not plan leaves the plan.
LEMMA WaitingKeeps ==
  ASSUME MeasuredInv, UNCHANGED <<rowVars, authored>>, phase' \in Phases,
         phase' = "engine" <=> phase = "engine", phase' = "intrinsic" => phase = "intrinsic",
         phase \in {"authored", "measure", "unsupported"} => phase' \in {"authored", "measure", "unsupported"}
  PROVE  MeasuredInv'
<1>1. input' = input /\ authored' = authored
  BY DEF rowVars
<1>2. IsAuthored(authored)' = IsAuthored(authored)
  BY <1>1 DEF IsAuthored
<1>3. Intrinsic' = Intrinsic
  BY <1>1, Zenon DEF Intrinsic, ContainerWith, IsRow, Indices
<1>4. RowInv' = RowInv /\ Unplanned' = Unplanned
  BY RowStays
<1> QED BY <1>2, <1>3, <1>4 DEF MeasuredInv

LEMMA PlanStepKeeps ==
  ASSUME MeasuredInv, PlanStep
  PROVE  MeasuredInv'
<1>1. /\ phase \in {"engine", "probe", "intrinsic", "final"} /\ Step
      /\ phase' = phase /\ authored' = authored
  BY DEF PlanStep, authoredVars
<1>2. RowInv
  BY <1>1 DEF MeasuredInv
<1>3. RowInv'
  BY <1>1, <1>2, StepKeeps
<1>4. input' = input
  <2>1. CASE AddToLines
    BY <2>1 DEF AddToLines
  <2>2. CASE FormLines
    BY <2>2 DEF FormLines
  <2>3. CASE SizeLine
    BY <2>3 DEF SizeLine
  <2>4. CASE FreezeRound
    BY <2>4 DEF FreezeRound
  <2>5. CASE Place
    BY <2>5 DEF Place
  <2> QED BY <1>1, <2>1, <2>2, <2>3, <2>4, <2>5 DEF Step
<1>5. Intrinsic' = Intrinsic
  BY <1>1, <1>4, Zenon DEF Intrinsic, ContainerWith, IsRow, Indices
<1>6. IsAuthored(authored)' = IsAuthored(authored)
  BY <1>1 DEF IsAuthored
<1> QED BY <1>1, <1>3, <1>5, <1>6 DEF MeasuredInv

LEMMA ProbeRowKeeps ==
  ASSUME MeasuredInv, ProbeRow
  PROVE  MeasuredInv'
<1>1. PICK children, cross, c, d :
        /\ children = [i \in Indices |-> ChildOf(i, MainNeed(i).least, 0)]
        /\ cross = IF authored.crossSize > 0 THEN authored.crossSize ELSE BodyCross
        /\ c = ContainerWith(children, cross, authored.content)
        /\ d = [c EXCEPT !.justify = "start"]
  OBVIOUS
<1>2. phase = "authored" /\ phase' = "probe" /\ authored' = authored /\ Begin(d) /\ IsRow
  BY <1>1, Zenon DEF ProbeRow
<1>3. IsAuthored(authored)
  BY <1>2 DEF MeasuredInv
<1>4. /\ authored.width \in Nat \ {0} /\ authored.height \in Nat \ {0} /\ authored.crossSize \in Nat
      /\ Len(authored.items) \in Nat \ {0} /\ Indices = 1 .. Len(authored.items)
      /\ \A i \in Indices : IsItem(Item(i), authored.width)
  BY <1>3, AuthoredFacts DEF Indices, Item
<1>5. cross \in Nat
  BY <1>1, <1>4 DEF BodyCross
<1>6. ASSUME NEW i \in Indices PROVE IsChild(children[i])
  <2>1. IsContent(Item(i).content, authored.width)
    BY <1>4 DEF IsItem
  <2>2. Item(i).content.least \in Nat
    BY <2>1 DEF IsContent
  <2>3. MainNeed(i).least \in Nat
    <3>1. CASE ~ContentBasis(i)
      BY <3>1 DEF MainNeed
    <3>2. CASE ContentBasis(i)
      BY <1>2, <2>2, <3>2 DEF MainNeed
    <3> QED BY <3>1, <3>2
  <2>4. IsChild(ChildOf(i, MainNeed(i).least, 0))
    BY <1>3, <2>3, ChildIsChild
  <2> QED BY <1>1, <2>4
<1>7. children = [i \in Indices |-> children[i]]
  BY <1>1
<1>8. IsContainer(d)
  <2>1. \A j : IsContainer([c EXCEPT !.justify = j])
    BY <1>1, <1>3, <1>5, <1>6, <1>7, ContainerIsContainer
  <2> QED BY <1>1, <2>1
<1>9. RowInv'
  BY <1>2, <1>8, BeginKeeps
<1>10. IsAuthored(authored)'
  BY <1>2, <1>3 DEF IsAuthored
<1> QED BY <1>2, <1>9, <1>10 DEF MeasuredInv, Phases

LEMMA PlanMeasuredKeeps ==
  ASSUME MeasuredInv, PlanMeasured
  PROVE  MeasuredInv'
<1>1. PICK children, content, c :
        /\ children = [i \in Indices |-> MeasuredChild(i)]
        /\ content = IF Probed THEN "start" ELSE authored.content
        /\ c = ContainerWith(children, RegionCross, content)
  OBVIOUS
<1>2. /\ phase = "measure" /\ phase' \in {"intrinsic", "final"} /\ authored' = authored
      /\ Measurable /\ Begin(c)
  BY <1>1 DEF PlanMeasured
<1>3. IsAuthored(authored)
  BY <1>2 DEF MeasuredInv
<1>4. /\ \A i \in Indices : IsChild(MeasuredChild(i))
      /\ RegionCross \in Nat
  BY <1>2, <1>3, MeasuredFacts
<1>5. /\ children = [i \in Indices |-> children[i]]
      /\ \A i \in Indices : IsChild(children[i])
  BY <1>1, <1>4
<1>6. IsContainer(c)
  BY <1>1, <1>3, <1>4, <1>5, ContainerIsContainer
<1>7. RowInv'
  BY <1>2, <1>6, BeginKeeps
<1>8. IsAuthored(authored)'
  BY <1>2, <1>3 DEF IsAuthored
<1>9. Intrinsic'
  <2>1. input' = c
    BY <1>2 DEF Begin
  <2>2. /\ Indices' = Indices
        /\ ContainerWith(children, RegionCross, content)' =
             ContainerWith(children, RegionCross, content)'
    BY <1>2 DEF Indices
  <2>3. PICK r : r = RegionCross
    OBVIOUS
  <2>4. input' = ContainerWith(children, r, content)
    BY <1>1, <2>1, <2>3
  <2>5. /\ input' = [children |-> children,
                     main |-> IF authored'.direction = "row" THEN authored'.width ELSE authored'.height,
                     cross |-> r, gap |-> authored'.gap, crossGap |-> authored'.crossGap,
                     wrap |-> authored'.wrap, justify |-> authored'.justify, content |-> content,
                     reverse |-> authored'.reverse]
        /\ children = [i \in DOMAIN authored'.items |-> children[i]]
        /\ \A i \in DOMAIN authored'.items : IsChild(children[i])
    BY <1>2, <1>5, <2>4, Zenon DEF ContainerWith, IsRow, Indices
  <2> QED BY <2>5, Zenon DEF Intrinsic, ContainerWith, IsRow, Indices
<1> QED BY <1>2, <1>7, <1>8, <1>9 DEF MeasuredInv, Phases

LEMMA PlanIntrinsicKeeps ==
  ASSUME MeasuredInv, PlanIntrinsic
  PROVE  MeasuredInv'
<1>1. PICK c : c = [input EXCEPT !.cross = RequiredCross, !.content = authored.content]
  OBVIOUS
<1>2. /\ phase = "intrinsic" /\ phase' = "final" /\ stage = "planned" /\ authored' = authored
      /\ Begin(c)
  BY <1>1 DEF PlanIntrinsic
<1>3. IsAuthored(authored) /\ Intrinsic /\ RowInv
  BY <1>2 DEF MeasuredInv
<1>4. PICK children, cross, content :
        /\ input = ContainerWith(children, cross, content)
        /\ children = [i \in Indices |-> children[i]]
        /\ \A i \in Indices : IsChild(children[i])
  BY <1>3, Zenon DEF Intrinsic
<1>5. RequiredCross \in Nat
  <2>1. Chained(lines, Len(input.children)) /\ IsContainer(input)
    BY <1>2, <1>3 DEF RowInv, LinesFormed
  <2>2. lines # <<>>
    BY <1>2, <1>3, LinesAreFilledThen DEF LinesAreFilled, LinesAreGreedy
  <2> QED BY <2>1, <2>2, RequiredIs
<1>6. IsContainer(c)
  <2>1. IsContainer(input)
    BY <1>3 DEF RowInv, LinesFormed
  <2>2. PICK main, r, k : /\ main = IF IsRow THEN authored.width ELSE authored.height
                          /\ r = RequiredCross /\ k = authored.content
    OBVIOUS
  <2>3. input = [children |-> children, main |-> main, cross |-> cross,
                 gap |-> authored.gap, crossGap |-> authored.crossGap, wrap |-> authored.wrap,
                 justify |-> authored.justify, content |-> content, reverse |-> authored.reverse]
    BY <1>4, <2>2, Zenon DEF ContainerWith
  <2>4. c = [input EXCEPT !.cross = r, !.content = k]
    BY <1>1, <2>2
  <2>5. /\ c.children = input.children /\ c.main = input.main /\ c.cross = r /\ c.gap = input.gap
        /\ c.crossGap = input.crossGap /\ c.wrap = input.wrap
    BY <2>3, <2>4
  <2>6. r \in Nat
    BY <1>5, <2>2
  <2> QED BY <2>1, <2>5, <2>6 DEF IsContainer
<1>7. RowInv'
  BY <1>2, <1>6, BeginKeeps
<1>8. IsAuthored(authored)'
  BY <1>2, <1>3 DEF IsAuthored
<1> QED BY <1>2, <1>7, <1>8 DEF MeasuredInv, Phases

\* Each action of the planning of an authored container keeps the invariant.
LEMMA MeasuredNextKeeps ==
  ASSUME MeasuredInv, [MeasuredNext]_<<rowVars, authoredVars>>
  PROVE  MeasuredInv'
<1>1. CASE RejectAuthored
  BY <1>1, WaitingKeeps DEF RejectAuthored, Unsupported, Phases, rowVars
<1>2. CASE ProbeRow
  BY <1>2, ProbeRowKeeps
<1>3. CASE MeasureColumn
  BY <1>3, WaitingKeeps DEF MeasureColumn, Phases, rowVars
<1>4. CASE PlanStep
  BY <1>4, PlanStepKeeps
<1>5. CASE MeasureRow
  BY <1>5, WaitingKeeps DEF MeasureRow, ProbePlanned, Phases, rowVars
<1>6. CASE PlanMeasured
  BY <1>6, PlanMeasuredKeeps
<1>7. CASE RejectMeasured
  BY <1>7, WaitingKeeps DEF RejectMeasured, Unsupported, Phases, rowVars
<1>8. CASE PlanIntrinsic
  BY <1>8, PlanIntrinsicKeeps
<1>9. CASE UNCHANGED <<rowVars, authoredVars>>
  <2>1. phase' = phase /\ UNCHANGED <<rowVars, authored>>
    BY <1>9 DEF authoredVars
  <2>2. phase \in Phases
    BY DEF MeasuredInv
  <2> QED BY <2>1, <2>2, WaitingKeeps
<1>10. CASE Ended
  BY <1>9, <1>10 DEF Ended
<1> QED BY <1>1, <1>2, <1>3, <1>4, <1>5, <1>6, <1>7, <1>8, <1>9, <1>10 DEF MeasuredNext

(* Whatever is planned, in whichever phase, is planned soundly so far.      *)
THEOREM EveryPlanning == MeasuredSpec => []MeasuredInv
<1>1. MeasuredInit => MeasuredInv
  BY MeasuredInitHolds
<1>2. MeasuredInv /\ [MeasuredNext]_<<rowVars, authoredVars>> => MeasuredInv'
  BY MeasuredNextKeeps
<1> QED BY <1>1, <1>2, PTL DEF MeasuredSpec

LEMMA UnplannedHolds ==
  ASSUME Unplanned
  PROVE  LinesAreFilled /\ SizesInBounds /\ BoxesApart
<1>1. lines = <<>> /\ line = 0 /\ stage = "forming" /\ DOMAIN lines = {} /\ 1 .. line - 1 = {}
  BY DEF Unplanned
<1>2. LinesAreFilled
  BY <1>1 DEF LinesAreFilled, LinesAreGreedy, RoomIsTaken, OverflowIsDeserved
<1>3. SizesInBounds
  BY <1>1 DEF SizesInBounds, Sized
<1>4. BoxesApart
  BY <1>1 DEF BoxesApart
<1> QED BY <1>2, <1>3, <1>4

(* Lines hold what fits and leave no room that a child could take, and a   *)
(* container is refused only when its children do not fit.                 *)
THEOREM EveryLineIsFilled == MeasuredSpec => []LinesAreFilled
<1>1. MeasuredInv => LinesAreFilled
  BY LinesAreFilledThen, UnplannedHolds DEF MeasuredInv
<1> QED BY <1>1, EveryPlanning, PTL

(* However often room is shared out again, every size is within the bounds *)
(* of its child.                                                           *)
THEOREM EverySizeIsInBounds == MeasuredSpec => []SizesInBounds
<1>1. MeasuredInv => SizesInBounds
  BY SizesInBoundsThen, UnplannedHolds DEF MeasuredInv
<1> QED BY <1>1, EveryPlanning, PTL

(* Boxes are in the region and do not overlap, however free space is       *)
(* spread and whatever is mirrored.                                        *)
THEOREM EveryBoxIsApart == MeasuredSpec => []BoxesApart
<1>1. MeasuredInv => BoxesApart
  BY UnplannedHolds DEF MeasuredInv, RowInv
<1> QED BY <1>1, EveryPlanning, PTL

-----------------------------------------------------------------------------
(* Planning is determined by what bears on the main axis.  Two plannings   *)
(* whose containers agree on it, whatever their cross sizes, form the same *)
(* lines and come to the same main sizes.                                  *)
MainChild(c) ==
  [kind |-> c.kind, basis |-> c.basis, min |-> c.min, max |-> c.max,
   grow |-> c.grow, shrink |-> c.shrink]

MainView(c) ==
  [children |-> [i \in DOMAIN c.children |-> MainChild(c.children[i])],
   main |-> c.main, gap |-> c.gap, wrap |-> c.wrap]

\* Lines without their cross sizes.
MainLines(ls) == [n \in 1 .. Len(ls) |-> Line(ls[n].start, ls[n].count, 0)]

\* Once every line is sized, only the boxes are left to place.
Sit(v, ls, n, s, a, r, st) ==
  [input |-> v, lines |-> ls, line |-> n, sizes |-> s, active |-> a, round |-> r,
   stage |-> IF n > Len(ls) THEN "sized" ELSE st]

Situation == Sit(MainView(input), MainLines(lines), line, sizes, active, round, stage)

AddedRow(v, ls, i) ==
  IF ls # <<>> /\ Need(v, ls[Len(ls)]) + v.gap + WrapBasis(v.children[i]) <= v.main
  THEN [ls EXCEPT ![Len(ls)] = Line(ls[Len(ls)].start, ls[Len(ls)].count + 1, 0)]
  ELSE Append(ls, Line(i, 1, 0))

KindOn(v, l, kind) == {i \in Span(l) : v.children[i].kind = kind}

StartSizes(v, l, s) ==
  [i \in DOMAIN s |-> IF i \in Span(l) THEN InitialSize(v.children[i]) ELSE s[i]]

Hopeless(v, l, first) ==
  \/ RoomOf(v, l) < 0
  \/ \E i \in KindOn(v, l, "fixed") : v.children[i].basis < v.children[i].min
  \/ LeftOf(v, l, first) < 0 /\ KindOn(v, l, "flex") = {}

SharesAmong(v, amount, weights) ==
  LET those    == DOMAIN weights
      all      == Total(weights, those)
      floor    == [i \in those |-> (amount * weights[i]) \div all]
      rest     == amount - Total(floor, those)
      place(i) == Cardinality({j \in those :
                    IF v.children[j].kind = v.children[i].kind THEN j < i
                    ELSE v.children[j].kind = "flex"})
  IN [i \in those |-> floor[i] + (IF place(i) < rest THEN 1 ELSE 0)]

GrownBy(v, base, weights, amount) ==
  [i \in DOMAIN base |->
     IF i \in DOMAIN weights THEN base[i] + SharesAmong(v, amount, weights)[i] ELSE base[i]]

StartGrown(v, l, first) ==
  LET left      == LeftOf(v, l, first)
      fractions == KindOn(v, l, "fraction")
      autos     == KindOn(v, l, "auto")
  IN CASE left > 0 /\ fractions # {} ->
            GrownBy(v, first, [i \in fractions |-> v.children[i].grow], left)
       [] left > 0 /\ fractions = {} /\ autos # {} -> GrownBy(v, first, [i \in autos |-> 1], left)
       [] OTHER -> first

TakingPart(v, a, growing) == {i \in a : Weight(v.children[i], growing) > 0}

WantedBy(v, s, P, free) ==
  LET shares == SharesAmong(v, IF free > 0 THEN free ELSE -free,
                            [i \in P |-> Weight(v.children[i], free > 0)])
  IN [i \in P |-> IF free > 0 THEN s[i] + shares[i] ELSE s[i] - shares[i]]

NextSizes(v, s, P, wanted) ==
  [i \in DOMAIN s |-> IF i \in P THEN Bounded(v.children[i], wanted[i]) ELSE s[i]]

AfterForming(x) ==
  IF x.input.wrap # "nowrap" /\ Formed(x.lines) + 1 <= Len(x.input.children)
  THEN Sit(x.input, AddedRow(x.input, x.lines, Formed(x.lines) + 1),
           x.line, x.sizes, x.active, x.round, "forming")
  ELSE Sit(x.input, IF x.input.wrap = "nowrap" THEN <<Line(1, Len(x.input.children), 0)>> ELSE x.lines,
           1, x.sizes, x.active, x.round, "sizing")

AfterStart(x) ==
  LET l     == x.lines[x.line]
      first == StartSizes(x.input, l, x.sizes)
  IN IF Hopeless(x.input, l, first)
     THEN Sit(x.input, x.lines, x.line, x.sizes, x.active, x.round, "overflow")
     ELSE IF KindOn(x.input, l, "flex") # {}
     THEN Sit(x.input, x.lines, x.line, first,
              KindOn(x.input, l, "flex") \cup KindOn(x.input, l, "fraction"), 0, "flexing")
     ELSE Sit(x.input, x.lines, x.line + 1, StartGrown(x.input, l, first), x.active, x.round, "sizing")

\* The line is sized, and the next one is begun.
AfterLine(x, s) == Sit(x.input, x.lines, x.line + 1, s, {}, 0, "sizing")

AfterShares(x, free, P) ==
  LET wanted == WantedBy(x.input, x.sizes, P, free)
      next   == NextSizes(x.input, x.sizes, P, wanted)
      U      == {i \in P : next[i] = wanted[i]}
  IN IF P = {}
     THEN IF free < 0
          THEN Sit(x.input, x.lines, x.line, x.sizes, x.active, x.round, "overflow")
          ELSE AfterLine(x, x.sizes)
     ELSE IF U = P THEN AfterLine(x, next)
     ELSE Sit(x.input, x.lines, x.line, next, U, x.round + 1, "flexing")

AfterRound(x) ==
  LET free == LeftOf(x.input, x.lines[x.line], x.sizes)
  IN IF x.round > Cardinality(x.active)
     THEN Sit(x.input, x.lines, x.line, x.sizes, x.active, x.round, "refused")
     ELSE IF free = 0 THEN AfterLine(x, x.sizes)
     ELSE AfterShares(x, free, TakingPart(x.input, x.active, free > 0))

\* What a step of the planner leads to.
Onward(x) ==
  IF x.stage = "forming" THEN AfterForming(x)
  ELSE IF x.stage = "sizing" THEN AfterStart(x)
  ELSE IF x.stage = "flexing" THEN AfterRound(x)
  ELSE x

\* A number of steps lead from x to y.
Along(f, n) == \A k \in 1 .. n : f[k] = Onward(f[k - 1])

Leads(x, y) == \E n \in Nat : \E f : f[0] = x /\ f[n] = y /\ Along(f, n)

LEMMA LeadsHere ==
  ASSUME NEW x
  PROVE  Leads(x, x)
<1> DEFINE f == [k \in {0} |-> x]
<1>1. f[0] = x /\ Along(f, 0)
  BY DEF Along
<1> HIDE DEF f
<1> QED BY <1>1 DEF Leads

LEMMA LeadsOn ==
  ASSUME NEW x, NEW y, Leads(x, y)
  PROVE  Leads(x, Onward(y))
<1>1. PICK n \in Nat : \E f : f[0] = x /\ f[n] = y /\ Along(f, n)
  BY DEF Leads
<1>2. PICK f : f[0] = x /\ f[n] = y /\ Along(f, n)
  BY <1>1
<1> DEFINE g == [k \in 0 .. n + 1 |-> IF k <= n THEN f[k] ELSE Onward(y)]
<1>3. \A k \in 0 .. n : g[k] = f[k]
  OBVIOUS
<1>4. g[n + 1] = Onward(y)
  OBVIOUS
<1> HIDE DEF g
<1>5. ASSUME NEW k \in 1 .. n + 1 PROVE g[k] = Onward(g[k - 1])
  <2>1. CASE k = n + 1
    <3>1. k - 1 = n /\ n \in 0 .. n
      BY <2>1
    <3>2. g[k - 1] = y
      BY <1>2, <1>3, <3>1
    <3> QED BY <1>4, <2>1, <3>2
  <2>2. CASE k # n + 1
    <3>1. k \in 1 .. n /\ k \in 0 .. n /\ k - 1 \in 0 .. n
      BY <2>2
    <3> QED BY <1>2, <1>3, <3>1 DEF Along
  <2> QED BY <2>1, <2>2
<1>6. g[0] = x /\ 0 \in 0 .. n /\ n + 1 \in Nat
  BY <1>2, <1>3
<1> QED BY <1>4, <1>5, <1>6 DEF Leads, Along

LEMMA EndsEarlier ==
  ASSUME NEW f, NEW g, NEW m \in Nat, NEW n \in Nat, m <= n, f[0] = g[0],
         Along(f, m), Along(g, n), Onward(f[m]) = f[m]
  PROVE  g[n] = f[m]
<1>1. Along(g, m)
  BY DEF Along
<1>2. \A k \in 1 .. m : f[k - 1] = g[k - 1] => f[k] = g[k]
  BY <1>1 DEF Along
<1>3. f[m] = g[m]
  BY <1>2, Sums!StepForStep
<1>4. \A k \in m + 1 .. n : g[k - 1] = g[m] => g[k] = g[m]
  <2> SUFFICES ASSUME NEW k \in m + 1 .. n, g[k - 1] = g[m] PROVE g[k] = g[m]
    OBVIOUS
  <2>1. k \in 1 .. n
    OBVIOUS
  <2>2. g[k] = Onward(g[k - 1])
    BY <2>1 DEF Along
  <2> QED BY <1>3, <2>2
<1>5. g[n] = g[m]
  BY <1>4, Sums!StaysAsItIs
<1> QED BY <1>3, <1>5

(* From one situation there is only one end.                               *)
LEMMA OneEnd ==
  ASSUME NEW x, NEW y, NEW z, Leads(x, y), Leads(x, z), Onward(y) = y, Onward(z) = z
  PROVE  y = z
<1>1. PICK m \in Nat : \E f : f[0] = x /\ f[m] = y /\ Along(f, m)
  BY DEF Leads
<1>2. PICK f : f[0] = x /\ f[m] = y /\ Along(f, m)
  BY <1>1
<1>3. PICK n \in Nat : \E g : g[0] = x /\ g[n] = z /\ Along(g, n)
  BY DEF Leads
<1>4. PICK g : g[0] = x /\ g[n] = z /\ Along(g, n)
  BY <1>3
<1>5. CASE m <= n
  BY <1>2, <1>4, <1>5, EndsEarlier
<1>6. CASE n <= m
  BY <1>2, <1>4, <1>6, EndsEarlier
<1> QED BY <1>5, <1>6

LEMMA MainChildFacts ==
  ASSUME NEW c, NEW m, m = MainChild(c)
  PROVE  /\ m.kind = c.kind /\ m.basis = c.basis /\ m.min = c.min /\ m.grow = c.grow
         /\ WrapBasis(m) = WrapBasis(c) /\ InitialSize(m) = InitialSize(c)
         /\ \A g : Weight(m, g) = Weight(c, g)
         /\ \A s : Bounded(m, s) = Bounded(c, s)
<1>1. /\ m.kind = c.kind /\ m.basis = c.basis /\ m.min = c.min /\ m.max = c.max
      /\ m.grow = c.grow /\ m.shrink = c.shrink
  BY DEF MainChild
<1>2. WrapBasis(m) = WrapBasis(c) /\ InitialSize(m) = InitialSize(c)
  BY <1>1, Zenon DEF WrapBasis, InitialSize
<1>3. \A g : Weight(m, g) = Weight(c, g)
  BY <1>1, Zenon DEF Weight
<1>4. \A s : Bounded(m, s) = Bounded(c, s)
  BY <1>1, Zenon DEF Bounded
<1> QED BY <1>1, <1>2, <1>3, <1>4

LEMMA ViewFacts ==
  ASSUME NEW c, NEW v, v = MainView(c)
  PROVE  /\ v.main = c.main /\ v.gap = c.gap /\ v.wrap = c.wrap
         /\ DOMAIN v.children = DOMAIN c.children
         /\ \A i \in DOMAIN c.children : v.children[i] = MainChild(c.children[i])
         /\ \A l : Need(v, l) = Need(c, l) /\ RoomOf(v, l) = RoomOf(c, l)
         /\ \A l, s : LeftOf(v, l, s) = LeftOf(c, l, s)
<1>1. /\ v.main = c.main /\ v.gap = c.gap /\ v.wrap = c.wrap
      /\ v.children = [i \in DOMAIN c.children |-> MainChild(c.children[i])]
  BY DEF MainView
<1>2. /\ DOMAIN v.children = DOMAIN c.children
      /\ \A i \in DOMAIN c.children : v.children[i] = MainChild(c.children[i])
  BY <1>1
<1>3. \A i \in DOMAIN c.children : WrapBasis(v.children[i]) = WrapBasis(c.children[i])
  BY <1>2, MainChildFacts
<1>4. [i \in DOMAIN v.children |-> WrapBasis(v.children[i])]
        = [i \in DOMAIN c.children |-> WrapBasis(c.children[i])]
  BY <1>2, <1>3
<1>5. \A l : Need(v, l) = Need(c, l)
  BY <1>1, <1>4, Zenon DEF Need
<1>6. \A l : RoomOf(v, l) = RoomOf(c, l)
  BY <1>1 DEF RoomOf
<1>7. \A l, s : LeftOf(v, l, s) = LeftOf(c, l, s)
  BY <1>6, Zenon DEF LeftOf
<1> QED BY <1>1, <1>2, <1>5, <1>6, <1>7

\* A line matters on the main axis by its children.
LEMMA RowFacts ==
  ASSUME NEW l, NEW r, r.start = l.start, r.count = l.count
  PROVE  /\ Span(r) = Span(l)
         /\ \A c : Need(c, r) = Need(c, l) /\ RoomOf(c, r) = RoomOf(c, l)
         /\ \A c, s : LeftOf(c, r, s) = LeftOf(c, l, s)
         /\ \A v, k : KindOn(v, r, k) = KindOn(v, l, k)
         /\ \A v, s : StartSizes(v, r, s) = StartSizes(v, l, s)
         /\ \A v, s : Hopeless(v, r, s) <=> Hopeless(v, l, s)
         /\ \A v, s : StartGrown(v, r, s) = StartGrown(v, l, s)
<1>1. Span(r) = Span(l)
  BY DEF Span
<1>2. \A c : Need(c, r) = Need(c, l) /\ RoomOf(c, r) = RoomOf(c, l)
  BY <1>1, Zenon DEF Need, RoomOf
<1>3. \A c, s : LeftOf(c, r, s) = LeftOf(c, l, s)
  BY <1>1, <1>2, Zenon DEF LeftOf
<1>4. \A v, k : KindOn(v, r, k) = KindOn(v, l, k)
  BY <1>1, Zenon DEF KindOn
<1>5. \A v, s : StartSizes(v, r, s) = StartSizes(v, l, s)
  BY <1>1, Zenon DEF StartSizes
<1>6. \A v, s : Hopeless(v, r, s) <=> Hopeless(v, l, s)
  BY <1>2, <1>3, <1>4, Zenon DEF Hopeless
<1>7. \A v, s : StartGrown(v, r, s) = StartGrown(v, l, s)
  BY <1>3, <1>4, Zenon DEF StartGrown
<1> QED BY <1>1, <1>2, <1>3, <1>4, <1>5, <1>6, <1>7

LEMMA SitFacts ==
  ASSUME NEW v, NEW ls, NEW n, NEW s, NEW a, NEW r, NEW st, NEW x, x = Sit(v, ls, n, s, a, r, st)
  PROVE  /\ x.input = v /\ x.lines = ls /\ x.line = n /\ x.sizes = s /\ x.active = a /\ x.round = r
         /\ x.stage = IF n > Len(ls) THEN "sized" ELSE st
BY DEF Sit

LEMMA LineParts ==
  ASSUME NEW first, NEW many, NEW cross, NEW l, l = Line(first, many, cross)
  PROVE  l.start = first /\ l.count = many /\ l.cross = cross
BY DEF Line

LEMMA LineIn ==
  ASSUME NEW first \in Nat \ {0}, NEW many \in Nat \ {0}, NEW cross \in Nat
  PROVE  Line(first, many, cross) \in LineSet
BY DEF Line, LineSet

LEMMA MainLinesFacts ==
  ASSUME NEW ls \in Seq(LineSet), NEW rs, rs = MainLines(ls)
  PROVE  /\ rs \in Seq(LineSet) /\ Len(rs) = Len(ls) /\ DOMAIN rs = 1 .. Len(ls) /\ (rs = <<>> <=> ls = <<>>)
         /\ \A n \in 1 .. Len(ls) : rs[n].start = ls[n].start /\ rs[n].count = ls[n].count
         /\ \A n \in 1 .. Len(ls) : rs[n] = Line(ls[n].start, ls[n].count, 0)
         /\ Formed(rs) = Formed(ls)
<1>1. Len(ls) \in Nat /\ (ls = <<>> <=> Len(ls) = 0)
  BY LineFacts
<1>2. Len(rs) = Len(ls) /\ DOMAIN rs = 1 .. Len(ls)
  BY <1>1, LengthIs DEF MainLines
<1>3. \A n \in 1 .. Len(ls) : rs[n] = Line(ls[n].start, ls[n].count, 0)
  BY DEF MainLines
<1>4. \A n \in 1 .. Len(ls) : rs[n].start = ls[n].start /\ rs[n].count = ls[n].count
  <2> TAKE n \in 1 .. Len(ls)
  <2> QED BY <1>3, LineParts
<1>5. rs = <<>> <=> ls = <<>>
  <2>1. CASE Len(ls) = 0
    BY <1>1, <1>2, <2>1
  <2>2. CASE Len(ls) # 0
    BY <1>1, <1>2, <2>2
  <2> QED BY <2>1, <2>2
<1>6. Formed(rs) = Formed(ls)
  <2>1. CASE ls = <<>>
    BY <1>5, <2>1 DEF Formed
  <2>2. CASE ls # <<>>
    <3>1. Len(ls) \in 1 .. Len(ls)
      BY <1>1, <2>2
    <3> QED BY <1>2, <1>4, <1>5, <2>2, <3>1 DEF Formed
  <2> QED BY <2>1, <2>2
<1>7. rs \in Seq(LineSet)
  <2>1. \A n \in 1 .. Len(ls) : rs[n] \in LineSet
    <3> TAKE n \in 1 .. Len(ls)
    <3>1. ls[n].start \in Nat \ {0} /\ ls[n].count \in Nat \ {0}
      BY LineFacts
    <3>2. Line(ls[n].start, ls[n].count, 0) \in LineSet
      BY <3>1, LineIn
    <3> QED BY <1>3, <3>2
  <2>2. rs = [n \in 1 .. Len(ls) |-> rs[n]]
    BY DEF MainLines
  <2>3. rs \in [1 .. Len(ls) -> LineSet]
    BY <2>1, <2>2
  <2> QED BY <1>1, <2>3, SeqDef
<1> QED BY <1>2, <1>3, <1>4, <1>5, <1>6, <1>7

\* Shares go by what is on the main axis.
LEMMA SharesSame ==
  ASSUME NEW v, v = MainView(input), NEW amount, NEW weights,
         DOMAIN weights \subseteq DOMAIN input.children
  PROVE  SharesAmong(v, amount, weights) = Shares(amount, weights)
<1>1. PICK those : those = DOMAIN weights
  OBVIOUS
<1>2. PICK all : all = Total(weights, those)
  OBVIOUS
<1>3. PICK floor : floor = [i \in those |-> (amount * weights[i]) \div all]
  OBVIOUS
<1>4. PICK rest : rest = amount - Total(floor, those)
  OBVIOUS
<1>5. SharesAmong(v, amount, weights)
        = [i \in those |-> floor[i] + (IF Cardinality({j \in those :
             IF v.children[j].kind = v.children[i].kind THEN j < i
             ELSE v.children[j].kind = "flex"}) < rest THEN 1 ELSE 0)]
  BY <1>1, <1>2, <1>3, <1>4, Zenon DEF SharesAmong
<1>6. Shares(amount, weights)
        = [i \in those |-> floor[i] + (IF Cardinality({j \in those : Precedes(j, i)}) < rest
                                       THEN 1 ELSE 0)]
  BY <1>1, <1>2, <1>3, <1>4, Zenon DEF Shares
<1>7. \A i \in those : v.children[i].kind = Child(i).kind
  BY <1>1, ViewFacts, MainChildFacts DEF Child
<1>8. ASSUME NEW i \in those
      PROVE  {j \in those : IF v.children[j].kind = v.children[i].kind THEN j < i
                            ELSE v.children[j].kind = "flex"}
               = {j \in those : Precedes(j, i)}
  <2>1. v.children[i].kind = Child(i).kind
    BY <1>7
  <2>2. ASSUME NEW j \in those
        PROVE  (IF v.children[j].kind = v.children[i].kind THEN j < i
                ELSE v.children[j].kind = "flex") <=> Precedes(j, i)
    <3>1. v.children[j].kind = Child(j).kind
      BY <1>7
    <3> QED BY <2>1, <3>1, Zenon DEF Precedes
  <2> QED BY <2>2, Zenon
<1> QED BY <1>5, <1>6, <1>8, Zenon

LEMMA GrownSame ==
  ASSUME NEW v, v = MainView(input), NEW base, NEW amount, NEW weights,
         DOMAIN weights \subseteq DOMAIN input.children
  PROVE  GrownBy(v, base, weights, amount) = WithShares(base, weights, amount)
<1>1. SharesAmong(v, amount, weights) = Shares(amount, weights)
  BY SharesSame
<1> QED BY <1>1, Zenon DEF GrownBy, WithShares

\* The situation of a planner, one part at a time.
LEMMA SituationFacts ==
  ASSUME NEW x, x = Situation, LinesFormed
  PROVE  /\ x.input = MainView(input) /\ x.lines = MainLines(lines) /\ x.line = line /\ x.sizes = sizes
         /\ x.active = active /\ x.round = round
         /\ x.stage = IF line > Len(lines) THEN "sized" ELSE stage
         /\ lines \in Seq(LineSet) /\ Len(lines) \in Nat /\ Len(MainLines(lines)) = Len(lines)
         /\ IsContainer(input) /\ DOMAIN input.children = 1 .. Len(input.children)
<1>1. lines \in Seq(LineSet) /\ IsContainer(input)
  BY DEF LinesFormed, Chained
<1>2. Len(lines) \in Nat /\ Len(MainLines(lines)) = Len(lines)
  BY <1>1, LineFacts, MainLinesFacts
<1>3. /\ x.input = MainView(input) /\ x.lines = MainLines(lines) /\ x.line = line /\ x.sizes = sizes
      /\ x.active = active /\ x.round = round
      /\ x.stage = IF line > Len(MainLines(lines)) THEN "sized" ELSE stage
  BY SitFacts DEF Situation
<1> QED BY <1>1, <1>2, <1>3, ChildFacts

(* Each step of the planner is the step that its situation says.           *)
LEMMA AddedRows ==
  ASSUME NEW c, IsContainer(c), NEW ls, NEW many, Chained(ls, many), NEW i \in 1 .. Len(c.children)
  PROVE  MainLines(Added(c, ls, i)) = AddedRow(MainView(c), MainLines(ls), i)
<1>1. PICK v, rs : v = MainView(c) /\ rs = MainLines(ls)
  OBVIOUS
<1>2. ls \in Seq(LineSet)
  BY DEF Chained
<1>3. /\ Len(rs) = Len(ls) /\ DOMAIN rs = 1 .. Len(ls) /\ (rs = <<>> <=> ls = <<>>)
      /\ rs \in Seq(LineSet)
      /\ \A n \in 1 .. Len(ls) : rs[n].start = ls[n].start /\ rs[n].count = ls[n].count
      /\ \A n \in 1 .. Len(ls) : rs[n] = Line(ls[n].start, ls[n].count, 0)
  BY <1>1, <1>2, MainLinesFacts
<1>4. Len(ls) \in Nat /\ (ls = <<>> <=> Len(ls) = 0) /\ DOMAIN ls = 1 .. Len(ls)
  BY <1>2, LineFacts
<1>5. /\ v.main = c.main /\ v.gap = c.gap /\ WrapBasis(v.children[i]) = WrapBasis(c.children[i])
      /\ \A l : Need(v, l) = Need(c, l)
  BY <1>1, ViewFacts, MainChildFacts, ChildFacts
<1>6. PICK n : n = Len(ls)
  OBVIOUS
<1>7. PICK fits : fits = (ls # <<>> /\ Need(c, ls[n]) + c.gap + WrapBasis(c.children[i]) <= c.main)
  OBVIOUS
<1>8. (rs # <<>> /\ Need(v, rs[n]) + v.gap + WrapBasis(v.children[i]) <= v.main) = fits
  <2>1. CASE ls = <<>>
    BY <1>3, <1>7, <2>1
  <2>2. CASE ls # <<>>
    <3>1. n \in 1 .. Len(ls)
      BY <1>4, <1>6, <2>2
    <3>2. Need(c, rs[n]) = Need(c, ls[n])
      BY <1>3, <3>1, RowFacts
    <3> QED BY <1>3, <1>5, <1>7, <2>2, <3>2, Zenon
  <2> QED BY <2>1, <2>2
<1>9. CASE fits
  <2>0. ls # <<>>
    BY <1>7, <1>9, Zenon
  <2>1. n \in 1 .. Len(ls)
    BY <1>4, <1>6, <2>0
  <2>2. PICK e : e = Larger(ls[n].cross, CrossExtent(c.children[i], c.cross, FALSE))
    OBVIOUS
  <2>3. PICK k : k = ls[n].count + 1
    OBVIOUS
  <2>4. Added(c, ls, i) = [ls EXCEPT ![n] = Line(ls[n].start, k, e)]
    BY <1>6, <1>7, <1>9, <2>2, <2>3, Zenon DEF Added
  <2>5. AddedRow(v, rs, i) = [rs EXCEPT ![n] = Line(ls[n].start, k, 0)]
    BY <1>3, <1>6, <1>8, <1>9, <2>1, <2>3, Zenon DEF AddedRow
  <2>6. PICK new : new = Added(c, ls, i)
    OBVIOUS
  <2>7. Len(new) = n
    BY <1>2, <1>6, <2>4, <2>6
  <2>8. \A m \in 1 .. n : new[m] = IF m = n THEN Line(ls[n].start, k, e) ELSE ls[m]
    BY <1>4, <1>6, <2>4, <2>6
  <2>9. MainLines(new) = [m \in 1 .. n |-> Line(new[m].start, new[m].count, 0)]
    BY <2>7 DEF MainLines
  <2>10. ASSUME NEW m \in 1 .. n
         PROVE  Line(new[m].start, new[m].count, 0) = IF m = n THEN Line(ls[n].start, k, 0) ELSE rs[m]
    <3>1. CASE m = n
      <4>1. new[m].start = ls[n].start /\ new[m].count = k
        BY <2>8, <3>1, LineParts
      <4> QED BY <3>1, <4>1
    <3>2. CASE m # n
      BY <1>3, <1>6, <2>8, <3>2, Zenon
    <3> QED BY <3>1, <3>2
  <2>11. AddedRow(v, rs, i) = [m \in 1 .. n |-> IF m = n THEN Line(ls[n].start, k, 0) ELSE rs[m]]
    BY <1>3, <1>6, <2>1, <2>5, Zenon
  <2>12. MainLines(new) = [m \in 1 .. n |-> IF m = n THEN Line(ls[n].start, k, 0) ELSE rs[m]]
    BY <2>9, <2>10
  <2> QED BY <1>1, <2>6, <2>11, <2>12
<1>10. CASE ~fits
  <2>1. PICK e : e = CrossExtent(c.children[i], c.cross, FALSE)
    OBVIOUS
  <2>2. Added(c, ls, i) = Append(ls, Line(i, 1, e))
    BY <1>6, <1>7, <1>10, <2>1 DEF Added
  <2>3. AddedRow(v, rs, i) = Append(rs, Line(i, 1, 0))
    BY <1>3, <1>6, <1>8, <1>10, Zenon DEF AddedRow
  <2>4. PICK new : new = Added(c, ls, i)
    OBVIOUS
  <2>5. Len(new) = n + 1 /\ \A m \in 1 .. n + 1 : new[m] = IF m = n + 1 THEN Line(i, 1, e) ELSE ls[m]
    BY <1>2, <1>4, <1>6, <2>2, <2>4
  <2>6. MainLines(new) = [m \in 1 .. n + 1 |-> Line(new[m].start, new[m].count, 0)]
    BY <2>5 DEF MainLines
  <2>7. ASSUME NEW m \in 1 .. n + 1
        PROVE  Line(new[m].start, new[m].count, 0) = IF m = n + 1 THEN Line(i, 1, 0) ELSE rs[m]
    <3>1. CASE m = n + 1
      <4>1. new[m].start = i /\ new[m].count = 1
        BY <2>5, <3>1 DEF Line
      <4> QED BY <3>1, <4>1
    <3>2. CASE m # n + 1
      <4>1. m \in 1 .. n
        BY <1>4, <1>6, <3>2
      <4> QED BY <1>3, <1>6, <2>5, <3>2, <4>1
    <3> QED BY <3>1, <3>2
  <2>8. MainLines(new) = [m \in 1 .. n + 1 |-> IF m = n + 1 THEN Line(i, 1, 0) ELSE rs[m]]
    BY <2>6, <2>7
  <2>9. AddedRow(v, rs, i) = [m \in 1 .. n + 1 |-> IF m = n + 1 THEN Line(i, 1, 0) ELSE rs[m]]
    <3>1. PICK r, z : r = Line(i, 1, 0) /\ z = Append(rs, r)
      OBVIOUS
    <3>2. i \in Nat \ {0} /\ 1 \in Nat \ {0} /\ 0 \in Nat
      BY ChildFacts
    <3>3. r \in LineSet
      BY <3>1, <3>2, LineIn
    <3>4. z \in Seq(LineSet) /\ Len(z) = n + 1 /\ \A m \in 1 .. n + 1 : z[m] = IF m = n + 1 THEN r ELSE rs[m]
      BY <1>3, <1>4, <1>6, <3>1, <3>3
    <3>5. z = [m \in 1 .. n + 1 |-> z[m]]
      BY <3>4
    <3>6. [m \in 1 .. n + 1 |-> z[m]] = [m \in 1 .. n + 1 |-> IF m = n + 1 THEN r ELSE rs[m]]
      BY <3>4
    <3> QED BY <2>3, <3>1, <3>5, <3>6
  <2> QED BY <1>1, <2>4, <2>8, <2>9
<1> QED BY <1>9, <1>10

LEMMA ViewLength ==
  ASSUME NEW c, IsContainer(c)
  PROVE  Len(MainView(c).children) = Len(c.children)
<1>1. PICK f : f = [i \in 1 .. Len(c.children) |-> MainChild(c.children[i])]
  OBVIOUS
<1>2. MainView(c).children = f /\ Len(c.children) \in Nat
  BY <1>1, ChildFacts DEF MainView
<1>3. f = [i \in 1 .. Len(c.children) |-> f[i]]
  BY <1>1
<1> QED BY <1>2, <1>3, LengthIs

LEMMA AddedIs ==
  ASSUME NEW many, Chained(lines, many), AddToLines
  PROVE  lines' = Added(input, lines, many + 1)
<1>1. NextChild = many + 1
  BY NextChildIs
<1>2. lines # <<>> => Bases(LastLine) = Need(input, LastLine)
  <2> SUFFICES ASSUME lines # <<>> PROVE Bases(LastLine) = Need(input, LastLine)
    OBVIOUS
  <2>1. lines \in Seq(LineSet) /\ Len(lines) \in 1 .. Len(lines)
    BY LineFacts DEF Chained
  <2>2. LastLine.start \in Nat /\ LastLine.count \in Nat
    BY <2>1, LineFacts DEF LastLine
  <2> QED BY <2>2, BasesAre
<1> QED BY <1>1, <1>2 DEF AddToLines, Added, Fits, LastLine, Child

LEMMA AddIsOnward ==
  ASSUME RowInv, AddToLines
  PROVE  Situation' = Onward(Situation)
<1>0. /\ LinesFormed /\ RowTypes /\ LinesFormed' /\ stage = "forming" /\ stage' = "forming"
      /\ input.wrap # "nowrap" /\ line = 0 /\ UNCHANGED <<input, line, sizes, active, round>>
  BY ChildIsAdded DEF RowInv, RowTypes, AddToLines
<1>1. PICK many \in 0 .. Len(input.children) : Chained(lines, many)
  BY <1>0 DEF LinesFormed
<1>2. /\ NextChild = many + 1 /\ many \in Nat /\ NextChild <= Len(input.children)
      /\ Len(input.children) \in Nat /\ IsContainer(input)
  BY <1>0, <1>1, NextChildIs, ChildFacts DEF AddToLines, LinesFormed
<1>3. many + 1 \in 1 .. Len(input.children)
  BY <1>2
<1>4. lines' = Added(input, lines, many + 1)
  BY <1>1, AddedIs
<1>5. MainLines(lines') = AddedRow(MainView(input), MainLines(lines), many + 1)
  BY <1>1, <1>2, <1>3, <1>4, AddedRows
<1>6. PICK x : x = Situation
  OBVIOUS
<1>7. /\ x.input = MainView(input) /\ x.lines = MainLines(lines) /\ x.line = 0 /\ x.sizes = sizes
      /\ x.active = active /\ x.round = round /\ x.stage = "forming" /\ lines \in Seq(LineSet)
      /\ DOMAIN input.children = 1 .. Len(input.children)
  <2>1. ~(0 > Len(lines))
    BY <1>0, SituationFacts
  <2> QED BY <1>0, <1>6, <2>1, SituationFacts
<1>8. Formed(x.lines) = many
  BY <1>1, <1>7, MainLinesFacts DEF Chained
<1>9. x.input.wrap # "nowrap" /\ Len(x.input.children) = Len(input.children)
  BY <1>0, <1>2, <1>7, ViewFacts, ViewLength
<1>10. AfterForming(x) = Sit(x.input, AddedRow(x.input, x.lines, many + 1), 0, sizes, active, round, "forming")
  BY <1>2, <1>7, <1>8, <1>9 DEF AfterForming
<1>11. Situation' = Sit(MainView(input), MainLines(lines'), 0, sizes, active, round, "forming")
  BY <1>0 DEF Situation
<1>12. Onward(x) = AfterForming(x)
  BY <1>7 DEF Onward
<1> QED BY <1>5, <1>6, <1>7, <1>10, <1>11, <1>12

LEMMA FormIsOnward ==
  ASSUME RowInv, FormLines
  PROVE  Situation' = Onward(Situation)
<1>0. /\ LinesFormed /\ RowTypes /\ stage = "forming" /\ stage' = "sizing" /\ line = 0 /\ line' = 1
      /\ UNCHANGED <<input, sizes, active, round>> /\ IsContainer(input)
  BY DEF RowInv, RowTypes, FormLines, LinesFormed
<1>1. PICK x : x = Situation
  OBVIOUS
<1>2. /\ x.input = MainView(input) /\ x.lines = MainLines(lines) /\ x.line = 0 /\ x.sizes = sizes
      /\ x.active = active /\ x.round = round /\ x.stage = "forming" /\ lines \in Seq(LineSet)
  <2>1. ~(0 > Len(lines))
    BY <1>0, SituationFacts
  <2> QED BY <1>0, <1>1, <2>1, SituationFacts
<1>3. x.input.wrap = input.wrap /\ Len(x.input.children) = Len(input.children)
  BY <1>0, <1>2, ViewFacts, ViewLength
<1>4. Situation' = Sit(MainView(input), MainLines(lines'), 1, sizes, active, round, "sizing")
  BY <1>0 DEF Situation
<1>5. Onward(x) = AfterForming(x)
  BY <1>2 DEF Onward
<1>6. CASE input.wrap = "nowrap"
  <2>1. PICK l : l = Line(1, Len(input.children), input.cross)
    OBVIOUS
  <2>2. lines' = <<l>>
    BY <1>6, <2>1 DEF FormLines
  <2>3. MainLines(lines') = <<Line(1, Len(input.children), 0)>>
    <3>1. Len(lines') = 1 /\ lines'[1] = l
      BY <2>2
    <3>2. l.start = 1 /\ l.count = Len(input.children)
      BY <2>1, LineParts
    <3>3. MainLines(lines') = [n \in 1 .. 1 |-> Line(lines'[n].start, lines'[n].count, 0)]
      BY <3>1 DEF MainLines
    <3>4. PICK r : r = Line(1, Len(input.children), 0)
      OBVIOUS
    <3>5. \A n \in 1 .. 1 : Line(lines'[n].start, lines'[n].count, 0) = r
      BY <3>1, <3>2, <3>4
    <3>6. MainLines(lines') = [n \in 1 .. 1 |-> r]
      BY <3>3, <3>5
    <3>7. [n \in 1 .. 1 |-> r] = <<r>>
      OBVIOUS
    <3> QED BY <3>4, <3>6, <3>7
  <2>4. AfterForming(x) = Sit(x.input, <<Line(1, Len(input.children), 0)>>, 1, x.sizes, x.active, x.round, "sizing")
    BY <1>3, <1>6, Zenon DEF AfterForming
  <2> QED BY <1>1, <1>2, <1>4, <1>5, <2>3, <2>4
<1>7. CASE input.wrap # "nowrap"
  <2>1. PICK many \in 0 .. Len(input.children) : Chained(lines, many)
    BY <1>0 DEF LinesFormed
  <2>2. lines' = lines /\ NextChild > Len(input.children) /\ NextChild = many + 1 /\ many \in Nat
    BY <1>7, <2>1, NextChildIs DEF FormLines
  <2>3. Formed(x.lines) = many
    BY <1>2, <2>1, MainLinesFacts DEF Chained
  <2>4. ~(Formed(x.lines) + 1 <= Len(x.input.children))
    <3>1. Len(input.children) \in Nat
      BY <1>0, ChildFacts
    <3> QED BY <1>3, <2>2, <2>3, <3>1
  <2>5. AfterForming(x) = Sit(x.input, x.lines, 1, x.sizes, x.active, x.round, "sizing")
    BY <1>3, <1>7, <2>4, Zenon DEF AfterForming
  <2> QED BY <1>1, <1>2, <1>4, <1>5, <2>2, <2>5
<1> QED BY <1>6, <1>7

\* The line that is sized, in the situation and in the planner.
LEMMA LineInSituation ==
  ASSUME RowInv, stage \in {"sizing", "flexing"}, line \in 1 .. Len(lines), NEW l, l = lines[line],
         NEW x, x = Situation
  PROVE  /\ x.input = MainView(input) /\ x.line = line /\ x.sizes = sizes /\ x.lines = MainLines(lines)
         /\ x.active = active /\ x.round = round /\ x.stage = stage
         /\ x.lines[x.line].start = l.start /\ x.lines[x.line].count = l.count
         /\ OnLine(input, l, sizes) /\ Room(l) = RoomOf(input, l) /\ InLine(l) = Span(l)
         /\ \A f : Total(f, InLine(l)) = SumOf(f, Span(l))
         /\ DOMAIN sizes = 1 .. Len(input.children)
         /\ DOMAIN input.children = 1 .. Len(input.children)
         /\ Span(l) \subseteq 1 .. Len(input.children)
<1>1. LinesFormed /\ RowTypes /\ stage # "forming"
  BY DEF RowInv
<1>2. /\ lines \in Seq(LineSet) /\ Len(lines) \in Nat /\ ~(line > Len(lines))
      /\ DOMAIN input.children = 1 .. Len(input.children)
  BY <1>1, SituationFacts
<1>3. /\ x.input = MainView(input) /\ x.line = line /\ x.sizes = sizes /\ x.lines = MainLines(lines)
      /\ x.active = active /\ x.round = round /\ x.stage = stage
  BY <1>1, <1>2, SituationFacts
<1>4. x.lines[x.line].start = l.start /\ x.lines[x.line].count = l.count
  BY <1>2, <1>3, MainLinesFacts
<1>5. /\ OnLine(input, l, sizes) /\ Room(l) = RoomOf(input, l) /\ InLine(l) = Span(l)
      /\ \A f : Total(f, InLine(l)) = SumOf(f, Span(l))
      /\ DOMAIN sizes = 1 .. Len(input.children)
  BY <1>1, LineOn
<1>6. Span(l) \subseteq 1 .. Len(input.children)
  BY <1>5 DEF OnLine
<1> QED BY <1>2, <1>3, <1>4, <1>5, <1>6

\* A line by its children: its tracks, the sizes it starts from.
LEMMA LineSame ==
  ASSUME NEW c, NEW v, v = MainView(c), NEW l, Span(l) \subseteq DOMAIN c.children, NEW r,
         r.start = l.start, r.count = l.count
  PROVE  /\ RoomOf(v, r) = RoomOf(c, l)
         /\ \A s : LeftOf(v, r, s) = LeftOf(c, l, s)
         /\ \A kind : KindOn(v, r, kind) = {i \in Span(l) : c.children[i].kind = kind}
         /\ \A s : StartSizes(v, r, s)
                     = [i \in DOMAIN s |-> IF i \in Span(l) THEN InitialSize(c.children[i]) ELSE s[i]]
<1>1. RoomOf(v, r) = RoomOf(c, l) /\ Span(r) = Span(l)
  BY RowFacts, ViewFacts
<1>2. ASSUME NEW s PROVE LeftOf(v, r, s) = LeftOf(c, l, s)
  BY RowFacts, ViewFacts
<1>3. \A i \in Span(l) : /\ v.children[i].kind = c.children[i].kind
                         /\ InitialSize(v.children[i]) = InitialSize(c.children[i])
  BY ViewFacts, MainChildFacts
<1>4. ASSUME NEW kind PROVE KindOn(v, r, kind) = {i \in Span(l) : c.children[i].kind = kind}
  BY <1>1, <1>3 DEF KindOn
<1>5. ASSUME NEW s
      PROVE  StartSizes(v, r, s)
               = [i \in DOMAIN s |-> IF i \in Span(l) THEN InitialSize(c.children[i]) ELSE s[i]]
  <2>1. StartSizes(v, r, s) = [i \in DOMAIN s |-> IF i \in Span(l) THEN InitialSize(v.children[i]) ELSE s[i]]
    BY <1>1, Zenon DEF StartSizes
  <2> QED BY <1>3, <2>1
<1> QED BY <1>1, <1>2, <1>4, <1>5

LEMMA SizeIsOnward ==
  ASSUME RowInv, SizeLine
  PROVE  Situation' = Onward(Situation)
<1>0. /\ stage = "sizing" /\ line \in 1 .. Len(lines) /\ UNCHANGED <<input, lines>>
  BY SizeLineIsStep DEF SizingStep, SizeLine
<1>1. PICK l, x, v, r : l = lines[line] /\ x = Situation /\ v = MainView(input) /\ r = x.lines[x.line]
  OBVIOUS
<1>2. /\ x.input = v /\ x.line = line /\ x.sizes = sizes /\ x.lines = MainLines(lines)
      /\ x.active = active /\ x.round = round /\ x.stage = "sizing"
      /\ r.start = l.start /\ r.count = l.count
      /\ Room(l) = RoomOf(input, l) /\ InLine(l) = Span(l)
      /\ \A f : Total(f, InLine(l)) = SumOf(f, Span(l))
      /\ Span(l) \subseteq DOMAIN input.children
  BY <1>0, <1>1, LineInSituation
<1>3. PICK first : first = [i \in DOMAIN sizes |-> IF i \in InLine(l) THEN InitialSize(Child(i)) ELSE sizes[i]]
  OBVIOUS
<1>4. PICK left : left = Room(l) - Total(first, InLine(l))
  OBVIOUS
<1>5. PICK flexes, fractions, autos, fixed :
        flexes = OfKind(l, "flex") /\ fractions = OfKind(l, "fraction") /\ autos = OfKind(l, "auto")
        /\ fixed = OfKind(l, "fixed")
  OBVIOUS
<1>6. PICK tooSmall : tooSmall = \E i \in fixed : Child(i).basis < Child(i).min
  OBVIOUS
<1>7. IF Room(l) < 0 \/ tooSmall \/ (left < 0 /\ flexes = {})
      THEN stage' = "overflow" /\ UNCHANGED <<sizes, active, round, line>>
      ELSE IF flexes # {}
      THEN /\ sizes' = first /\ active' = flexes \cup fractions /\ round' = 0
           /\ stage' = "flexing" /\ UNCHANGED line
      ELSE /\ sizes' = CASE left > 0 /\ fractions # {} ->
                              WithShares(first, [i \in fractions |-> Child(i).grow], left)
                         [] left > 0 /\ fractions = {} /\ autos # {} ->
                              WithShares(first, [i \in autos |-> 1], left)
                         [] OTHER -> first
           /\ line' = line + 1 /\ UNCHANGED <<active, round, stage>>
  BY <1>1, <1>3, <1>4, <1>5, <1>6 DEF SizeLine
<1>8. /\ RoomOf(v, r) = Room(l) /\ LeftOf(v, r, first) = left
      /\ KindOn(v, r, "flex") = flexes /\ KindOn(v, r, "fraction") = fractions
      /\ KindOn(v, r, "auto") = autos /\ KindOn(v, r, "fixed") = fixed
      /\ StartSizes(v, r, sizes) = first
  <2>1. RoomOf(v, r) = Room(l) /\ LeftOf(v, r, first) = left
    BY <1>1, <1>2, <1>4, LineSame DEF LeftOf
  <2>2. \A kind : OfKind(l, kind) = {i \in Span(l) : input.children[i].kind = kind}
    BY <1>2, Zenon DEF OfKind, Child
  <2>3. \A kind : KindOn(v, r, kind) = OfKind(l, kind)
    <3>1. \A kind : KindOn(v, r, kind) = {i \in Span(l) : input.children[i].kind = kind}
      BY <1>1, <1>2, LineSame
    <3> QED BY <2>2, <3>1, Zenon
  <2>4. StartSizes(v, r, sizes)
          = [i \in DOMAIN sizes |-> IF i \in Span(l) THEN InitialSize(input.children[i]) ELSE sizes[i]]
    BY <1>1, <1>2, LineSame
  <2>5. StartSizes(v, r, sizes) = first
    BY <1>2, <1>3, <2>4, Zenon DEF Child
  <2> QED BY <1>5, <2>1, <2>3, <2>5
<1>9. (\E i \in KindOn(v, r, "fixed") : v.children[i].basis < v.children[i].min) <=> tooSmall
  <2>1. fixed \subseteq DOMAIN input.children
    BY <1>2, <1>5 DEF OfKind
  <2>2. \A i \in fixed : v.children[i].basis = Child(i).basis /\ v.children[i].min = Child(i).min
    BY <1>1, <2>1, ViewFacts, MainChildFacts DEF Child
  <2>3. (\E i \in fixed : v.children[i].basis < v.children[i].min)
          <=> (\E i \in fixed : Child(i).basis < Child(i).min)
    BY <2>2
  <2> QED BY <1>6, <1>8, <2>3, Zenon
<1>10. Hopeless(v, r, first) <=> (Room(l) < 0 \/ tooSmall \/ (left < 0 /\ flexes = {}))
  BY <1>8, <1>9, Zenon DEF Hopeless
<1>11. Onward(x) = AfterStart(x)
  BY <1>2 DEF Onward
<1>12. AfterStart(x) =
         IF Hopeless(v, r, first) THEN Sit(v, x.lines, line, sizes, active, round, "overflow")
         ELSE IF flexes # {} THEN Sit(v, x.lines, line, first, flexes \cup fractions, 0, "flexing")
         ELSE Sit(v, x.lines, line + 1, StartGrown(v, r, first), active, round, "sizing")
  BY <1>1, <1>2, <1>8, Zenon DEF AfterStart
<1>13. Situation' = Sit(v, x.lines, line', sizes', active', round', stage')
  BY <1>0, <1>1, <1>2 DEF Situation
<1>14. CASE Hopeless(v, r, first)
  <2>1. stage' = "overflow" /\ UNCHANGED <<sizes, active, round, line>>
    BY <1>7, <1>10, <1>14, Zenon
  <2> QED BY <1>1, <1>11, <1>12, <1>13, <1>14, <2>1
<1>15. CASE ~Hopeless(v, r, first) /\ flexes # {}
  <2>1. /\ sizes' = first /\ active' = flexes \cup fractions /\ round' = 0
        /\ stage' = "flexing" /\ line' = line
    BY <1>7, <1>10, <1>15, Zenon
  <2> QED BY <1>1, <1>11, <1>12, <1>13, <1>15, <2>1
<1>16. CASE ~Hopeless(v, r, first) /\ flexes = {}
  <2>1. /\ sizes' = CASE left > 0 /\ fractions # {} ->
                           WithShares(first, [i \in fractions |-> Child(i).grow], left)
                      [] left > 0 /\ fractions = {} /\ autos # {} ->
                           WithShares(first, [i \in autos |-> 1], left)
                      [] OTHER -> first
        /\ line' = line + 1 /\ UNCHANGED <<active, round, stage>>
    BY <1>7, <1>10, <1>16, Zenon
  <2>2. fractions \subseteq DOMAIN input.children /\ autos \subseteq DOMAIN input.children
    BY <1>2, <1>5 DEF OfKind
  <2>3. PICK w : w = [i \in fractions |-> Child(i).grow]
    OBVIOUS
  <2>4. [i \in fractions |-> v.children[i].grow] = w
    BY <1>1, <2>2, <2>3, ViewFacts, MainChildFacts DEF Child
  <2>5. PICK one : one = [i \in autos |-> 1]
    OBVIOUS
  <2>6. GrownBy(v, first, w, left) = WithShares(first, w, left)
    BY <1>1, <2>2, <2>3, GrownSame
  <2>7. GrownBy(v, first, one, left) = WithShares(first, one, left)
    BY <1>1, <2>2, <2>5, GrownSame
  <2>8. StartGrown(v, r, first) = CASE left > 0 /\ fractions # {} -> GrownBy(v, first, w, left)
                                    [] left > 0 /\ fractions = {} /\ autos # {} -> GrownBy(v, first, one, left)
                                    [] OTHER -> first
    BY <1>8, <2>4, <2>5, Zenon DEF StartGrown
  <2>9. StartGrown(v, r, first) = sizes'
    BY <2>1, <2>3, <2>5, <2>6, <2>7, <2>8
  <2> QED BY <1>0, <1>1, <1>11, <1>12, <1>13, <1>16, <2>1, <2>9
<1> QED BY <1>14, <1>15, <1>16

(* One round of sharing, in the planner and in the situation.              *)
LEMMA SharingIsOnward ==
  ASSUME RowInv, stage = "flexing", line \in 1 .. Len(lines), ShareOnce, UNCHANGED <<input, lines>>,
         NEW x, x = Situation
  PROVE  Situation' = AfterShares(x, Free, TakingPart(x.input, x.active, Free > 0))
<1>1. PICK l, v, r : l = lines[line] /\ v = MainView(input) /\ r = x.lines[x.line]
  OBVIOUS
<1>2. /\ x.input = v /\ x.line = line /\ x.sizes = sizes /\ x.lines = MainLines(lines)
      /\ x.active = active /\ x.round = round /\ Span(l) \subseteq DOMAIN input.children
  BY <1>1, LineInSituation
<1>3. active \subseteq DOMAIN input.children
  <2>1. FlexLine(input, l, sizes, active)
    BY <1>1 DEF RowInv, SizedLines
  <2> QED BY <1>2, <2>1, FlexParts
<1> DEFINE P == {i \in active : Weight(Child(i), Free > 0) > 0}
           amount == IF Free > 0 THEN Free ELSE -Free
           weights == [i \in P |-> Weight(Child(i), Free > 0)]
           shares == Shares(amount, weights)
           asked(i) == IF Free > 0 THEN sizes[i] + shares[i] ELSE sizes[i] - shares[i]
           wanted == [i \in P |-> asked(i)]
           next == [i \in DOMAIN sizes |-> IF i \in P THEN Bounded(Child(i), asked(i)) ELSE sizes[i]]
           U == {i \in P : next[i] = asked(i)}
<1>11. IF P = {}
       THEN IF Free < 0 THEN stage' = "overflow" /\ UNCHANGED <<line, sizes, active, round>>
                        ELSE LineIsSized
       ELSE /\ sizes' = next
            /\ IF U = P
               THEN line' = line + 1 /\ active' = {} /\ round' = 0 /\ stage' = "sizing"
               ELSE active' = U /\ round' = round + 1 /\ UNCHANGED <<line, stage>>
  BY Zenon DEF ShareOnce
<1>10. U = {i \in P : next[i] = IF Free > 0 THEN sizes[i] + shares[i] ELSE sizes[i] - shares[i]}
  OBVIOUS
<1> HIDE DEF U
<1>9. next = [i \in DOMAIN sizes |->
                IF i \in P
                THEN Bounded(Child(i), IF Free > 0 THEN sizes[i] + shares[i] ELSE sizes[i] - shares[i])
                ELSE sizes[i]]
  OBVIOUS
<1> HIDE DEF next
<1>8. wanted = [i \in P |-> IF Free > 0 THEN sizes[i] + shares[i] ELSE sizes[i] - shares[i]]
  OBVIOUS
<1> HIDE DEF wanted, asked
<1>7. shares = Shares(amount, weights)
  OBVIOUS
<1> HIDE DEF shares
<1>6. weights = [i \in P |-> Weight(Child(i), Free > 0)]
  OBVIOUS
<1> HIDE DEF weights
<1>5. amount = IF Free > 0 THEN Free ELSE -Free
  OBVIOUS
<1> HIDE DEF amount
<1>4. P = {i \in active : Weight(Child(i), Free > 0) > 0}
  OBVIOUS
<1> HIDE DEF P
<1>12. P \subseteq active /\ P \subseteq DOMAIN input.children
  BY <1>3, <1>4
<1>13. \A i \in active : Weight(v.children[i], Free > 0) = Weight(Child(i), Free > 0)
  BY <1>1, <1>3, ViewFacts, MainChildFacts DEF Child
<1>14. TakingPart(v, active, Free > 0) = P
  BY <1>4, <1>13 DEF TakingPart
<1>15. [i \in P |-> Weight(v.children[i], Free > 0)] = weights
  BY <1>6, <1>12, <1>13
<1>16. SharesAmong(v, amount, weights) = shares
  BY <1>1, <1>6, <1>7, <1>12, SharesSame
<1>17. WantedBy(v, sizes, P, Free) = wanted
  BY <1>5, <1>8, <1>15, <1>16, Zenon DEF WantedBy
<1>18. \A i \in P : \A s : Bounded(v.children[i], s) = Bounded(Child(i), s)
  BY <1>1, <1>12, ViewFacts, MainChildFacts DEF Child
<1>19. \A i \in P : wanted[i] = IF Free > 0 THEN sizes[i] + shares[i] ELSE sizes[i] - shares[i]
  BY <1>8
<1>20. NextSizes(v, sizes, P, wanted) = next
  <2>1. NextSizes(v, sizes, P, wanted)
          = [i \in DOMAIN sizes |-> IF i \in P THEN Bounded(v.children[i], wanted[i]) ELSE sizes[i]]
    BY Zenon DEF NextSizes
  <2>2. \A i \in P : Bounded(v.children[i], wanted[i])
                       = Bounded(Child(i), IF Free > 0 THEN sizes[i] + shares[i] ELSE sizes[i] - shares[i])
    BY <1>18, <1>19, Zenon
  <2> QED BY <1>9, <2>1, <2>2
<1>21. {i \in P : next[i] = wanted[i]} = U
  BY <1>10, <1>19
<1>22. AfterShares(x, Free, P) =
         IF P = {}
         THEN IF Free < 0 THEN Sit(v, x.lines, line, sizes, active, round, "overflow")
              ELSE AfterLine(x, sizes)
         ELSE IF U = P THEN AfterLine(x, next)
         ELSE Sit(v, x.lines, line, next, U, round + 1, "flexing")
  BY <1>2, <1>17, <1>20, <1>21, Zenon DEF AfterShares
<1>23. \A s : AfterLine(x, s) = Sit(v, x.lines, line + 1, s, {}, 0, "sizing")
  BY <1>2, Zenon DEF AfterLine
<1>24. Situation' = Sit(v, x.lines, line', sizes', active', round', stage')
  BY <1>1, <1>2 DEF Situation
<1>25. CASE P = {} /\ Free < 0
  <2>1. stage' = "overflow" /\ UNCHANGED <<line, sizes, active, round>>
    BY <1>11, <1>25, Zenon
  <2> QED BY <1>2, <1>14, <1>22, <1>24, <1>25, <2>1
<1>26. CASE P = {} /\ ~(Free < 0)
  <2>1. line' = line + 1 /\ active' = {} /\ round' = 0 /\ stage' = "sizing" /\ sizes' = sizes
    BY <1>11, <1>26, Zenon DEF LineIsSized
  <2> QED BY <1>2, <1>14, <1>22, <1>23, <1>24, <1>26, <2>1
<1>27. CASE P # {} /\ U = P
  <2>1. line' = line + 1 /\ active' = {} /\ round' = 0 /\ stage' = "sizing" /\ sizes' = next
    BY <1>11, <1>27, Zenon
  <2> QED BY <1>2, <1>14, <1>22, <1>23, <1>24, <1>27, <2>1
<1>28. CASE P # {} /\ U # P
  <2>1. active' = U /\ round' = round + 1 /\ line' = line /\ stage' = "flexing" /\ sizes' = next
    BY <1>11, <1>28, Zenon
  <2> QED BY <1>2, <1>14, <1>22, <1>24, <1>28, <2>1
<1> QED BY <1>25, <1>26, <1>27, <1>28

LEMMA RoundIsOnward ==
  ASSUME RowInv, FreezeRound
  PROVE  Situation' = Onward(Situation)
<1>0. /\ stage = "flexing" /\ line \in 1 .. Len(lines) /\ UNCHANGED <<input, lines>>
  BY FreezeRoundIsStep DEF SizingStep, FreezeRound
<1>1. PICK l, x, v, r : l = lines[line] /\ x = Situation /\ v = MainView(input) /\ r = x.lines[x.line]
  OBVIOUS
<1>2. /\ x.input = v /\ x.line = line /\ x.sizes = sizes /\ x.lines = MainLines(lines)
      /\ x.active = active /\ x.round = round /\ x.stage = "flexing"
      /\ r.start = l.start /\ r.count = l.count
      /\ Room(l) = RoomOf(input, l) /\ InLine(l) = Span(l)
      /\ \A f : Total(f, InLine(l)) = SumOf(f, Span(l))
      /\ Span(l) \subseteq DOMAIN input.children /\ OnLine(input, l, sizes)
  BY <1>0, <1>1, LineInSituation
<1>3. PICK free, many : free = Free /\ many = Cardinality(active)
  OBVIOUS
<1>4. LeftOf(v, r, sizes) = free
  <2>1. LeftOf(v, r, sizes) = LeftOf(input, l, sizes)
    BY <1>1, <1>2, LineSame
  <2> QED BY <1>1, <1>2, <1>3, <2>1 DEF LeftOf, Free
<1>5. many \in Nat /\ round \in Nat
  <2>1. FlexLine(input, l, sizes, active) /\ round \in Nat
    BY <1>0, <1>1 DEF RowInv, SizedLines, RowTypes
  <2>2. IsFiniteSet(Span(l)) /\ active \subseteq Span(l)
    BY <1>2, <2>1, OnLineFacts, FlexParts
  <2> QED BY <1>3, <2>1, <2>2, FS_Subset, FS_CardinalityType
<1>6. TRUE /\ CASE round > many -> stage' = "refused" /\ UNCHANGED <<line, sizes, active, round>>
                [] round <= many /\ free = 0 -> LineIsSized
                [] OTHER -> ShareOnce
  BY <1>3, Zenon DEF FreezeRound
<1>7. Onward(x) = AfterRound(x)
  BY <1>2 DEF Onward
<1>8. AfterRound(x) = IF round > many THEN Sit(v, x.lines, line, sizes, active, round, "refused")
                      ELSE IF free = 0 THEN AfterLine(x, sizes)
                      ELSE AfterShares(x, free, TakingPart(x.input, x.active, free > 0))
  BY <1>1, <1>2, <1>3, <1>4, Zenon DEF AfterRound
<1>9. Situation' = Sit(v, x.lines, line', sizes', active', round', stage')
  BY <1>0, <1>1, <1>2 DEF Situation
<1>10. CASE round > many
  <2>1. stage' = "refused" /\ UNCHANGED <<line, sizes, active, round>>
    BY <1>5, <1>6, <1>10
  <2> QED BY <1>1, <1>7, <1>8, <1>9, <1>10, <2>1
<1>11. CASE ~(round > many) /\ free = 0
  <2>1. LineIsSized
    BY <1>5, <1>6, <1>11
  <2>2. line' = line + 1 /\ active' = {} /\ round' = 0 /\ stage' = "sizing" /\ sizes' = sizes
    BY <2>1 DEF LineIsSized
  <2>3. AfterLine(x, sizes) = Sit(v, x.lines, line + 1, sizes, {}, 0, "sizing")
    BY <1>2, Zenon DEF AfterLine
  <2> QED BY <1>1, <1>7, <1>8, <1>9, <1>11, <2>2, <2>3
<1>12. CASE ~(round > many) /\ free # 0
  <2>1. ShareOnce
    BY <1>5, <1>6, <1>12
  <2>2. Situation' = AfterShares(x, free, TakingPart(x.input, x.active, free > 0))
    BY <1>0, <1>1, <1>3, <2>1, SharingIsOnward
  <2> QED BY <1>1, <1>7, <1>8, <1>12, <2>2
<1> QED BY <1>10, <1>11, <1>12

\* Once all is sized, the situation stays.
LEMMA PlaceIsOnward ==
  ASSUME RowInv, Place
  PROVE  Situation' = Onward(Situation)
<1>1. /\ stage = "sizing" /\ line > Len(lines) /\ UNCHANGED <<input, lines, line, sizes, active, round>>
      /\ LinesFormed
  BY DEF Place, RowInv
<1>2. PICK x : x = Situation
  OBVIOUS
<1>3. x.stage = "sized"
  BY <1>1, <1>2, SituationFacts
<1>4. Onward(x) = x
  BY <1>3 DEF Onward
<1>5. line > Len(MainLines(lines))
  BY <1>1, SituationFacts
<1>6. Situation' = Situation
  BY <1>1, <1>5 DEF Situation, Sit
<1> QED BY <1>2, <1>4, <1>6

LEMMA StepIsOnward ==
  ASSUME RowInv, Step
  PROVE  Situation' = Onward(Situation) /\ input' = input
<1>1. input' = input
  <2>1. CASE AddToLines
    BY <2>1 DEF AddToLines
  <2>2. CASE FormLines
    BY <2>2 DEF FormLines
  <2>3. CASE SizeLine
    BY <2>3 DEF SizeLine
  <2>4. CASE FreezeRound
    BY <2>4 DEF FreezeRound
  <2>5. CASE Place
    BY <2>5 DEF Place
  <2> QED BY <2>1, <2>2, <2>3, <2>4, <2>5 DEF Step
<1> QED BY <1>1, AddIsOnward, FormIsOnward, SizeIsOnward, RoundIsOnward, PlaceIsOnward DEF Step

\* What a planning begins from.
Fresh(v) == Sit(v, <<>>, 0, [i \in DOMAIN v.children |-> 0], {}, 0, "forming")

Determined == Leads(Fresh(MainView(input)), Situation)

LEMMA DeterminedAtFirst ==
  ASSUME NEW c, Begun(c)
  PROVE  Determined
<1>1. /\ input = c /\ lines = <<>> /\ line = 0 /\ active = {} /\ round = 0 /\ stage = "forming"
      /\ sizes = [i \in DOMAIN c.children |-> 0]
  BY DEF Begun
<1>2. MainLines(<<>>) = <<>>
  BY DEF MainLines
<1>3. DOMAIN MainView(c).children = DOMAIN c.children
  BY ViewFacts
<1>4. Situation = Fresh(MainView(input))
  BY <1>1, <1>2, <1>3, Zenon DEF Situation, Fresh
<1> QED BY <1>4, LeadsHere, Zenon DEF Determined

LEMMA DeterminedAnew ==
  ASSUME NEW c, Begin(c)
  PROVE  Determined'
<1>1. /\ input' = c /\ lines' = <<>> /\ line' = 0 /\ active' = {} /\ round' = 0 /\ stage' = "forming"
      /\ sizes' = [i \in DOMAIN c.children |-> 0]
  BY DEF Begin
<1>2. MainLines(<<>>) = <<>>
  BY DEF MainLines
<1>3. DOMAIN MainView(c).children = DOMAIN c.children
  BY ViewFacts
<1>4. Situation' = Fresh(MainView(input'))
  BY <1>1, <1>2, <1>3, Zenon DEF Situation, Fresh
<1> QED BY <1>4, LeadsHere, Zenon DEF Determined

LEMMA DeterminedStays ==
  ASSUME RowInv, Determined, Step
  PROVE  Determined'
<1>1. Situation' = Onward(Situation) /\ input' = input
  BY StepIsOnward
<1>2. PICK x, y : x = Fresh(MainView(input)) /\ y = Situation
  OBVIOUS
<1>3. Leads(x, Onward(y))
  BY <1>2, LeadsOn DEF Determined
<1> QED BY <1>1, <1>2, <1>3 DEF Determined

-----------------------------------------------------------------------------
(* Cross sizes.  A line is as high as one of its children wants to be, and *)
(* a child that is placed has been given the cross size of its line.       *)
Exactly(c, ls) ==
  \A n \in 1 .. Len(ls) : \E i \in Span(ls[n]) :
    ls[n].cross = CrossExtent(c.children[i], c.cross, FALSE)

CrossNeeded(c, ls) ==
  Total([n \in DOMAIN ls |-> ls[n].cross], DOMAIN ls) + c.crossGap * (Len(ls) - 1)

\* What a child gets that is in a line of a cross size e.
GivenCross(c, child, extent, e) ==
  /\ e \in Nat /\ extent = CrossExtent(child, e, child.align = "stretch")
  /\ c.wrap # "nowrap" => CrossExtent(child, e, FALSE) <= e
  /\ c.wrap = "nowrap" => e = c.cross

Boxed ==
  /\ input.wrap # "nowrap" => Exactly(input, lines)
  /\ stage = "planned" =>
       /\ line > Len(lines) /\ DOMAIN boxes = 1 .. Len(input.children)
       /\ \A i \in 1 .. Len(input.children) :
            /\ boxes[i].size = sizes[i]
            /\ \E e : GivenCross(input, input.children[i], boxes[i].extent, e)
  /\ stage = "overflow" /\ line > Len(lines) /\ input.wrap # "nowrap" =>
       CrossNeeded(input, lines) > input.cross

LEMMA CrossExtentIs ==
  ASSUME NEW child, NEW a, NEW b
  PROVE  CrossExtent(child, a, FALSE) = CrossExtent(child, b, FALSE)
BY DEF CrossExtent

LEMMA AddedIsExact ==
  ASSUME NEW c, IsContainer(c), NEW ls, NEW many, Chained(ls, many), many + 1 \in 1 .. Len(c.children),
         Exactly(c, ls), NEW i, i = many + 1
  PROVE  Exactly(c, Added(c, ls, i))
<1>1. ls \in Seq(LineSet) /\ Formed(ls) = many
  BY DEF Chained
<1>2. /\ Len(ls) \in Nat /\ (ls = <<>> <=> Len(ls) = 0) /\ DOMAIN ls = 1 .. Len(ls)
      /\ \A n \in 1 .. Len(ls) : /\ ls[n].start \in Nat \ {0} /\ ls[n].count \in Nat \ {0}
                                 /\ ls[n].cross \in Nat
  BY <1>1, LineFacts
<1>3. PICK e : e = CrossExtent(c.children[i], c.cross, FALSE)
  OBVIOUS
<1>4. e \in Nat /\ i \in Nat \ {0}
  <2>1. i \in 1 .. Len(c.children) /\ Len(c.children) \in Nat
    BY ChildFacts
  <2>2. IsChild(c.children[i])
    BY <2>1, ChildFacts
  <2>3. e \in Nat
    BY <1>3, <2>2, BasisFacts
  <2> QED BY <2>1, <2>3
<1>5. PICK new, n : new = Added(c, ls, i) /\ n = Len(ls)
  OBVIOUS
<1>6. CASE ls # <<>> /\ Need(c, ls[n]) + c.gap + WrapBasis(c.children[i]) <= c.main
  <2>1. n \in 1 .. Len(ls)
    BY <1>2, <1>5, <1>6
  <2>2. PICK l : l = Line(ls[n].start, ls[n].count + 1, Larger(ls[n].cross, e))
    OBVIOUS
  <2>3. new = [ls EXCEPT ![n] = l]
    BY <1>3, <1>5, <1>6, <2>2 DEF Added
  <2>4. Len(new) = n /\ \A m \in 1 .. n : new[m] = IF m = n THEN l ELSE ls[m]
    BY <1>1, <1>2, <1>5, <2>3
  <2>5. l.start = ls[n].start /\ l.count = ls[n].count + 1 /\ l.cross = Larger(ls[n].cross, e)
    BY <2>2, LineParts
  <2>6. i = ls[n].start + ls[n].count
    BY <1>1, <1>2, <1>5, <1>6, <2>1 DEF Formed
  <2>7. Span(ls[n]) \subseteq Span(l) /\ i \in Span(l)
    <3>1. PICK first, held : first = ls[n].start /\ held = ls[n].count
      OBVIOUS
    <3>2. first \in Nat /\ held \in Nat /\ i = first + held
      BY <1>2, <2>1, <2>6, <3>1
    <3>3. Span(ls[n]) = first .. first + held - 1 /\ Span(l) = first .. first + (held + 1) - 1
      BY <2>5, <3>1 DEF Span
    <3> QED BY <3>2, <3>3
  <2>8. PICK j \in Span(ls[n]) : ls[n].cross = CrossExtent(c.children[j], c.cross, FALSE)
    BY <2>1 DEF Exactly
  <2>9. \E k \in Span(l) : l.cross = CrossExtent(c.children[k], c.cross, FALSE)
    <3>1. l.cross = ls[n].cross \/ l.cross = e
      BY <2>5 DEF Larger
    <3>2. CASE l.cross = ls[n].cross
      BY <2>7, <2>8, <3>2
    <3>3. CASE l.cross = e
      BY <1>3, <2>7, <3>3
    <3> QED BY <3>1, <3>2, <3>3
  <2>10. ASSUME NEW m \in 1 .. Len(new)
         PROVE  \E k \in Span(new[m]) : new[m].cross = CrossExtent(c.children[k], c.cross, FALSE)
    <3>1. CASE m = n
      <4>1. new[m] = l
        BY <2>4, <3>1
      <4> QED BY <2>9, <4>1
    <3>2. CASE m # n
      <4>1. new[m] = ls[m] /\ m \in 1 .. Len(ls)
        BY <1>5, <2>4, <3>2
      <4> QED BY <4>1 DEF Exactly
    <3> QED BY <3>1, <3>2
  <2> QED BY <1>5, <2>10 DEF Exactly
<1>7. CASE ~(ls # <<>> /\ Need(c, ls[n]) + c.gap + WrapBasis(c.children[i]) <= c.main)
  <2>1. PICK l : l = Line(i, 1, e)
    OBVIOUS
  <2>2. new = Append(ls, l)
    BY <1>3, <1>5, <1>7, <2>1 DEF Added
  <2>3. Len(new) = n + 1 /\ \A m \in 1 .. n + 1 : new[m] = IF m = n + 1 THEN l ELSE ls[m]
    BY <1>1, <1>2, <1>5, <2>2
  <2>4. l.start = i /\ l.count = 1 /\ l.cross = e
    BY <2>1, LineParts
  <2>5. i \in Span(l)
    BY <1>4, <2>4 DEF Span
  <2>6. ASSUME NEW m \in 1 .. Len(new)
        PROVE  \E k \in Span(new[m]) : new[m].cross = CrossExtent(c.children[k], c.cross, FALSE)
    <3>1. CASE m = n + 1
      <4>1. new[m] = l
        BY <2>3, <3>1
      <4> QED BY <1>3, <2>4, <2>5, <4>1
    <3>2. CASE m # n + 1
      <4>1. new[m] = ls[m] /\ m \in 1 .. Len(ls)
        BY <1>2, <1>5, <2>3, <3>2
      <4> QED BY <4>1 DEF Exactly
    <3> QED BY <3>1, <3>2
  <2> QED BY <1>5, <2>6 DEF Exactly
<1> QED BY <1>6, <1>7

(* Lines of the same children that are as high as these want to be need    *)
(* the same room.                                                          *)
LEMMA SameCrosses ==
  ASSUME NEW c, IsContainer(c), NEW d, d.children = c.children, d.crossGap = c.crossGap,
         NEW ls, Chained(ls, Len(c.children)), NEW ms \in Seq(LineSet), MainLines(ls) = MainLines(ms),
         HighEnough(c, ls), Exactly(c, ls), HighEnough(d, ms), Exactly(d, ms)
  PROVE  CrossNeeded(c, ls) = CrossNeeded(d, ms)
<1>1. ls \in Seq(LineSet)
  BY DEF Chained
<1>2. /\ Len(ls) \in Nat /\ DOMAIN ls = 1 .. Len(ls) /\ DOMAIN ms = 1 .. Len(ms)
      /\ \A n \in 1 .. Len(ls) : ls[n].cross \in Nat
      /\ \A n \in 1 .. Len(ms) : ms[n].cross \in Nat
  BY <1>1, LineFacts
<1>3. /\ Len(ls) = Len(ms)
      /\ \A n \in 1 .. Len(ls) : ls[n].start = ms[n].start /\ ls[n].count = ms[n].count
  BY <1>1, MainLinesFacts
<1>4. ASSUME NEW n \in 1 .. Len(ls) PROVE ls[n].cross = ms[n].cross
  <2>1. Span(ls[n]) = Span(ms[n]) /\ n \in 1 .. Len(ms)
    BY <1>3, RowFacts
  <2>2. PICK i \in Span(ls[n]) : ls[n].cross = CrossExtent(c.children[i], c.cross, FALSE)
    BY DEF Exactly
  <2>3. PICK j \in Span(ls[n]) : ms[n].cross = CrossExtent(c.children[j], d.cross, FALSE)
    BY <2>1 DEF Exactly
  <2>4. CrossExtent(c.children[j], c.cross, FALSE) <= ls[n].cross
    BY DEF HighEnough
  <2>5. CrossExtent(c.children[i], d.cross, FALSE) <= ms[n].cross
    BY <2>1 DEF HighEnough
  <2>6. /\ CrossExtent(c.children[i], c.cross, FALSE) = CrossExtent(c.children[i], d.cross, FALSE)
        /\ CrossExtent(c.children[j], c.cross, FALSE) = CrossExtent(c.children[j], d.cross, FALSE)
    BY CrossExtentIs
  <2>7. PICK p, q : p = ls[n].cross /\ q = ms[n].cross
    OBVIOUS
  <2>8. q <= p /\ p <= q
    BY <2>2, <2>3, <2>4, <2>5, <2>6, <2>7, Zenon
  <2>9. p \in Nat /\ q \in Nat
    BY <1>2, <2>1, <2>7
  <2> QED BY <2>7, <2>8, <2>9
<1>5. [n \in DOMAIN ls |-> ls[n].cross] = [n \in DOMAIN ms |-> ms[n].cross]
  BY <1>2, <1>3, <1>4
<1> QED BY <1>2, <1>3, <1>5, Zenon DEF CrossNeeded

LEMMA RequiredIsNeeded == RequiredCross = CrossNeeded(input, lines)
BY Zenon DEF RequiredCross, CrossNeeded, LineCrosses

(* What is placed is boxed.                                                *)
LEMMA PlaceBoxes ==
  ASSUME RowInv, Boxed, Place
  PROVE  Boxed'
<1>0. /\ IsContainer(input) /\ DOMAIN sizes = 1 .. Len(input.children)
      /\ UNCHANGED <<input, lines, line, sizes>> /\ line > Len(lines)
  BY AllIsSized DEF Place
<1>1. IF PlacingOverflows THEN stage' = "overflow" /\ UNCHANGED boxes
      ELSE stage' = "planned" /\ boxes' = [i \in DOMAIN sizes |-> BoxOf(i)]
  BY Zenon DEF Place, PlacingOverflows, BoxOf
<1>2. input'.wrap # "nowrap" => Exactly(input', lines')
  BY <1>0 DEF Boxed
<1>3. CASE PlacingOverflows
  <2>1. stage' = "overflow"
    BY <1>1, <1>3
  <2>2. ASSUME input.wrap # "nowrap" PROVE RequiredCross > input.cross
    <3> SUFFICES ASSUME ~(RequiredCross > input.cross) PROVE FALSE
      OBVIOUS
    <3>1. PICK i \in DOMAIN sizes : /\ Child(i).align # "stretch"
                                    /\ ExtentIn(PlacedLines, i) > PlacedLines[LineOf(i)].extent
      BY <1>3 DEF PlacingOverflows
    <3>2. PICK e, x : e = PlacedLines[LineOf(i)].extent /\ x = CrossExtent(Child(i), e, FALSE)
      OBVIOUS
    <3>3. e \in Nat /\ x <= e
      BY <1>0, <2>2, <3>2, ChildHasRoom
    <3>4. ExtentIn(PlacedLines, i) = x
      BY <3>1, <3>2 DEF ExtentIn, CrossExtent
    <3>5. x \in Nat
      BY <1>0, <3>2, ChildFacts, BasisFacts DEF Child
    <3>6. x > e
      BY <3>1, <3>2, <3>4, Zenon
    <3> QED BY <3>3, <3>5, <3>6
  <2>3. input.wrap # "nowrap" => CrossNeeded(input, lines) > input.cross
    BY <2>2, RequiredIsNeeded
  <2> QED BY <1>0, <1>2, <2>1, <2>3 DEF Boxed
<1>4. CASE ~PlacingOverflows
  <2>1. stage' = "planned" /\ boxes' = [i \in DOMAIN sizes |-> BoxOf(i)]
    BY <1>1, <1>4
  <2>2. ASSUME NEW i \in 1 .. Len(input.children)
        PROVE  /\ boxes'[i].size = sizes[i]
               /\ \E e : GivenCross(input, input.children[i], boxes'[i].extent, e)
    <3>1. PICK b : b = BoxOf(i)
      OBVIOUS
    <3>2. boxes'[i] = b
      BY <1>0, <2>1, <3>1
    <3>3. b.size = sizes[i] /\ b.extent = ExtentIn(PlacedLines, i)
      BY <3>1 DEF BoxOf
    <3>4. PICK e : e = PlacedLines[LineOf(i)].extent
      OBVIOUS
    <3>5. ~(input.wrap # "nowrap" /\ RequiredCross > input.cross)
      BY <1>4 DEF PlacingOverflows
    <3>6. /\ e \in Nat /\ (input.wrap # "nowrap" => CrossExtent(Child(i), e, FALSE) <= e)
          /\ input.wrap = "nowrap" => e = input.cross
      BY <3>4, <3>5, ChildHasRoom
    <3>7. b.extent = CrossExtent(Child(i), e, Child(i).align = "stretch")
      BY <3>3, <3>4, Zenon DEF ExtentIn
    <3>8. GivenCross(input, input.children[i], b.extent, e)
      BY <3>6, <3>7 DEF GivenCross, Child
    <3> QED BY <3>2, <3>3, <3>8
  <2> QED BY <1>0, <1>2, <2>1, <2>2 DEF Boxed
<1> QED BY <1>3, <1>4

LEMMA StepBoxes ==
  ASSUME RowInv, Boxed, Step
  PROVE  Boxed'
<1>1. CASE AddToLines
  <2>1. PICK many \in 0 .. Len(input.children) : Chained(lines, many)
    BY DEF RowInv, LinesFormed
  <2>2. /\ input.wrap # "nowrap" /\ IsContainer(input) /\ Len(input.children) \in Nat
        /\ NextChild = many + 1 /\ NextChild <= Len(input.children) /\ many \in Nat
        /\ stage' = "forming" /\ input' = input
    BY <1>1, <2>1, NextChildIs, ChildFacts DEF RowInv, LinesFormed, AddToLines
  <2>3. many + 1 \in 1 .. Len(input.children) /\ Exactly(input, lines)
    BY <2>2 DEF Boxed
  <2>4. lines' = Added(input, lines, many + 1)
    BY <1>1, <2>1, AddedIs
  <2>5. Exactly(input, lines')
    BY <2>1, <2>2, <2>3, <2>4, AddedIsExact
  <2> QED BY <2>2, <2>5 DEF Boxed
<1>2. CASE FormLines
  <2>1. stage' = "sizing" /\ input' = input /\ (input.wrap # "nowrap" => lines' = lines)
    BY <1>2 DEF FormLines
  <2> QED BY <2>1 DEF Boxed
<1>3. CASE SizeLine \/ FreezeRound
  <2>1. SizingStep
    BY <1>3, SizeLineIsStep, FreezeRoundIsStep
  <2>2. /\ input' = input /\ lines' = lines /\ line \in 1 .. Len(lines)
        /\ stage' # "planned" /\ (stage' = "overflow" => line' = line)
    BY <2>1 DEF SizingStep
  <2>3. Len(lines) \in Nat
    <3>1. \E many : Chained(lines, many)
      BY DEF RowInv, LinesFormed
    <3> QED BY <3>1, LineFacts DEF Chained
  <2> QED BY <2>2, <2>3 DEF Boxed
<1>4. CASE Place
  BY <1>4, PlaceBoxes
<1> QED BY <1>1, <1>2, <1>3, <1>4 DEF Step

LEMMA BoxedAtFirst ==
  ASSUME NEW c, Begun(c)
  PROVE  Boxed
<1>1. lines = <<>> /\ stage = "forming" /\ Len(<<>>) = 0
  BY DEF Begun
<1> QED BY <1>1 DEF Boxed, Exactly

LEMMA BoxedAnew ==
  ASSUME NEW c, Begin(c)
  PROVE  Boxed'
<1>1. lines' = <<>> /\ stage' = "forming" /\ Len(<<>>) = 0
  BY DEF Begin
<1> QED BY <1>1 DEF Boxed, Exactly

-----------------------------------------------------------------------------
(* What is measured is held.                                               *)
MainExtent == IF IsRow THEN authored.width ELSE authored.height

\* A row on its main axis: the same for its probe and for the plan proper.
RowView ==
  [children |-> [i \in Indices |-> MainChild(ChildOf(i, MainNeed(i).least, 0))],
   main |-> MainExtent, gap |-> authored.gap, wrap |-> authored.wrap]

LEMMA MainOfChild ==
  ASSUME NEW i, NEW need, NEW a, NEW b
  PROVE  MainChild(ChildOf(i, need, a)) = MainChild(ChildOf(i, need, b))
<1>1. PICK item, basis, min : /\ item = Item(i) /\ min = Larger(item.min, need)
                              /\ basis = IF ContentBasis(i) THEN MainNeed(i).preferred ELSE item.basis
  OBVIOUS
<1>2. ASSUME NEW cross
      PROVE  MainChild(ChildOf(i, need, cross)) =
               [kind |-> item.kind, basis |-> basis, min |-> min, max |-> item.max,
                grow |-> item.grow, shrink |-> item.shrink]
  <2>1. PICK c : c = ChildOf(i, need, cross)
    OBVIOUS
  <2>2. c = [kind |-> item.kind, grow |-> item.grow, shrink |-> item.shrink, max |-> item.max,
             basis |-> basis, min |-> min, cross |-> cross, crossMin |-> item.crossMin,
             crossMax |-> item.crossMax, align |-> item.align]
    BY <1>1, <2>1, Zenon DEF ChildOf
  <2>3. /\ c.kind = item.kind /\ c.grow = item.grow /\ c.shrink = item.shrink /\ c.max = item.max
        /\ c.basis = basis /\ c.min = min
    BY <2>2
  <2> QED BY <2>1, <2>3 DEF MainChild
<1> QED BY <1>2

LEMMA ContainerView ==
  ASSUME NEW children, children = [i \in Indices |-> children[i]], NEW cross, NEW content,
         NEW c, c = ContainerWith(children, cross, content)
  PROVE  /\ c.children = children /\ c.cross = cross /\ c.wrap = authored.wrap
         /\ MainView(c) = [children |-> [i \in Indices |-> MainChild(children[i])],
                           main |-> MainExtent, gap |-> authored.gap, wrap |-> authored.wrap]
         /\ \A j : MainView([c EXCEPT !.justify = j]) = MainView(c)
<1>1. PICK main : main = MainExtent
  OBVIOUS
<1>2. c = [children |-> children, main |-> main, cross |-> cross,
           gap |-> authored.gap, crossGap |-> authored.crossGap, wrap |-> authored.wrap,
           justify |-> authored.justify, content |-> content, reverse |-> authored.reverse]
  BY <1>1, Zenon DEF ContainerWith, MainExtent
<1>3. /\ c.children = children /\ c.main = main /\ c.cross = cross /\ c.gap = authored.gap
      /\ c.wrap = authored.wrap
  BY <1>2
<1>4. DOMAIN children = Indices
  OBVIOUS
<1>5. MainView(c) = [children |-> [i \in Indices |-> MainChild(children[i])],
                     main |-> main, gap |-> authored.gap, wrap |-> authored.wrap]
  BY <1>3, <1>4, Zenon DEF MainView
<1>6. ASSUME NEW j PROVE MainView([c EXCEPT !.justify = j]) = MainView(c)
  <2>1. PICK d : d = [c EXCEPT !.justify = j]
    OBVIOUS
  <2>2. d.children = c.children /\ d.main = c.main /\ d.gap = c.gap /\ d.wrap = c.wrap
    BY <1>2, <2>1
  <2>3. MainView(d) = MainView(c)
    BY <2>2, Zenon DEF MainView
  <2> QED BY <2>1, <2>3
<1> QED BY <1>1, <1>3, <1>5, <1>6

LEMMA ChildOfIs ==
  ASSUME NEW i, NEW need, NEW cross, NEW c, c = ChildOf(i, need, cross)
  PROVE  /\ c.align = Item(i).align /\ c.crossMax = Item(i).crossMax /\ c.max = Item(i).max
         /\ c.cross = cross /\ c.min = Larger(Item(i).min, need)
<1>1. PICK item, basis, min : /\ item = Item(i) /\ min = Larger(item.min, need)
                              /\ basis = IF ContentBasis(i) THEN MainNeed(i).preferred ELSE item.basis
  OBVIOUS
<1>2. c = [kind |-> item.kind, grow |-> item.grow, shrink |-> item.shrink, max |-> item.max,
           basis |-> basis, min |-> min, cross |-> cross, crossMin |-> item.crossMin,
           crossMax |-> item.crossMax, align |-> item.align]
  BY <1>1, Zenon DEF ChildOf
<1> QED BY <1>1, <1>2

(* A child of the plan proper has, on either axis, what was measured of it.*)
FitFor(i, c, m, room) ==
  /\ m.width \in Nat /\ m.height \in Nat
  /\ c.align = Item(i).align /\ c.crossMax = Item(i).crossMax /\ c.max = Item(i).max
  /\ IsRow => c.cross >= m.height
  /\ ~IsRow => /\ c.min >= m.height
               /\ Item(i).content.kind # "image" => c.cross >= m.width
  /\ ~Wrapped /\ authored.crossSize = 0 => room >= c.cross

LEMMA HighestIs ==
  ASSUME IsAuthored(authored), Measurable, NEW i \in Indices
  PROVE  MeasuredChild(i).cross <= Highest /\ Highest \in Nat
<1>1. Len(authored.items) \in Nat \ {0} /\ Indices = 1 .. Len(authored.items)
  BY AuthoredFacts DEF Indices
<1>2. PICK f, S : f = [j \in Indices |-> MeasuredChild(j).cross] /\ S = {MeasuredChild(j).cross : j \in Indices}
  OBVIOUS
<1>3. \A j \in Indices : f[j] = MeasuredChild(j).cross /\ f[j] \in Nat
  BY <1>2, MeasuredFacts
<1>4. \A x : x \in S <=> \E j \in Indices : x = f[j]
  BY <1>2, <1>3
<1>5. \E j \in Indices : \A k \in Indices : f[j] >= f[k]
  BY <1>1, <1>3, SomeIsLargest
<1>6. \E x \in S : \A y \in S : x >= y
  BY <1>4, <1>5
<1>7. Max(S) \in S /\ \A y \in S : Max(S) >= y
  BY <1>6 DEF Max
<1>8. f[i] \in S
  BY <1>4
<1>9. PICK h : h = Max(S)
  OBVIOUS
<1>10. h \in Nat /\ f[i] <= h
  BY <1>3, <1>4, <1>7, <1>8, <1>9
<1>11. Highest = h
  BY <1>2, <1>9 DEF Highest
<1> QED BY <1>3, <1>10, <1>11

LEMMA MeasuredFits ==
  ASSUME IsAuthored(authored), Measurable, NEW i \in Indices
  PROVE  FitFor(i, MeasuredChild(i), Measurement(i), RegionCross)
<1>1. /\ authored.width \in Nat \ {0} /\ authored.crossSize \in Nat
      /\ IsItem(Item(i), authored.width)
  BY AuthoredFacts DEF Indices, Item
<1>2. PICK w, h, most : /\ w = MeasureWidth(i) /\ h = Item(i).content.heights[w]
                        /\ most = Item(i).content.most
  OBVIOUS
<1>3. /\ w \in 1 .. authored.width /\ w \in Nat /\ h \in Nat /\ most \in Nat
      /\ Item(i).crossSize \in Nat /\ Item(i).min \in Nat
  <2>1. w \in 1 .. authored.width
    BY <1>2 DEF Measurable, CanBeMeasured
  <2>2. IsContent(Item(i).content, authored.width) /\ Item(i).crossSize \in Nat /\ Item(i).min \in Nat
    BY <1>1 DEF IsItem
  <2>3. h \in Nat /\ most \in Nat
    BY <1>2, <2>1, <2>2 DEF IsContent
  <2> QED BY <1>1, <2>1, <2>2, <2>3
<1>4. Measurement(i).width = w /\ Measurement(i).height = h
  BY <1>2 DEF Measurement
<1>5. FlowWidth(i) \in Nat /\ FlowWidth(i) <= w /\ (Item(i).content.kind # "image" => FlowWidth(i) = w)
  BY <1>2, <1>3 DEF FlowWidth
<1>6. PICK need, cross, c : /\ need = IF IsRow THEN MainNeed(i).least ELSE h
                            /\ cross = IF Item(i).crossSize > 0 THEN Item(i).crossSize ELSE MeasuredCross(i)
                            /\ c = MeasuredChild(i)
  OBVIOUS
<1>7. /\ c.align = Item(i).align /\ c.crossMax = Item(i).crossMax /\ c.max = Item(i).max
      /\ c.cross = cross /\ c.min = Larger(Item(i).min, need)
  <2>1. c = ChildOf(i, need, cross)
    BY <1>4, <1>6, Zenon DEF MeasuredChild
  <2> QED BY <2>1, ChildOfIs
<1>8. ASSUME IsRow PROVE cross >= h
  <2>1. CASE Item(i).crossSize > 0
    <3>1. Item(i).crossSize >= h
      BY <1>4, <1>8, <2>1 DEF Measurable, ExplicitFits
    <3> QED BY <1>6, <2>1, <3>1
  <2>2. CASE ~(Item(i).crossSize > 0)
    <3>1. MeasuredCross(i) = h
      BY <1>4, <1>8 DEF MeasuredCross
    <3> QED BY <1>3, <1>6, <2>2, <3>1
  <2> QED BY <2>1, <2>2
<1>9. ASSUME ~IsRow
      PROVE  /\ c.min >= h /\ cross \in Nat /\ cross <= authored.width
             /\ Item(i).content.kind # "image" => cross >= w
  <2>1. c.min >= h
    <3>1. need = h
      BY <1>6, <1>9
    <3>2. PICK x, y : x = Item(i).min /\ y = c.min
      OBVIOUS
    <3>3. x \in Nat /\ y = Larger(x, h)
      BY <1>3, <1>7, <3>1, <3>2
    <3>4. y >= h
      BY <1>3, <3>3 DEF Larger
    <3> QED BY <3>2, <3>4
  <2>2. w = ColumnWidth(i)
    BY <1>2, <1>9 DEF MeasureWidth
  <2>3. CASE Item(i).crossSize > 0
    <3>1. w = Item(i).crossSize
      BY <1>3, <2>2, <2>3 DEF ColumnWidth
    <3>2. cross = w
      BY <1>6, <2>3, <3>1
    <3> QED BY <1>1, <1>3, <2>1, <3>2
  <2>4. CASE ~(Item(i).crossSize > 0)
    <3>1. cross = MeasuredCross(i)
      BY <1>6, <2>4
    <3>2. CASE Wrapped \/ Item(i).content.kind # "text"
      <4>1. MeasuredCross(i) = FlowWidth(i)
        BY <1>9, <3>2 DEF MeasuredCross
      <4>2. PICK x : x = FlowWidth(i)
        OBVIOUS
      <4>3. x \in Nat /\ x <= w /\ (Item(i).content.kind # "image" => x = w)
        BY <1>5, <4>2
      <4> QED BY <1>1, <1>3, <2>1, <3>1, <4>1, <4>2, <4>3
    <3>3. CASE ~(Wrapped \/ Item(i).content.kind # "text")
      <4>1. MeasuredCross(i) = authored.width
        BY <1>9, <3>3 DEF MeasuredCross
      <4> QED BY <1>1, <1>3, <2>1, <3>1, <4>1
    <3> QED BY <3>2, <3>3
  <2> QED BY <2>3, <2>4
<1>10. ASSUME ~Wrapped, authored.crossSize = 0 PROVE RegionCross >= cross
  <2>1. CASE IsRow
    <3>1. RegionCross = Highest
      BY <1>10, <2>1 DEF RegionCross
    <3>2. c.cross <= Highest /\ Highest \in Nat /\ c.cross \in Nat
      BY <1>6, HighestIs, MeasuredFacts
    <3>3. PICK x : x = Highest
      OBVIOUS
    <3>4. cross <= x /\ x \in Nat /\ cross \in Nat
      BY <1>7, <3>2, <3>3
    <3> QED BY <3>1, <3>3, <3>4
  <2>2. CASE ~IsRow
    <3>1. RegionCross = authored.width
      BY <1>10, <2>2 DEF RegionCross, BodyCross
    <3> QED BY <1>1, <1>9, <2>2, <3>1
  <2> QED BY <2>1, <2>2
<1> QED BY <1>3, <1>4, <1>6, <1>7, <1>8, <1>9, <1>10 DEF FitFor

ChildrenMeasured ==
  /\ input.wrap = authored.wrap /\ DOMAIN input.children = Indices
  /\ \A i \in Indices : FitFor(i, input.children[i], measured[i], input.cross)

\* A row comes, if to an end, to the widths that were measured.
RowIsProbed ==
  \E z : /\ Leads(Fresh(MainView(input)), z) /\ z.stage = "sized"
         /\ \A i \in Indices : z.sizes[i] = measured[i].width

\* A column comes, if to an end, to lines that need the width it has.
WidthIsProbed ==
  /\ stage # "overflow"
  /\ \E z, ls : /\ Leads(Fresh(MainView(input)), z) /\ z.stage = "sized" /\ z.lines = MainLines(ls)
                /\ ls \in Seq(LineSet) /\ HighEnough(input, ls) /\ Exactly(input, ls)
                /\ CrossNeeded(input, ls) = input.cross

HeldSoFar ==
  /\ Determined /\ Boxed
  /\ phase \in {"probe", "measure"} /\ IsRow => MainView(input) = RowView
  /\ phase = "measure" /\ IsRow => stage = "planned"
  /\ phase = "intrinsic" => Probed /\ ChildrenMeasured
  /\ phase = "final" => /\ ChildrenMeasured
                        /\ IsRow => RowIsProbed
                        /\ Probed => WidthIsProbed

LEMMA HeldAtFirst ==
  ASSUME MeasuredInit
  PROVE  HeldSoFar
<1>1. phase \in {"engine", "authored"} /\ \E c : Begun(c)
  BY DEF MeasuredInit, RowInit
<1> QED BY <1>1, DeterminedAtFirst, BoxedAtFirst DEF HeldSoFar

\* What is read off the authored container stays with it.
LEMMA ViewStays ==
  ASSUME authored' = authored
  PROVE  /\ RowView' = RowView /\ Indices' = Indices /\ IsRow' = IsRow /\ Wrapped' = Wrapped
         /\ \A i : Item(i)' = Item(i)
<1>1. Indices' = Indices /\ IsRow' = IsRow /\ Wrapped' = Wrapped
  BY DEF Indices, IsRow, Wrapped
<1>2. \A i : Item(i)' = Item(i)
  BY DEF Item
<1>3. MainExtent' = MainExtent
  BY <1>1 DEF MainExtent
<1>4. ASSUME NEW i
      PROVE  MainChild(ChildOf(i, MainNeed(i).least, 0))' = MainChild(ChildOf(i, MainNeed(i).least, 0))
  <2>1. PICK item : item = Item(i) /\ item = Item(i)'
    BY <1>2
  <2>2. ContentBasis(i)' <=> ContentBasis(i)
    BY <2>1 DEF ContentBasis
  <2>3. MainNeed(i)' = MainNeed(i)
    BY <1>1, <2>1, <2>2 DEF MainNeed
  <2>4. ChildOf(i, MainNeed(i).least, 0)' = ChildOf(i, MainNeed(i).least, 0)
    BY <2>1, <2>2, <2>3 DEF ChildOf
  <2> QED BY <2>4
<1>5. [i \in Indices |-> MainChild(ChildOf(i, MainNeed(i).least, 0))]'
        = [i \in Indices |-> MainChild(ChildOf(i, MainNeed(i).least, 0))]
  BY <1>1, <1>4
<1>6. RowView' = RowView
  BY <1>3, <1>5 DEF RowView
<1> QED BY <1>1, <1>2, <1>6

LEMMA MeasuresStay ==
  ASSUME UNCHANGED <<input, authored, measured>>
  PROVE  ChildrenMeasured' <=> ChildrenMeasured
<1>1. Indices' = Indices /\ IsRow' = IsRow /\ Wrapped' = Wrapped /\ \A i : Item(i)' = Item(i)
  BY ViewStays
<1>2. ASSUME NEW i, NEW c, NEW m, NEW room
      PROVE  FitFor(i, c, m, room)' <=> FitFor(i, c, m, room)
  <2>1. PICK item : item = Item(i) /\ item = Item(i)'
    BY <1>1
  <2> QED BY <1>1, <2>1 DEF FitFor
<1>3. \A i : FitFor(i, input.children[i], measured[i], input.cross)'
               <=> FitFor(i, input.children[i], measured[i], input.cross)
  <2> TAKE i
  <2>1. PICK c, m, room : c = input.children[i] /\ m = measured[i] /\ room = input.cross
    OBVIOUS
  <2>2. FitFor(i, c, m, room)' <=> FitFor(i, c, m, room)
    BY <1>2
  <2>3. c = input'.children[i] /\ m = measured'[i] /\ room = input'.cross
    BY <2>1
  <2> QED BY <2>1, <2>2, <2>3
<1> QED BY <1>1, <1>3 DEF ChildrenMeasured

\* What does not plan.
LEMMA WaitingHolds ==
  ASSUME HeldSoFar, UNCHANGED <<rowVars, authored, measured>>, phase' = phase \/ phase' = "unsupported"
  PROVE  HeldSoFar'
<1>1. /\ input' = input /\ lines' = lines /\ line' = line /\ sizes' = sizes /\ active' = active
      /\ round' = round /\ stage' = stage /\ boxes' = boxes /\ authored' = authored /\ measured' = measured
  BY DEF rowVars
<1>2. Determined' = Determined
  BY <1>1, Zenon DEF Determined, Situation
<1>3. Boxed' = Boxed
  BY <1>1, Zenon DEF Boxed
<1>4. IsRow' = IsRow /\ Probed' = Probed
  BY <1>1, Zenon DEF IsRow, Probed, Wrapped
<1>5. RowView' = RowView
  BY <1>1, ViewStays
<1>6. ChildrenMeasured' <=> ChildrenMeasured
  BY <1>1, MeasuresStay
<1>7. RowIsProbed' = RowIsProbed /\ WidthIsProbed' = WidthIsProbed
  BY <1>1, Zenon DEF RowIsProbed, WidthIsProbed, Indices
<1> QED BY <1>1, <1>2, <1>3, <1>4, <1>5, <1>6, <1>7 DEF HeldSoFar

LEMMA MeasureHolds ==
  ASSUME HeldSoFar, MeasureRow \/ MeasureColumn
  PROVE  HeldSoFar'
<1>1. /\ UNCHANGED <<rowVars, authored, measured>> /\ phase' = "measure"
      /\ IsRow => phase = "probe" /\ stage = "planned"
  BY DEF MeasureRow, MeasureColumn, ProbePlanned
<1>2. /\ input' = input /\ lines' = lines /\ line' = line /\ sizes' = sizes /\ active' = active
      /\ round' = round /\ stage' = stage /\ boxes' = boxes /\ authored' = authored /\ measured' = measured
  BY <1>1 DEF rowVars
<1>3. Determined' = Determined
  BY <1>2, Zenon DEF Determined, Situation
<1>4. Boxed' = Boxed
  BY <1>2, Zenon DEF Boxed
<1>5. IsRow' = IsRow
  BY <1>2, Zenon DEF IsRow
<1>6. RowView' = RowView
  BY <1>2, ViewStays
<1> QED BY <1>1, <1>2, <1>3, <1>4, <1>5, <1>6 DEF HeldSoFar

LEMMA ProbeHolds ==
  ASSUME ProbeRow
  PROVE  HeldSoFar'
<1>1. PICK children, cross, c, d :
        /\ children = [i \in Indices |-> ChildOf(i, MainNeed(i).least, 0)]
        /\ cross = IF authored.crossSize > 0 THEN authored.crossSize ELSE BodyCross
        /\ c = ContainerWith(children, cross, authored.content)
        /\ d = [c EXCEPT !.justify = "start"]
  OBVIOUS
<1>2. phase' = "probe" /\ authored' = authored /\ Begin(d)
  BY <1>1, Zenon DEF ProbeRow
<1>3. Determined' /\ Boxed'
  BY <1>2, DeterminedAnew, BoxedAnew
<1>4. MainView(d) = RowView
  <2>1. children = [i \in Indices |-> children[i]]
    BY <1>1
  <2>2. /\ MainView(c) = [children |-> [i \in Indices |-> MainChild(children[i])],
                          main |-> MainExtent, gap |-> authored.gap, wrap |-> authored.wrap]
        /\ MainView(d) = MainView(c)
    <3>1. PICK k : k = authored.content
      OBVIOUS
    <3>2. c = ContainerWith(children, cross, k)
      BY <1>1, <3>1
    <3>3. /\ MainView(c) = [children |-> [i \in Indices |-> MainChild(children[i])],
                            main |-> MainExtent, gap |-> authored.gap, wrap |-> authored.wrap]
          /\ \A j : MainView([c EXCEPT !.justify = j]) = MainView(c)
      BY <2>1, <3>2, ContainerView
    <3> QED BY <1>1, <3>3, Zenon
  <2>3. [i \in Indices |-> MainChild(children[i])]
          = [i \in Indices |-> MainChild(ChildOf(i, MainNeed(i).least, 0))]
    BY <1>1
  <2> QED BY <2>2, <2>3, Zenon DEF RowView
<1>5. RowView' = RowView
  BY <1>2, ViewStays
<1>6. input' = d
  BY <1>2 DEF Begin
<1> QED BY <1>2, <1>3, <1>4, <1>5, <1>6 DEF HeldSoFar

LEMMA MeasuredHolds ==
  ASSUME MeasuredInv, HeldSoFar, PlanMeasured
  PROVE  HeldSoFar'
<1>1. PICK children, content, c :
        /\ children = [i \in Indices |-> MeasuredChild(i)]
        /\ content = IF Probed THEN "start" ELSE authored.content
        /\ c = ContainerWith(children, RegionCross, content)
  OBVIOUS
<1>2. /\ phase = "measure" /\ phase' = (IF Probed THEN "intrinsic" ELSE "final") /\ authored' = authored
      /\ Measurable /\ Begin(c) /\ measured' = [i \in Indices |-> Measurement(i)]
  BY <1>1 DEF PlanMeasured
<1>3. IsAuthored(authored)
  BY <1>2 DEF MeasuredInv
<1>4. Determined' /\ Boxed' /\ input' = c
  BY <1>2, DeterminedAnew, BoxedAnew DEF Begin
<1>5. children = [i \in Indices |-> children[i]]
  BY <1>1
<1>6. /\ c.children = children /\ c.cross = RegionCross /\ c.wrap = authored.wrap
      /\ MainView(c) = [children |-> [i \in Indices |-> MainChild(children[i])],
                        main |-> MainExtent, gap |-> authored.gap, wrap |-> authored.wrap]
  BY <1>1, <1>5, ContainerView
<1>7. ChildrenMeasured'
  <2>1. Indices' = Indices /\ input'.wrap = authored'.wrap /\ DOMAIN input'.children = Indices'
    BY <1>2, <1>4, <1>5, <1>6 DEF Indices
  <2>2. ASSUME NEW i \in Indices PROVE FitFor(i, input.children[i], measured[i], input.cross)'
    <3>1. FitFor(i, MeasuredChild(i), Measurement(i), RegionCross)
      BY <1>2, <1>3, MeasuredFits
    <3>2. /\ input'.children[i] = MeasuredChild(i) /\ measured'[i] = Measurement(i)
          /\ input'.cross = RegionCross
      BY <1>1, <1>2, <1>4, <1>6
    <3>3. PICK k, m, r : k = MeasuredChild(i) /\ m = Measurement(i) /\ r = RegionCross
      OBVIOUS
    <3>4. FitFor(i, k, m, r)
      BY <3>1, <3>3
    <3>5. input'.children[i] = k /\ measured'[i] = m /\ input'.cross = r
      BY <3>2, <3>3
    <3> QED BY <1>2, <3>4, <3>5, Zenon DEF FitFor, Item, IsRow, Wrapped
  <2> QED BY <2>1, <2>2 DEF ChildrenMeasured
<1>8. ASSUME IsRow PROVE RowIsProbed'
  <2>1. MainView(input) = RowView /\ stage = "planned" /\ Determined /\ line > Len(lines)
    BY <1>2, <1>8 DEF HeldSoFar, Boxed
  <2>2. LinesFormed
    BY <2>1 DEF MeasuredInv, Unplanned, RowInv
  <2>3. PICK z : z = Situation
    OBVIOUS
  <2>4. z.stage = "sized" /\ z.sizes = sizes
    BY <2>1, <2>2, <2>3, SituationFacts
  <2>5. MainView(c) = RowView
    <3>1. ASSUME NEW i \in Indices
          PROVE  MainChild(children[i]) = MainChild(ChildOf(i, MainNeed(i).least, 0))
      <4>1. PICK cross : cross = IF Item(i).crossSize > 0 THEN Item(i).crossSize ELSE MeasuredCross(i)
        OBVIOUS
      <4>2. children[i] = ChildOf(i, MainNeed(i).least, cross)
        BY <1>1, <1>8, <4>1 DEF MeasuredChild
      <4> QED BY <4>2, MainOfChild
    <3>2. [i \in Indices |-> MainChild(children[i])]
            = [i \in Indices |-> MainChild(ChildOf(i, MainNeed(i).least, 0))]
      BY <3>1
    <3> QED BY <1>6, <3>2, Zenon DEF RowView
  <2>6. Leads(Fresh(MainView(c)), z)
    BY <2>1, <2>3, <2>5, Zenon DEF Determined
  <2>7. \A i \in Indices : z.sizes[i] = measured'[i].width
    BY <1>2, <1>8, <2>4 DEF Measurement, MeasureWidth
  <2>8. Indices' = Indices
    BY <1>2 DEF Indices
  <2> QED BY <1>4, <2>4, <2>6, <2>7, <2>8 DEF RowIsProbed
<1>9. IsRow' = IsRow /\ Probed' = Probed
  BY <1>2, Zenon DEF IsRow, Probed, Wrapped
<1> QED BY <1>2, <1>4, <1>7, <1>8, <1>9 DEF HeldSoFar

\* At the width of its probe a column is planned as in its probe.
LEMMA IntrinsicHolds ==
  ASSUME MeasuredInv, HeldSoFar, PlanIntrinsic
  PROVE  HeldSoFar'
<1>1. PICK c, width : width = RequiredCross /\ c = [input EXCEPT !.cross = width, !.content = authored.content]
  BY Zenon
<1>2. /\ phase = "intrinsic" /\ phase' = "final" /\ stage = "planned" /\ authored' = authored
      /\ measured' = measured /\ Begin(c)
  BY <1>1 DEF PlanIntrinsic
<1>3. /\ Intrinsic /\ RowInv /\ LinesFormed /\ Determined /\ Boxed /\ line > Len(lines)
      /\ Probed /\ Wrapped /\ ~IsRow /\ ChildrenMeasured
  BY <1>2 DEF MeasuredInv, RowInv, HeldSoFar, Boxed, Probed
<1>4. Determined' /\ Boxed' /\ input' = c /\ stage' = "forming"
  BY <1>2, DeterminedAnew, BoxedAnew DEF Begin
<1>5. /\ c.children = input.children /\ c.main = input.main /\ c.cross = width /\ c.gap = input.gap
      /\ c.crossGap = input.crossGap /\ c.wrap = input.wrap
  <2>1. PICK children, cross, content : input = ContainerWith(children, cross, content)
    BY <1>3, Zenon DEF Intrinsic
  <2>2. PICK main, k : main = (IF IsRow THEN authored.width ELSE authored.height) /\ k = authored.content
    OBVIOUS
  <2>3. input = [children |-> children, main |-> main, cross |-> cross,
                 gap |-> authored.gap, crossGap |-> authored.crossGap, wrap |-> authored.wrap,
                 justify |-> authored.justify, content |-> content, reverse |-> authored.reverse]
    BY <2>1, <2>2, Zenon DEF ContainerWith
  <2>4. c = [input EXCEPT !.cross = width, !.content = k]
    BY <1>1, <2>2
  <2> QED BY <2>3, <2>4
<1>6. ChildrenMeasured'
  <2>1. Indices' = Indices /\ input'.wrap = authored'.wrap /\ DOMAIN input'.children = Indices'
    BY <1>2, <1>3, <1>4, <1>5 DEF Indices, ChildrenMeasured
  <2>2. ASSUME NEW i \in Indices PROVE FitFor(i, input.children[i], measured[i], input.cross)'
    <3>1. FitFor(i, input.children[i], measured[i], input.cross)
      BY <1>3 DEF ChildrenMeasured
    <3>2. PICK k, m : k = input.children[i] /\ m = measured[i]
      OBVIOUS
    <3>3. input'.children[i] = k /\ measured'[i] = m
      BY <1>2, <1>4, <1>5, <3>2
    <3>4. FitFor(i, k, m, width)
      BY <1>3, <3>1, <3>2, Zenon DEF FitFor
    <3>5. input'.cross = width
      BY <1>4, <1>5
    <3> QED BY <1>2, <3>3, <3>4, <3>5, Zenon DEF FitFor, Item, IsRow, Wrapped
  <2> QED BY <2>1, <2>2 DEF ChildrenMeasured
<1>7. WidthIsProbed'
  <2>1. PICK z, ls : z = Situation /\ ls = lines
    OBVIOUS
  <2>2. z.stage = "sized" /\ z.lines = MainLines(ls) /\ ls \in Seq(LineSet)
    BY <1>3, <2>1, SituationFacts
  <2>3. MainView(c) = MainView(input)
    BY <1>5, Zenon DEF MainView
  <2>4. Leads(Fresh(MainView(c)), z)
    BY <1>3, <2>1, <2>3, Zenon DEF Determined
  <2>5. input.wrap # "nowrap"
    BY <1>3 DEF ChildrenMeasured, Wrapped
  <2>6. HighEnough(input, ls) /\ Exactly(input, ls)
    BY <1>3, <2>1, <2>5 DEF LinesFormed, Boxed
  <2>7. HighEnough(c, ls)
    <3> SUFFICES ASSUME NEW n \in 1 .. Len(ls), NEW i \in Span(ls[n])
                 PROVE  CrossExtent(c.children[i], c.cross, FALSE) <= ls[n].cross
      BY DEF HighEnough
    <3>1. CrossExtent(input.children[i], input.cross, FALSE) <= ls[n].cross
      BY <2>6 DEF HighEnough
    <3> QED BY <1>5, <3>1, CrossExtentIs
  <2>8. Exactly(c, ls)
    <3> SUFFICES ASSUME NEW n \in 1 .. Len(ls)
                 PROVE  \E i \in Span(ls[n]) : ls[n].cross = CrossExtent(c.children[i], c.cross, FALSE)
      BY DEF Exactly
    <3>1. PICK i \in Span(ls[n]) : ls[n].cross = CrossExtent(input.children[i], input.cross, FALSE)
      BY <2>6 DEF Exactly
    <3> QED BY <1>5, <3>1, CrossExtentIs
  <2>9. CrossNeeded(c, ls) = c.cross
    <3>1. CrossNeeded(input, ls) = width
      BY <1>1, <2>1, RequiredIsNeeded
    <3>2. CrossNeeded(c, ls) = CrossNeeded(input, ls)
      BY <1>5, Zenon DEF CrossNeeded
    <3> QED BY <1>5, <3>1, <3>2
  <2> QED BY <1>4, <2>2, <2>4, <2>7, <2>8, <2>9 DEF WidthIsProbed
<1>8. IsRow' = IsRow
  BY <1>2, Zenon DEF IsRow
<1> QED BY <1>2, <1>3, <1>4, <1>6, <1>7, <1>8 DEF HeldSoFar

\* A situation whose lines are those of a planner.
LEMMA SitIs ==
  ASSUME NEW v, NEW ls \in Seq(LineSet), NEW n, NEW s, NEW a, NEW r, NEW st, NEW y,
         y = Sit(v, MainLines(ls), n, s, a, r, st)
  PROVE  y.lines = MainLines(ls) /\ y.stage = IF n > Len(ls) THEN "sized" ELSE st
<1>1. Len(MainLines(ls)) = Len(ls)
  BY MainLinesFacts
<1> QED BY <1>1, SitFacts

(* A step of a plan keeps to what was probed.  A column cannot be too      *)
(* narrow: its lines would be those of the probe, which fit.               *)
LEMMA StepHolds ==
  ASSUME MeasuredInv, HeldSoFar, PlanStep
  PROVE  HeldSoFar'
<1>1. /\ phase \in {"engine", "probe", "intrinsic", "final"} /\ Step
      /\ phase' = phase /\ authored' = authored /\ measured' = measured
  BY DEF PlanStep, authoredVars
<1>2. RowInv
  BY <1>1 DEF MeasuredInv
<1>3. RowInv'
  BY <1>1, <1>2, StepKeeps
<1>4. input' = input
  BY <1>1, <1>2, StepIsOnward
<1>5. Determined' /\ Boxed'
  BY <1>1, <1>2, DeterminedStays, StepBoxes DEF HeldSoFar
<1>6. IsRow' = IsRow /\ Probed' = Probed
  BY <1>1, Zenon DEF IsRow, Probed, Wrapped
<1>7. RowView' = RowView
  BY <1>1, ViewStays
<1>8. ChildrenMeasured' <=> ChildrenMeasured
  BY <1>1, <1>4, MeasuresStay
<1>9. RowIsProbed' = RowIsProbed
  BY <1>1, <1>4, Zenon DEF RowIsProbed, Indices
<1>10. ASSUME phase = "final", Probed PROVE WidthIsProbed'
  <2>1. WidthIsProbed /\ ChildrenMeasured
    BY <1>10 DEF HeldSoFar
  <2>2. PICK z, ls : /\ Leads(Fresh(MainView(input)), z) /\ z.stage = "sized" /\ z.lines = MainLines(ls)
                     /\ ls \in Seq(LineSet) /\ HighEnough(input, ls) /\ Exactly(input, ls)
                     /\ CrossNeeded(input, ls) = input.cross
    BY <2>1, Zenon DEF WidthIsProbed
  <2>3. ASSUME stage' = "overflow" PROVE FALSE
    <3>1. PICK ms, y : ms = lines' /\ y = Situation'
      OBVIOUS
    <3>2. input.wrap # "nowrap"
      BY <1>10, <2>1 DEF ChildrenMeasured, Probed, Wrapped
    <3>3. /\ IsContainer(input) /\ Chained(ms, Len(input.children)) /\ HighEnough(input, ms)
          /\ ms \in Seq(LineSet)
      BY <1>3, <1>4, <2>3, <3>1, <3>2 DEF RowInv, LinesFormed, Chained
    <3>4. y.lines = MainLines(ms) /\ y.stage = IF line' > Len(ms) THEN "sized" ELSE "overflow"
      <4>1. y = Sit(MainView(input'), MainLines(ms), line', sizes', active', round', stage')
        BY <3>1 DEF Situation
      <4>2. PICK v, n, s, a, r : y = Sit(v, MainLines(ms), n, s, a, r, "overflow") /\ n = line'
        BY <2>3, <4>1
      <4> QED BY <3>3, <4>2, SitIs
    <3>5. Onward(y) = y /\ Onward(z) = z
      BY <2>2, <3>4 DEF Onward
    <3>6. Leads(Fresh(MainView(input)), y)
      BY <1>4, <1>5, <3>1, Zenon DEF Determined
    <3>7. y = z
      BY <2>2, <3>5, <3>6, OneEnd
    <3>8. line' > Len(ms) /\ MainLines(ms) = MainLines(ls)
      BY <2>2, <3>4, <3>7
    <3>9. Exactly(input, ms) /\ CrossNeeded(input, ms) > input.cross
      BY <1>4, <1>5, <2>3, <3>1, <3>2, <3>8 DEF Boxed
    <3>10. CrossNeeded(input, ms) = CrossNeeded(input, ls)
      BY <2>2, <3>3, <3>8, <3>9, SameCrosses
    <3>11. PICK width : width = input.cross /\ width \in Nat
      BY <3>3, ChildFacts
    <3> QED BY <2>2, <3>9, <3>10, <3>11
  <2>4. Leads(Fresh(MainView(input')), z) /\ HighEnough(input', ls) /\ Exactly(input', ls)
        /\ CrossNeeded(input', ls) = input'.cross
    BY <1>4, <2>2
  <2> QED BY <2>2, <2>3, <2>4, Zenon DEF WidthIsProbed
<1> QED BY <1>1, <1>4, <1>5, <1>6, <1>7, <1>8, <1>9, <1>10 DEF HeldSoFar

LEMMA HeldNextKeeps ==
  ASSUME MeasuredInv, HeldSoFar, [MeasuredNext]_<<rowVars, authoredVars>>
  PROVE  HeldSoFar'
<1>1. CASE RejectAuthored \/ RejectMeasured
  BY <1>1, WaitingHolds DEF RejectAuthored, RejectMeasured, Unsupported
<1>2. CASE ProbeRow
  BY <1>2, ProbeHolds
<1>3. CASE MeasureColumn \/ MeasureRow
  BY <1>3, MeasureHolds
<1>4. CASE PlanStep
  BY <1>4, StepHolds
<1>5. CASE PlanMeasured
  BY <1>5, MeasuredHolds
<1>6. CASE PlanIntrinsic
  BY <1>6, IntrinsicHolds
<1>7. CASE UNCHANGED <<rowVars, authoredVars>>
  BY <1>7, WaitingHolds DEF authoredVars
<1>8. CASE Ended
  BY <1>7, <1>8 DEF Ended
<1> QED BY <1>1, <1>2, <1>3, <1>4, <1>5, <1>6, <1>7, <1>8 DEF MeasuredNext

(* A child has the cross size it asks for, or its maximum, unless it is    *)
(* stretched over a container that is not as large.                        *)
LEMMA CrossIsHeld ==
  ASSUME NEW c, IsContainer(c), NEW child, IsChild(child), NEW extent, NEW e,
         GivenCross(c, child, extent, e)
  PROVE  /\ extent \in Nat
         /\ \/ extent >= child.cross
            \/ child.crossMax > 0 /\ extent = child.crossMax
            \/ child.align = "stretch" /\ c.wrap = "nowrap" /\ c.cross < child.cross
<1>1. PICK size, lo, hi, room : /\ size = child.cross /\ lo = child.crossMin /\ hi = child.crossMax
                                /\ room = c.cross
  OBVIOUS
<1>2. size \in Nat /\ lo \in Nat /\ hi \in Nat /\ e \in Nat /\ room \in Nat
  BY <1>1, ChildFacts DEF IsChild, GivenCross
<1>3. CrossExtent(child, e, FALSE) = Clamp(size, lo, hi) /\ CrossExtent(child, e, TRUE) = Clamp(e, lo, hi)
  BY <1>1 DEF CrossExtent
<1>4. CASE child.align # "stretch"
  <2>1. extent = Clamp(size, lo, hi)
    <3>1. (child.align = "stretch") = FALSE
      BY <1>4
    <3> QED BY <1>3, <3>1 DEF GivenCross
  <2>2. extent \in Nat /\ (extent >= size \/ (hi > 0 /\ extent = hi))
    BY <1>2, <2>1 DEF Clamp, Larger
  <2> QED BY <1>1, <2>2
<1>5. CASE child.align = "stretch"
  <2>1. extent = Clamp(e, lo, hi)
    <3>1. (child.align = "stretch") = TRUE
      BY <1>5
    <3> QED BY <1>3, <3>1 DEF GivenCross
  <2>2. extent \in Nat /\ (extent >= e \/ (hi > 0 /\ extent = hi))
    BY <1>2, <2>1 DEF Clamp, Larger
  <2>3. CASE c.wrap # "nowrap"
    <3>1. Clamp(size, lo, hi) <= e
      BY <1>3, <2>3 DEF GivenCross
    <3>2. extent >= size \/ (hi > 0 /\ extent = hi)
      BY <1>2, <2>1, <3>1 DEF Clamp, Larger
    <3> QED BY <1>1, <2>2, <3>2
  <2>4. CASE c.wrap = "nowrap"
    <3>1. e = room
      BY <1>1, <2>4 DEF GivenCross
    <3> QED BY <1>1, <1>2, <1>5, <2>2, <2>4, <3>1
  <2> QED BY <2>3, <2>4
<1> QED BY <1>4, <1>5

(* What a plan proper comes to.                                            *)
LEMMA CompleteFacts ==
  ASSUME MeasuredInv, HeldSoFar, Complete
  PROVE  /\ RowInv /\ LinesFormed /\ IsContainer(input) /\ ChildrenMeasured /\ line > Len(lines)
         /\ Indices = 1 .. Len(input.children) /\ DOMAIN boxes = Indices
         /\ \A i \in Indices : /\ boxes[i].size = sizes[i] /\ IsChild(input.children[i])
                               /\ \E e : GivenCross(input, input.children[i], boxes[i].extent, e)
         /\ \A z : /\ Leads(Fresh(MainView(input)), z) /\ z.stage = "sized"
                   => z.lines = MainLines(lines) /\ z.sizes = sizes
<1>1. phase = "final" /\ stage = "planned" /\ RowInv /\ Determined /\ Boxed /\ ChildrenMeasured
  BY DEF Complete, MeasuredInv, HeldSoFar, Unplanned
<1>2. LinesFormed /\ IsContainer(input) /\ line > Len(lines)
  BY <1>1 DEF RowInv, LinesFormed, Boxed
<1>3. Indices = 1 .. Len(input.children)
  BY <1>1, <1>2, ChildFacts DEF ChildrenMeasured
<1>4. DOMAIN boxes = Indices
  BY <1>1, <1>3 DEF Boxed
<1>5. \A i \in Indices : /\ boxes[i].size = sizes[i] /\ IsChild(input.children[i])
                         /\ \E e : GivenCross(input, input.children[i], boxes[i].extent, e)
  BY <1>1, <1>2, <1>3, ChildFacts DEF Boxed
<1>6. ASSUME NEW z, Leads(Fresh(MainView(input)), z), z.stage = "sized"
      PROVE  z.lines = MainLines(lines) /\ z.sizes = sizes
  <2>1. PICK y : y = Situation
    OBVIOUS
  <2>2. y.stage = "sized" /\ y.lines = MainLines(lines) /\ y.sizes = sizes
    BY <1>2, <2>1, SituationFacts
  <2>3. Onward(y) = y /\ Onward(z) = z
    BY <1>6, <2>2 DEF Onward
  <2>4. Leads(Fresh(MainView(input)), y)
    BY <1>1, <2>1, Zenon DEF Determined
  <2>5. y = z
    BY <1>6, <2>3, <2>4, OneEnd
  <2> QED BY <2>2, <2>5
<1> QED BY <1>1, <1>2, <1>3, <1>4, <1>5, <1>6

LEMMA AcrossIsHeld ==
  ASSUME MeasuredInv, HeldSoFar, Complete, NEW i \in Indices, NEW extent \in Nat,
         extent <= input.children[i].cross
  PROVE  HoldsCross(i, extent)
<1>1. PICK c, b : c = input.children[i] /\ b = boxes[i].extent
  OBVIOUS
<1>2. PICK e : GivenCross(input, c, b, e)
  BY <1>1, CompleteFacts
<1>3. IsContainer(input) /\ IsChild(c) /\ input.wrap = authored.wrap
  BY <1>1, CompleteFacts DEF ChildrenMeasured
<1>4. /\ b \in Nat
      /\ \/ b >= c.cross
         \/ c.crossMax > 0 /\ b = c.crossMax
         \/ c.align = "stretch" /\ input.wrap = "nowrap" /\ input.cross < c.cross
  BY <1>2, <1>3, CrossIsHeld
<1>5. FitFor(i, c, measured[i], input.cross)
  BY <1>1, CompleteFacts DEF ChildrenMeasured
<1>6. PICK cross, room, own : cross = c.cross /\ room = input.cross /\ own = authored.crossSize
  OBVIOUS
<1>7. cross \in Nat /\ room \in Nat /\ own \in Nat /\ extent <= cross
  <2>1. phase # "engine"
    BY DEF Complete
  <2>2. own \in Nat
    BY <1>6, <2>1, AuthoredFacts DEF MeasuredInv
  <2> QED BY <1>1, <1>3, <1>6, <2>2, ChildFacts DEF IsChild
<1>8. CASE b >= c.cross
  <2>1. b >= extent
    BY <1>4, <1>6, <1>7, <1>8
  <2> QED BY <1>1, <2>1 DEF HoldsCross
<1>9. CASE c.crossMax > 0 /\ b = c.crossMax
  <2>1. Item(i).crossMax > 0 /\ b = Item(i).crossMax
    BY <1>5, <1>9 DEF FitFor
  <2> QED BY <1>1, <2>1 DEF HoldsCross
<1>10. CASE c.align = "stretch" /\ input.wrap = "nowrap" /\ input.cross < c.cross
  <2>1. ~Wrapped /\ Item(i).align = "stretch"
    BY <1>3, <1>5, <1>10 DEF FitFor, Wrapped
  <2>2. own = 0 => room >= cross
    BY <1>5, <1>6, <2>1 DEF FitFor
  <2>3. room < cross
    BY <1>6, <1>10
  <2>4. own > 0
    BY <1>7, <2>2, <2>3
  <2> QED BY <1>6, <2>1, <2>4 DEF HoldsCross
<1> QED BY <1>4, <1>8, <1>9, <1>10

LEMMA BoxesHold ==
  ASSUME MeasuredInv, HeldSoFar
  PROVE  HeldByBoxes
<1> SUFFICES ASSUME Complete, NEW i \in Indices
             PROVE  IF IsRow
                    THEN boxes[i].size = measured[i].width /\ HoldsCross(i, measured[i].height)
                    ELSE /\ boxes[i].size >= measured[i].height \/ boxes[i].size = Item(i).max
                         /\ HoldsCross(i, IF Item(i).content.kind = "image"
                                          THEN input.children[i].cross ELSE measured[i].width)
  BY DEF HeldByBoxes
<1>1. PICK c, m : c = input.children[i] /\ m = measured[i]
  OBVIOUS
<1>2. FitFor(i, c, m, input.cross) /\ IsChild(c) /\ boxes[i].size = sizes[i]
  BY <1>1, CompleteFacts DEF ChildrenMeasured
<1>3. CASE IsRow
  <2>1. RowIsProbed
    BY <1>3 DEF Complete, HeldSoFar
  <2>2. PICK z : /\ Leads(Fresh(MainView(input)), z) /\ z.stage = "sized"
                 /\ z.sizes[i] = measured[i].width
    BY <2>1, Zenon DEF RowIsProbed
  <2>3. z.sizes = sizes
    BY <2>2, CompleteFacts
  <2>4. boxes[i].size = measured[i].width
    BY <1>2, <2>2, <2>3
  <2>5. m.height \in Nat /\ m.height <= c.cross
    <3>1. PICK h, k : h = m.height /\ k = c.cross
      OBVIOUS
    <3>2. h \in Nat /\ k \in Nat /\ k >= h
      BY <1>2, <1>3, <3>1 DEF FitFor, IsChild
    <3> QED BY <3>1, <3>2
  <2>6. HoldsCross(i, m.height)
    BY <1>1, <2>5, AcrossIsHeld
  <2> QED BY <1>1, <1>3, <2>4, <2>6
<1>4. CASE ~IsRow
  <2>1. PICK n \in 1 .. Len(lines) : i \in Span(lines[n])
    <3>1. Chained(lines, Len(input.children)) /\ i \in 1 .. Len(input.children)
      BY CompleteFacts DEF LinesFormed, Complete
    <3> QED BY <3>1, LinesSpan
  <2>2. Within(c, sizes[i]) /\ sizes[i] \in Nat
    <3>1. RowTypes /\ SizedLines /\ line > Len(lines) /\ i \in 1 .. Len(input.children) /\ LinesFormed
      BY CompleteFacts DEF RowInv
    <3>2. Len(lines) \in Nat /\ line \in Nat
      BY <3>1, SituationFacts DEF RowTypes
    <3>3. n \in 1 .. line - 1
      BY <3>1, <3>2
    <3>4. HeldLine(input, lines[n], sizes)
      BY <3>1, <3>3 DEF SizedLines
    <3> QED BY <1>1, <2>1, <3>1, <3>4 DEF HeldLine, RowTypes
  <2>3. boxes[i].size >= measured[i].height \/ boxes[i].size = Item(i).max
    <3>1. PICK s, min, max, h : s = sizes[i] /\ min = c.min /\ max = c.max /\ h = m.height
      OBVIOUS
    <3>2. s \in Nat /\ min \in Nat /\ h \in Nat /\ min >= h /\ max = Item(i).max
      BY <1>2, <1>4, <2>2, <3>1 DEF FitFor, IsChild
    <3>3. s >= min \/ s = max
      BY <2>2, <3>1 DEF Within
    <3>4. s >= h \/ s = max
      BY <3>2, <3>3
    <3> QED BY <1>1, <1>2, <3>1, <3>2, <3>4
  <2>4. c.cross \in Nat
    BY <1>2 DEF IsChild
  <2>5. CASE Item(i).content.kind = "image"
    <3>1. PICK k : k = c.cross
      OBVIOUS
    <3>2. k \in Nat /\ k <= input.children[i].cross
      BY <1>1, <2>4, <3>1
    <3>3. HoldsCross(i, k)
      BY <3>2, AcrossIsHeld
    <3> QED BY <1>1, <1>4, <2>3, <2>5, <3>1, <3>3
  <2>6. CASE Item(i).content.kind # "image"
    <3>1. PICK w : w = m.width
      OBVIOUS
    <3>2. w \in Nat /\ c.cross >= w
      BY <1>2, <1>4, <2>6, <3>1 DEF FitFor
    <3>3. w <= input.children[i].cross
      <4>1. PICK k : k = c.cross /\ k \in Nat
        BY <2>4
      <4> QED BY <1>1, <3>2, <4>1
    <3>4. HoldsCross(i, w)
      BY <3>2, <3>3, AcrossIsHeld
    <3> QED BY <1>1, <1>4, <2>3, <2>6, <3>1, <3>4
  <2> QED BY <2>5, <2>6
<1> QED BY <1>3, <1>4

LEMMA WidthSuffices ==
  ASSUME MeasuredInv, HeldSoFar
  PROVE  IntrinsicWidthSuffices
<1> SUFFICES ASSUME phase = "final", Probed
             PROVE  /\ stage # "overflow"
                    /\ stage = "planned" =>
                         \A i \in Indices : boxes[i].cross + boxes[i].extent <= RequiredCross
  BY DEF IntrinsicWidthSuffices
<1>1. WidthIsProbed
  BY DEF HeldSoFar
<1>2. stage # "overflow"
  BY <1>1 DEF WidthIsProbed
<1>3. ASSUME stage = "planned", NEW i \in Indices
      PROVE  boxes[i].cross + boxes[i].extent <= RequiredCross
  <2>1. Complete
    BY <1>3 DEF Complete
  <2>2. PICK z, ls : /\ Leads(Fresh(MainView(input)), z) /\ z.stage = "sized" /\ z.lines = MainLines(ls)
                     /\ ls \in Seq(LineSet) /\ HighEnough(input, ls) /\ Exactly(input, ls)
                     /\ CrossNeeded(input, ls) = input.cross
    BY <1>1, Zenon DEF WidthIsProbed
  <2>3. MainLines(lines) = MainLines(ls)
    <3>1. z.lines = MainLines(lines)
      BY <2>1, <2>2, CompleteFacts
    <3> QED BY <2>2, <3>1
  <2>4. /\ RowInv /\ LinesFormed /\ IsContainer(input) /\ input.wrap # "nowrap" /\ Boxed
        /\ i \in DOMAIN boxes
    BY <1>3, <2>1, CompleteFacts DEF ChildrenMeasured, Probed, Wrapped, HeldSoFar
  <2>5. Chained(lines, Len(input.children)) /\ HighEnough(input, lines) /\ Exactly(input, lines)
    BY <1>3, <2>4 DEF LinesFormed, Boxed
  <2>6. CrossNeeded(input, lines) = CrossNeeded(input, ls)
    BY <2>2, <2>3, <2>4, <2>5, SameCrosses
  <2>7. RequiredCross = input.cross
    BY <2>2, <2>6, RequiredIsNeeded
  <2>8. boxes[i].cross + boxes[i].extent <= input.cross
    BY <1>3, <2>4 DEF RowInv, BoxesApart
  <2> QED BY <2>7, <2>8
<1> QED BY <1>2, <1>3

(* A row comes to the widths its children were measured at, a column       *)
(* leaves each its height, and a column that wraps fits the width of its   *)
(* probe: for every authored container, whatever its contents need.        *)
THEOREM EveryContentIsHeld == MeasuredSpec => []ContentIsHeld
<1>1. MeasuredInit => MeasuredInv /\ HeldSoFar
  BY MeasuredInitHolds, HeldAtFirst
<1>2. MeasuredInv /\ HeldSoFar /\ [MeasuredNext]_<<rowVars, authoredVars>> => MeasuredInv' /\ HeldSoFar'
  BY MeasuredNextKeeps, HeldNextKeeps
<1>3. MeasuredInv /\ HeldSoFar => ContentIsHeld
  BY BoxesHold, WidthSuffices DEF ContentIsHeld
<1> QED BY <1>1, <1>2, <1>3, PTL DEF MeasuredSpec
=============================================================================
