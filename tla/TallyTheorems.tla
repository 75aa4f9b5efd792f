--------------------------- MODULE TallyTheorems ---------------------------
(***************************************************************************)
(* What the sum of a function is, stated for every finite domain: the only *)
(* facts about sums the other proofs use; and induction over the naturals, *)
(* stated of sets of numbers.                                              *)
(***************************************************************************)
EXTENDS Tally, FiniteSetTheorems, WellFoundedInduction, TLAPS

\* A column of units, {x} \X 1..n, has n elements.
LEMMA ColumnCardinality ==
  ASSUME NEW x, NEW n \in Nat
  PROVE  /\ IsFiniteSet({x} \X (1 .. n))
         /\ Cardinality({x} \X (1 .. n)) = n
<1>1. IsFiniteSet({x}) /\ Cardinality({x}) = 1
  BY FS_Singleton
<1>2. IsFiniteSet(1 .. n) /\ Cardinality(1 .. n) = n
  BY FS_Interval
<1>3. Cardinality({x} \X (1 .. n)) = 1 * n
  BY <1>1, <1>2, FS_Product
<1> QED
  BY <1>1, <1>2, <1>3, FS_Product

\* The units of a function on a finite domain are finitely many, so the sum
\* is a natural number.
THEOREM TotalType ==
  ASSUME NEW S, IsFiniteSet(S), NEW f \in [S -> Nat]
  PROVE  /\ IsFiniteSet(UnitsOf(f))
         /\ Total(f) \in Nat
<1> DEFINE columns == {{x} \X (1 .. f[x]) : x \in S}
           column == [x \in S |-> {x} \X (1 .. f[x])]
<1>1. column \in Surjection(S, columns)
  BY DEF Surjection
<1>2. IsFiniteSet(columns)
  BY <1>1, FS_Surjection
<1>3. ASSUME NEW T \in columns PROVE IsFiniteSet(T)
  <2>1. PICK x \in S : T = {x} \X (1 .. f[x])
    OBVIOUS
  <2>2. f[x] \in Nat
    OBVIOUS
  <2> QED
    BY <2>1, <2>2, ColumnCardinality
<1>4. IsFiniteSet(UNION columns)
  BY <1>2, <1>3, FS_UNION
<1>5. UnitsOf(f) = UNION columns
  BY DEF UnitsOf
<1> QED
  BY <1>4, <1>5, FS_CardinalityType DEF Total

\* Taking one point apart: the sum is the value there plus the units of the
\* other points.
LEMMA TotalSplit ==
  ASSUME NEW S, IsFiniteSet(S), NEW f \in [S -> Nat], NEW x \in S
  PROVE  LET rest == UNION {{y} \X (1 .. f[y]) : y \in S \ {x}}
         IN  /\ IsFiniteSet(rest)
             /\ Total(f) = Cardinality(rest) + f[x]
<1> DEFINE rest == UNION {{y} \X (1 .. f[y]) : y \in S \ {x}}
           here == {x} \X (1 .. f[x])
<1>1. IsFiniteSet(UnitsOf(f))
  BY TotalType
<1>2. rest = UnitsOf(f) \ here
  BY DEF UnitsOf
<1>3. UnitsOf(f) \cap here = here
  BY DEF UnitsOf
<1>4. IsFiniteSet(here) /\ Cardinality(here) = f[x]
  BY ColumnCardinality
<1>5. /\ IsFiniteSet(rest)
      /\ Cardinality(rest) = Cardinality(UnitsOf(f)) - f[x]
  <2> HIDE DEF rest, here
  <2>1. /\ IsFiniteSet(UnitsOf(f) \ here)
        /\ Cardinality(UnitsOf(f) \ here)
             = Cardinality(UnitsOf(f)) - Cardinality(UnitsOf(f) \cap here)
    BY <1>1, FS_Difference
  <2> QED
    BY <1>2, <1>3, <1>4, <2>1
<1>6. Cardinality(UnitsOf(f)) \in Nat /\ f[x] \in Nat
  BY <1>1, FS_CardinalityType
<1> HIDE DEF rest
<1>7. Cardinality(rest) \in Nat
  BY <1>5, FS_CardinalityType
<1>8. Total(f) = Cardinality(rest) + f[x]
  BY <1>5, <1>6, <1>7 DEF Total
<1> QED
  BY <1>5, <1>8 DEF rest

\* Changing a function at one point changes its sum by that much.
THEOREM TotalUpdate ==
  ASSUME NEW S, IsFiniteSet(S),
         NEW f \in [S -> Nat], NEW g \in [S -> Nat], NEW x \in S,
         \A y \in S \ {x} : g[y] = f[y]
  PROVE  Total(g) = Total(f) - f[x] + g[x]
<1> DEFINE restf == UNION {{y} \X (1 .. f[y]) : y \in S \ {x}}
           restg == UNION {{y} \X (1 .. g[y]) : y \in S \ {x}}
<1>1. restf = restg
  OBVIOUS
<1>2. IsFiniteSet(restf) /\ Total(f) = Cardinality(restf) + f[x]
  BY TotalSplit
<1>3. Total(g) = Cardinality(restg) + g[x]
  BY TotalSplit
<1>4. Cardinality(restf) \in Nat
  BY <1>2, FS_CardinalityType
<1> HIDE DEF restf, restg
<1> QED
  BY <1>1, <1>2, <1>3, <1>4

\* No term exceeds the sum.
THEOREM TotalMember ==
  ASSUME NEW S, IsFiniteSet(S), NEW f \in [S -> Nat], NEW x \in S
  PROVE  f[x] <= Total(f)
<1> DEFINE g == [f EXCEPT ![x] = 0]
<1>1. g \in [S -> Nat] /\ g[x] = 0 /\ \A y \in S \ {x} : g[y] = f[y]
  OBVIOUS
<1>2. Total(g) = Total(f) - f[x] + g[x]
  <2> HIDE DEF g
  <2> QED
    BY <1>1, TotalUpdate
<1>3. Total(g) \in Nat /\ Total(f) \in Nat
  BY <1>1, TotalType
<1> QED
  BY <1>1, <1>2, <1>3

\* A function that is nowhere larger has no larger sum.
THEOREM TotalMonotone ==
  ASSUME NEW S, IsFiniteSet(S),
         NEW f \in [S -> Nat], NEW g \in [S -> Nat],
         \A x \in S : f[x] <= g[x]
  PROVE  Total(f) <= Total(g)
<1>1. UnitsOf(f) \subseteq UnitsOf(g)
  <2> SUFFICES ASSUME NEW u \in UnitsOf(f) PROVE u \in UnitsOf(g)
    OBVIOUS
  <2>1. PICK x \in S : u \in {x} \X (1 .. f[x])
    BY DEF UnitsOf
  <2>2. u \in {x} \X (1 .. g[x])
    BY <2>1
  <2> QED
    BY <2>2 DEF UnitsOf
<1>2. IsFiniteSet(UnitsOf(g))
  BY TotalType
<1> QED
  BY <1>1, <1>2, FS_Subset DEF Total

\* A function that is zero everywhere sums to zero.
THEOREM TotalZero ==
  ASSUME NEW S, NEW f \in [S -> Nat], \A x \in S : f[x] = 0
  PROVE  Total(f) = 0
<1>1. UnitsOf(f) = {}
  BY DEF UnitsOf
<1> QED
  BY <1>1, FS_EmptySet DEF Total

\* A sum with one term replaced.
LEMMA TotalReplaced ==
  ASSUME NEW S, IsFiniteSet(S), NEW f \in [S -> Nat], NEW x \in S, NEW n \in Nat
  PROVE  /\ Total([f EXCEPT ![x] = n]) = Total(f) - f[x] + n
         /\ Total(f) \in Nat /\ f[x] <= Total(f)
<1> DEFINE g == [f EXCEPT ![x] = n]
<1>1. /\ g \in [S -> Nat] /\ g[x] = n /\ \A y \in S \ {x} : g[y] = f[y]
  OBVIOUS
<1> HIDE DEF g
<1>2. Total(g) = Total(f) - f[x] + g[x]
  BY <1>1, TotalUpdate
<1>3. Total(f) \in Nat /\ f[x] <= Total(f)
  BY TotalType, TotalMember
<1> QED
  BY <1>1, <1>2, <1>3 DEF g

\* The sum of two functions point by point sums to what they sum to.
THEOREM TotalSum ==
  ASSUME NEW S, IsFiniteSet(S), NEW f \in [S -> Nat], NEW g \in [S -> Nat]
  PROVE  Total([x \in S |-> f[x] + g[x]]) = Total(f) + Total(g)
<1> DEFINE h == [x \in S |-> f[x] + g[x]]
           above == UnitsOf(h) \ UnitsOf(f)
           raise == [u \in UnitsOf(g) |-> <<u[1], u[2] + f[u[1]]>>]
<1>1. h \in [S -> Nat] /\ \A x \in S : h[x] = f[x] + g[x]
  OBVIOUS
<1> HIDE DEF h
<1>2. IsFiniteSet(UnitsOf(f)) /\ IsFiniteSet(UnitsOf(g)) /\ IsFiniteSet(UnitsOf(h))
  BY <1>1, TotalType
<1>3. \A u : u \in UnitsOf(f) <=> \E x \in S : \E n \in 1 .. f[x] : u = <<x, n>>
  BY DEF UnitsOf
<1>4. \A u : u \in UnitsOf(g) <=> \E x \in S : \E n \in 1 .. g[x] : u = <<x, n>>
  BY DEF UnitsOf
<1>5. \A u : u \in UnitsOf(h) <=> \E x \in S : \E n \in 1 .. h[x] : u = <<x, n>>
  BY <1>1 DEF UnitsOf
<1>6. \A u : u \in above <=> \E x \in S : \E n \in 1 .. g[x] : u = <<x, n + f[x]>>
  <2> SUFFICES ASSUME NEW u
               PROVE  u \in above <=> \E x \in S : \E n \in 1 .. g[x] : u = <<x, n + f[x]>>
    OBVIOUS
  <2>1. ASSUME u \in above PROVE \E x \in S : \E n \in 1 .. g[x] : u = <<x, n + f[x]>>
    <3>1. PICK x \in S, m \in Nat : m \in 1 .. h[x] /\ u = <<x, m>>
      BY <2>1, <1>5
    <3>2. m \notin 1 .. f[x]
      BY <2>1, <3>1, <1>3
    <3>3. f[x] \in Nat /\ g[x] \in Nat /\ h[x] = f[x] + g[x]
      BY <1>1
    <3>4. m - f[x] \in 1 .. g[x] /\ m = (m - f[x]) + f[x]
      BY <3>1, <3>2, <3>3
    <3> QED
      BY <3>1, <3>4
  <2>2. ASSUME NEW x \in S, NEW n \in 1 .. g[x], u = <<x, n + f[x]>> PROVE u \in above
    <3>1. f[x] \in Nat /\ g[x] \in Nat /\ h[x] = f[x] + g[x]
      BY <1>1
    <3>2. n + f[x] \in 1 .. h[x] /\ n + f[x] \notin 1 .. f[x]
      BY <3>1
    <3> QED
      BY <2>2, <3>2, <1>3, <1>5
  <2> QED
    BY <2>1, <2>2
<1> HIDE DEF above
<1>7. ExistsBijection(UnitsOf(g), above)
  <2>1. \A x \in S : \A n \in 1 .. g[x] : <<x, n>> \in UnitsOf(g) /\ raise[<<x, n>>] = <<x, n + f[x]>>
    BY <1>4
  <2>2. raise \in [UnitsOf(g) -> above]
    BY <1>4, <1>6
  <2>3. ASSUME NEW u \in UnitsOf(g), NEW v \in UnitsOf(g), raise[u] = raise[v] PROVE u = v
    <3>1. PICK x \in S, n \in Nat : n \in 1 .. g[x] /\ u = <<x, n>>
      BY <1>4
    <3>2. PICK y \in S, m \in Nat : m \in 1 .. g[y] /\ v = <<y, m>>
      BY <1>4
    <3>3. <<x, n + f[x]>> = <<y, m + f[y]>>
      BY <2>1, <2>3, <3>1, <3>2
    <3> QED
      BY <3>1, <3>2, <3>3
  <2>4. ASSUME NEW t \in above PROVE \E u \in UnitsOf(g) : raise[u] = t
    <3>1. PICK x \in S, n \in Nat : n \in 1 .. g[x] /\ t = <<x, n + f[x]>>
      BY <2>4, <1>6
    <3>2. <<x, n>> \in UnitsOf(g) /\ raise[<<x, n>>] = t
      BY <3>1, <2>1
    <3> HIDE DEF raise
    <3> QED
      BY <3>2
  <2> HIDE DEF raise
  <2>5. raise \in Injection(UnitsOf(g), above)
    BY <2>2, <2>3 DEF Injection, IsInjective
  <2>6. raise \in Surjection(UnitsOf(g), above)
    BY <2>2, <2>4 DEF Surjection
  <2>7. raise \in Bijection(UnitsOf(g), above)
    BY <2>5, <2>6 DEF Bijection
  <2> QED
    BY <2>7 DEF ExistsBijection
<1>8. IsFiniteSet(above) /\ Cardinality(above) = Total(g)
  BY <1>2, <1>7, FS_Bijection DEF Total
<1>9. UnitsOf(f) \subseteq UnitsOf(h)
  <2> SUFFICES ASSUME NEW x \in S, NEW n \in 1 .. f[x] PROVE <<x, n>> \in UnitsOf(h)
    BY <1>3
  <2>1. f[x] \in Nat /\ g[x] \in Nat /\ h[x] = f[x] + g[x]
    BY <1>1
  <2> QED
    BY <2>1, <1>5
<1>10. Cardinality(above) = Cardinality(UnitsOf(h)) - Cardinality(UnitsOf(h) \cap UnitsOf(f))
  BY <1>2, FS_Difference DEF above
<1>11. UnitsOf(h) \cap UnitsOf(f) = UnitsOf(f)
  BY <1>9
<1>12. Total(h) \in Nat /\ Total(f) \in Nat /\ Total(g) \in Nat
  BY <1>1, TotalType
<1>13. Total(h) = Cardinality(UnitsOf(h)) /\ Total(f) = Cardinality(UnitsOf(f))
  BY DEF Total
<1>14. Total(g) = Total(h) - Total(f)
  BY <1>8, <1>10, <1>11, <1>13
<1>15. Total(h) = Total(f) + Total(g)
  BY <1>12, <1>14
<1> QED
  BY <1>15 DEF h

-----------------------------------------------------------------------------

\* Numbers that are some have a least one, because the intervals that they end cannot
\* shrink for ever.
LEMMA LeastOf ==
  ASSUME NEW T, T \subseteq Nat, T # {}
  PROVE  \E x \in T : \A y \in T : x <= y
<1> DEFINE intervals == {0 .. x : x \in T}
<1>1. IsWellFoundedOn(StrictSubsetOrdering(Nat), FiniteSubsetsOf(Nat))
  BY FS_StrictSubsetOrderingWellFounded
<1>2. \A x \in T : x \in Nat /\ IsFiniteSet(0 .. x) /\ 0 .. x \subseteq Nat
  BY FS_Interval
<1>3. intervals \subseteq FiniteSubsetsOf(Nat) /\ intervals # {}
  BY <1>2 DEF FiniteSubsetsOf
<1>4. PICK B \in intervals : \A C \in intervals : <<C, B>> \notin StrictSubsetOrdering(Nat)
  <2> HIDE DEF intervals
  <2> QED
    BY <1>1, <1>3, WFMin
<1>5. PICK x \in T : B = 0 .. x
  OBVIOUS
<1>6. ASSUME NEW y \in T PROVE x <= y
  <2> SUFFICES ASSUME y < x PROVE FALSE
    BY <1>2
  <2>1. /\ 0 .. y \subseteq 0 .. x /\ 0 .. y # 0 .. x
        /\ 0 .. y \subseteq Nat /\ 0 .. x \subseteq Nat
    BY <1>2
  <2>2. <<0 .. y, B>> \in StrictSubsetOrdering(Nat)
    BY <1>5, <2>1, Zenon DEF StrictSubsetOrdering
  <2> QED
    BY <1>4, <2>2
<1> QED
  BY <1>6

\* Induction: a set with zero and the successors of its numbers has them all.
LEMMA FromZeroOn ==
  ASSUME NEW S, 0 \in S, \A n \in Nat : n \in S => n + 1 \in S
  PROVE  Nat \subseteq S
<1> SUFFICES ASSUME Nat \ S # {} PROVE FALSE
  OBVIOUS
<1>1. PICK x \in Nat \ S : \A y \in Nat \ S : x <= y
  BY LeastOf
<1>2. x # 0 /\ x - 1 \in Nat /\ x - 1 \notin Nat \ S
  BY <1>1
<1> QED
  BY <1>1, <1>2

=============================================================================
