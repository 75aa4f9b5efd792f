----------------------------- MODULE GoodsProofs -----------------------------
(***************************************************************************)
(* Theorems about goods in FIFO layers and in loans, and about the balances *)
(* of cash and bank accounts, for every number of products, layers, loans,  *)
(* accounts and requests.                                                   *)
(***************************************************************************)
EXTENDS InventoryLoan, FinanceAccounts, TallyTheorems

-----------------------------------------------------------------------------
(***************************************************************************)
(* Taking the oldest first                                                 *)
(***************************************************************************)

\* What the layers before k hold, in terms of the quantities alone.
Before(f, k) == Total([j \in 1 .. k - 1 |-> f[j]])

\* A layer and all before it are before any later one, and within the whole.
LEMMA BeforeGrows ==
  ASSUME NEW L \in Nat, NEW f \in [1 .. L -> Nat], NEW k \in 1 .. L, NEW m \in k .. L
  PROVE  /\ Before(f, k) \in Nat
         /\ Before(f, k) + f[k] <= Total([j \in 1 .. m |-> f[j]])
<1> DEFINE g == [j \in 1 .. m |-> f[j]]
           a == [j \in 1 .. m |-> IF j < k THEN f[j] ELSE 0]
           b == [j \in 1 .. m |-> IF j < k THEN 0 ELSE f[j]]
           c == [j \in 1 .. k - 1 |-> f[j]]
<1>1. IsFiniteSet(1 .. m) /\ IsFiniteSet(1 .. k - 1)
  BY FS_Interval
<1>2. /\ a \in [1 .. m -> Nat] /\ b \in [1 .. m -> Nat] /\ c \in [1 .. k - 1 -> Nat]
      /\ g = [j \in 1 .. m |-> a[j] + b[j]] /\ k \in 1 .. m /\ b[k] = f[k]
  OBVIOUS
<1>3. UnitsOf(a) = UnitsOf(c)
  <2>1. DOMAIN a = 1 .. m /\ DOMAIN c = 1 .. k - 1
    OBVIOUS
  <2>2. \A j \in 1 .. m : 1 .. a[j] = IF j \in 1 .. k - 1 THEN 1 .. c[j] ELSE {}
    OBVIOUS
  <2>3. 1 .. k - 1 \subseteq 1 .. m
    OBVIOUS
  <2> HIDE DEF a, c
  <2>4. \A u : u \in UnitsOf(a) <=> \E j \in 1 .. m : u \in {j} \X (1 .. a[j])
    BY <2>1 DEF UnitsOf
  <2>5. \A u : u \in UnitsOf(c) <=> \E j \in 1 .. k - 1 : u \in {j} \X (1 .. c[j])
    BY <2>1 DEF UnitsOf
  <2>6. \A j \in 1 .. m : \A u : u \in {j} \X (1 .. a[j]) =>
          j \in 1 .. k - 1 /\ u \in {j} \X (1 .. c[j])
    BY <2>2
  <2>7. \A j \in 1 .. k - 1 : j \in 1 .. m /\ 1 .. a[j] = 1 .. c[j]
    BY <2>2, <2>3
  <2> QED
    BY <2>4, <2>5, <2>6, <2>7
<1> HIDE DEF a, b, c
<1>4. Total(c) \in Nat /\ Total(a) = Total(c)
  BY <1>1, <1>2, <1>3, TotalType DEF Total
<1>5. Total(b) \in Nat /\ f[k] <= Total(b)
  BY <1>1, <1>2, TotalType, TotalMember
<1>6. Total([j \in 1 .. m |-> a[j] + b[j]]) = Total(a) + Total(b)
  BY <1>1, <1>2, TotalSum
<1>7. Total(g) = Total(c) + Total(b)
  BY <1>2, <1>4, <1>6
<1>8. f[k] \in Nat /\ Before(f, k) = Total(c)
  BY DEF Before, c
<1> HIDE DEF g
<1>9. Before(f, k) + f[k] <= Total(g)
  BY <1>4, <1>5, <1>7, <1>8
<1> QED
  BY <1>4, <1>8, <1>9 DEF g

\* What each layer gives when n are taken from the oldest on.
Share(f, n) == [k \in DOMAIN f |-> Least(f[k], Positive(n - Before(f, k)))]

\* Taking oldest first takes exactly what was asked for: unit i of layer k is number
\* Before(k) + i of all, and those numbered up to n are the ones taken.
THEOREM SharesAddUp ==
  ASSUME NEW L \in Nat, NEW f \in [1 .. L -> Nat], NEW n \in Nat, n <= Total(f)
  PROVE  /\ Share(f, n) \in [1 .. L -> Nat]
         /\ \A k \in 1 .. L : Share(f, n)[k] <= f[k]
         /\ Total(Share(f, n)) = n
<1> DEFINE before == [k \in 1 .. L |-> Before(f, k)]
           t      == Share(f, n)
           number == [u \in UnitsOf(f) |-> before[u[1]] + u[2]]
           first  == [u \in UnitsOf(t) |-> number[u]]
           all    == Total(f)
<1>1. IsFiniteSet(1 .. L) /\ all \in Nat /\ IsFiniteSet(UnitsOf(f))
  BY FS_Interval, TotalType
<1>2. before \in [1 .. L -> Nat]
  BY BeforeGrows
<1>3. \A k \in 1 .. L : before[k] + f[k] <= all
  <2> SUFFICES ASSUME NEW k \in 1 .. L PROVE before[k] + f[k] <= all
    OBVIOUS
  <2>1. [j \in 1 .. L |-> f[j]] = f /\ L \in k .. L
    OBVIOUS
  <2>2. Before(f, k) + f[k] <= Total([j \in 1 .. L |-> f[j]])
    BY <2>1, BeforeGrows
  <2> QED
    BY <2>1, <2>2
<1>4. \A k, j \in 1 .. L : k < j => before[k] + f[k] <= before[j]
  <2> SUFFICES ASSUME NEW k \in 1 .. L, NEW j \in 1 .. L, k < j
               PROVE  before[k] + f[k] <= before[j]
    OBVIOUS
  <2>1. j - 1 \in k .. L
    OBVIOUS
  <2>2. Before(f, k) + f[k] <= Total([i \in 1 .. j - 1 |-> f[i]])
    BY <2>1, BeforeGrows
  <2> QED
    BY <2>2 DEF Before
<1>5. /\ t \in [1 .. L -> Nat]
      /\ \A k \in 1 .. L : t[k] = IF n <= before[k] THEN 0
                                  ELSE IF f[k] < n - before[k] THEN f[k] ELSE n - before[k]
  <2>1. \A k \in 1 .. L : f[k] \in Nat /\ before[k] \in Nat /\ before[k] = Before(f, k)
    BY <1>2
  <2>2. DOMAIN f = 1 .. L
    OBVIOUS
  <2> HIDE DEF before
  <2> QED
    BY <2>1, <2>2 DEF Share, Least, Positive
<1> HIDE DEF before, t, all
<1>6. \A u : u \in UnitsOf(f) <=> \E k \in 1 .. L : \E i \in 1 .. f[k] : u = <<k, i>>
  BY DEF UnitsOf
<1>7. \A u : u \in UnitsOf(t) <=> \E k \in 1 .. L : \E i \in 1 .. t[k] : u = <<k, i>>
  BY <1>5 DEF UnitsOf
<1>8. \A k \in 1 .. L : \A i \in 1 .. f[k] :
        <<k, i>> \in UnitsOf(f) /\ number[<<k, i>>] = before[k] + i
  BY <1>6
<1> HIDE DEF number
<1>9. \A k \in 1 .. L : \A i \in 1 .. f[k] : i \in Nat /\ before[k] + i \in 1 .. all
  BY <1>1, <1>2, <1>3
<1>10. number \in [UnitsOf(f) -> 1 .. all]
  <2>1. \A u \in UnitsOf(f) : number[u] \in 1 .. all
    <3> SUFFICES ASSUME NEW u \in UnitsOf(f) PROVE number[u] \in 1 .. all
      OBVIOUS
    <3>1. PICK k \in 1 .. L : \E i \in 1 .. f[k] : u = <<k, i>>
      BY <1>6
    <3>2. PICK i \in 1 .. f[k] : u = <<k, i>>
      BY <3>1
    <3> QED
      BY <3>2, <1>8, <1>9
  <2> QED
    BY <2>1 DEF number
<1>11. ASSUME NEW u \in UnitsOf(f), NEW v \in UnitsOf(f), number[u] = number[v] PROVE u = v
  <2>1. PICK k \in 1 .. L, i \in Nat : i \in 1 .. f[k] /\ u = <<k, i>>
    BY <1>6, <1>9
  <2>2. PICK j \in 1 .. L, h \in Nat : h \in 1 .. f[j] /\ v = <<j, h>>
    BY <1>6, <1>9
  <2>3. before[k] + i = before[j] + h
    BY <1>8, <1>11, <2>1, <2>2
  <2>4. before[k] \in Nat /\ before[j] \in Nat /\ f[k] \in Nat /\ f[j] \in Nat
    BY <1>2
  <2>5. /\ k < j => before[k] + f[k] <= before[j]
        /\ j < k => before[j] + f[j] <= before[k]
        /\ i >= 1 /\ i <= f[k] /\ h >= 1 /\ h <= f[j]
    BY <1>4, <2>1, <2>2, <2>4
  <2>6. ~(k < j)
    BY <2>3, <2>4, <2>5
  <2>7. ~(j < k)
    BY <2>3, <2>4, <2>5
  <2>8. k = j
    BY <2>6, <2>7
  <2> QED
    BY <2>1, <2>2, <2>3, <2>4, <2>8
<1>12. number \in Injection(UnitsOf(f), 1 .. all)
  BY <1>10, <1>11 DEF Injection, IsInjective
<1>13. IsFiniteSet(1 .. all) /\ Cardinality(1 .. all) = all /\ Cardinality(UnitsOf(f)) = all
  <2>1. Cardinality(UnitsOf(f)) = all
    BY DEF all, Total
  <2> QED
    BY <1>1, <2>1, FS_Interval
<1>14. \A c \in 1 .. all : \E u \in UnitsOf(f) : number[u] = c
  <2>1. number \in Surjection(UnitsOf(f), 1 .. all)
    BY <1>12, <1>13, FS_Injection
  <2> QED
    BY <2>1 DEF Surjection
<1>15. \A k \in 1 .. L : \A i \in 1 .. f[k] : i \in 1 .. t[k] <=> before[k] + i <= n
  <2> SUFFICES ASSUME NEW k \in 1 .. L, NEW i \in 1 .. f[k]
               PROVE  i \in 1 .. t[k] <=> before[k] + i <= n
    OBVIOUS
  <2>1. f[k] \in Nat /\ before[k] \in Nat /\ i \in Nat /\ i >= 1 /\ i <= f[k]
    BY <1>2
  <2>2. t[k] = IF n <= before[k] THEN 0 ELSE IF f[k] < n - before[k] THEN f[k] ELSE n - before[k]
    BY <1>5
  <2> QED
    BY <2>1, <2>2
<1>16. \A k \in 1 .. L : t[k] \in Nat /\ t[k] <= f[k]
  <2>1. \A k \in 1 .. L : f[k] \in Nat /\ before[k] \in Nat
    BY <1>2
  <2> QED
    BY <2>1, <1>5
<1>17. \A u : u \in UnitsOf(t) <=> u \in UnitsOf(f) /\ number[u] <= n
  <2>1. ASSUME NEW u \in UnitsOf(t) PROVE u \in UnitsOf(f) /\ number[u] <= n
    <3>1. PICK k \in 1 .. L, i \in Nat : i \in 1 .. t[k] /\ u = <<k, i>>
      BY <1>7, <1>16
    <3>2. i \in 1 .. f[k]
      BY <3>1, <1>16
    <3> QED
      BY <3>1, <3>2, <1>8, <1>15
  <2>2. ASSUME NEW u \in UnitsOf(f), number[u] <= n PROVE u \in UnitsOf(t)
    <3>1. PICK k \in 1 .. L, i \in Nat : i \in 1 .. f[k] /\ u = <<k, i>>
      BY <1>6, <1>9
    <3> QED
      BY <2>2, <3>1, <1>7, <1>8, <1>15
  <2> QED
    BY <2>1, <2>2
<1>18. first \in Bijection(UnitsOf(t), 1 .. n)
  <2>1. \A u \in UnitsOf(f) : number[u] \in Nat /\ number[u] >= 1
    BY <1>1, <1>10
  <2>2. \A u \in UnitsOf(t) : first[u] = number[u] /\ number[u] \in 1 .. n
    BY <2>1, <1>17
  <2>3. first \in [UnitsOf(t) -> 1 .. n]
    BY <2>2
  <2>4. \A u, v \in UnitsOf(t) : first[u] = first[v] => u = v
    BY <2>2, <1>11, <1>17
  <2>5. ASSUME NEW c \in 1 .. n PROVE \E u \in UnitsOf(t) : first[u] = c
    <3>1. c \in 1 .. all /\ c <= n
      BY <1>1 DEF all
    <3>2. PICK u \in UnitsOf(f) : number[u] = c
      BY <3>1, <1>14
    <3> QED
      BY <3>1, <3>2, <2>2, <1>17
  <2> HIDE DEF first
  <2> QED
    BY <2>3, <2>4, <2>5 DEF Bijection, Injection, IsInjective, Surjection
<1>19. IsFiniteSet(UnitsOf(t))
  BY <1>1, <1>5, TotalType
<1>20. ExistsBijection(UnitsOf(t), 1 .. n)
  BY <1>18, Zenon DEF ExistsBijection
<1>21. Cardinality(UnitsOf(t)) = n
  <2>1. Cardinality(1 .. n) = n
    BY FS_Interval
  <2>2. Cardinality(1 .. n) = Cardinality(UnitsOf(t))
    BY <1>19, <1>20, FS_Bijection
  <2> QED
    BY <2>1, <2>2
<1> QED
  BY <1>5, <1>16, <1>21 DEF t, Total
\* One more term is one more summand.
LEMMA TotalAppend ==
  ASSUME NEW L \in Nat, NEW f \in [1 .. L + 1 -> Nat]
  PROVE  Total(f) = Total([k \in 1 .. L |-> f[k]]) + f[L + 1]
<1> DEFINE g    == [k \in 1 .. L |-> f[k]]
           last == L + 1
           rest == UNION {{y} \X (1 .. f[y]) : y \in (1 .. last) \ {last}}
<1>1. (1 .. last) \ {last} = 1 .. L /\ last \in 1 .. last /\ IsFiniteSet(1 .. last)
  <2>1. \A y : y \in (1 .. last) \ {last} <=> y \in 1 .. L
    OBVIOUS
  <2>2. last \in 1 .. last /\ last \in Int
    OBVIOUS
  <2>3. IsFiniteSet(1 .. last)
    BY <2>2, FS_Interval
  <2> HIDE DEF last
  <2>4. (1 .. last) \ {last} = 1 .. L
    BY <2>1
  <2> QED
    BY <2>2, <2>3, <2>4
<1>2. Total(f) = Cardinality(rest) + f[last]
  BY <1>1, TotalSplit
<1>3. rest = UnitsOf(g)
  <2>1. DOMAIN g = 1 .. L /\ \A y \in 1 .. L : g[y] = f[y]
    OBVIOUS
  <2> HIDE DEF g, last
  <2>2. \A u : u \in rest <=> \E y \in 1 .. L : u \in {y} \X (1 .. f[y])
    BY <1>1
  <2>3. \A u : u \in UnitsOf(g) <=> \E y \in 1 .. L : u \in {y} \X (1 .. g[y])
    BY <2>1 DEF UnitsOf
  <2> HIDE DEF rest
  <2>4. \A u : u \in rest <=> u \in UnitsOf(g)
    BY <2>1, <2>2, <2>3
  <2> QED
    BY <2>4
<1> QED
  BY <1>2, <1>3 DEF Total

\* Whole division of naturals is a natural.
LEMMA Quotient ==
  ASSUME NEW a \in Nat, NEW b \in Nat, b # 0
  PROVE  a \div b \in Nat
OBVIOUS

\* The product of naturals is a natural.
LEMMA Product ==
  ASSUME NEW a \in Nat, NEW b \in Nat
  PROVE  a * b \in Nat
OBVIOUS

\* A quotient is known by its multiple of the divisor.
LEMMA QuotientIs ==
  ASSUME NEW a \in Nat, NEW b \in Nat, NEW q \in Nat, q * b <= a, a < q * b + b
  PROVE  a \div b = q
OBVIOUS

\* Some units of a layer cost no more than it is worth, all of them just that, and where
\* a unit has a whole cost, so many times that.
LEMMA RoundedCost ==
  ASSUME NEW v \in Nat, NEW m \in Nat, m # 0, NEW n \in 1 .. m,
         NEW cost, cost = (2 * v * n + m) \div (2 * m)
  PROVE  /\ cost \in Nat /\ cost <= v
         /\ n = m => cost = v
         /\ \A c \in Nat : v = m * c => cost = n * c
<1> DEFINE a == 2 * v * n + m
           b == 2 * m
<1>1. a \in Nat /\ b \in Nat /\ b # 0
  OBVIOUS
<1>2. cost \in Nat
  BY <1>1, Quotient DEF a, b
<1>3. ASSUME n = m PROVE cost = v
  <2>1. v * b <= a /\ a < v * b + b
    BY <1>3
  <2> QED
    BY <1>1, <2>1, QuotientIs
<1>4. ASSUME NEW c \in Nat, v = m * c PROVE cost = n * c
  <2>1. n * c \in Nat /\ a = (n * c) * b + m
    BY <1>4
  <2>2. (n * c) * b <= a /\ a < (n * c) * b + b
    BY <2>1
  <2> QED
    BY <1>1, <2>1, <2>2, QuotientIs
<1>5. cost <= v
  <2>1. v * n <= v * m
    OBVIOUS
  <2>2. a <= v * b + m
    BY <2>1
  <2>3. a < (v + 1) * b
    BY <2>2
  <2>4. cost * b <= a
    BY <1>1, <1>2
  <2> QED
    BY <1>1, <1>2, <2>3, <2>4
<1> QED
  BY <1>2, <1>3, <1>4, <1>5

Origins   == {"PURCHASE_INVOICE", "INVENTORY_TRANSFORMATION", "INVENTORY_LOAN_RETURN"} \cup Loans

\* Layers, of which an emptied one is worth nothing.
LayerRows ==
  {row \in [origin : Origins, left : Nat, value : Nat] : row.left = 0 => row.value = 0}

\* Taking n units leaves a layer with n fewer and with what it is worth less their cost.
LEMMA TakeLayerIs ==
  ASSUME NEW layer \in LayerRows, NEW n \in Nat, n <= layer.left
  PROVE  /\ Cost(layer, n) \in Nat /\ Cost(layer, n) <= layer.value
         /\ TakeLayer(layer, n) = [layer EXCEPT !.left  = layer.left - n,
                                                !.value = layer.value - Cost(layer, n)]
         /\ TakeLayer(layer, n) \in LayerRows
         /\ \A c \in Nat : layer.value = layer.left * c => Cost(layer, n) = n * c
<1> DEFINE v == layer.value
           m == layer.left
<1>1. v \in Nat /\ m \in Nat /\ layer.origin \in Origins /\ (m = 0 => v = 0)
      /\ layer = [origin |-> layer.origin, left |-> m, value |-> v]
  BY DEF LayerRows
<1>2. /\ Cost(layer, n) \in Nat /\ Cost(layer, n) <= v
      /\ n = m => Cost(layer, n) = v
      /\ \A c \in Nat : v = m * c => Cost(layer, n) = n * c
  <2>1. CASE n = 0
    <3>1. Cost(layer, n) = 0
      BY <2>1 DEF Cost
    <3> QED
      BY <1>1, <2>1, <3>1
  <2>2. CASE n # 0
    <3>1. m # 0 /\ n \in 1 .. m
      BY <1>1, <2>2
    <3>2. Cost(layer, n) = (2 * v * n + m) \div (2 * m)
      BY <2>2 DEF Cost
    <3> QED
      BY <1>1, <3>1, <3>2, RoundedCost
  <2> QED
    BY <2>1, <2>2
<1>3. TakeLayer(layer, n) = [layer EXCEPT !.left = m - n, !.value = Positive(v - Cost(layer, n))]
  BY DEF TakeLayer
<1>4. Positive(v - Cost(layer, n)) = v - Cost(layer, n) /\ v - Cost(layer, n) \in Nat /\ m - n \in Nat
  BY <1>1, <1>2 DEF Positive
<1>5. m - n = 0 => v - Cost(layer, n) = 0
  BY <1>1, <1>2
<1>6. TakeLayer(layer, n) \in LayerRows
  BY <1>1, <1>3, <1>4, <1>5 DEF LayerRows
<1> QED
  BY <1>2, <1>3, <1>4, <1>6

\* Taking n units leaves a layer with n fewer and with the origin it had.
LEMMA TakeLayerType ==
  ASSUME NEW layer \in LayerRows, NEW n \in Nat, n <= layer.left
  PROVE  /\ Cost(layer, n) \in Nat
         /\ TakeLayer(layer, n) \in LayerRows
         /\ TakeLayer(layer, n).left = layer.left - n
         /\ TakeLayer(layer, n).value = layer.value - Cost(layer, n)
         /\ TakeLayer(layer, n).origin = layer.origin
<1>1. layer \in [origin : Origins, left : Nat, value : Nat]
  BY DEF LayerRows
<1> DEFINE cost == Cost(layer, n)
           rest == layer.value - cost
<1>2. TakeLayer(layer, n) = [layer EXCEPT !.left = layer.left - n, !.value = rest]
  BY TakeLayerIs
<1> HIDE DEF cost, rest
<1>3. /\ TakeLayer(layer, n).left = layer.left - n /\ TakeLayer(layer, n).value = rest
      /\ TakeLayer(layer, n).origin = layer.origin
  BY <1>1, <1>2
<1> QED
  BY <1>3, TakeLayerIs DEF rest, cost

\* A function on 1 .. L is a sequence of length L.
LEMMA FunctionIsSequence ==
  ASSUME NEW S, NEW L \in Nat, NEW g \in [1 .. L -> S]
  PROVE  g \in Seq(S) /\ Len(g) = L /\ DOMAIN g = 1 .. L
<1>1. \E n \in Nat : g \in [1 .. n -> S]
  OBVIOUS
<1>2. g \in Seq(S)
  BY <1>1
<1> QED
  BY <1>2

\* What a layer holds, as a function.
Lefts(ls) == [k \in DOMAIN ls |-> ls[k].left]

\* What is left in the layers of a product is a finite function to naturals.
LEMMA LeftsType ==
  ASSUME NEW ls \in Seq(LayerRows)
  PROVE  /\ Len(ls) \in Nat /\ DOMAIN ls = 1 .. Len(ls) /\ IsFiniteSet(1 .. Len(ls))
         /\ Lefts(ls) \in [1 .. Len(ls) -> Nat]
         /\ Left(ls) = Total(Lefts(ls)) /\ Left(ls) \in Nat
         /\ \A k \in 1 .. Len(ls) : ls[k] \in LayerRows /\ ls[k].left \in Nat
<1>1. Len(ls) \in Nat /\ DOMAIN ls = 1 .. Len(ls)
  OBVIOUS
<1>2. \A k \in 1 .. Len(ls) : ls[k] \in LayerRows /\ ls[k].left \in Nat
  <2>1. \A k \in 1 .. Len(ls) : ls[k] \in LayerRows
    OBVIOUS
  <2> QED
    BY <2>1 DEF LayerRows
<1>3. Lefts(ls) \in [1 .. Len(ls) -> Nat]
  BY <1>1, <1>2 DEF Lefts
<1>4. Left(ls) = Total(Lefts(ls))
  BY DEF Left, Lefts
<1>5. IsFiniteSet(1 .. Len(ls))
  BY <1>1, FS_Interval
<1>6. Total(Lefts(ls)) \in Nat
  BY <1>3, <1>5, TotalType
<1> QED
  BY <1>1, <1>2, <1>3, <1>4, <1>5, <1>6

\* A new layer adds what it holds.
LEMMA LeftOfAppended ==
  ASSUME NEW ls \in Seq(LayerRows), NEW layer \in LayerRows
  PROVE  /\ Append(ls, layer) \in Seq(LayerRows) /\ Len(Append(ls, layer)) = Len(ls) + 1
         /\ Left(Append(ls, layer)) = Left(ls) + layer.left
<1> DEFINE new == Append(ls, layer)
           L   == Len(ls)
           f   == Lefts(new)
<1>1. new \in Seq(LayerRows) /\ Len(new) = L + 1 /\ L \in Nat
  OBVIOUS
<1>2. new[L + 1] = layer /\ \A k \in 1 .. L : new[k] = ls[k]
  OBVIOUS
<1> HIDE DEF new
<1>3. f \in [1 .. L + 1 -> Nat] /\ Left(new) = Total(f) /\ DOMAIN new = 1 .. L + 1
  BY <1>1, LeftsType
<1>4. DOMAIN ls = 1 .. L /\ Left(ls) = Total(Lefts(ls))
  BY LeftsType
<1> HIDE DEF L
<1>5. f[L + 1] = layer.left /\ \A k \in 1 .. L : f[k] = ls[k].left
  BY <1>1, <1>2, <1>3 DEF Lefts
<1>6. [k \in 1 .. L |-> f[k]] = Lefts(ls)
  BY <1>4, <1>5 DEF Lefts
<1> HIDE DEF f
<1>7. Total(f) = Total([k \in 1 .. L |-> f[k]]) + f[L + 1]
  BY <1>1, <1>3, TotalAppend
<1> QED
  BY <1>1, <1>3, <1>4, <1>5, <1>6, <1>7 DEF new, L

\* What one layer gives is missing from it and from the whole.
LEMMA LeftOfTaken ==
  ASSUME NEW ls \in Seq(LayerRows), NEW k \in DOMAIN ls, NEW row \in LayerRows
  PROVE  /\ [ls EXCEPT ![k] = row] \in Seq(LayerRows) /\ Len([ls EXCEPT ![k] = row]) = Len(ls)
         /\ Left([ls EXCEPT ![k] = row]) = Left(ls) - ls[k].left + row.left
         /\ ls[k].left <= Left(ls)
<1> DEFINE new == [ls EXCEPT ![k] = row]
           S   == 1 .. Len(ls)
<1>1. new \in Seq(LayerRows) /\ Len(new) = Len(ls)
  OBVIOUS
<1>2. new[k] = row /\ \A j \in S : j # k => new[j] = ls[j]
  OBVIOUS
<1> HIDE DEF new
<1>3. /\ Lefts(new) \in [S -> Nat] /\ Left(new) = Total(Lefts(new)) /\ DOMAIN new = S
      /\ Lefts(ls) \in [S -> Nat] /\ Left(ls) = Total(Lefts(ls)) /\ DOMAIN ls = S
      /\ IsFiniteSet(S) /\ k \in S
  BY <1>1, LeftsType
<1> HIDE DEF S
<1>4. /\ Lefts(new)[k] = row.left /\ Lefts(ls)[k] = ls[k].left
      /\ \A j \in S \ {k} : Lefts(new)[j] = Lefts(ls)[j]
  BY <1>2, <1>3 DEF Lefts
<1>5. Total(Lefts(new)) = Total(Lefts(ls)) - Lefts(ls)[k] + Lefts(new)[k]
  BY <1>3, <1>4, TotalUpdate
<1>6. Lefts(ls)[k] <= Total(Lefts(ls))
  BY <1>3, TotalMember
<1> QED
  BY <1>1, <1>3, <1>4, <1>5, <1>6 DEF new

\* consumeFifoLayers: the layers give together what was asked for, none of them more than
\* it holds, and cost what is worth a natural number.
LEMMA ConsumeTakes ==
  ASSUME NEW ls \in Seq(LayerRows), NEW n \in Nat, CanConsume(ls, n)
  PROVE  /\ Consume(ls, n) \in Seq(LayerRows) /\ Len(Consume(ls, n)) = Len(ls)
         /\ Left(Consume(ls, n)) = Left(ls) - n
         /\ \A k \in DOMAIN ls : /\ Consume(ls, n)[k].left <= ls[k].left
                                 /\ Consume(ls, n)[k].origin = ls[k].origin
         /\ ConsumedCost(ls, n) \in Nat
<1> DEFINE S == 1 .. Len(ls)
           f == Lefts(ls)
           t == Share(f, n)
           g == [k \in S |-> TakeLayer(ls[k], Taken(ls, n, k))]
<1>1. /\ Len(ls) \in Nat /\ DOMAIN ls = S /\ IsFiniteSet(S) /\ f \in [S -> Nat]
      /\ Left(ls) = Total(f) /\ Left(ls) \in Nat
      /\ \A k \in S : ls[k] \in LayerRows /\ f[k] = ls[k].left
  BY LeftsType DEF Lefts
<1>2. n <= Total(f)
  BY <1>1 DEF CanConsume
<1>3. t \in [S -> Nat] /\ (\A k \in S : t[k] <= f[k]) /\ Total(t) = n
  BY <1>1, <1>2, SharesAddUp
<1>4. \A k \in S : Taken(ls, n, k) = t[k]
  <2> SUFFICES ASSUME NEW k \in S PROVE Taken(ls, n, k) = t[k]
    OBVIOUS
  <2>1. [j \in 1 .. k - 1 |-> ls[j].left] = [j \in 1 .. k - 1 |-> f[j]]
    BY <1>1
  <2>2. OlderThan(ls, k) = Before(f, k)
    BY <2>1 DEF OlderThan, Before
  <2>3. t[k] = Least(f[k], Positive(n - Before(f, k)))
    BY <1>1 DEF Share
  <2> QED
    BY <1>1, <2>2, <2>3 DEF Taken
<1> HIDE DEF S, f, t
<1>5. \A k \in S : /\ Cost(ls[k], t[k]) \in Nat /\ TakeLayer(ls[k], t[k]) \in LayerRows
                   /\ TakeLayer(ls[k], t[k]).left = f[k] - t[k]
                   /\ TakeLayer(ls[k], t[k]).origin = ls[k].origin
  BY <1>1, <1>3, TakeLayerType
<1>6. g \in [S -> LayerRows] /\ \A k \in S : g[k] = TakeLayer(ls[k], t[k])
  BY <1>4, <1>5
<1> HIDE DEF g
<1>7. g \in Seq(LayerRows) /\ Len(g) = Len(ls) /\ DOMAIN g = S
  BY <1>1, <1>6, FunctionIsSequence DEF S
<1>8. Consume(ls, n) = g
  <2>1. Consume(ls, n) = SubSeq(g, 1, Len(ls))
    BY <1>1 DEF Consume, g
  <2> QED
    BY <2>1, <1>7
<1>9. /\ Lefts(g) \in [S -> Nat] /\ Left(g) = Total(Lefts(g)) /\ Left(g) \in Nat
      /\ \A k \in S : Lefts(g)[k] = f[k] - t[k]
  <2>1. /\ Lefts(g) \in [1 .. Len(g) -> Nat] /\ Left(g) = Total(Lefts(g)) /\ Left(g) \in Nat
    BY <1>7, LeftsType
  <2>2. 1 .. Len(g) = S
    BY <1>7 DEF S
  <2>3. \A k \in S : Lefts(g)[k] = g[k].left
    BY <1>7 DEF Lefts
  <2> QED
    BY <2>1, <2>2, <2>3, <1>5, <1>6
<1>10. Total(f) = Total(Lefts(g)) + Total(t)
  <2>1. f = [k \in S |-> Lefts(g)[k] + t[k]]
    <3>1. \A k \in S : f[k] \in Nat /\ t[k] \in Nat /\ Lefts(g)[k] = f[k] - t[k]
      BY <1>1, <1>3, <1>9
    <3>2. \A k \in S : f[k] = Lefts(g)[k] + t[k]
      BY <3>1
    <3> QED
      BY <3>2, <1>1
  <2>2. Total([k \in S |-> Lefts(g)[k] + t[k]]) = Total(Lefts(g)) + Total(t)
    BY <1>1, <1>3, <1>9, TotalSum
  <2> QED
    BY <2>1, <2>2
<1>11. Left(g) = Left(ls) - n
  BY <1>1, <1>3, <1>9, <1>10
<1>12. \A k \in S : g[k].left <= ls[k].left /\ g[k].origin = ls[k].origin
  BY <1>1, <1>3, <1>5, <1>6
<1>13. ConsumedCost(ls, n) \in Nat
  <2> DEFINE c == [k \in S |-> Cost(ls[k], t[k])]
  <2>1. c \in [S -> Nat]
    BY <1>5
  <2>2. ConsumedCost(ls, n) = Total(c)
    BY <1>1, <1>4 DEF ConsumedCost
  <2> HIDE DEF c
  <2> QED
    BY <1>1, <2>1, <2>2, TotalType
<1> QED
  BY <1>1, <1>7, <1>8, <1>11, <1>12, <1>13
-----------------------------------------------------------------------------
(***************************************************************************)
(* One unit after the other                                                *)
(***************************************************************************)

\* What each layer gives, by its number of units alone.
LEMMA TakenIs ==
  ASSUME NEW ls \in Seq(LayerRows), NEW n \in Nat, n <= Left(ls)
  PROVE  \A k \in 1 .. Len(ls) : /\ Taken(ls, n, k) = Share(Lefts(ls), n)[k]
                                 /\ Taken(ls, n, k) \in Nat
                                 /\ Taken(ls, n, k) <= ls[k].left
<1> DEFINE f == Lefts(ls)
           L == Len(ls)
<1>1. /\ L \in Nat /\ DOMAIN ls = 1 .. L /\ f \in [1 .. L -> Nat] /\ n <= Total(f)
      /\ \A k \in 1 .. L : f[k] = ls[k].left
  BY LeftsType DEF Lefts
<1> SUFFICES ASSUME NEW k \in 1 .. L
             PROVE  /\ Taken(ls, n, k) = Share(f, n)[k]
                    /\ Share(f, n)[k] \in Nat /\ Share(f, n)[k] <= ls[k].left
  BY Zenon DEF f, L
<1> HIDE DEF f, L
<1>2. Share(f, n) \in [1 .. L -> Nat] /\ Share(f, n)[k] <= f[k]
  BY <1>1, SharesAddUp
<1>3. [j \in 1 .. k - 1 |-> ls[j].left] = [j \in 1 .. k - 1 |-> f[j]]
  BY <1>1
<1>4. OlderThan(ls, k) = Before(f, k)
  BY <1>3 DEF OlderThan, Before
<1>5. Share(f, n)[k] = Least(f[k], Positive(n - Before(f, k)))
  BY <1>1 DEF Share
<1> QED
  BY <1>1, <1>2, <1>4, <1>5 DEF Taken

\* What a layer gives.
LEMMA ShareAt ==
  ASSUME NEW L \in Nat, NEW f \in [1 .. L -> Nat], NEW n \in Nat, NEW k \in 1 .. L
  PROVE  Share(f, n)[k] = Least(f[k], Positive(n - Before(f, k)))
BY DEF Share

\* A layer that gives all it has for n units gives no more for another one.
LEMMA GivesAll ==
  ASSUME NEW a \in Nat, NEW b \in Nat, NEW n \in Nat, Least(a, Positive(n - b)) = a
  PROVE  Least(a, Positive((n + 1) - b)) = a
<1>1. CASE n - b < 0
  BY <1>1 DEF Least, Positive
<1>2. CASE ~(n - b < 0)
  <2>1. Positive(n - b) = n - b /\ Positive((n + 1) - b) = (n + 1) - b
    BY <1>2 DEF Positive
  <2> QED
    BY <2>1 DEF Least
<1> QED
  BY <1>1, <1>2

\* One unit more comes from the oldest layer that does not give all it has.
LEMMA NextUnit ==
  ASSUME NEW L \in Nat, NEW f \in [1 .. L -> Nat], NEW n \in Nat, n < Total(f)
  PROVE  \E k \in 1 .. L :
           /\ Share(f, n)[k] < f[k] /\ \A j \in 1 .. k - 1 : Share(f, n)[j] = f[j]
           /\ Share(f, n + 1)[k] = Share(f, n)[k] + 1
           /\ \A j \in 1 .. L : j # k => Share(f, n + 1)[j] = Share(f, n)[j]
<1> DEFINE t == Share(f, n)
           u == Share(f, n + 1)
<1>1. t \in [1 .. L -> Nat] /\ Total(t) = n /\ \A k \in 1 .. L : t[k] <= f[k]
  <2>1. Total(f) \in Nat
    BY FS_Interval, TotalType
  <2>2. n <= Total(f)
    BY <2>1
  <2> QED
    BY <2>2, SharesAddUp
<1>2. \A k \in 1 .. L : Before(f, k) \in Nat
  <2> SUFFICES ASSUME NEW k \in 1 .. L PROVE Before(f, k) \in Nat
    OBVIOUS
  <2>1. L \in k .. L
    OBVIOUS
  <2> QED
    BY <2>1, BeforeGrows
<1>3. \A k \in 1 .. L : /\ t[k] = Least(f[k], Positive(n - Before(f, k)))
                        /\ u[k] = Least(f[k], Positive((n + 1) - Before(f, k)))
  <2> SUFFICES ASSUME NEW k \in 1 .. L
               PROVE  /\ t[k] = Least(f[k], Positive(n - Before(f, k)))
                      /\ u[k] = Least(f[k], Positive((n + 1) - Before(f, k)))
    BY Zenon
  <2>1. n + 1 \in Nat
    OBVIOUS
  <2> QED
    BY <2>1, ShareAt
<1> HIDE DEF t, u
<1>4. {k \in 1 .. L : t[k] < f[k]} # {}
  <2> SUFFICES ASSUME {k \in 1 .. L : t[k] < f[k]} = {} PROVE FALSE
    OBVIOUS
  <2>0. ASSUME NEW k \in 1 .. L PROVE t[k] = f[k]
    <3>1. t[k] \in Nat /\ f[k] \in Nat /\ t[k] <= f[k] /\ ~(t[k] < f[k])
      BY <1>1
    <3> QED
      BY <3>1
  <2>1. t = f
    BY <1>1, <2>0
  <2> QED
    BY <1>1, <2>1
<1>5. PICK k \in 1 .. L : t[k] < f[k] /\ \A j \in 1 .. L : t[j] < f[j] => k <= j
  <2> DEFINE T == {k \in 1 .. L : t[k] < f[k]}
  <2>1. T \subseteq Nat
    OBVIOUS
  <2>2. \E x \in T : \A y \in T : x <= y
    <3> HIDE DEF T
    <3> QED
      BY <1>4, <2>1, LeastOf DEF T
  <2> QED
    BY <2>2
<1>6. \A j \in 1 .. k - 1 : t[j] = f[j]
  <2> SUFFICES ASSUME NEW j \in 1 .. k - 1 PROVE t[j] = f[j]
    OBVIOUS
  <2>1. j \in 1 .. L /\ ~(k <= j) /\ t[j] \in Nat /\ f[j] \in Nat /\ t[j] <= f[j]
    BY <1>1
  <2> QED
    BY <2>1, <1>5
<1>7. t[k] = n - Before(f, k)
  <2>1. [j \in 1 .. k - 1 |-> t[j]] = [j \in 1 .. k - 1 |-> f[j]]
    BY <1>6
  <2>2. Before(t, k) = Before(f, k)
    BY <2>1 DEF Before
  <2>3. L \in k .. L /\ [j \in 1 .. L |-> t[j]] = t
    BY <1>1
  <2>4. Before(t, k) + t[k] <= Total([j \in 1 .. L |-> t[j]])
    BY <1>1, <2>3, BeforeGrows
  <2>5. Before(f, k) + t[k] <= n
    BY <1>1, <2>2, <2>3, <2>4
  <2>6. t[k] \in Nat /\ f[k] \in Nat /\ Before(f, k) \in Nat
    BY <1>1, <1>2
  <2> QED
    BY <1>3, <1>5, <2>5, <2>6 DEF Least, Positive
<1>8. u[k] = t[k] + 1
  <2>1. t[k] \in Nat /\ f[k] \in Nat /\ Before(f, k) \in Nat
    BY <1>1, <1>2
  <2> QED
    BY <1>3, <1>5, <1>7, <2>1 DEF Least, Positive
<1>9. ASSUME NEW j \in 1 .. L, j # k PROVE u[j] = t[j]
  <2>1. t[j] \in Nat /\ f[j] \in Nat /\ Before(f, j) \in Nat /\ f[k] \in Nat /\ Before(f, k) \in Nat
    BY <1>1, <1>2
  <2>2. CASE j < k
    <3>1. t[j] = f[j]
      BY <1>6, <2>2
    <3>2. t[j] = Least(f[j], Positive(n - Before(f, j)))
      BY <1>3
    <3>3. u[j] = Least(f[j], Positive((n + 1) - Before(f, j)))
      BY <1>3
    <3>4. Least(f[j], Positive(n - Before(f, j))) = f[j]
      BY <3>1, <3>2
    <3> QED
      BY <2>1, <3>1, <3>3, <3>4, GivesAll
  <2>3. CASE j > k
    <3>1. j - 1 \in k .. L
      BY <2>3
    <3>2. Before(f, k) + f[k] <= Before(f, j)
      BY <3>1, BeforeGrows DEF Before
    <3>3. n + 1 <= Before(f, j)
      BY <1>5, <1>7, <2>1, <3>2
    <3>4. t[j] = Least(f[j], Positive(n - Before(f, j)))
      BY <1>3
    <3>5. u[j] = Least(f[j], Positive((n + 1) - Before(f, j)))
      BY <1>3
    <3> QED
      BY <2>1, <3>3, <3>4, <3>5 DEF Least, Positive
  <2> QED
    BY <1>9, <2>2, <2>3
<1>10. \E i \in 1 .. L :
         /\ t[i] < f[i] /\ \A j \in 1 .. i - 1 : t[j] = f[j]
         /\ u[i] = t[i] + 1
         /\ \A j \in 1 .. L : j # i => u[j] = t[j]
  BY <1>5, <1>6, <1>8, <1>9
<1> QED
  BY <1>10 DEF t, u

\* The reference takes a unit of the oldest layer that has one.
LEMMA OneTakenIs ==
  ASSUME NEW L \in Nat, NEW ls \in [1 .. L -> LayerRows], NEW k \in 1 .. L,
         ls[k].left > 0, \A j \in 1 .. k - 1 : ls[j].left = 0
  PROVE  OneTaken(ls) = [ls EXCEPT ![k] = TakeLayer(ls[k], 1)]
<1> DEFINE Oldest(i) == ls[i].left > 0 /\ \A j \in 1 .. i - 1 : ls[j].left = 0
<1>1. DOMAIN ls = 1 .. L /\ Oldest(k)
  OBVIOUS
<1>2. ASSUME NEW i \in 1 .. L, Oldest(i) PROVE i = k
  <2>1. ~(i < k) /\ ~(k < i)
    BY <1>2
  <2> QED
    BY <2>1
<1> HIDE DEF Oldest
<1>3. (CHOOSE i \in DOMAIN ls : Oldest(i)) = k
  BY <1>1, <1>2
<1>4. OneTaken(ls) = [ls EXCEPT ![CHOOSE i \in DOMAIN ls : Oldest(i)] = TakeLayer(@, 1)]
  BY DEF OneTaken, Oldest
<1> QED
  BY <1>3, <1>4

\* The recursion of the reference is well founded: it has a value for every number.
LEMMA OneByOneUnfolds ==
  ASSUME NEW ls, NEW n \in Nat
  PROVE  \E after : /\ after = [m \in 0 .. n |-> IF m = 0 THEN ls ELSE OneTaken(after[m - 1])]
                    /\ OneByOne(ls, n) = after[n]
<1> DEFINE S == {k \in Nat : \E f : f = [m \in 0 .. k |-> IF m = 0 THEN ls ELSE OneTaken(f[m - 1])]}
<1>1. 0 \in S
  <2> DEFINE f == [m \in 0 .. 0 |-> ls]
  <2>1. f = [m \in 0 .. 0 |-> IF m = 0 THEN ls ELSE OneTaken(f[m - 1])]
    OBVIOUS
  <2> QED
    BY <2>1, Zenon
<1>2. ASSUME NEW k \in Nat, k \in S PROVE k + 1 \in S
  <2>1. PICK f : f = [m \in 0 .. k |-> IF m = 0 THEN ls ELSE OneTaken(f[m - 1])]
    BY <1>2, Zenon
  <2> DEFINE g == [m \in 0 .. k + 1 |-> IF m <= k THEN f[m] ELSE OneTaken(f[k])]
             h == [m \in 0 .. k + 1 |-> IF m = 0 THEN ls ELSE OneTaken(g[m - 1])]
  <2>2. ASSUME NEW m \in 0 .. k + 1 PROVE g[m] = h[m]
    <3>1. CASE m = k + 1
      BY <3>1
    <3>2. CASE m \in 0 .. k
      <4>1. f[m] = IF m = 0 THEN ls ELSE OneTaken(f[m - 1])
        BY <2>1, <3>2
      <4> QED
        BY <3>2, <4>1
    <3> QED
      BY <3>1, <3>2
  <2>3. g = h
    BY <2>2
  <2>4. k + 1 \in Nat
    OBVIOUS
  <2> HIDE DEF g
  <2> QED
    BY <2>3, <2>4, Zenon
<1> HIDE DEF S
<1>3. n \in S
  BY <1>1, <1>2, FromZeroOn
<1>4. \E f : f = [m \in 0 .. n |-> IF m = 0 THEN ls ELSE OneTaken(f[m - 1])]
  BY <1>3, Zenon DEF S
<1> DEFINE after == CHOOSE f : f = [m \in 0 .. n |-> IF m = 0 THEN ls ELSE OneTaken(f[m - 1])]
<1>5. after = [m \in 0 .. n |-> IF m = 0 THEN ls ELSE OneTaken(after[m - 1])]
  BY <1>4, Zenon
<1>6. OneByOne(ls, n) = after[n]
  BY Zenon DEF OneByOne
<1> HIDE DEF after
<1> QED
  BY <1>5, <1>6, Zenon

\* What is true of the layers ls when g is left of them after n units, one by one.
AsTaken(ls, g, n) ==
  /\ g \in [1 .. Len(ls) -> LayerRows]
  /\ \A k \in 1 .. Len(ls) :
       /\ g[k].left = ls[k].left - Share(Lefts(ls), n)[k]
       /\ \A cost \in Nat : ls[k].value = ls[k].left * cost => g[k].value = g[k].left * cost

\* One unit more keeps it.
LEMMA OneMore ==
  ASSUME NEW ls \in Seq(LayerRows), NEW n \in Nat, n < Left(ls), NEW g, AsTaken(ls, g, n)
  PROVE  AsTaken(ls, OneTaken(g), n + 1)
<1> DEFINE f == Lefts(ls)
           L == Len(ls)
           t == Share(f, n)
           u == Share(f, n + 1)
<1>1. /\ L \in Nat /\ DOMAIN ls = 1 .. L /\ f \in [1 .. L -> Nat] /\ Left(ls) = Total(f)
      /\ \A k \in 1 .. L : f[k] = ls[k].left
  BY LeftsType DEF Lefts
<1>2. /\ g \in [1 .. L -> LayerRows]
      /\ \A k \in 1 .. L :
           /\ g[k].left = f[k] - t[k]
           /\ \A cost \in Nat : ls[k].value = f[k] * cost => g[k].value = g[k].left * cost
  BY <1>1 DEF AsTaken
<1> HIDE DEF f, L
<1>3. PICK k \in 1 .. L : /\ t[k] < f[k] /\ \A j \in 1 .. k - 1 : t[j] = f[j]
                          /\ u[k] = t[k] + 1
                          /\ \A j \in 1 .. L : j # k => u[j] = t[j]
  <2>1. L \in Nat /\ f \in [1 .. L -> Nat] /\ n < Total(f)
    BY <1>1
  <2> QED
    BY <2>1, NextUnit
<1>4. n <= Total(f) /\ Total(f) \in Nat
  <2>1. IsFiniteSet(1 .. L)
    BY <1>1, FS_Interval
  <2>2. Total(f) \in Nat
    BY <1>1, <2>1, TotalType
  <2> QED
    BY <1>1, <2>2
<1>5. t \in [1 .. L -> Nat]
  BY <1>1, <1>4, SharesAddUp
<1> HIDE DEF t, u
<1>6. g[k].left > 0 /\ \A j \in 1 .. k - 1 : g[j].left = 0
  <2>1. f[k] \in Nat /\ t[k] \in Nat /\ g[k].left = f[k] - t[k]
    BY <1>1, <1>2, <1>5
  <2>2. ASSUME NEW j \in 1 .. k - 1 PROVE g[j].left = 0
    <3>1. j \in 1 .. L
      BY <1>1
    <3>2. f[j] \in Nat /\ t[j] = f[j] /\ g[j].left = f[j] - t[j]
      BY <3>1, <1>1, <1>2, <1>3
    <3> QED
      BY <3>2
  <2> QED
    BY <1>3, <2>1, <2>2
<1>7. OneTaken(g) = [g EXCEPT ![k] = TakeLayer(g[k], 1)]
  <2>1. L \in Nat /\ g \in [1 .. L -> LayerRows]
    BY <1>1, <1>2
  <2> QED
    BY <1>6, <2>1, OneTakenIs, Zenon
<1>8. g[k] \in LayerRows /\ g[k].left \in Nat /\ g[k].value \in Nat
  BY <1>2 DEF LayerRows
<1>9. /\ TakeLayer(g[k], 1) \in LayerRows /\ TakeLayer(g[k], 1).left = g[k].left - 1
      /\ TakeLayer(g[k], 1).value = g[k].value - Cost(g[k], 1)
      /\ \A cost \in Nat : g[k].value = g[k].left * cost => Cost(g[k], 1) = 1 * cost
  <2>1. 1 \in Nat /\ 1 <= g[k].left
    BY <1>6, <1>8
  <2> QED
    BY <1>8, <2>1, TakeLayerType, TakeLayerIs
<1> DEFINE h == OneTaken(g)
<1>10. h \in [1 .. L -> LayerRows] /\ h[k] = TakeLayer(g[k], 1) /\ \A j \in 1 .. L : j # k => h[j] = g[j]
  BY <1>2, <1>7, <1>9
<1> HIDE DEF h
<1>11. ASSUME NEW j \in 1 .. L
       PROVE  /\ h[j].left = f[j] - u[j]
              /\ \A cost \in Nat : ls[j].value = f[j] * cost => h[j].value = h[j].left * cost
  <2>1. CASE j # k
    BY <2>1, <1>2, <1>3, <1>10
  <2>2. CASE j = k
    <3>1. f[k] \in Nat /\ t[k] \in Nat /\ g[k].left = f[k] - t[k] /\ h[k].left = g[k].left - 1
      BY <1>1, <1>2, <1>5, <1>9, <1>10
    <3>2. ASSUME NEW cost \in Nat, ls[k].value = f[k] * cost
          PROVE  h[k].value = h[k].left * cost
      <4>1. g[k].value = g[k].left * cost /\ h[k].value = g[k].value - cost
        BY <1>2, <1>9, <1>10, <3>2
      <4>2. (g[k].left - 1) * cost = g[k].left * cost - cost
        BY <1>8
      <4> QED
        BY <3>1, <4>1, <4>2
    <3> QED
      BY <2>2, <1>3, <3>1, <3>2
  <2> QED
    BY <2>1, <2>2
<1> QED
  BY <1>1, <1>10, <1>11 DEF AsTaken, h, u, f, L

\* Taking n units one by one takes of every layer what taking them in one go takes.
LEMMA OneByOneTakes ==
  ASSUME NEW ls \in Seq(LayerRows), NEW n \in Nat, n <= Left(ls)
  PROVE  AsTaken(ls, OneByOne(ls, n), n)
<1>1. PICK after : /\ after = [m \in 0 .. n |-> IF m = 0 THEN ls ELSE OneTaken(after[m - 1])]
                   /\ OneByOne(ls, n) = after[n]
  BY OneByOneUnfolds, Zenon
<1> DEFINE S == {m \in Nat : m <= n => AsTaken(ls, after[m], m)}
           f == Lefts(ls)
<1>2. 0 \in S
  <2>1. after[0] = ls
    BY <1>1
  <2>2. /\ DOMAIN ls = 1 .. Len(ls) /\ Len(ls) \in Nat /\ f \in [1 .. Len(ls) -> Nat]
        /\ \A k \in 1 .. Len(ls) : f[k] = ls[k].left
    BY LeftsType DEF Lefts
  <2>3. ls \in [1 .. Len(ls) -> LayerRows]
    BY <2>2
  <2> HIDE DEF f
  <2>4. ASSUME NEW k \in 1 .. Len(ls) PROVE Share(f, 0)[k] = 0
    <3>1. f[k] \in Nat
      BY <2>2
    <3>2. Len(ls) \in k .. Len(ls)
      BY <2>2
    <3>3. Before(f, k) \in Nat
      BY <2>2, <3>2, BeforeGrows
    <3>4. Share(f, 0)[k] = Least(f[k], Positive(0 - Before(f, k)))
      BY <2>2 DEF Share
    <3> QED
      BY <3>1, <3>3, <3>4 DEF Least, Positive
  <2>5. AsTaken(ls, ls, 0)
    <3>1. ASSUME NEW k \in 1 .. Len(ls) PROVE ls[k].left = ls[k].left - Share(f, 0)[k]
      <4>1. ls[k].left \in Nat
        BY <2>2
      <4> QED
        BY <2>4, <4>1
    <3> QED
      BY <2>3, <3>1 DEF AsTaken, f
  <2> QED
    BY <2>1, <2>5
<1>3. ASSUME NEW m \in Nat, m \in S PROVE m + 1 \in S
  <2> SUFFICES ASSUME m + 1 <= n PROVE AsTaken(ls, after[m + 1], m + 1)
    OBVIOUS
  <2>1. Left(ls) \in Nat
    BY LeftsType
  <2>2. m < Left(ls) /\ m <= n /\ m + 1 \in 0 .. n
    BY <2>1
  <2>3. after[m + 1] = OneTaken(after[m])
    <3>1. after[m + 1] = IF m + 1 = 0 THEN ls ELSE OneTaken(after[(m + 1) - 1])
      BY <1>1, <2>2
    <3>2. m + 1 # 0 /\ (m + 1) - 1 = m
      OBVIOUS
    <3> QED
      BY <3>1, <3>2
  <2>4. AsTaken(ls, after[m], m)
    BY <1>3, <2>2
  <2> QED
    BY <2>2, <2>3, <2>4, OneMore
<1> HIDE DEF S
<1>4. n \in S
  BY <1>2, <1>3, FromZeroOn
<1> QED
  BY <1>1, <1>4 DEF S

\* What is left of a layer after taking in one go.
LEMMA ConsumeLeaves ==
  ASSUME NEW ls \in Seq(LayerRows), NEW n \in Nat, n <= Left(ls)
  PROVE  \A k \in 1 .. Len(ls) : Consume(ls, n)[k] = TakeLayer(ls[k], Taken(ls, n, k))
<1> DEFINE g == [k \in 1 .. Len(ls) |-> TakeLayer(ls[k], Taken(ls, n, k))]
<1>1. Len(ls) \in Nat /\ DOMAIN ls = 1 .. Len(ls) /\ \A k \in 1 .. Len(ls) : ls[k] \in LayerRows
  BY LeftsType
<1>2. \A k \in 1 .. Len(ls) : Taken(ls, n, k) \in Nat /\ Taken(ls, n, k) <= ls[k].left
  BY TakenIs
<1>3. g \in [1 .. Len(ls) -> LayerRows]
  BY <1>1, <1>2, TakeLayerType
<1>4. Consume(ls, n) = SubSeq(g, 1, Len(ls))
  BY <1>1 DEF Consume
<1>5. \A k \in 1 .. Len(ls) : g[k] = TakeLayer(ls[k], Taken(ls, n, k))
  OBVIOUS
<1> HIDE DEF g
<1>6. g \in Seq(LayerRows) /\ Len(g) = Len(ls)
  BY <1>1, <1>3, FunctionIsSequence
<1>7. Consume(ls, n) = g
  BY <1>4, <1>6
<1> QED
  BY <1>5, <1>7

\* What taken goods cost is what the layers are worth less.
LEMMA CostIsWorthLost ==
  ASSUME NEW ls \in Seq(LayerRows), NEW n \in Nat, n <= Left(ls)
  PROVE  ConsumedCost(ls, n) = Worth(ls) - Worth(Consume(ls, n))
<1> DEFINE L == Len(ls)
           g == Consume(ls, n)
           cost == [k \in 1 .. L |-> Cost(ls[k], Taken(ls, n, k))]
           was == [k \in 1 .. L |-> ls[k].value]
           is == [k \in 1 .. L |-> g[k].value]
<1>1. L \in Nat /\ DOMAIN ls = 1 .. L /\ IsFiniteSet(1 .. L) /\ \A k \in 1 .. L : ls[k] \in LayerRows
  BY LeftsType
<1>2. g \in Seq(LayerRows) /\ Len(g) = L
  BY ConsumeTakes DEF CanConsume
<1>3. \A k \in 1 .. L : g[k] = TakeLayer(ls[k], Taken(ls, n, k))
  BY ConsumeLeaves
<1>4. \A k \in 1 .. L : Taken(ls, n, k) \in Nat /\ Taken(ls, n, k) <= ls[k].left
  BY TakenIs
<1>5. ConsumedCost(ls, n) = Total(cost) /\ Worth(ls) = Total(was) /\ Worth(g) = Total(is)
  <2>1. DOMAIN g = 1 .. L
    BY <1>1, <1>2
  <2> QED
    BY <1>1, <2>1 DEF ConsumedCost, Worth
<1> HIDE DEF g
<1>6. ASSUME NEW k \in 1 .. L
      PROVE  cost[k] \in Nat /\ is[k] \in Nat /\ was[k] = is[k] + cost[k]
  <2>1. ls[k].value \in Nat
    BY <1>1 DEF LayerRows
  <2>2. /\ Cost(ls[k], Taken(ls, n, k)) \in Nat /\ Cost(ls[k], Taken(ls, n, k)) <= ls[k].value
        /\ TakeLayer(ls[k], Taken(ls, n, k)).value = ls[k].value - Cost(ls[k], Taken(ls, n, k))
    BY <1>1, <1>4, TakeLayerIs, TakeLayerType
  <2> QED
    BY <1>3, <2>1, <2>2
<1>7. cost \in [1 .. L -> Nat] /\ is \in [1 .. L -> Nat] /\ was = [k \in 1 .. L |-> is[k] + cost[k]]
  BY <1>6
<1> HIDE DEF cost, is, was, L
<1>8. Total(was) = Total(is) + Total(cost)
  BY <1>1, <1>7, TotalSum
<1>9. Total(is) \in Nat /\ Total(cost) \in Nat
  BY <1>1, <1>7, TotalType
<1> QED
  BY <1>5, <1>8, <1>9 DEF g

\* consumeFifoLayers takes the oldest first and all that the goods cost.
THEOREM OldestFirst ==
  ASSUME NEW ls \in Seq(LayerRows), NEW n \in Nat, n <= Left(ls)
  PROVE  /\ \A k \in DOMAIN ls :
              /\ Consume(ls, n)[k].left = OneByOne(ls, n)[k].left
              /\ Even(ls[k]) => Consume(ls, n)[k].value = OneByOne(ls, n)[k].value
         /\ ConsumedCost(ls, n) = Worth(ls) - Worth(Consume(ls, n))
<1>1. DOMAIN ls = 1 .. Len(ls) /\ \A k \in 1 .. Len(ls) : ls[k] \in LayerRows /\ ls[k].left \in Nat
  BY LeftsType
<1>2. ASSUME NEW k \in 1 .. Len(ls)
      PROVE  /\ Consume(ls, n)[k].left = OneByOne(ls, n)[k].left
             /\ Even(ls[k]) => Consume(ls, n)[k].value = OneByOne(ls, n)[k].value
  <2> DEFINE t == Taken(ls, n, k)
             o == OneByOne(ls, n)[k]
             c == Consume(ls, n)[k]
  <2>1. t = Share(Lefts(ls), n)[k] /\ t \in Nat /\ t <= ls[k].left
    BY TakenIs
  <2>2. c = TakeLayer(ls[k], t)
    BY ConsumeLeaves
  <2>3. AsTaken(ls, OneByOne(ls, n), n)
    BY OneByOneTakes
  <2>4. /\ o.left = ls[k].left - t
        /\ \A cost \in Nat : ls[k].value = ls[k].left * cost => o.value = o.left * cost
    BY <2>1, <2>3 DEF AsTaken
  <2> HIDE DEF o, c, t
  <2>5. /\ c.left = ls[k].left - t /\ c.value = ls[k].value - Cost(ls[k], t)
        /\ \A cost \in Nat : ls[k].value = ls[k].left * cost => Cost(ls[k], t) = t * cost
    BY <1>1, <2>1, <2>2, TakeLayerType, TakeLayerIs
  <2>6. ASSUME Even(ls[k]) PROVE c.value = o.value
    <3>1. ls[k].value \in Nat
      BY <1>1 DEF LayerRows
    <3>2. PICK cost \in 0 .. ls[k].value : ls[k].value = ls[k].left * cost
      BY <2>6 DEF Even
    <3>3. cost \in Nat /\ ls[k].left \in Nat
      BY <1>1, <3>1
    <3>4. (ls[k].left - t) * cost = ls[k].left * cost - t * cost
      BY <2>1, <3>3
    <3>5. c.value = ls[k].left * cost - t * cost
      BY <2>5, <3>2, <3>3
    <3>6. o.value = (ls[k].left - t) * cost
      BY <2>4, <3>2, <3>3
    <3> QED
      BY <3>4, <3>5, <3>6
  <2> QED
    BY <2>4, <2>5, <2>6 DEF o, c
<1> QED
  BY <1>1, <1>2, CostIsWorthLost

-----------------------------------------------------------------------------
(***************************************************************************)
(* Purchases, sales and transformations                                    *)
(***************************************************************************)

StockRows == [actual : Nat, available : Nat]

\* The inductive invariant of the goods, of values that the variables take on the way
\* through a resolution.
SoundAt(ls, st, p) ==
  /\ Len(ls[p]) <= MaxLayers
  /\ Left(ls[p]) = st[p].actual
  /\ st[p].available <= st[p].actual

Sound(ls, st) ==
  /\ ls \in [Products -> Seq(LayerRows)]
  /\ st \in [Products -> StockRows]
  /\ \A p \in Products : SoundAt(ls, st, p)

\* The layers of a product after a movement: those there were, with no more in them
\* than there was, and perhaps new ones, none of them of a loan.
Retains(old, new) ==
  /\ DOMAIN old \subseteq DOMAIN new
  /\ \A k \in DOMAIN old : new[k].origin = old[k].origin /\ new[k].left <= old[k].left
  /\ \A k \in DOMAIN new \ DOMAIN old : new[k].origin \notin Loans

\* Layers that do not change retain themselves.
LEMMA RetainsItself ==
  ASSUME NEW ls \in Seq(LayerRows)
  PROVE  Retains(ls, ls)
<1>1. \A k \in DOMAIN ls : ls[k].left \in Nat
  BY LeftsType
<1> QED
  BY <1>1 DEF Retains

\* A new layer that no loan made takes nothing from the old ones.
LEMMA RetainsAppended ==
  ASSUME NEW ls \in Seq(LayerRows), NEW layer \in LayerRows, layer.origin \notin Loans
  PROVE  Retains(ls, Append(ls, layer))
<1> DEFINE new == Append(ls, layer)
<1>1. /\ Len(ls) \in Nat /\ DOMAIN ls = 1 .. Len(ls) /\ DOMAIN new = 1 .. Len(ls) + 1
      /\ \A k \in DOMAIN ls : new[k] = ls[k] /\ ls[k].left \in Nat
      /\ new[Len(ls) + 1] = layer
  BY LeftsType
<1> HIDE DEF new
<1>2. \A k \in DOMAIN new \ DOMAIN ls : k = Len(ls) + 1
  BY <1>1
<1>3. DOMAIN ls \subseteq DOMAIN new
  BY <1>1
<1>4. Retains(ls, new)
  BY <1>1, <1>2, <1>3 DEF Retains
<1> QED
  BY <1>4 DEF new

\* Consuming only takes from the layers there are.
LEMMA RetainsConsumed ==
  ASSUME NEW ls \in Seq(LayerRows), NEW n \in Nat, CanConsume(ls, n)
  PROVE  Retains(ls, Consume(ls, n))
<1>1. /\ Len(Consume(ls, n)) = Len(ls) /\ Consume(ls, n) \in Seq(LayerRows)
      /\ \A k \in DOMAIN ls : /\ Consume(ls, n)[k].left <= ls[k].left
                              /\ Consume(ls, n)[k].origin = ls[k].origin
  BY ConsumeTakes
<1>2. DOMAIN Consume(ls, n) = DOMAIN ls
  BY <1>1
<1> QED
  BY <1>1, <1>2 DEF Retains

\* A movement of one product is a matter of its layers and its stock row.
LEMMA OneProductMoves ==
  ASSUME NEW ls, NEW st, Sound(ls, st), NEW p \in Products,
         NEW new \in Seq(LayerRows), NEW row \in StockRows,
         Len(new) <= MaxLayers, Left(new) = row.actual, row.available <= row.actual
  PROVE  Sound([ls EXCEPT ![p] = new], [st EXCEPT ![p] = row])
<1> DEFINE ls2 == [ls EXCEPT ![p] = new]
           st2 == [st EXCEPT ![p] = row]
<1>1. ls \in [Products -> Seq(LayerRows)] /\ st \in [Products -> StockRows]
  BY DEF Sound
<1>2. /\ ls2 \in [Products -> Seq(LayerRows)] /\ st2 \in [Products -> StockRows]
      /\ ls2[p] = new /\ st2[p] = row
      /\ \A q \in Products : q # p => ls2[q] = ls[q] /\ st2[q] = st[q]
  BY <1>1
<1> HIDE DEF ls2, st2
<1>3. SoundAt(ls2, st2, p)
  BY <1>2 DEF SoundAt
<1>4. ASSUME NEW q \in Products, q # p PROVE SoundAt(ls2, st2, q)
  BY <1>2, <1>4 DEF SoundAt, Sound
<1>5. Sound(ls2, st2)
  BY <1>2, <1>3, <1>4 DEF Sound
<1> QED
  BY <1>5 DEF ls2, st2

\* The stock row of p after a movement of n, which may be negative.
MovedStock(st, p, n) ==
  [st EXCEPT ![p] = [actual |-> @.actual + n, available |-> @.available + n]]

\* A receipt adds the same goods to the layers and to the stock.
LEMMA BringingIn ==
  ASSUME NEW ls, NEW st, Sound(ls, st), NEW p \in Products, NEW layer \in LayerRows,
         Len(ls[p]) < MaxLayers
  PROVE  /\ Sound([ls EXCEPT ![p] = Append(@, layer)], MovedStock(st, p, layer.left))
         /\ ls[p] \in Seq(LayerRows)
         /\ layer.origin \notin Loans => Retains(ls[p], Append(ls[p], layer))
<1> DEFINE row == [actual |-> st[p].actual + layer.left, available |-> st[p].available + layer.left]
           new == Append(ls[p], layer)
<1>1. /\ ls[p] \in Seq(LayerRows) /\ st[p] \in StockRows /\ SoundAt(ls, st, p)
      /\ layer.left \in Nat /\ Len(ls[p]) \in Nat /\ MaxLayers \in Nat
  <2>1. ls[p] \in Seq(LayerRows) /\ st[p] \in StockRows /\ SoundAt(ls, st, p)
    BY DEF Sound
  <2>2. layer.left \in Nat
    BY DEF LayerRows
  <2>3. Len(ls[p]) \in Nat
    BY <2>1, LeftsType
  <2> QED
    BY <2>1, <2>2, <2>3, StockGoodsAssumption
<1>2. /\ new \in Seq(LayerRows) /\ Len(new) = Len(ls[p]) + 1
      /\ Left(new) = Left(ls[p]) + layer.left
  BY <1>1, LeftOfAppended
<1>3. st[p].actual \in Nat /\ st[p].available \in Nat
  BY <1>1 DEF StockRows
<1>4. row \in StockRows /\ row.actual = st[p].actual + layer.left
      /\ row.available = st[p].available + layer.left
  BY <1>1, <1>3 DEF StockRows
<1> HIDE DEF new, row
<1>5. Len(new) <= MaxLayers /\ Left(new) = row.actual /\ row.available <= row.actual
  BY <1>1, <1>2, <1>3, <1>4 DEF SoundAt
<1>6. Sound([ls EXCEPT ![p] = new], [st EXCEPT ![p] = row])
  BY <1>2, <1>4, <1>5, OneProductMoves
<1>7. MovedStock(st, p, layer.left) = [st EXCEPT ![p] = row]
  BY DEF MovedStock, row
<1>8. layer.origin \notin Loans => Retains(ls[p], new)
  BY <1>1, RetainsAppended DEF new
<1> QED
  BY <1>1, <1>6, <1>7, <1>8 DEF new

\* A consumption takes the same goods out of the layers and of the stock.
LEMMA TakingOut ==
  ASSUME NEW ls, NEW st, Sound(ls, st), NEW p \in Products, NEW n \in Nat,
         CanConsume(ls[p], n), n <= st[p].actual, n <= st[p].available
  PROVE  /\ Sound([ls EXCEPT ![p] = Consume(@, n)], MovedStock(st, p, -n))
         /\ Retains(ls[p], Consume(ls[p], n))
<1> DEFINE row == [actual |-> st[p].actual + (-n), available |-> st[p].available + (-n)]
           new == Consume(ls[p], n)
<1>1. ls[p] \in Seq(LayerRows) /\ st[p] \in StockRows /\ SoundAt(ls, st, p)
  BY DEF Sound
<1>2. new \in Seq(LayerRows) /\ Len(new) = Len(ls[p]) /\ Left(new) = Left(ls[p]) - n
  BY <1>1, ConsumeTakes
<1>3. st[p].actual \in Nat /\ st[p].available \in Nat
  BY <1>1 DEF StockRows
<1>4. row \in StockRows /\ row.actual = st[p].actual - n /\ row.available = st[p].available - n
  BY <1>3 DEF StockRows
<1>5. Retains(ls[p], new)
  BY <1>1, RetainsConsumed
<1> HIDE DEF new, row
<1>6. Len(new) <= MaxLayers /\ Left(new) = row.actual /\ row.available <= row.actual
  BY <1>1, <1>2, <1>3, <1>4 DEF SoundAt
<1>7. Sound([ls EXCEPT ![p] = new], [st EXCEPT ![p] = row])
  BY <1>2, <1>4, <1>6, OneProductMoves
<1>8. MovedStock(st, p, -n) = [st EXCEPT ![p] = row]
  BY DEF MovedStock, row
<1> QED
  BY <1>5, <1>7, <1>8 DEF new

\* What a movement of one product retains, all do.
LEMMA OthersRetained ==
  ASSUME NEW ls \in [Products -> Seq(LayerRows)], NEW p \in Products, NEW new, Retains(ls[p], new)
  PROVE  \A q \in Products : Retains(ls[q], [ls EXCEPT ![p] = new][q])
<1> SUFFICES ASSUME NEW q \in Products PROVE Retains(ls[q], [ls EXCEPT ![p] = new][q])
  OBVIOUS
<1>1. CASE q = p
  BY <1>1
<1>2. CASE q # p
  <2>1. Retains(ls[q], ls[q])
    BY RetainsItself
  <2> QED
    BY <1>2, <2>1
<1> QED
  BY <1>1, <1>2

GoodsKept == Sound(layers, stock)' /\ \A p \in Products : Retains(layers[p], layers'[p])

\* A purchase keeps layers and stock in step.
LEMMA BuyKeeps ==
  ASSUME Sound(layers, stock), NEW p \in Products, NEW n \in Quantities, NEW cost \in UnitCosts,
         Buy(p, n, cost)
  PROVE  GoodsKept
<1> DEFINE layer == Layer("PURCHASE_INVOICE", n, n * cost)
<1>1. n \in Nat /\ cost \in Nat
  BY StockGoodsAssumption DEF Quantities
<1>2. n * cost \in Nat
  BY <1>1, Product
<1>3. layer \in LayerRows /\ layer.left = n /\ layer.origin \notin Loans
  BY <1>1, <1>2, InventoryLoanAssumption DEF Layer, LayerRows, Origins
<1> HIDE DEF layer
<1>4. /\ layers' = [layers EXCEPT ![p] = Append(@, layer)] /\ stock' = MovedStock(stock, p, layer.left)
      /\ Len(layers[p]) < MaxLayers
  BY <1>3 DEF Buy, In, RoomFor, layer, MovedStock
<1>5. /\ Sound([layers EXCEPT ![p] = Append(@, layer)], MovedStock(stock, p, layer.left))
      /\ Retains(layers[p], Append(layers[p], layer))
  BY <1>3, <1>4, BringingIn
<1>6. layers \in [Products -> Seq(LayerRows)]
  BY DEF Sound
<1>7. \A q \in Products : Retains(layers[q], layers'[q])
  BY <1>4, <1>5, <1>6, OthersRetained
<1> QED
  BY <1>4, <1>5, <1>7 DEF GoodsKept

\* Reserving and releasing move no goods.
LEMMA PromiseKeeps ==
  ASSUME Sound(layers, stock), NEW p \in Products, Reserve(p) \/ Release(p)
  PROVE  GoodsKept
<1>1. layers \in [Products -> Seq(LayerRows)] /\ stock \in [Products -> StockRows] /\ SoundAt(layers, stock, p)
  BY DEF Sound
<1>2. stock[p].actual \in Nat /\ stock[p].available \in Nat /\ stock[p] \in StockRows
  BY <1>1 DEF StockRows
<1>3. PICK row \in StockRows : /\ stock' = [stock EXCEPT ![p] = row] /\ row.actual = stock[p].actual
                               /\ row.available <= row.actual
  <2>1. CASE Reserve(p)
    <3> DEFINE r == [stock[p] EXCEPT !.available = @ - 1]
    <3>1. r \in StockRows /\ r.actual = stock[p].actual /\ r.available = stock[p].available - 1
      BY <1>2, <2>1 DEF Reserve, StockRows
    <3>2. stock' = [stock EXCEPT ![p] = r]
      BY <2>1 DEF Reserve
    <3> HIDE DEF r
    <3>3. r.available <= r.actual
      BY <1>1, <1>2, <3>1, <3>2 DEF SoundAt
    <3> QED
      BY <3>1, <3>2, <3>3
  <2>2. CASE Release(p)
    <3> DEFINE r == [stock[p] EXCEPT !.available = @ + 1]
    <3>1. r \in StockRows /\ r.actual = stock[p].actual /\ r.available = stock[p].available + 1
      BY <1>2, <2>2 DEF Release, StockRows
    <3>2. stock' = [stock EXCEPT ![p] = r] /\ stock[p].available < stock[p].actual
      BY <2>2 DEF Release
    <3> HIDE DEF r
    <3>3. r.available <= r.actual
      BY <1>1, <1>2, <3>1, <3>2 DEF SoundAt
    <3> QED
      BY <3>1, <3>2, <3>3
  <2> QED
    BY <2>1, <2>2
<1>4. layers' = layers /\ layers[p] \in Seq(LayerRows)
  BY <1>1 DEF Reserve, Release
<1>5. Sound([layers EXCEPT ![p] = layers[p]], [stock EXCEPT ![p] = row])
  BY <1>1, <1>3, <1>4, OneProductMoves DEF SoundAt
<1>6. [layers EXCEPT ![p] = layers[p]] = layers
  BY <1>1
<1>7. \A q \in Products : Retains(layers[q], layers[q])
  BY <1>1, RetainsItself
<1> QED
  BY <1>3, <1>4, <1>5, <1>6, <1>7 DEF GoodsKept

\* A delivery takes what was reserved out of layers and stock.
LEMMA DeliverKeeps ==
  ASSUME Sound(layers, stock), NEW p \in Products, Deliver(p)
  PROVE  GoodsKept
<1> DEFINE row == [stock[p] EXCEPT !.actual = @ - 1]
           new == Consume(layers[p], 1)
<1>1. /\ layers \in [Products -> Seq(LayerRows)] /\ stock \in [Products -> StockRows]
      /\ SoundAt(layers, stock, p) /\ layers[p] \in Seq(LayerRows)
  BY DEF Sound
<1>2. stock[p].actual \in Nat /\ stock[p].available \in Nat /\ stock[p] \in StockRows
  BY <1>1 DEF StockRows
<1>3. /\ stock[p].available < stock[p].actual /\ CanConsume(layers[p], 1)
      /\ layers' = [layers EXCEPT ![p] = new] /\ stock' = [stock EXCEPT ![p] = row]
  BY DEF Deliver
<1>4. /\ row \in StockRows /\ row.actual = stock[p].actual - 1 /\ row.available = stock[p].available
  BY <1>2, <1>3 DEF StockRows
<1>5. new \in Seq(LayerRows) /\ Len(new) = Len(layers[p]) /\ Left(new) = Left(layers[p]) - 1
  BY <1>1, <1>3, ConsumeTakes
<1>6. Retains(layers[p], new)
  BY <1>1, <1>3, RetainsConsumed
<1> HIDE DEF row, new
<1>7. Len(new) <= MaxLayers /\ Left(new) = row.actual /\ row.available <= row.actual
  BY <1>1, <1>2, <1>3, <1>4, <1>5 DEF SoundAt
<1>8. Sound([layers EXCEPT ![p] = new], [stock EXCEPT ![p] = row])
  BY <1>4, <1>5, <1>7, OneProductMoves
<1>9. \A q \in Products : Retains(layers[q], [layers EXCEPT ![p] = new][q])
  BY <1>1, <1>6, OthersRetained
<1> QED
  BY <1>3, <1>8, <1>9 DEF GoodsKept

\* The goods leave the layers of p and come as a layer of q.
LEMMA TransformKeeps ==
  ASSUME Sound(layers, stock), NEW p \in Products, NEW q \in Products,
         NEW n \in Quantities, NEW m \in Quantities, NEW cost \in UnitCosts,
         Transform(p, n, q, m, cost)
  PROVE  GoodsKept
<1>1. /\ layers \in [Products -> Seq(LayerRows)] /\ stock \in [Products -> StockRows]
      /\ SoundAt(layers, stock, p) /\ layers[p] \in Seq(LayerRows)
  BY DEF Sound
<1>2. n \in Nat /\ m \in Nat \ {0} /\ cost \in Nat /\ cost * m \in Nat
  <2>1. n \in Nat /\ m \in Nat \ {0} /\ cost \in Nat
    BY StockGoodsAssumption DEF Quantities
  <2> QED
    BY <2>1, Product
<1>3. p # q /\ n <= stock[p].available /\ CanConsume(layers[p], n) /\ Len(layers[q]) < MaxLayers
  BY DEF Transform, MayBecome, CanTransform, RoomFor
<1>4. ConsumedCost(layers[p], n) \in Nat
  BY <1>1, <1>2, <1>3, ConsumeTakes
<1>5. PICK c \in {ConsumedCost(layers[p], n), cost * m} :
        layers' = [layers EXCEPT ![p] = Consume(@, n),
                                 ![q] = Append(@, Layer("INVENTORY_TRANSFORMATION", m, c))]
  BY DEF Transform
<1> DEFINE layer == Layer("INVENTORY_TRANSFORMATION", m, c)
           ls    == [layers EXCEPT ![p] = Consume(@, n)]
           st    == MovedStock(stock, p, -n)
<1>6. layer \in LayerRows /\ layer.left = m /\ layer.origin \notin Loans
  BY <1>2, <1>4, <1>5, InventoryLoanAssumption DEF Layer, LayerRows, Origins
<1>7. stock[p].actual \in Nat /\ stock[p].available \in Nat /\ n <= stock[p].actual
  BY <1>1, <1>2, <1>3 DEF StockRows, SoundAt
<1>8. Sound(ls, st) /\ Retains(layers[p], Consume(layers[p], n))
  BY <1>2, <1>3, <1>7, TakingOut
<1>9. ls[q] = layers[q] /\ st[q] = stock[q] /\ ls \in [Products -> Seq(LayerRows)]
  BY <1>1, <1>3, <1>8 DEF MovedStock, Sound
<1>10. layers' = [ls EXCEPT ![q] = Append(@, layer)]
  BY <1>1, <1>3, <1>5
<1>11. stock' = MovedStock(st, q, m)
  <2>1. stock' = [stock EXCEPT ![p] = [actual |-> @.actual - n, available |-> @.available - n],
                               ![q] = [actual |-> @.actual + m, available |-> @.available + m]]
    BY DEF Transform
  <2>2. stock[p].actual - n = stock[p].actual + (-n) /\ stock[p].available - n = stock[p].available + (-n)
    BY <1>2, <1>7
  <2> QED
    BY <1>1, <1>3, <2>1, <2>2 DEF MovedStock
<1>12. \A r \in Products : Retains(layers[r], ls[r])
  BY <1>1, <1>8, OthersRetained
<1> HIDE DEF ls, st, layer
<1>13. /\ Sound([ls EXCEPT ![q] = Append(@, layer)], MovedStock(st, q, layer.left))
       /\ Retains(ls[q], Append(ls[q], layer))
  BY <1>3, <1>6, <1>8, <1>9, BringingIn
<1>14. \A r \in Products : Retains(layers[r], layers'[r])
  <2> SUFFICES ASSUME NEW r \in Products PROVE Retains(layers[r], layers'[r])
    OBVIOUS
  <2>1. CASE r = q
    BY <2>1, <1>9, <1>10, <1>13
  <2>2. CASE r # q
    BY <2>2, <1>9, <1>10, <1>12
  <2> QED
    BY <2>1, <2>2
<1> QED
  BY <1>6, <1>10, <1>11, <1>13, <1>14 DEF GoodsKept

\* No step of purchases, sales and transformations parts layers from stock.
LEMMA GoodsNextKeeps ==
  ASSUME Sound(layers, stock), GoodsNext
  PROVE  GoodsKept
<1>1. CASE \E p \in Products, n \in Quantities, cost \in UnitCosts : Buy(p, n, cost)
  BY <1>1, BuyKeeps
<1>2. CASE \E p \in Products : Reserve(p) \/ Release(p) \/ Deliver(p)
  BY <1>2, PromiseKeeps, DeliverKeeps
<1>3. CASE \E p, q \in Products, n, m \in Quantities, cost \in UnitCosts : Transform(p, n, q, m, cost)
  BY <1>3, TransformKeeps
<1> QED
  BY <1>1, <1>2, <1>3 DEF GoodsNext
-----------------------------------------------------------------------------
(***************************************************************************)
(* The books of a loan                                                     *)
(***************************************************************************)

Offs == [qty : Nat, recovered : Nat]

\* What was written off and not recovered.
Lost(offs) == Total([w \in DOMAIN offs |-> offs[w].qty - offs[w].recovered])

Going(r)    == r.status \in {"OUTSTANDING", "WRITTEN_OFF", "CLOSED"}
Borrowed(r) == Going(r) /\ r.direction = "INCOMING"

\* The row of a loan, whatever its status says.
Booked(r) ==
  /\ r \in LoanRows
  /\ \A w \in DOMAIN r.offs : r.offs[w].recovered <= r.offs[w].qty
  /\ Lost(r.offs) = r.writtenOff - r.recovered
  /\ Going(r) => r.alloc = Outstanding(r)
  /\ ~Going(r) => /\ r.returned = 0 /\ r.converted = 0 /\ r.writtenOff = 0
                  /\ r.recovered = 0 /\ r.offs = <<>> /\ r.handed = 0
  /\ r.status = "DRAFT" => r.qty > 0

StatusTells(r) == Going(r) => r.status = Status(r)

\* A sum of one term.
LEMMA OneTerm ==
  ASSUME NEW f \in [1 .. 1 -> Nat]
  PROVE  Total(f) = f[1]
<1> DEFINE g == [k \in 1 .. 0 |-> f[k]]
<1>1. g \in [1 .. 0 -> Nat] /\ \A k \in 1 .. 0 : g[k] = 0
  OBVIOUS
<1> HIDE DEF g
<1>2. Total(g) = 0
  BY <1>1, TotalZero
<1>3. f \in [1 .. 0 + 1 -> Nat] /\ 0 \in Nat /\ 0 + 1 = 1
  OBVIOUS
<1>4. Total(f) = Total([k \in 1 .. 0 |-> f[k]]) + f[0 + 1]
  BY <1>3, TotalAppend
<1>5. f[1] \in Nat
  OBVIOUS
<1> QED
  BY <1>2, <1>3, <1>4, <1>5 DEF g

\* A sum of two terms.
LEMMA TwoTerms ==
  ASSUME NEW f \in [1 .. 2 -> Nat]
  PROVE  Total(f) = f[1] + f[2]
<1> DEFINE g == [k \in 1 .. 1 |-> f[k]]
<1>1. g \in [1 .. 1 -> Nat] /\ g[1] = f[1]
  OBVIOUS
<1>2. f \in [1 .. 1 + 1 -> Nat] /\ 1 \in Nat /\ 1 + 1 = 2
  OBVIOUS
<1>3. Total(f) = Total(g) + f[1 + 1]
  BY <1>2, TotalAppend
<1> HIDE DEF g
<1> QED
  BY <1>1, <1>2, <1>3, OneTerm

\* The quantities of the write-offs, as a function.
LEMMA LostType ==
  ASSUME NEW offs \in Seq(Offs), \A w \in DOMAIN offs : offs[w].recovered <= offs[w].qty
  PROVE  /\ Len(offs) \in Nat /\ DOMAIN offs = 1 .. Len(offs) /\ IsFiniteSet(1 .. Len(offs))
         /\ [w \in DOMAIN offs |-> offs[w].qty - offs[w].recovered] \in [1 .. Len(offs) -> Nat]
         /\ \A w \in DOMAIN offs : offs[w] \in Offs /\ offs[w].qty \in Nat /\ offs[w].recovered \in Nat
         /\ Lost(offs) \in Nat
<1>1. Len(offs) \in Nat /\ DOMAIN offs = 1 .. Len(offs) /\ \A w \in DOMAIN offs : offs[w] \in Offs
  OBVIOUS
<1>2. IsFiniteSet(1 .. Len(offs))
  BY <1>1, FS_Interval
<1>3. \A w \in DOMAIN offs : offs[w].qty \in Nat /\ offs[w].recovered \in Nat
  BY <1>1 DEF Offs
<1> DEFINE f == [w \in DOMAIN offs |-> offs[w].qty - offs[w].recovered]
<1>4. f \in [1 .. Len(offs) -> Nat]
  BY <1>1, <1>3
<1> HIDE DEF f
<1>5. Total(f) \in Nat
  BY <1>2, <1>4, TotalType
<1> QED
  BY <1>1, <1>2, <1>3, <1>4, <1>5 DEF Lost, f

\* A recovery of n units makes what is lost smaller by n.
LEMMA LostOfRecovered ==
  ASSUME NEW offs \in Seq(Offs), \A w \in DOMAIN offs : offs[w].recovered <= offs[w].qty,
         NEW v \in DOMAIN offs, NEW n \in Nat, n <= offs[v].qty - offs[v].recovered
  PROVE  LET new == [offs EXCEPT ![v].recovered = @ + n]
         IN  /\ new \in Seq(Offs) /\ DOMAIN new = DOMAIN offs
             /\ \A w \in DOMAIN offs :
                  /\ new[w].qty = offs[w].qty
                  /\ new[w].recovered = offs[w].recovered + (IF w = v THEN n ELSE 0)
                  /\ new[w].recovered <= new[w].qty
             /\ Lost(new) = Lost(offs) - n
<1> DEFINE new == [offs EXCEPT ![v].recovered = @ + n]
           row == [offs[v] EXCEPT !.recovered = @ + n]
           f   == [w \in DOMAIN offs |-> offs[w].qty - offs[w].recovered]
           g   == [w \in DOMAIN new |-> new[w].qty - new[w].recovered]
           S   == 1 .. Len(offs)
<1>1. /\ Len(offs) \in Nat /\ DOMAIN offs = S /\ IsFiniteSet(S) /\ f \in [S -> Nat]
      /\ \A w \in S : offs[w] \in Offs /\ offs[w].qty \in Nat /\ offs[w].recovered \in Nat
  BY LostType
<1>2. row \in Offs /\ row.qty = offs[v].qty /\ row.recovered = offs[v].recovered + n
  BY <1>1 DEF Offs
<1>3. new = [offs EXCEPT ![v] = row]
  OBVIOUS
<1> HIDE DEF row
<1>4. new \in Seq(Offs) /\ Len(new) = Len(offs) /\ DOMAIN new = S
  BY <1>1, <1>2, <1>3
<1>5. new[v] = row /\ \A w \in S : w # v => new[w] = offs[w]
  BY <1>1, <1>3
<1> HIDE DEF new
<1>6. \A w \in S : /\ new[w].qty = offs[w].qty
                   /\ new[w].recovered = offs[w].recovered + (IF w = v THEN n ELSE 0)
                   /\ new[w].recovered <= new[w].qty
  <2> SUFFICES ASSUME NEW w \in S
               PROVE  /\ new[w].qty = offs[w].qty
                      /\ new[w].recovered = offs[w].recovered + (IF w = v THEN n ELSE 0)
                      /\ new[w].recovered <= new[w].qty
    OBVIOUS
  <2>0. offs[w].qty \in Nat /\ offs[w].recovered \in Nat /\ offs[w].recovered <= offs[w].qty
    BY <1>1
  <2>1. CASE w = v
    BY <2>0, <2>1, <1>2, <1>5
  <2>2. CASE w # v
    BY <2>0, <2>2, <1>5
  <2> QED
    BY <2>1, <2>2
<1>7. g \in [S -> Nat]
  <2>1. \A w \in DOMAIN new : new[w].recovered <= new[w].qty
    BY <1>4, <1>6
  <2> QED
    BY <1>4, <2>1, LostType
<1>8. g[v] = f[v] - n /\ \A w \in S \ {v} : g[w] = f[w]
  BY <1>1, <1>2, <1>4, <1>5
<1> HIDE DEF f, g
<1>9. v \in S /\ f[v] \in Nat
  BY <1>1
<1>10. Total(g) = Total(f) - f[v] + g[v]
  BY <1>1, <1>7, <1>8, <1>9, TotalUpdate
<1>11. Total(f) \in Nat /\ Total(g) \in Nat
  BY <1>1, <1>7, TotalType
<1>12. Lost(new) = Lost(offs) - n
  BY <1>8, <1>9, <1>10, <1>11 DEF Lost, f, g
<1> HIDE DEF S
<1> QED
  BY <1>1, <1>4, <1>6, <1>12 DEF new

\* A write-off of n units makes what is lost larger by n.
LEMMA LostOfAppended ==
  ASSUME NEW offs \in Seq(Offs), \A w \in DOMAIN offs : offs[w].recovered <= offs[w].qty,
         NEW n \in Nat
  PROVE  LET new == Append(offs, [qty |-> n, recovered |-> 0])
         IN  /\ new \in Seq(Offs) /\ DOMAIN offs \subseteq DOMAIN new
             /\ \A w \in DOMAIN offs : new[w] = offs[w]
             /\ \A w \in DOMAIN new : new[w].recovered <= new[w].qty
             /\ Lost(new) = Lost(offs) + n
<1> DEFINE row == [qty |-> n, recovered |-> 0]
           new == Append(offs, row)
           f   == [w \in DOMAIN offs |-> offs[w].qty - offs[w].recovered]
           g   == [w \in DOMAIN new |-> new[w].qty - new[w].recovered]
           L   == Len(offs)
<1>1. /\ L \in Nat /\ DOMAIN offs = 1 .. L /\ f \in [1 .. L -> Nat]
      /\ \A w \in 1 .. L : offs[w].qty \in Nat /\ offs[w].recovered \in Nat /\ offs[w].recovered <= offs[w].qty
  BY LostType
<1>2. row \in Offs /\ row.qty = n /\ row.recovered = 0
  BY DEF Offs
<1> HIDE DEF row
<1>3. new \in Seq(Offs) /\ Len(new) = L + 1 /\ DOMAIN new = 1 .. L + 1
  BY <1>2
<1>4. new[L + 1] = row /\ \A w \in 1 .. L : new[w] = offs[w]
  BY <1>2
<1> HIDE DEF new
<1>5. \A w \in 1 .. L + 1 : w \in 1 .. L \/ w = L + 1
  BY <1>1
<1>6. \A w \in DOMAIN new : new[w].recovered <= new[w].qty
  BY <1>1, <1>2, <1>3, <1>4, <1>5
<1>7. g \in [1 .. L + 1 -> Nat]
  BY <1>3, <1>6, LostType
<1>8. L + 1 \in 1 .. L + 1 /\ \A w \in 1 .. L : w \in 1 .. L + 1
  BY <1>1
<1>9. g[L + 1] = n /\ [w \in 1 .. L |-> g[w]] = f
  <2>1. g[L + 1] = n
    BY <1>2, <1>3, <1>4, <1>8
  <2>2. \A w \in 1 .. L : g[w] = f[w]
    BY <1>1, <1>3, <1>4, <1>8
  <2> QED
    BY <1>1, <2>1, <2>2
<1> HIDE DEF f, g, L
<1>10. Total(g) = Total([w \in 1 .. L |-> g[w]]) + g[L + 1]
  BY <1>1, <1>7, TotalAppend
<1>11. Lost(new) = Lost(offs) + n
  BY <1>9, <1>10 DEF Lost, f, g
<1>12. DOMAIN offs \subseteq DOMAIN new
  BY <1>1, <1>3, <1>8
<1> QED
  BY <1>1, <1>3, <1>4, <1>6, <1>11, <1>12 DEF new, row
-----------------------------------------------------------------------------
(***************************************************************************)
(* The items of a resolution                                               *)
(***************************************************************************)

ItemOK(x) ==
  /\ x.type \in {"SAME_PRODUCT_RETURN", "REPLACEMENT_PRODUCT", "INVOICE_CONVERSION", "WRITE_OFF"}
  /\ x.qty \in Nat /\ x.replacement \in Nat \ {0} /\ x.price \in Nat /\ x.recovers \in Nat
  /\ x.product \in Products \cup {NoProduct}
  /\ x.type = "SAME_PRODUCT_RETURN" => x.replacement = x.qty

\* Every item a request can carry is well formed.
LEMMA ItemsOK ==
  ASSUME NEW x \in Items
  PROVE  ItemOK(x)
<1>1. Quantities \subseteq Nat \ {0} /\ 0 .. MaxQty \subseteq Nat /\ Provisional \in Nat /\ Prices \subseteq Nat
  BY StockGoodsAssumption, InventoryLoanAssumption DEF Quantities
<1>2. CASE \E n \in Quantities, w \in 0 .. MaxQty :
             x = Item("SAME_PRODUCT_RETURN", n, NoProduct, n, Provisional, w)
  BY <1>1, <1>2 DEF Item, ItemOK
<1>3. CASE \E n \in Quantities, p \in Products, m \in Quantities, w \in 0 .. MaxQty :
             x = Item("REPLACEMENT_PRODUCT", n, p, m, Provisional, w)
  BY <1>1, <1>3 DEF Item, ItemOK
<1>4. CASE \E n \in Quantities, p \in Products \cup {NoProduct}, price \in Prices, w \in 0 .. MaxQty :
             x = Item("INVOICE_CONVERSION", n, p, n, price, w)
  BY <1>1, <1>4 DEF Item, ItemOK
<1>5. CASE \E n \in Quantities, p \in Products \cup {NoProduct} :
             x = Item("WRITE_OFF", n, p, n, Provisional, 0)
  BY <1>1, <1>5 DEF Item, ItemOK
<1> QED
  BY <1>2, <1>3, <1>4, <1>5 DEF Items

\* A recovery names a write-off of the loan that has as much to recover.
Fits(r, x) ==
  /\ x.recovers \in {0} \cup DOMAIN r.offs
  /\ x.recovers # 0 => x.qty <= r.offs[x.recovers].qty - r.offs[x.recovers].recovered

\* An item that passes validation alone fits the row.
LEMMA OneFits ==
  ASSUME NEW r, NEW x, ItemOK(x), ValidItems(r, <<x>>)
  PROVE  Fits(r, x)
<1>1. DOMAIN <<x>> = 1 .. 1 /\ <<x>>[1] = x
  OBVIOUS
<1>2. x.recovers \in {0} \cup DOMAIN r.offs
  BY <1>1 DEF ValidItems
<1>3. ASSUME x.recovers # 0
      PROVE  x.qty <= r.offs[x.recovers].qty - r.offs[x.recovers].recovered
  <2> DEFINE f == [k \in DOMAIN <<x>> |-> IF <<x>>[k].recovers = x.recovers THEN <<x>>[k].qty ELSE 0]
  <2>1. f \in [1 .. 1 -> Nat] /\ f[1] = x.qty
    BY <1>1 DEF ItemOK
  <2>2. Recovering(<<x>>, x.recovers) = Total(f)
    BY DEF Recovering
  <2> HIDE DEF f
  <2>3. Recovering(<<x>>, x.recovers) = x.qty
    BY <2>1, <2>2, OneTerm
  <2> QED
    BY <1>2, <1>3, <2>3 DEF ValidItems
<1> QED
  BY <1>2, <1>3 DEF Fits

\* Two items that pass validation together do not recover more of one write-off than it
\* holds.
LEMMA TwoFit ==
  ASSUME NEW r, NEW x, NEW y, ItemOK(x), ItemOK(y), ValidItems(r, <<x, y>>)
  PROVE  /\ y.recovers \in {0} \cup DOMAIN r.offs
         /\ y.recovers # 0 =>
              (IF x.recovers = y.recovers THEN x.qty ELSE 0) + y.qty
                <= r.offs[y.recovers].qty - r.offs[y.recovers].recovered
<1> DEFINE items == <<x, y>>
<1>1. DOMAIN items = 1 .. 2 /\ items[1] = x /\ items[2] = y
  OBVIOUS
<1> HIDE DEF items
<1>2. y.recovers \in {0} \cup DOMAIN r.offs
  BY <1>1 DEF ValidItems, items
<1>3. ASSUME y.recovers # 0
      PROVE  (IF x.recovers = y.recovers THEN x.qty ELSE 0) + y.qty
                <= r.offs[y.recovers].qty - r.offs[y.recovers].recovered
  <2> DEFINE f == [k \in DOMAIN items |-> IF items[k].recovers = y.recovers THEN items[k].qty ELSE 0]
  <2>1. /\ f \in [1 .. 2 -> Nat]
        /\ f[1] = IF x.recovers = y.recovers THEN x.qty ELSE 0
        /\ f[2] = y.qty
    <3>1. x.qty \in Nat /\ y.qty \in Nat
      BY DEF ItemOK
    <3>2. \A k \in 1 .. 2 : k = 1 \/ k = 2
      OBVIOUS
    <3> QED
      BY <1>1, <3>1, <3>2
  <2>2. Recovering(items, y.recovers) = Total(f)
    BY DEF Recovering
  <2> HIDE DEF f
  <2>3. Recovering(items, y.recovers) = (IF x.recovers = y.recovers THEN x.qty ELSE 0) + y.qty
    BY <2>1, <2>2, TwoTerms
  <2> QED
    BY <1>2, <1>3, <2>3 DEF ValidItems, items
<1> QED
  BY <1>2, <1>3

\* A row whose quantities are edited so that they still add up.
Edited(r, new, returned, converted, writtenOff, recovered, alloc, handed, offs) ==
  /\ returned \in Nat /\ converted \in Nat /\ writtenOff \in Nat /\ recovered \in Nat
  /\ alloc \in Nat /\ handed \in Nat /\ offs \in Seq(Offs)
  /\ new = [r EXCEPT !.returned = returned, !.converted = converted, !.writtenOff = writtenOff,
                     !.recovered = recovered, !.alloc = alloc, !.handed = handed, !.offs = offs]
  /\ \A w \in DOMAIN offs : offs[w].recovered <= offs[w].qty
  /\ Lost(offs) = writtenOff - recovered
  /\ alloc = r.qty - returned - converted - writtenOff

\* A row whose quantities still add up after an edit is booked as its loan was.
LEMMA EditedRow ==
  ASSUME NEW r, Booked(r), Going(r), NEW new,
         NEW returned, NEW converted, NEW writtenOff, NEW recovered, NEW alloc, NEW handed, NEW offs,
         Edited(r, new, returned, converted, writtenOff, recovered, alloc, handed, offs)
  PROVE  /\ Booked(new) /\ Going(new)
         /\ new.direction = r.direction /\ new.product = r.product /\ new.qty = r.qty
         /\ new.handed = handed /\ new.offs = offs
<1>1. r \in LoanRows /\ r.status # "DRAFT"
  BY DEF Booked, Going
<1>2. new \in LoanRows
  BY <1>1 DEF LoanRows, Offs, Edited
<1>3. /\ new.status = r.status /\ new.direction = r.direction /\ new.product = r.product
      /\ new.qty = r.qty /\ new.returned = returned /\ new.converted = converted
      /\ new.writtenOff = writtenOff /\ new.recovered = recovered /\ new.alloc = alloc
      /\ new.handed = handed /\ new.offs = offs
  BY <1>1 DEF LoanRows, Edited
<1>4. alloc = r.qty - returned - converted - writtenOff
  BY DEF Edited
<1>5. Going(new) /\ Outstanding(new) = alloc
  BY <1>3, <1>4 DEF Going, Outstanding
<1>6. Lost(offs) = writtenOff - recovered /\ \A w \in DOMAIN offs : offs[w].recovered <= offs[w].qty
  BY DEF Edited
<1>7. Booked(new)
  BY <1>1, <1>2, <1>3, <1>5, <1>6 DEF Booked
<1> QED
  BY <1>3, <1>5, <1>7

\* What an item leaves of the row of its loan.
LEMMA CountedRow ==
  ASSUME NEW r, Booked(r), Going(r), NEW x, ItemOK(x), Fits(r, x), CanAllocate(r, x),
         NEW new, new = Counted(Allocated(r, x), x)
  PROVE  /\ Booked(new) /\ Going(new)
         /\ new.direction = r.direction /\ new.product = r.product /\ new.qty = r.qty
         /\ new.handed = r.handed + (IF x.type = "SAME_PRODUCT_RETURN" THEN x.qty ELSE 0)
         /\ DOMAIN r.offs \subseteq DOMAIN new.offs
         /\ \A w \in DOMAIN r.offs :
              /\ new.offs[w].qty = r.offs[w].qty
              /\ new.offs[w].recovered = r.offs[w].recovered + (IF x.recovers = w THEN x.qty ELSE 0)
<1> DEFINE rt == r.returned
           cv == r.converted
           wo == r.writtenOff
           rc == r.recovered
           of == r.offs
           q  == x.qty
           h  == r.handed + (IF x.type = "SAME_PRODUCT_RETURN" THEN q ELSE 0)
           a  == IF x.recovers = 0 THEN r.alloc - q ELSE r.alloc
<1>1. /\ r.qty \in Nat /\ rt \in Nat /\ cv \in Nat /\ wo \in Nat /\ rc \in Nat
      /\ r.alloc \in Nat /\ r.handed \in Nat
  BY DEF Booked, LoanRows
<1>2. r \in LoanRows /\ of \in Seq(Offs)
  BY DEF Booked, LoanRows, Offs
<1>3. Lost(of) = wo - rc /\ r.alloc = r.qty - rt - cv - wo
  BY DEF Booked, Outstanding
<1>4. \A w \in DOMAIN of : of[w].recovered <= of[w].qty
  BY DEF Booked
<1>5. q \in Nat /\ (x.recovers = 0 => q <= r.alloc)
  BY DEF ItemOK, CanAllocate
<1>6. h \in Nat
  BY <1>1, <1>5
<1>7. a \in Nat /\ (x.recovers = 0 => a = r.alloc - q) /\ (x.recovers # 0 => a = r.alloc)
  BY <1>1, <1>5
<1>8. Allocated(r, x) = [r EXCEPT !.alloc = a, !.handed = h]
  <2>1. h = IF x.type = "SAME_PRODUCT_RETURN" THEN r.handed + q ELSE r.handed
    BY <1>1
  <2> HIDE DEF h
  <2> QED
    BY <1>2, <2>1 DEF Allocated, LoanRows
<1>9. \A w \in DOMAIN of : w # 0 /\ of[w].qty \in Nat /\ of[w].recovered \in Nat
  <2> HIDE DEF of
  <2>1. \A w \in DOMAIN of : of[w] \in Offs /\ w # 0
    BY <1>2
  <2> QED
    BY <2>1 DEF Offs
<1>10. x.recovers # 0 => x.recovers \in DOMAIN of /\ q <= of[x.recovers].qty - of[x.recovers].recovered
  BY DEF Fits
<1>11. /\ new = Counted([r EXCEPT !.alloc = a, !.handed = h], x)
       /\ rt = r.returned /\ cv = r.converted /\ wo = r.writtenOff /\ rc = r.recovered /\ of = r.offs
       /\ h = r.handed + (IF x.type = "SAME_PRODUCT_RETURN" THEN q ELSE 0) /\ q = x.qty
  BY <1>8
<1> HIDE DEF rt, cv, wo, rc, of, q, h, a
<1>12. CASE x.recovers # 0
  <2> DEFINE offs == [of EXCEPT ![x.recovers].recovered = @ + q]
             rc2  == rc + q
  <2>1. x.recovers \in DOMAIN of /\ q <= of[x.recovers].qty - of[x.recovers].recovered
    BY <1>10, <1>12
  <2>2. /\ offs \in Seq(Offs) /\ DOMAIN offs = DOMAIN of
        /\ \A w \in DOMAIN of :
             /\ offs[w].qty = of[w].qty
             /\ offs[w].recovered = of[w].recovered + (IF w = x.recovers THEN q ELSE 0)
             /\ offs[w].recovered <= offs[w].qty
        /\ Lost(offs) = Lost(of) - q
    BY <1>2, <1>4, <1>5, <2>1, LostOfRecovered
  <2>3. new = [r EXCEPT !.alloc = a, !.handed = h, !.recovered = rc2, !.offs = offs]
    BY <1>2, <1>11, <1>12 DEF Counted, LoanRows
  <2> HIDE DEF offs
  <2>4. Lost(offs) = Lost(of) - q
    BY <2>2
  <2>5. rc2 \in Nat /\ Lost(offs) = wo - rc2 /\ a = r.qty - rt - cv - wo
    BY <1>1, <1>3, <1>5, <1>7, <1>12, <2>4
  <2> HIDE DEF rc2
  <2>6. new = [r EXCEPT !.returned = rt, !.converted = cv, !.writtenOff = wo,
                        !.recovered = rc2, !.alloc = a, !.handed = h, !.offs = offs]
    BY <1>2, <1>11, <2>3 DEF LoanRows
  <2>7. /\ Booked(new) /\ Going(new)
        /\ new.direction = r.direction /\ new.product = r.product /\ new.qty = r.qty
        /\ new.handed = h /\ new.offs = offs
    <3>1. Edited(r, new, rt, cv, wo, rc2, a, h, offs)
      BY <1>1, <1>6, <1>7, <2>2, <2>5, <2>6 DEF Edited
    <3> QED
      BY <3>1, EditedRow
  <2> QED
    BY <1>11, <2>2, <2>7
<1>13. CASE x.recovers = 0 /\ x.type = "INVOICE_CONVERSION"
  <2> DEFINE cv2 == cv + q
  <2>1. new = [r EXCEPT !.alloc = a, !.handed = h, !.converted = cv2]
    BY <1>2, <1>11, <1>13 DEF Counted, LoanRows
  <2>2. cv2 \in Nat /\ a = r.qty - rt - cv2 - wo
    BY <1>1, <1>3, <1>5, <1>7, <1>13
  <2> HIDE DEF cv2
  <2>3. new = [r EXCEPT !.returned = rt, !.converted = cv2, !.writtenOff = wo,
                        !.recovered = rc, !.alloc = a, !.handed = h, !.offs = of]
    BY <1>2, <1>11, <2>1 DEF LoanRows
  <2>4. /\ Booked(new) /\ Going(new)
        /\ new.direction = r.direction /\ new.product = r.product /\ new.qty = r.qty
        /\ new.handed = h /\ new.offs = of
    <3>1. Edited(r, new, rt, cv2, wo, rc, a, h, of)
      BY <1>1, <1>2, <1>3, <1>4, <1>6, <1>7, <2>2, <2>3 DEF Edited
    <3> QED
      BY <3>1, EditedRow
  <2> QED
    BY <1>9, <1>11, <1>13, <2>4
<1>14. CASE x.recovers = 0 /\ x.type = "WRITE_OFF"
  <2> DEFINE offs == Append(of, [qty |-> q, recovered |-> 0])
             wo2  == wo + q
  <2>1. /\ offs \in Seq(Offs) /\ DOMAIN of \subseteq DOMAIN offs
        /\ \A w \in DOMAIN of : offs[w] = of[w]
        /\ \A w \in DOMAIN offs : offs[w].recovered <= offs[w].qty
        /\ Lost(offs) = Lost(of) + q
    BY <1>2, <1>4, <1>5, LostOfAppended
  <2>2. new = [r EXCEPT !.alloc = a, !.handed = h, !.writtenOff = wo2, !.offs = offs]
    BY <1>2, <1>11, <1>14 DEF Counted, LoanRows
  <2> HIDE DEF offs
  <2>3. Lost(offs) = Lost(of) + q
    BY <2>1
  <2>4. wo2 \in Nat /\ a = r.qty - rt - cv - wo2 /\ Lost(offs) = wo2 - rc
    BY <1>1, <1>3, <1>5, <1>7, <1>14, <2>3
  <2> HIDE DEF wo2
  <2>5. new = [r EXCEPT !.returned = rt, !.converted = cv, !.writtenOff = wo2,
                        !.recovered = rc, !.alloc = a, !.handed = h, !.offs = offs]
    BY <1>2, <1>11, <2>2 DEF LoanRows
  <2>6. /\ Booked(new) /\ Going(new)
        /\ new.direction = r.direction /\ new.product = r.product /\ new.qty = r.qty
        /\ new.handed = h /\ new.offs = offs
    <3>1. Edited(r, new, rt, cv, wo2, rc, a, h, offs)
      BY <1>1, <1>6, <1>7, <2>1, <2>4, <2>5 DEF Edited
    <3> QED
      BY <3>1, EditedRow
  <2> QED
    BY <1>9, <1>11, <1>14, <2>1, <2>6
<1>15. CASE x.recovers = 0 /\ x.type \notin {"INVOICE_CONVERSION", "WRITE_OFF"}
  <2> DEFINE rt2 == rt + q
  <2>1. new = [r EXCEPT !.alloc = a, !.handed = h, !.returned = rt2]
    BY <1>2, <1>11, <1>15 DEF Counted, LoanRows
  <2>2. rt2 \in Nat /\ a = r.qty - rt2 - cv - wo
    BY <1>1, <1>3, <1>5, <1>7, <1>15
  <2> HIDE DEF rt2
  <2>3. new = [r EXCEPT !.returned = rt2, !.converted = cv, !.writtenOff = wo,
                        !.recovered = rc, !.alloc = a, !.handed = h, !.offs = of]
    BY <1>2, <1>11, <2>1 DEF LoanRows
  <2>4. /\ Booked(new) /\ Going(new)
        /\ new.direction = r.direction /\ new.product = r.product /\ new.qty = r.qty
        /\ new.handed = h /\ new.offs = of
    <3>1. Edited(r, new, rt2, cv, wo, rc, a, h, of)
      BY <1>1, <1>2, <1>3, <1>4, <1>6, <1>7, <2>2, <2>3 DEF Edited
    <3> QED
      BY <3>1, EditedRow
  <2> QED
    BY <1>9, <1>11, <1>15, <2>4
<1> QED
  BY <1>12, <1>13, <1>14, <1>15

\* The status that a resolution leaves.
LEMMA StatusRow ==
  ASSUME NEW r, Booked(r), Going(r)
  PROVE  LET new == [r EXCEPT !.status = Status(r)]
         IN  /\ Booked(new) /\ Going(new) /\ StatusTells(new)
             /\ new.direction = r.direction /\ new.product = r.product /\ new.qty = r.qty
             /\ new.handed = r.handed
<1> DEFINE new == [r EXCEPT !.status = Status(r)]
<1>1. r \in LoanRows
  BY DEF Booked
<1>2. Status(r) \in {"OUTSTANDING", "WRITTEN_OFF", "CLOSED"}
  BY DEF Status
<1> DEFINE s == Status(r)
<1> HIDE DEF s
<1>3. s \in {"OUTSTANDING", "WRITTEN_OFF", "CLOSED"} /\ new = [r EXCEPT !.status = s]
  BY <1>2 DEF s
<1> HIDE DEF new
<1>4. /\ new \in LoanRows /\ new.status = s /\ new.direction = r.direction
      /\ new.product = r.product /\ new.qty = r.qty /\ new.returned = r.returned
      /\ new.converted = r.converted /\ new.writtenOff = r.writtenOff
      /\ new.recovered = r.recovered /\ new.alloc = r.alloc /\ new.handed = r.handed
      /\ new.offs = r.offs
  BY <1>1, <1>3 DEF LoanRows
<1>5. Going(new)
  BY <1>3, <1>4 DEF Going
<1>6. Booked(new)
  BY <1>3, <1>4, <1>5 DEF Booked, Outstanding
<1>7. Status(new) = s
  BY <1>4 DEF Status, Outstanding, s
<1>8. StatusTells(new)
  BY <1>4, <1>7 DEF StatusTells
<1> QED
  BY <1>4, <1>5, <1>6, <1>8 DEF new, s
-----------------------------------------------------------------------------
(***************************************************************************)
(* The layers of borrowed goods                                            *)
(***************************************************************************)

\* The layer that a borrowing brought, with what was handed back, is what was borrowed
\* at most.
OwnedAt(ls, r, l) ==
  \E k \in DOMAIN ls[r.product] :
    ls[r.product][k].origin = l /\ ls[r.product][k].left + r.handed <= r.qty

\* Every loan that goes on has one such layer, and no other loan has any.
Owned(ls, ln) ==
  /\ \A p \in Products : \A k \in DOMAIN ls[p] :
       ls[p][k].origin \in Loans =>
         Borrowed(ln[ls[p][k].origin]) /\ ln[ls[p][k].origin].product = p
  /\ \A p \in Products : \A j, k \in DOMAIN ls[p] :
       ls[p][j].origin \in Loans /\ ls[p][j].origin = ls[p][k].origin => j = k
  /\ \A l \in Loans : Borrowed(ln[l]) => OwnedAt(ls, ln[l], l)

\* The layer of a loan stays its own when the layers of its product are retained.
LEMMA OwnedAtRetained ==
  ASSUME NEW a, NEW a2, NEW r \in LoanRows, NEW l, OwnedAt(a, r, l),
         a[r.product] \in Seq(LayerRows), a2[r.product] \in Seq(LayerRows),
         Retains(a[r.product], a2[r.product])
  PROVE  OwnedAt(a2, r, l)
<1> DEFINE p == r.product
<1>1. r.handed \in Nat /\ r.qty \in Nat
  BY DEF LoanRows
<1>2. PICK k \in DOMAIN a[p] : a[p][k].origin = l /\ a[p][k].left + r.handed <= r.qty
  BY DEF OwnedAt
<1>3. k \in DOMAIN a2[p] /\ a2[p][k].origin = l /\ a2[p][k].left <= a[p][k].left
  BY <1>2 DEF Retains
<1>4. a[p][k].left \in Nat /\ a2[p][k].left \in Nat
  BY <1>2, <1>3, LeftsType
<1>5. a2[p][k].left + r.handed <= r.qty
  BY <1>1, <1>2, <1>3, <1>4
<1> QED
  BY <1>3, <1>5 DEF OwnedAt

\* What movements retain and a loan keeps of its row leaves the layers owned.
LEMMA OwnedKeeps ==
  ASSUME NEW a \in [Products -> Seq(LayerRows)], NEW a2 \in [Products -> Seq(LayerRows)],
         NEW c \in [Loans -> LoanRows], Owned(a, c),
         \A p \in Products : Retains(a[p], a2[p]),
         NEW l \in Loans, NEW row \in LoanRows, Borrowed(row) <=> Borrowed(c[l]),
         Borrowed(row) => row.product = c[l].product /\ OwnedAt(a2, row, l)
  PROVE  Owned(a2, [c EXCEPT ![l] = row])
<1> DEFINE c2 == [c EXCEPT ![l] = row]
<1>1. c2[l] = row /\ \A m \in Loans : m # l => c2[m] = c[m]
  OBVIOUS
<1> HIDE DEF c2
<1>2. \A m \in Loans : Borrowed(c[m]) => Borrowed(c2[m]) /\ c2[m].product = c[m].product
  BY <1>1
<1>3. ASSUME NEW p \in Products, NEW k \in DOMAIN a2[p], a2[p][k].origin \in Loans
      PROVE  k \in DOMAIN a[p] /\ a2[p][k].origin = a[p][k].origin
  BY <1>3 DEF Retains
<1>4. ASSUME NEW p \in Products, NEW k \in DOMAIN a2[p], a2[p][k].origin \in Loans
      PROVE  Borrowed(c2[a2[p][k].origin]) /\ c2[a2[p][k].origin].product = p
  <2>1. k \in DOMAIN a[p] /\ a2[p][k].origin = a[p][k].origin
    BY <1>3, <1>4
  <2>2. Borrowed(c[a[p][k].origin]) /\ c[a[p][k].origin].product = p
    BY <1>4, <2>1 DEF Owned
  <2> QED
    BY <1>2, <1>4, <2>1, <2>2
<1>5. ASSUME NEW p \in Products, NEW j \in DOMAIN a2[p], NEW k \in DOMAIN a2[p],
             a2[p][j].origin \in Loans, a2[p][j].origin = a2[p][k].origin
      PROVE  j = k
  <2>1. /\ j \in DOMAIN a[p] /\ a2[p][j].origin = a[p][j].origin
        /\ k \in DOMAIN a[p] /\ a2[p][k].origin = a[p][k].origin
    BY <1>3, <1>5
  <2> QED
    BY <1>5, <2>1 DEF Owned
<1>6. ASSUME NEW m \in Loans, Borrowed(c2[m]) PROVE OwnedAt(a2, c2[m], m)
  <2>1. CASE m = l
    BY <1>1, <1>6, <2>1
  <2>2. CASE m # l
    <3>1. c2[m] = c[m] /\ Borrowed(c[m]) /\ OwnedAt(a, c[m], m) /\ c[m] \in LoanRows
      BY <1>1, <1>6, <2>2 DEF Owned
    <3>2. a[c[m].product] \in Seq(LayerRows) /\ a2[c[m].product] \in Seq(LayerRows) /\ Retains(a[c[m].product], a2[c[m].product])
      BY <3>1 DEF LoanRows
    <3>3. OwnedAt(a2, c[m], m)
      BY <3>1, <3>2, OwnedAtRetained
    <3> QED
      BY <3>1, <3>3
  <2> QED
    BY <2>1, <2>2
<1>7. Owned(a2, c2)
  BY <1>4, <1>5, <1>6 DEF Owned
<1> QED
  BY <1>7 DEF c2

\* Movements that retain all layers leave every borrowed loan its layer.
LEMMA OwnedRetained ==
  ASSUME NEW a \in [Products -> Seq(LayerRows)], NEW a2 \in [Products -> Seq(LayerRows)],
         NEW c \in [Loans -> LoanRows], Owned(a, c),
         \A p \in Products : Retains(a[p], a2[p])
  PROVE  Owned(a2, c)
<1>1. CASE Loans = {}
  BY <1>1 DEF Owned
<1>2. CASE Loans # {}
  <2>1. PICK l \in Loans : TRUE
    BY <1>2
  <2>2. c[l] \in LoanRows /\ c[l].product \in Products
    BY DEF LoanRows
  <2>3. Borrowed(c[l]) => OwnedAt(a2, c[l], l)
    <3>1. a[c[l].product] \in Seq(LayerRows) /\ a2[c[l].product] \in Seq(LayerRows) /\ Retains(a[c[l].product], a2[c[l].product])
      BY <2>2
    <3>2. Borrowed(c[l]) => OwnedAt(a, c[l], l)
      BY DEF Owned
    <3> QED
      BY <2>2, <3>1, <3>2, OwnedAtRetained
  <2>4. Owned(a2, [c EXCEPT ![l] = c[l]])
    BY <2>2, <2>3, OwnedKeeps
  <2>5. [c EXCEPT ![l] = c[l]] = c
    OBVIOUS
  <2> QED
    BY <2>4, <2>5
<1> QED
  BY <1>1, <1>2

\* The state of a resolution under way.
St(a, b, c) == [layers |-> a, stock |-> b, loan |-> c]

\* Layer k is the one that loan l brought.
IsOwn(a, c, l, k) ==
  /\ l \in Loans /\ c[l].product \in Products /\ Owned(a, c)
  /\ k \in DOMAIN a[c[l].product] /\ a[c[l].product][k].origin = l

\* The layer the code finds for a loan is the one that is its own.
LEMMA OwnLayerIs ==
  ASSUME NEW a, NEW b, NEW c, NEW l, NEW k, IsOwn(a, c, l, k)
  PROVE  OwnLayer(St(a, b, c), l) = k
<1> DEFINE p == c[l].product
<1>1. /\ l \in Loans /\ p \in Products /\ Owned(a, c)
      /\ k \in DOMAIN a[p] /\ a[p][k].origin = l
  BY DEF IsOwn
<1>2. St(a, b, c).layers = a /\ St(a, b, c).loan = c
  BY DEF St
<1>3. OwnLayer(St(a, b, c), l) = CHOOSE j \in DOMAIN a[p] : a[p][j].origin = l
  BY <1>2 DEF OwnLayer
<1> HIDE DEF p
<1>4. \A j \in DOMAIN a[p] : a[p][j].origin = l <=> j = k
  BY <1>1 DEF Owned
<1> QED
  BY <1>1, <1>3, <1>4

\* New costs on the same layers leave the same goods in them.
LEMMA SameLefts ==
  ASSUME NEW old \in Seq(LayerRows), NEW new \in Seq(LayerRows), DOMAIN new = DOMAIN old,
         \A k \in DOMAIN old : new[k].left = old[k].left
  PROVE  Left(new) = Left(old) /\ Len(new) = Len(old)
<1>1. Lefts(new) = Lefts(old)
  BY DEF Lefts
<1>2. Len(new) = Len(old)
  BY LeftsType
<1> QED
  BY <1>1, <1>2, LeftsType

\* The layers after a correction of cost: the same goods.
SameGoods(a, a1) ==
  \A p \in Products :
    /\ DOMAIN a1[p] = DOMAIN a[p]
    /\ \A k \in DOMAIN a[p] : a1[p][k].origin = a[p][k].origin /\ a1[p][k].left = a[p][k].left

\* Layers with the same goods and origins are owned by the same loans.
LEMMA SameGoodsOwned ==
  ASSUME NEW a, NEW a1, NEW c, Owned(a, c), SameGoods(a, a1),
         \A m \in Loans : c[m].product \in Products
  PROVE  Owned(a1, c)
<1>1. \A p \in Products : \A k \in DOMAIN a1[p] : k \in DOMAIN a[p] /\ a1[p][k].origin = a[p][k].origin
  BY DEF SameGoods
<1>2. \A m \in Loans : Borrowed(c[m]) => OwnedAt(a1, c[m], m)
  BY DEF SameGoods, Owned, OwnedAt
<1>3. \A p \in Products : \A k \in DOMAIN a1[p] :
        a1[p][k].origin \in Loans =>
          Borrowed(c[a1[p][k].origin]) /\ c[a1[p][k].origin].product = p
  BY <1>1 DEF Owned
<1>4. \A p \in Products : \A j, k \in DOMAIN a1[p] :
        a1[p][j].origin \in Loans /\ a1[p][j].origin = a1[p][k].origin => j = k
  BY <1>1 DEF Owned
<1> QED
  BY <1>2, <1>3, <1>4 DEF Owned

\* Layers with the same goods hold the same stock and retain each other.
LEMMA SameGoodsSound ==
  ASSUME NEW a, NEW b, NEW a1 \in [Products -> Seq(LayerRows)], Sound(a, b), SameGoods(a, a1)
  PROVE  Sound(a1, b) /\ \A p \in Products : Retains(a[p], a1[p])
<1>1. ASSUME NEW p \in Products PROVE SoundAt(a1, b, p) /\ Retains(a[p], a1[p])
  <2>1. /\ a[p] \in Seq(LayerRows) /\ a1[p] \in Seq(LayerRows) /\ DOMAIN a1[p] = DOMAIN a[p]
        /\ \A k \in DOMAIN a[p] : a1[p][k].origin = a[p][k].origin /\ a1[p][k].left = a[p][k].left
    BY DEF Sound, SameGoods
  <2>2. Left(a1[p]) = Left(a[p]) /\ Len(a1[p]) = Len(a[p])
    BY <2>1, SameLefts
  <2>3. \A k \in DOMAIN a[p] : a[p][k].left \in Nat
    BY <2>1, LeftsType
  <2> QED
    BY <2>1, <2>2, <2>3 DEF Sound, SoundAt, Retains
<1> QED
  BY <1>1 DEF Sound

\* The product of integers is an integer.
LEMMA IntProduct ==
  ASSUME NEW m \in Int, NEW n \in Int
  PROVE  m * n \in Int
OBVIOUS

\* The invariant of layers, stock and loans but for the statuses, of values that the
\* variables take on the way.
Kept(a, b, c) ==
  /\ Sound(a, b) /\ c \in [Loans -> LoanRows] /\ Owned(a, c)
  /\ \A l \in Loans : Booked(c[l])

\* revalueIncomingLoanCost.
LEMMA RevaluedKeeps ==
  ASSUME NEW a, NEW b, NEW c, Kept(a, b, c), NEW l \in Loans, NEW x, ItemOK(x), Going(c[l]),
         CanRevalue(Revalued(St(a, b, c), l, x), l)
  PROVE  \E a1 \in [Products -> Seq(LayerRows)] :
           Revalued(St(a, b, c), l, x) = St(a1, b, c) /\ SameGoods(a, a1)
<1> DEFINE p == c[l].product
<1>1. /\ a \in [Products -> Seq(LayerRows)] /\ p \in Products /\ Owned(a, c)
      /\ \A m \in Loans : c[m].product \in Products
  BY DEF Kept, Sound, LoanRows
<1>2. CASE ~(c[l].direction = "INCOMING" /\ x.type = "INVOICE_CONVERSION")
  <2>1. Revalued(St(a, b, c), l, x) = St(a, b, c)
    BY <1>2 DEF Revalued, St
  <2>2. SameGoods(a, a)
    BY DEF SameGoods
  <2> QED
    BY <1>1, <2>1, <2>2
<1>3. CASE c[l].direction = "INCOMING" /\ x.type = "INVOICE_CONVERSION"
  <2>1. PICK k \in DOMAIN a[p] : a[p][k].origin = l
    BY <1>1, <1>3 DEF Owned, OwnedAt, Borrowed
  <2> DEFINE layer == a[p][k]
             n     == Least(x.qty, layer.left)
             v     == layer.value + n * (x.price - Provisional)
             new   == [layer EXCEPT !.value = v]
             a1    == [a EXCEPT ![p] = [a[p] EXCEPT ![k] = new]]
  <2>2. layer \in LayerRows /\ a[p] \in Seq(LayerRows)
    BY <1>1
  <2>3. layer.left \in Nat /\ layer.value \in Nat /\ layer.origin \in Origins
    BY <2>2 DEF LayerRows
  <2>4. v \in Int
    <3>1. n \in Int /\ x.price - Provisional \in Int
      BY <2>3, InventoryLoanAssumption DEF Least, ItemOK
    <3>2. n * (x.price - Provisional) \in Int
      BY <3>1, IntProduct
    <3> QED
      BY <2>3, <3>2
  <2>5. OwnLayer(St(a, b, c), l) = k
    <3>1. IsOwn(a, c, l, k)
      BY <1>1, <2>1 DEF IsOwn
    <3> QED
      BY <3>1, OwnLayerIs
  <2>6. Revalued(St(a, b, c), l, x) = St(a1, b, c)
    <3>1. St(a, b, c).loan = c /\ St(a, b, c).layers = a
      BY DEF St
    <3>2. Revalued(St(a, b, c), l, x) =
            [St(a, b, c) EXCEPT !.layers[p][k].value = @ + Least(x.qty, a[p][k].left) * (x.price - Provisional)]
      BY <1>3, <2>5, <3>1 DEF Revalued
    <3> QED
      BY <3>2 DEF St
  <2> HIDE DEF v, n
  <2>7. new.left = layer.left /\ new.origin = layer.origin /\ new.value = v
    BY <2>2 DEF LayerRows
  <2> HIDE DEF new
  <2>8. /\ DOMAIN a1 = Products /\ a1[p] = [a[p] EXCEPT ![k] = new]
        /\ DOMAIN a1[p] = DOMAIN a[p] /\ a1[p][k] = new
        /\ \A q \in Products : q # p => a1[q] = a[q]
        /\ \A j \in DOMAIN a[p] : j # k => a1[p][j] = a[p][j]
    BY <1>1
  <2> HIDE DEF a1
  <2>9. SameGoods(a, a1)
    <3>1. ASSUME NEW q \in Products
          PROVE  /\ DOMAIN a1[q] = DOMAIN a[q]
                 /\ \A j \in DOMAIN a[q] : a1[q][j].origin = a[q][j].origin /\ a1[q][j].left = a[q][j].left
      BY <2>7, <2>8
    <3> QED
      BY <3>1 DEF SameGoods
  <2>10. Owned(a1, c)
    BY <1>1, <2>9, SameGoodsOwned
  <2>11. OwnLayer(St(a1, b, c), l) = k
    <3>1. k \in DOMAIN a1[p] /\ a1[p][k].origin = l
      BY <2>1, <2>7, <2>8
    <3>2. IsOwn(a1, c, l, k)
      BY <1>1, <2>10, <3>1 DEF IsOwn
    <3> QED
      BY <3>2, OwnLayerIs
  <2>12. v >= 0
    <3>1. CanRevalue(St(a1, b, c), l)
      BY <2>6
    <3>2. St(a1, b, c).loan = c /\ St(a1, b, c).layers = a1
      BY DEF St
    <3>3. a1[p][k].value >= 0
      BY <1>3, <2>11, <3>1, <3>2 DEF CanRevalue
    <3> QED
      BY <2>7, <2>8, <3>3
  <2>13. new \in LayerRows
    <3>1. v \in Nat
      BY <2>4, <2>12
    <3>2. layer.left = 0 => v = 0
      <4>1. layer.left = 0 => n = 0 /\ layer.value = 0
        BY <2>2 DEF n, Least, ItemOK, LayerRows
      <4>2. 0 * (x.price - Provisional) = 0
        BY InventoryLoanAssumption DEF ItemOK
      <4> QED
        BY <4>1, <4>2 DEF v
    <3> QED
      BY <2>2, <2>7, <3>1, <3>2 DEF LayerRows, new
  <2>14. a1 \in [Products -> Seq(LayerRows)]
    <3>1. [a[p] EXCEPT ![k] = new] \in Seq(LayerRows)
      BY <2>2, <2>13
    <3> QED
      BY <1>1, <3>1 DEF a1
  <2> QED
    BY <2>6, <2>9, <2>14
<1> QED
  BY <1>2, <1>3

-----------------------------------------------------------------------------
(***************************************************************************)
(* Goods that come and go for an item                                      *)
(***************************************************************************)

\* Moving goods in a record of layers, stock and loans changes the stock alone.
LEMMA MovedIs ==
  ASSUME NEW a, NEW b, NEW c, NEW p, NEW n
  PROVE  Moved(St(a, b, c), p, n) = St(a, MovedStock(b, p, n), c)
BY DEF Moved, St, MovedStock

\* Bringing goods in adds a layer and its stock, and leaves the loans alone.
LEMMA BroughtInIs ==
  ASSUME NEW a, NEW b, NEW c, NEW p, NEW n, NEW layer
  PROVE  BroughtIn(St(a, b, c), p, n, layer) = St([a EXCEPT ![p] = Append(@, layer)], MovedStock(b, p, n), c)
<1>1. [St(a, b, c) EXCEPT !.layers[p] = Append(@, layer)] = St([a EXCEPT ![p] = Append(@, layer)], b, c)
  BY DEF St
<1> QED
  BY <1>1, MovedIs DEF BroughtIn

\* Consuming takes from layers and stock, and leaves the loans alone.
LEMMA ConsumedIs ==
  ASSUME NEW a, NEW b, NEW c, NEW p, NEW n
  PROVE  Consumed(St(a, b, c), p, n) = St([a EXCEPT ![p] = Consume(@, n)], MovedStock(b, p, -n), c)
<1>1. [St(a, b, c) EXCEPT !.layers[p] = Consume(@, n)] = St([a EXCEPT ![p] = Consume(@, n)], b, c)
  BY DEF St
<1> QED
  BY <1>1, MovedIs DEF Consumed

\* What is returned of layer k is taken from it and from the stock row.
LEMMA ReturningKeeps ==
  ASSUME NEW ls, NEW st, Sound(ls, st), NEW p \in Products, NEW k \in DOMAIN ls[p],
         NEW n \in Nat, n <= ls[p][k].left, n <= st[p].available
  PROVE  LET new == [ls[p] EXCEPT ![k] = TakeLayer(@, n)]
         IN  /\ Sound([ls EXCEPT ![p] = new], MovedStock(st, p, -n))
             /\ Retains(ls[p], new)
             /\ new[k].left + n = ls[p][k].left /\ new[k].origin = ls[p][k].origin
<1> DEFINE layer == TakeLayer(ls[p][k], n)
           new   == [ls[p] EXCEPT ![k] = layer]
           row   == [actual |-> st[p].actual + (-n), available |-> st[p].available + (-n)]
<1>1. ls[p] \in Seq(LayerRows) /\ st[p] \in StockRows /\ SoundAt(ls, st, p)
  BY DEF Sound
<1>2. ls[p][k] \in LayerRows /\ \A j \in DOMAIN ls[p] : ls[p][j].left \in Nat
  BY <1>1, LeftsType
<1>3. layer \in LayerRows /\ layer.left = ls[p][k].left - n /\ layer.origin = ls[p][k].origin
  BY <1>2, TakeLayerType
<1> HIDE DEF layer
<1>4. new \in Seq(LayerRows) /\ Len(new) = Len(ls[p]) /\ Left(new) = Left(ls[p]) - ls[p][k].left + layer.left
  BY <1>1, <1>3, LeftOfTaken
<1>5. /\ DOMAIN new = DOMAIN ls[p] /\ new[k] = layer
      /\ \A j \in DOMAIN ls[p] : j # k => new[j] = ls[p][j]
  BY <1>1
<1>6. st[p].actual \in Nat /\ st[p].available \in Nat /\ Left(ls[p]) \in Nat
  BY <1>1, LeftsType DEF StockRows
<1>7. row.actual = st[p].actual - n /\ row.available = st[p].available - n
  BY <1>6
<1> HIDE DEF new, row
<1>8. Left(new) = Left(ls[p]) - n
  BY <1>2, <1>3, <1>4, <1>6
<1>9. row \in StockRows /\ Len(new) <= MaxLayers /\ Left(new) = row.actual /\ row.available <= row.actual
  <2>1. row.actual \in Nat /\ row.available \in Nat /\ row.available <= row.actual
    BY <1>1, <1>6, <1>7 DEF SoundAt
  <2>2. row \in StockRows
    BY <2>1 DEF StockRows, row
  <2> QED
    BY <1>1, <1>4, <1>7, <1>8, <2>1, <2>2 DEF SoundAt
<1>10. Sound([ls EXCEPT ![p] = new], [st EXCEPT ![p] = row])
  BY <1>4, <1>9, OneProductMoves
<1>11. MovedStock(st, p, -n) = [st EXCEPT ![p] = row]
  BY DEF MovedStock, row
<1>12. ASSUME NEW j \in DOMAIN ls[p]
       PROVE  new[j].origin = ls[p][j].origin /\ new[j].left <= ls[p][j].left
  <2>1. CASE j = k
    BY <1>2, <1>3, <1>5, <2>1
  <2>2. CASE j # k
    BY <1>2, <1>5, <2>2
  <2> QED
    BY <2>1, <2>2
<1>13. Retains(ls[p], new)
  BY <1>5, <1>12 DEF Retains
<1>14. new[k].left + n = ls[p][k].left /\ new[k].origin = ls[p][k].origin
  BY <1>2, <1>3, <1>5
<1> QED
  BY <1>10, <1>11, <1>13, <1>14 DEF new, layer

\* What moving the goods of an item leaves of layers and stock.
Outcome(a, c, l, x, a2, b2) ==
  /\ Sound(a2, b2) /\ \A q \in Products : Retains(a[q], a2[q])
  /\ (Borrowed(c[l]) /\ x.type = "SAME_PRODUCT_RETURN") =>
       LET p == c[l].product
       IN  \E k \in DOMAIN a[p] : a[p][k].origin = l /\ a2[p][k].left + x.qty <= a[p][k].left

\* The movement of goods of one item keeps layers and stock in step, whichever outcome it
\* has.
LEMMA GoodsMovedKeeps ==
  ASSUME NEW a, NEW b, NEW c, Kept(a, b, c), NEW l \in Loans, NEW x, ItemOK(x), Going(c[l]),
         CanMove(St(a, b, c), l, x)
  PROVE  \E a2, b2 : GoodsMoved(St(a, b, c), l, x) = St(a2, b2, c) /\ Outcome(a, c, l, x, a2, b2)
<1> DEFINE s == St(a, b, c)
           r == c[l]
           p == MovedProduct(r, x)
           m == x.replacement
<1>1. /\ Sound(a, b) /\ a \in [Products -> Seq(LayerRows)] /\ b \in [Products -> StockRows]
      /\ r \in LoanRows /\ Owned(a, c)
  BY DEF Kept, Sound
<1>2. s.layers = a /\ s.stock = b /\ s.loan = c
  BY DEF St
<1>3. /\ r.product \in Products /\ r.direction \in {"OUTGOING", "INCOMING"}
      /\ x.qty \in Nat /\ m \in Nat \ {0}
  BY <1>1 DEF LoanRows, Directions, ItemOK
<1>4. CASE ~Moves(r, x)
  <2>1. GoodsMoved(s, l, x) = s
    BY <1>2, <1>4 DEF GoodsMoved
  <2>2. x.type # "SAME_PRODUCT_RETURN"
    BY <1>3, <1>4, InventoryLoanAssumption DEF Moves, MovedProduct
  <2>3. \A q \in Products : Retains(a[q], a[q])
    BY <1>1, RetainsItself
  <2>4. Outcome(a, c, l, x, a, b)
    BY <1>1, <2>2, <2>3 DEF Outcome
  <2> QED
    BY <2>1, <2>4
<1>5. CASE Moves(r, x) /\ r.direction = "OUTGOING"
  <2> DEFINE layer == Layer("INVENTORY_LOAN_RETURN", m, x.qty * Provisional)
             a2    == [a EXCEPT ![p] = Append(@, layer)]
             b2    == MovedStock(b, p, m)
  <2>1. p \in Products
    BY <1>3, <1>5 DEF Moves, MovedProduct, ItemOK
  <2>2. Len(a[p]) < MaxLayers
    BY <1>2, <1>5 DEF CanMove
  <2>3. GoodsMoved(s, l, x) = BroughtIn(s, p, m, layer)
    BY <1>2, <1>5 DEF GoodsMoved
  <2>4. x.qty * Provisional \in Nat
    BY <1>3, Product, InventoryLoanAssumption
  <2>5. layer \in LayerRows /\ layer.left = m /\ layer.origin \notin Loans
    BY <1>3, <2>4, InventoryLoanAssumption DEF Layer, LayerRows, Origins
  <2> HIDE DEF layer, p
  <2>6. GoodsMoved(s, l, x) = St(a2, b2, c)
    BY <2>3, BroughtInIs
  <2>7. Sound(a2, MovedStock(b, p, layer.left)) /\ Retains(a[p], Append(a[p], layer))
    BY <1>1, <2>1, <2>2, <2>5, BringingIn
  <2>8. \A q \in Products : Retains(a[q], a2[q])
    BY <1>1, <2>1, <2>7, OthersRetained
  <2>9. ~Borrowed(r)
    BY <1>5 DEF Borrowed
  <2> HIDE DEF a2
  <2>10. Outcome(a, c, l, x, a2, b2)
    BY <2>5, <2>7, <2>8, <2>9 DEF Outcome
  <2> QED
    BY <2>6, <2>10
<1>6. CASE Moves(r, x) /\ r.direction # "OUTGOING" /\ x.type # "SAME_PRODUCT_RETURN"
  <2> DEFINE a2 == [a EXCEPT ![p] = Consume(@, m)]
             b2 == MovedStock(b, p, -m)
  <2>1. p \in Products
    BY <1>3, <1>6 DEF Moves, MovedProduct, ItemOK
  <2>2. CanConsume(a[p], m) /\ m <= b[p].actual /\ m <= b[p].available
    BY <1>2, <1>6 DEF CanMove, CanTakeOut
  <2>3. GoodsMoved(s, l, x) = Consumed(s, p, m)
    BY <1>2, <1>6 DEF GoodsMoved
  <2> HIDE DEF p
  <2>4. GoodsMoved(s, l, x) = St(a2, b2, c)
    BY <2>3, ConsumedIs
  <2>5. Sound(a2, b2) /\ Retains(a[p], Consume(a[p], m))
    BY <1>1, <1>3, <2>1, <2>2, TakingOut
  <2>6. \A q \in Products : Retains(a[q], a2[q])
    BY <1>1, <2>1, <2>5, OthersRetained
  <2> HIDE DEF a2, b2
  <2>7. Outcome(a, c, l, x, a2, b2)
    BY <1>6, <2>5, <2>6 DEF Outcome
  <2> QED
    BY <2>4, <2>7
<1>7. CASE r.direction # "OUTGOING" /\ x.type = "SAME_PRODUCT_RETURN"
  <2> DEFINE k == OwnLayer(s, l)
             n == x.qty
  <2>1. p = r.product /\ p \in Products /\ Moves(r, x)
    BY <1>3, <1>7, InventoryLoanAssumption DEF MovedProduct, Moves
  <2>2. m = n
    BY <1>7 DEF ItemOK
  <2>3. n <= a[p][k].left /\ n <= b[p].available
    BY <1>2, <1>7, <2>1, <2>2 DEF CanMove, CanReturn, CanTakeOut
  <2>4. Borrowed(r)
    BY <1>3, <1>7 DEF Borrowed
  <2>5. k \in DOMAIN a[p] /\ a[p][k].origin = l
    <3>1. PICK j \in DOMAIN a[p] : a[p][j].origin = l
      BY <1>1, <2>1, <2>4 DEF Owned, OwnedAt
    <3>2. IsOwn(a, c, l, j)
      BY <1>1, <2>1, <3>1 DEF IsOwn
    <3>3. k = j
      BY <3>2, OwnLayerIs
    <3> QED
      BY <3>1, <3>3
  <2> DEFINE new == [a[p] EXCEPT ![k] = TakeLayer(@, n)]
             a2  == [a EXCEPT ![p] = new]
             b2  == MovedStock(b, p, -n)
  <2>6. GoodsMoved(s, l, x) = St(a2, b2, c)
    <3>1. GoodsMoved(s, l, x) = Returned(s, l, x)
      BY <1>2, <1>7, <2>1 DEF GoodsMoved
    <3>2. Returned(s, l, x) = Moved([s EXCEPT !.layers[p][k] = TakeLayer(@, n)], p, -n)
      BY <1>2, <2>1 DEF Returned
    <3> HIDE DEF k, p
    <3>3. [s EXCEPT !.layers[p][k] = TakeLayer(@, n)] = St(a2, b, c)
      BY DEF St
    <3> QED
      BY <3>1, <3>2, <3>3, MovedIs
  <2>7. n \in Nat
    BY <1>3
  <2> HIDE DEF k, p, n
  <2>8. /\ Sound(a2, b2) /\ Retains(a[p], new) /\ new[k].left + n = a[p][k].left
        /\ new[k].origin = a[p][k].origin
    <3>1. Sound(a, b) /\ p \in Products /\ k \in DOMAIN a[p] /\ n \in Nat
          /\ n <= a[p][k].left /\ n <= b[p].available
      BY <1>1, <2>1, <2>3, <2>5, <2>7
    <3> QED
      BY <3>1, ReturningKeeps
  <2> HIDE DEF new
  <2>9. \A q \in Products : Retains(a[q], a2[q])
    BY <1>1, <2>1, <2>8, OthersRetained
  <2>10. a2[p] = new /\ a[p][k].left \in Nat
    <3>1. a[p] \in Seq(LayerRows)
      BY <1>1, <2>1
    <3>2. a[p][k].left \in Nat
      BY <2>5, <3>1, LeftsType
    <3> QED
      BY <1>1, <2>1, <3>2
  <2> HIDE DEF a2, b2
  <2>11. a2[p][k].left + x.qty <= a[p][k].left
    BY <2>8, <2>10 DEF n
  <2>12. Outcome(a, c, l, x, a2, b2)
    BY <2>1, <2>5, <2>8, <2>9, <2>11 DEF Outcome
  <2> QED
    BY <2>6, <2>12
<1> QED
  BY <1>4, <1>5, <1>6, <1>7

-----------------------------------------------------------------------------
(***************************************************************************)
(* An item, and the requests of a loan                                     *)
(***************************************************************************)

\* A loan's layers, once goods moved for an item and the item is counted.
LEMMA OwnedAfter ==
  ASSUME NEW a, NEW b, NEW c, Kept(a, b, c), NEW l \in Loans, NEW x, ItemOK(x), Going(c[l]),
         Borrowed(c[l]), NEW a2, NEW b2, Outcome(a, c, l, x, a2, b2),
         NEW row \in LoanRows, row.product = c[l].product, row.qty = c[l].qty,
         row.handed = c[l].handed + (IF x.type = "SAME_PRODUCT_RETURN" THEN x.qty ELSE 0)
  PROVE  OwnedAt(a2, row, l)
<1> DEFINE p == c[l].product
<1>1. /\ a \in [Products -> Seq(LayerRows)] /\ a2 \in [Products -> Seq(LayerRows)]
      /\ c[l] \in LoanRows /\ Owned(a, c) /\ Retains(a[p], a2[p]) /\ p \in Products
  BY DEF Kept, Sound, Outcome, LoanRows
<1>2. PICK k \in DOMAIN a[p] : a[p][k].origin = l /\ a[p][k].left + c[l].handed <= c[l].qty
  BY <1>1 DEF Owned, OwnedAt
<1>3. k \in DOMAIN a2[p] /\ a2[p][k].origin = l /\ a2[p][k].left <= a[p][k].left
  BY <1>1, <1>2 DEF Retains
<1>4. /\ a[p][k].left \in Nat /\ a2[p][k].left \in Nat
      /\ c[l].handed \in Nat /\ c[l].qty \in Nat /\ x.qty \in Nat
  <2>1. a[p] \in Seq(LayerRows) /\ a2[p] \in Seq(LayerRows)
    BY <1>1
  <2>2. a[p][k].left \in Nat /\ a2[p][k].left \in Nat
    BY <1>2, <1>3, <2>1, LeftsType
  <2> QED
    BY <1>1, <2>2 DEF LoanRows, ItemOK
<1>5. CASE x.type = "SAME_PRODUCT_RETURN"
  <2>1. PICK j \in DOMAIN a[p] : a[p][j].origin = l /\ a2[p][j].left + x.qty <= a[p][j].left
    BY <1>5 DEF Outcome
  <2>2. j = k
    BY <1>1, <1>2, <2>1 DEF Owned
  <2>3. row.handed = c[l].handed + x.qty
    BY <1>5
  <2>4. a2[p][k].left + row.handed <= row.qty
    BY <1>2, <1>4, <2>1, <2>2, <2>3
  <2> QED
    BY <1>3, <2>4 DEF OwnedAt
<1>6. CASE x.type # "SAME_PRODUCT_RETURN"
  <2>1. row.handed = c[l].handed
    BY <1>4, <1>6
  <2>2. a2[p][k].left + row.handed <= row.qty
    BY <1>2, <1>3, <1>4, <2>1
  <2> QED
    BY <1>3, <2>2 DEF OwnedAt
<1> QED
  BY <1>5, <1>6

\* The row of loan l after item x.
AppliedRow(c, l, x) == Counted(Allocated(c[l], x), x)

\* One item applied keeps the whole of Kept: the goods it moves are those its row then
\* books.
LEMMA AppliedKeeps ==
  ASSUME NEW a, NEW b, NEW c, Kept(a, b, c), NEW l \in Loans, NEW x, ItemOK(x), Going(c[l]),
         Fits(c[l], x), CanApply(St(a, b, c), l, x)
  PROVE  \E a2, b2 :
           /\ Applied(St(a, b, c), l, x) = St(a2, b2, [c EXCEPT ![l] = AppliedRow(c, l, x)])
           /\ Kept(a2, b2, [c EXCEPT ![l] = AppliedRow(c, l, x)])
<1> DEFINE row == AppliedRow(c, l, x)
           c2  == [c EXCEPT ![l] = row]
<1>1. Sound(a, b) /\ c \in [Loans -> LoanRows] /\ Owned(a, c) /\ \A m \in Loans : Booked(c[m])
  BY DEF Kept
<1>2. St(a, b, c).loan = c
  BY DEF St
<1>3. /\ CanMove(Revalued(St(a, b, c), l, x), l, x) /\ CanRevalue(Revalued(St(a, b, c), l, x), l)
      /\ CanAllocate(c[l], x)
  BY <1>2 DEF CanApply
<1>4. PICK a1 \in [Products -> Seq(LayerRows)] :
        Revalued(St(a, b, c), l, x) = St(a1, b, c) /\ SameGoods(a, a1)
  BY <1>3, RevaluedKeeps
<1>5. Kept(a1, b, c)
  <2>1. \A m \in Loans : c[m].product \in Products
    BY <1>1 DEF LoanRows
  <2>2. Owned(a1, c)
    BY <1>1, <1>4, <2>1, SameGoodsOwned
  <2>3. Sound(a1, b)
    BY <1>1, <1>4, SameGoodsSound
  <2> QED
    BY <1>1, <2>2, <2>3 DEF Kept
<1>6. CanMove(St(a1, b, c), l, x)
  BY <1>3, <1>4
<1>7. PICK a2, b2 : GoodsMoved(St(a1, b, c), l, x) = St(a2, b2, c) /\ Outcome(a1, c, l, x, a2, b2)
  BY <1>5, <1>6, GoodsMovedKeeps
<1>8. St(a2, b2, c).loan = c
  BY DEF St
<1>9. Applied(St(a, b, c), l, x) = St(a2, b2, c2)
  <2>1. Applied(St(a, b, c), l, x) = [St(a2, b2, c) EXCEPT !.loan[l] = row]
    BY <1>4, <1>7, <1>8 DEF Applied, AppliedRow
  <2> HIDE DEF row
  <2> QED
    BY <2>1 DEF St
<1>10. /\ Booked(row) /\ Going(row)
       /\ row.direction = c[l].direction /\ row.product = c[l].product /\ row.qty = c[l].qty
       /\ row.handed = c[l].handed + (IF x.type = "SAME_PRODUCT_RETURN" THEN x.qty ELSE 0)
  BY <1>1, <1>3, CountedRow DEF AppliedRow
<1> HIDE DEF row
<1>11. row \in LoanRows /\ (Borrowed(row) <=> Borrowed(c[l]))
  BY <1>10 DEF Booked, Borrowed
<1>12. Borrowed(row) => OwnedAt(a2, row, l)
  BY <1>5, <1>7, <1>10, <1>11, OwnedAfter
<1>13. Sound(a2, b2) /\ \A p \in Products : Retains(a1[p], a2[p])
  BY <1>7 DEF Outcome
<1>14. Owned(a2, c2)
  <2>1. a2 \in [Products -> Seq(LayerRows)] /\ a1 \in [Products -> Seq(LayerRows)] /\ Owned(a1, c)
    BY <1>5, <1>13 DEF Sound, Kept
  <2> QED
    BY <1>1, <1>10, <1>11, <1>12, <1>13, <2>1, OwnedKeeps
<1>15. Kept(a2, b2, c2)
  <2>1. c2 \in [Loans -> LoanRows] /\ \A m \in Loans : Booked(c2[m])
    BY <1>1, <1>10, <1>11
  <2> QED
    BY <1>13, <1>14, <2>1 DEF Kept
<1> QED
  BY <1>9, <1>15 DEF row

\* refreshLoanStatus.
LEMMA WithStatusKeeps ==
  ASSUME NEW a, NEW b, NEW c, Kept(a, b, c), NEW l \in Loans, Going(c[l]),
         \A m \in Loans : m # l => StatusTells(c[m])
  PROVE  \E c2 : /\ WithStatus(St(a, b, c), l) = St(a, b, c2) /\ Kept(a, b, c2)
                 /\ \A m \in Loans : StatusTells(c2[m])
<1> DEFINE row == [c[l] EXCEPT !.status = Status(c[l])]
           c2  == [c EXCEPT ![l] = row]
<1>1. Sound(a, b) /\ c \in [Loans -> LoanRows] /\ Owned(a, c) /\ \A m \in Loans : Booked(c[m])
  BY DEF Kept
<1>2. WithStatus(St(a, b, c), l) = St(a, b, c2)
  BY DEF WithStatus, St
<1>3. /\ Booked(row) /\ Going(row) /\ StatusTells(row)
      /\ row.direction = c[l].direction /\ row.product = c[l].product /\ row.qty = c[l].qty
      /\ row.handed = c[l].handed
  BY <1>1, StatusRow
<1> HIDE DEF row
<1>4. row \in LoanRows /\ (Borrowed(row) <=> Borrowed(c[l]))
  BY <1>3 DEF Booked, Borrowed
<1>5. a \in [Products -> Seq(LayerRows)] /\ \A p \in Products : Retains(a[p], a[p])
  BY <1>1, RetainsItself DEF Sound
<1>6. Borrowed(row) => OwnedAt(a, row, l)
  BY <1>1, <1>3, <1>4 DEF Owned, OwnedAt
<1>7. Owned(a, c2)
  BY <1>1, <1>3, <1>4, <1>5, <1>6, OwnedKeeps
<1>8. c2 \in [Loans -> LoanRows] /\ \A m \in Loans : Booked(c2[m])
  BY <1>1, <1>3, <1>4
<1>9. \A m \in Loans : StatusTells(c2[m])
  BY <1>1, <1>3
<1>10. Kept(a, b, c2)
  BY <1>1, <1>7, <1>8 DEF Kept
<1> QED
  BY <1>2, <1>9, <1>10

\* The inductive invariant of loans.
LoanInv == Kept(layers, stock, loan) /\ \A l \in Loans : StatusTells(loan[l])

\* A commit of what is kept, with statuses that tell it, keeps the invariant.
LEMMA CommitKeeps ==
  ASSUME NEW a, NEW b, NEW c, Commit(St(a, b, c)), Kept(a, b, c), \A l \in Loans : StatusTells(c[l])
  PROVE  LoanInv'
<1>1. layers' = a /\ stock' = b /\ loan' = c
  BY DEF Commit, St
<1> QED
  BY <1>1 DEF LoanInv

\* A resolution with one item keeps the invariant.
LEMMA ResolveKeeps ==
  ASSUME LoanInv, NEW l \in Loans, Resolvable(l), NEW x \in Items,
         ValidItems(loan[l], <<x>>), CanApply(Current, l, x), Resolve(l, x)
  PROVE  LoanInv'
<1>1. Current = St(layers, stock, loan)
  BY DEF Current, St
<1>2. Kept(layers, stock, loan) /\ Going(loan[l]) /\ Booked(loan[l]) /\ loan \in [Loans -> LoanRows]
  BY DEF LoanInv, Resolvable, Going, Kept
<1>3. ItemOK(x) /\ Fits(loan[l], x)
  BY ItemsOK, OneFits
<1> DEFINE row == AppliedRow(loan, l, x)
           c   == [loan EXCEPT ![l] = row]
<1>4. PICK a, b : Applied(Current, l, x) = St(a, b, c) /\ Kept(a, b, c)
  BY <1>1, <1>2, <1>3, AppliedKeeps
<1>5. Going(row)
  <2>1. CanAllocate(loan[l], x)
    BY <1>1 DEF CanApply, St
  <2> QED
    BY <1>2, <1>3, <2>1, CountedRow DEF AppliedRow
<1> HIDE DEF row
<1>6. c[l] = row /\ \A m \in Loans : m # l => c[m] = loan[m] /\ StatusTells(loan[m])
  BY <1>2 DEF LoanInv
<1> HIDE DEF c
<1>7. PICK c2 : /\ WithStatus(St(a, b, c), l) = St(a, b, c2) /\ Kept(a, b, c2)
                /\ \A m \in Loans : StatusTells(c2[m])
  BY <1>4, <1>5, <1>6, WithStatusKeeps
<1>8. Commit(St(a, b, c2))
  BY <1>4, <1>7 DEF Resolve
<1> QED
  BY <1>7, <1>8, CommitKeeps

\* The second item finds what the first one left of the write-off that both recover.
LEMMA SecondFits ==
  ASSUME NEW r, Booked(r), Going(r), NEW x, NEW y, ItemOK(x), ItemOK(y), ValidItems(r, <<x, y>>),
         Fits(r, x), CanAllocate(r, x)
  PROVE  Fits(Counted(Allocated(r, x), x), y)
<1> DEFINE new == Counted(Allocated(r, x), x)
<1>1. /\ DOMAIN r.offs \subseteq DOMAIN new.offs
      /\ \A w \in DOMAIN r.offs :
           /\ new.offs[w].qty = r.offs[w].qty
           /\ new.offs[w].recovered = r.offs[w].recovered + (IF x.recovers = w THEN x.qty ELSE 0)
  BY CountedRow
<1>2. /\ y.recovers \in {0} \cup DOMAIN r.offs
      /\ y.recovers # 0 =>
           (IF x.recovers = y.recovers THEN x.qty ELSE 0) + y.qty
             <= r.offs[y.recovers].qty - r.offs[y.recovers].recovered
  BY TwoFit
<1>3. x.qty \in Nat /\ y.qty \in Nat
  BY DEF ItemOK
<1>4. r.offs \in Seq(Offs)
  BY DEF Booked, LoanRows, Offs
<1> DEFINE w == y.recovers
<1> HIDE DEF new
<1>5. ASSUME w # 0 PROVE y.qty <= new.offs[w].qty - new.offs[w].recovered
  <2>1. w \in DOMAIN r.offs
    BY <1>2, <1>5
  <2>2. r.offs[w].qty \in Nat /\ r.offs[w].recovered \in Nat
    <3>1. r.offs[w] \in Offs
      BY <1>4, <2>1
    <3> QED
      BY <3>1 DEF Offs
  <2> DEFINE n == IF x.recovers = w THEN x.qty ELSE 0
  <2>3. n \in Nat /\ n + y.qty <= r.offs[w].qty - r.offs[w].recovered
    BY <1>2, <1>3, <1>5
  <2>4. new.offs[w].qty = r.offs[w].qty /\ new.offs[w].recovered = r.offs[w].recovered + n
    BY <1>1, <2>1
  <2> HIDE DEF n
  <2> QED
    BY <1>3, <2>2, <2>3, <2>4
<1>6. w \in {0} \cup DOMAIN new.offs
  BY <1>1, <1>2
<1>7. Fits(new, y)
  BY <1>5, <1>6 DEF Fits
<1> QED
  BY <1>7 DEF new

\* A resolution with two items, the second applied to what the first left, keeps the
\* invariant.
LEMMA ResolveTwoKeeps ==
  ASSUME LoanInv, NEW l \in Loans, Resolvable(l), NEW x \in Items, NEW y \in Items,
         ValidItems(loan[l], <<x>>), ValidItems(loan[l], <<x, y>>), CanApply(Current, l, x),
         ResolveTwo(l, x, y)
  PROVE  LoanInv'
<1>1. Current = St(layers, stock, loan)
  BY DEF Current, St
<1>2. Kept(layers, stock, loan) /\ Going(loan[l]) /\ Booked(loan[l]) /\ loan \in [Loans -> LoanRows]
  BY DEF LoanInv, Resolvable, Going, Kept
<1>3. ItemOK(x) /\ ItemOK(y) /\ Fits(loan[l], x)
  BY ItemsOK, OneFits
<1> DEFINE row == AppliedRow(loan, l, x)
           c   == [loan EXCEPT ![l] = row]
<1>4. PICK a, b : Applied(Current, l, x) = St(a, b, c) /\ Kept(a, b, c)
  BY <1>1, <1>2, <1>3, AppliedKeeps
<1>5. CanAllocate(loan[l], x)
  BY <1>1 DEF CanApply, St
<1>6. Going(row)
  BY <1>2, <1>3, <1>5, CountedRow DEF AppliedRow
<1>7. Fits(row, y)
  BY <1>2, <1>3, <1>5, SecondFits DEF AppliedRow
<1> HIDE DEF row
<1>8. c[l] = row /\ \A m \in Loans : m # l => c[m] = loan[m] /\ StatusTells(loan[m])
  BY <1>2 DEF LoanInv
<1> HIDE DEF c
<1>9. CanApply(St(a, b, c), l, y) /\ Commit(WithStatus(Applied(St(a, b, c), l, y), l))
  BY <1>4 DEF ResolveTwo
<1> DEFINE row2 == AppliedRow(c, l, y)
           d    == [c EXCEPT ![l] = row2]
<1>10. PICK a2, b2 : Applied(St(a, b, c), l, y) = St(a2, b2, d) /\ Kept(a2, b2, d)
  BY <1>3, <1>4, <1>6, <1>7, <1>8, <1>9, AppliedKeeps
<1>11. c \in [Loans -> LoanRows] /\ Booked(c[l]) /\ Going(c[l]) /\ Fits(c[l], y)
  BY <1>4, <1>6, <1>7, <1>8 DEF Kept
<1>12. Going(row2)
  <2>1. CanAllocate(c[l], y)
    BY <1>9 DEF CanApply, St
  <2> QED
    BY <1>3, <1>11, <2>1, CountedRow DEF AppliedRow
<1> HIDE DEF row2
<1>13. d[l] = row2 /\ \A m \in Loans : m # l => d[m] = loan[m] /\ StatusTells(loan[m])
  BY <1>8, <1>11
<1> HIDE DEF d
<1>14. PICK e : /\ WithStatus(St(a2, b2, d), l) = St(a2, b2, e) /\ Kept(a2, b2, e)
                /\ \A m \in Loans : StatusTells(e[m])
  BY <1>10, <1>12, <1>13, WithStatusKeeps
<1>15. Commit(St(a2, b2, e))
  BY <1>9, <1>10, <1>14
<1> QED
  BY <1>14, <1>15, CommitKeeps

\* A row that is not going, before and after, or one that goes on as before, leaves the
\* goods alone.
LEMMA RowKeeps ==
  ASSUME LoanInv, NEW l \in Loans, NEW row, Booked(row), ~Going(row), ~Going(loan[l]),
         loan' = [loan EXCEPT ![l] = row], UNCHANGED goodsVars
  PROVE  LoanInv'
<1> DEFINE c == [loan EXCEPT ![l] = row]
<1>1. /\ Sound(layers, stock) /\ loan \in [Loans -> LoanRows] /\ Owned(layers, loan)
      /\ \A m \in Loans : Booked(loan[m]) /\ StatusTells(loan[m])
  BY DEF LoanInv, Kept
<1>2. row \in LoanRows /\ ~Borrowed(row) /\ ~Borrowed(loan[l]) /\ StatusTells(row)
  BY DEF Booked, Borrowed, StatusTells
<1>3. layers \in [Products -> Seq(LayerRows)] /\ \A p \in Products : Retains(layers[p], layers[p])
  BY <1>1, RetainsItself DEF Sound
<1>4. Owned(layers, c)
  BY <1>1, <1>2, <1>3, OwnedKeeps
<1>5. c \in [Loans -> LoanRows] /\ \A m \in Loans : Booked(c[m]) /\ StatusTells(c[m])
  BY <1>1, <1>2
<1>6. layers' = layers /\ stock' = stock /\ loan' = c
  BY DEF goodsVars
<1> HIDE DEF c
<1> QED
  BY <1>1, <1>4, <1>5, <1>6 DEF LoanInv, Kept

\* A draft saved keeps the invariant.
LEMMA SaveKeeps ==
  ASSUME LoanInv, NEW l \in Loans, NEW direction \in Directions, NEW p \in Products, NEW n \in Quantities,
         Save(l, direction, p, n)
  PROVE  LoanInv'
<1> DEFINE row == [loan[l] EXCEPT !.status = "DRAFT", !.direction = direction, !.product = p, !.qty = n]
<1>1. Booked(loan[l]) /\ loan[l] \in LoanRows
  BY DEF LoanInv, Kept, Booked
<1>2. n \in Nat /\ n > 0
  BY StockGoodsAssumption DEF Quantities
<1>3. ~Going(loan[l]) /\ loan' = [loan EXCEPT ![l] = row] /\ UNCHANGED goodsVars
  BY DEF Save, Going
<1>4. row \in LoanRows
  BY <1>1, <1>2 DEF LoanRows
<1>5. /\ row.status = "DRAFT" /\ row.qty = n /\ row.returned = loan[l].returned
      /\ row.converted = loan[l].converted /\ row.writtenOff = loan[l].writtenOff
      /\ row.recovered = loan[l].recovered /\ row.offs = loan[l].offs /\ row.handed = loan[l].handed
  BY <1>1 DEF LoanRows
<1> HIDE DEF row
<1>6. ~Going(row)
  BY <1>5 DEF Going
<1>7. Booked(row)
  BY <1>1, <1>2, <1>3, <1>4, <1>5, <1>6 DEF Booked
<1> QED
  BY <1>3, <1>6, <1>7, RowKeeps

\* A cancelled draft keeps the invariant.
LEMMA CancelKeeps ==
  ASSUME LoanInv, NEW l \in Loans, Cancel(l)
  PROVE  LoanInv'
<1> DEFINE row == [loan[l] EXCEPT !.status = "CANCELLED"]
<1>1. Booked(loan[l]) /\ loan[l] \in LoanRows
  BY DEF LoanInv, Kept, Booked
<1>2. ~Going(loan[l]) /\ loan' = [loan EXCEPT ![l] = row] /\ UNCHANGED goodsVars
  BY DEF Cancel, Going
<1>3. row \in LoanRows
  BY <1>1 DEF LoanRows
<1>4. /\ row.status = "CANCELLED" /\ row.returned = loan[l].returned
      /\ row.converted = loan[l].converted /\ row.writtenOff = loan[l].writtenOff
      /\ row.recovered = loan[l].recovered /\ row.offs = loan[l].offs /\ row.handed = loan[l].handed
  BY <1>1 DEF LoanRows
<1> HIDE DEF row
<1>5. ~Going(row)
  BY <1>4 DEF Going
<1>6. Booked(row)
  BY <1>1, <1>2, <1>3, <1>4, <1>5 DEF Booked
<1> QED
  BY <1>2, <1>5, <1>6, RowKeeps

\* The layer a borrowing brings is the loan's only one.
LEMMA OwnedBegins ==
  ASSUME NEW a \in [Products -> Seq(LayerRows)], NEW c \in [Loans -> LoanRows], Owned(a, c),
         NEW l \in Loans, ~Borrowed(c[l]), NEW row \in LoanRows, Borrowed(row), row.handed = 0,
         NEW layer \in LayerRows, layer.origin = l, layer.left = row.qty
  PROVE  Owned([a EXCEPT ![row.product] = Append(@, layer)], [c EXCEPT ![l] = row])
<1> DEFINE p  == row.product
           L  == Len(a[p])
           a2 == [a EXCEPT ![p] = Append(@, layer)]
           c2 == [c EXCEPT ![l] = row]
<1>1. p \in Products /\ a[p] \in Seq(LayerRows) /\ L \in Nat /\ DOMAIN a[p] = 1 .. L
  BY LeftsType DEF LoanRows
<1>2. c2[l] = row /\ \A m \in Loans : m # l => c2[m] = c[m]
  OBVIOUS
<1>3. a2[p] = Append(a[p], layer) /\ \A q \in Products : q # p => a2[q] = a[q]
  BY <1>1
<1>4. /\ DOMAIN a2[p] = 1 .. L + 1 /\ a2[p][L + 1] = layer
      /\ \A k \in 1 .. L : a2[p][k] = a[p][k]
  BY <1>1, <1>3
<1>5. \A k \in 1 .. L + 1 : k \in 1 .. L \/ k = L + 1
  BY <1>1
<1>6. L + 1 \in 1 .. L + 1 /\ L + 1 \notin 1 .. L /\ \A k \in 1 .. L : k \in 1 .. L + 1
  BY <1>1
<1> HIDE DEF a2, c2, L
<1>7. ASSUME NEW q \in Products, NEW k \in DOMAIN a2[q]
      PROVE  \/ q = p /\ k = L + 1 /\ a2[q][k] = layer
             \/ k \in DOMAIN a[q] /\ a2[q][k] = a[q][k]
  <2>1. CASE q = p
    BY <1>1, <1>4, <1>5, <2>1
  <2>2. CASE q # p
    BY <1>3, <2>2
  <2> QED
    BY <2>1, <2>2
<1>8. \A q \in Products : \A k \in DOMAIN a[q] :
        a[q][k].origin \in Loans => a[q][k].origin # l /\ Borrowed(c[a[q][k].origin]) /\ c[a[q][k].origin].product = q
  BY DEF Owned
<1> HIDE DEF p
<1>9. ASSUME NEW q \in Products, NEW k \in DOMAIN a2[q], a2[q][k].origin \in Loans
      PROVE  Borrowed(c2[a2[q][k].origin]) /\ c2[a2[q][k].origin].product = q
  <2>1. CASE q = p /\ k = L + 1 /\ a2[q][k] = layer
    BY <1>2, <2>1 DEF p
  <2>2. CASE k \in DOMAIN a[q] /\ a2[q][k] = a[q][k]
    BY <1>2, <1>8, <1>9, <2>2
  <2> QED
    BY <1>7, <2>1, <2>2
<1>10. ASSUME NEW q \in Products, NEW j \in DOMAIN a2[q], NEW k \in DOMAIN a2[q],
              a2[q][j].origin \in Loans, a2[q][j].origin = a2[q][k].origin
       PROVE  j = k
  <2>1. CASE j \in DOMAIN a[q] /\ a2[q][j] = a[q][j] /\ k \in DOMAIN a[q] /\ a2[q][k] = a[q][k]
    BY <1>10, <2>1 DEF Owned
  <2>2. CASE q = p /\ j = L + 1 /\ a2[q][j] = layer
    BY <1>7, <1>8, <1>10, <2>2
  <2>3. CASE q = p /\ k = L + 1 /\ a2[q][k] = layer
    BY <1>7, <1>8, <1>10, <2>3
  <2> QED
    BY <1>7, <2>1, <2>2, <2>3
<1>11. ASSUME NEW m \in Loans, Borrowed(c2[m]) PROVE OwnedAt(a2, c2[m], m)
  <2>1. CASE m = l
    <3>1. layer.left + row.handed <= row.qty
      <4>1. layer.left \in Nat
        BY DEF LayerRows
      <4> QED
        BY <4>1
    <3>2. L + 1 \in DOMAIN a2[p] /\ a2[p][L + 1] = layer
      BY <1>4, <1>6
    <3> QED
      BY <1>2, <2>1, <3>1, <3>2 DEF OwnedAt, p
  <2>2. CASE m # l
    <3>1. c2[m] = c[m] /\ OwnedAt(a, c[m], m)
      BY <1>2, <1>11, <2>2 DEF Owned
    <3>2. PICK k \in DOMAIN a[c[m].product] : a[c[m].product][k].origin = m /\ a[c[m].product][k].left + c[m].handed <= c[m].qty
      BY <3>1 DEF OwnedAt
    <3>3. k \in DOMAIN a2[c[m].product] /\ a2[c[m].product][k] = a[c[m].product][k]
      <4>1. CASE c[m].product = p
        BY <1>1, <1>4, <1>6, <3>2, <4>1
      <4>2. CASE c[m].product # p
        <5>1. c[m].product \in Products
          BY DEF LoanRows
        <5> QED
          BY <1>3, <3>2, <4>2, <5>1
      <4> QED
        BY <4>1, <4>2
    <3> QED
      BY <3>1, <3>2, <3>3 DEF OwnedAt
  <2> QED
    BY <2>1, <2>2
<1>12. Owned(a2, c2)
  BY <1>9, <1>10, <1>11 DEF Owned
<1> QED
  BY <1>12 DEF a2, c2, p

\* Activation lends goods or makes the layer that the borrowed loan owns.
LEMMA ActivateKeeps ==
  ASSUME LoanInv, NEW l \in Loans, Activate(l)
  PROVE  LoanInv'
<1> DEFINE r   == loan[l]
           p   == r.product
           n   == r.qty
           row == [r EXCEPT !.status = "OUTSTANDING", !.alloc = n]
           c   == [loan EXCEPT ![l] = row]
<1>1. /\ Sound(layers, stock) /\ loan \in [Loans -> LoanRows] /\ Owned(layers, loan)
      /\ \A m \in Loans : Booked(loan[m]) /\ StatusTells(loan[m])
  BY DEF LoanInv, Kept
<1>2. r \in LoanRows /\ Booked(r) /\ r.status = "DRAFT" /\ ~Going(r)
  BY <1>1 DEF Activate, Going
<1>3. /\ p \in Products /\ n \in Nat /\ n > 0 /\ r.direction \in Directions
      /\ r.returned = 0 /\ r.converted = 0 /\ r.writtenOff = 0 /\ r.recovered = 0
      /\ r.offs = <<>> /\ r.handed = 0
  BY <1>2 DEF Booked, LoanRows
<1>4. layers \in [Products -> Seq(LayerRows)]
  BY <1>1 DEF Sound
<1>5. /\ row \in LoanRows /\ row.status = "OUTSTANDING" /\ row.alloc = n /\ row.qty = n
      /\ row.direction = r.direction /\ row.product = p
      /\ row.returned = 0 /\ row.converted = 0 /\ row.writtenOff = 0 /\ row.recovered = 0
      /\ row.offs = r.offs /\ row.handed = 0
  BY <1>2, <1>3 DEF LoanRows
<1> HIDE DEF row
<1>6. Outstanding(row) = n /\ Going(row) /\ StatusTells(row)
  <2>1. Outstanding(row) = n
    BY <1>3, <1>5 DEF Outstanding
  <2>2. Status(row) = "OUTSTANDING"
    BY <1>3, <2>1 DEF Status
  <2> QED
    BY <1>5, <2>1, <2>2 DEF Going, StatusTells
<1>7. Booked(row)
  <2>1. Lost(row.offs) = Lost(r.offs) /\ Lost(r.offs) = 0 - 0
    BY <1>2, <1>3, <1>5 DEF Booked
  <2>2. \A w \in DOMAIN row.offs : row.offs[w].recovered <= row.offs[w].qty
    BY <1>2, <1>5 DEF Booked
  <2> QED
    BY <1>5, <1>6, <2>1, <2>2 DEF Booked
<1>8. c \in [Loans -> LoanRows] /\ \A m \in Loans : Booked(c[m]) /\ StatusTells(c[m])
  BY <1>1, <1>5, <1>6, <1>7
<1>9. /\ Current.layers = layers /\ Current.stock = stock /\ Current.loan = loan
      /\ [Current EXCEPT !.loan[l].status = "OUTSTANDING", !.loan[l].alloc = n] = St(layers, stock, c)
  <2>1. /\ Current.layers = layers /\ Current.stock = stock /\ Current.loan = loan
        /\ Current = St(layers, stock, loan)
    BY DEF Current, St
  <2> DEFINE opened == [loan EXCEPT ![l].status = "OUTSTANDING"]
  <2>2. [opened EXCEPT ![l].alloc = n] = c
    BY <1>1 DEF row
  <2> HIDE DEF n, c, opened
  <2>3. [St(layers, stock, loan) EXCEPT !.loan[l].status = "OUTSTANDING"] = St(layers, stock, opened)
    BY DEF St, opened
  <2>4. [St(layers, stock, opened) EXCEPT !.loan[l].alloc = n] = St(layers, stock, [opened EXCEPT ![l].alloc = n])
    BY DEF St
  <2> QED
    BY <2>1, <2>2, <2>3, <2>4
<1>10. CASE r.direction = "OUTGOING"
  <2> DEFINE a == [layers EXCEPT ![p] = Consume(@, n)]
             b == MovedStock(stock, p, -n)
  <2>1. CanConsume(layers[p], n) /\ n <= stock[p].actual /\ n <= stock[p].available
    BY <1>9, <1>10 DEF Activate, CanTakeOut
  <2>2. Commit(Consumed(St(layers, stock, c), p, n))
    BY <1>9, <1>10 DEF Activate, Activated
  <2> HIDE DEF p, n, c
  <2>3. Commit(St(a, b, c))
    BY <2>2, ConsumedIs
  <2>4. Sound(a, b) /\ Retains(layers[p], Consume(layers[p], n))
    BY <1>1, <1>3, <2>1, TakingOut
  <2>5. \A q \in Products : Retains(layers[q], a[q])
    BY <1>3, <1>4, <2>4, OthersRetained
  <2> HIDE DEF a, b
  <2>6. Owned(a, c)
    <3>1. a \in [Products -> Seq(LayerRows)]
      BY <2>4 DEF Sound
    <3>2. ~Borrowed(row) /\ ~Borrowed(loan[l])
      BY <1>5, <1>10 DEF Borrowed
    <3> QED
      BY <1>1, <1>4, <1>5, <2>5, <3>1, <3>2, OwnedKeeps DEF c
  <2>7. Kept(a, b, c)
    BY <1>8, <2>4, <2>6 DEF Kept
  <2> QED
    BY <1>8, <2>3, <2>7, CommitKeeps
<1>11. CASE r.direction = "INCOMING"
  <2> DEFINE layer == Layer(l, n, n * Provisional)
             a     == [layers EXCEPT ![p] = Append(@, layer)]
             b     == MovedStock(stock, p, n)
  <2>1. Len(layers[p]) < MaxLayers
    BY <1>11 DEF Activate, RoomFor
  <2>2. Commit(BroughtIn(St(layers, stock, c), p, n, layer))
    BY <1>9, <1>11 DEF Activate, Activated
  <2>3. n * Provisional \in Nat
    BY <1>3, Product, InventoryLoanAssumption
  <2>4. layer \in LayerRows /\ layer.left = n /\ layer.origin = l
    BY <1>3, <2>3 DEF Layer, LayerRows, Origins
  <2> HIDE DEF p, n, c, layer
  <2>5. Commit(St(a, b, c))
    BY <2>2, BroughtInIs
  <2>6. Sound(a, MovedStock(stock, p, layer.left))
    BY <1>1, <1>3, <2>1, <2>4, BringingIn
  <2>7. Owned(a, c)
    <3>1. Borrowed(row) /\ ~Borrowed(loan[l])
      BY <1>2, <1>5, <1>6, <1>11 DEF Borrowed
    <3>2. Owned([layers EXCEPT ![row.product] = Append(@, layer)], [loan EXCEPT ![l] = row])
      BY <1>1, <1>4, <1>5, <2>4, <3>1, OwnedBegins
    <3> QED
      BY <1>5, <3>2 DEF c
  <2> HIDE DEF a
  <2>8. Kept(a, b, c)
    BY <1>8, <2>4, <2>6, <2>7 DEF Kept
  <2> HIDE DEF b
  <2> QED
    BY <1>8, <2>5, <2>8, CommitKeeps
<1> QED
  BY <1>3, <1>10, <1>11 DEF Directions

\* The empty sum.
LEMMA NoTerms ==
  ASSUME NEW f, DOMAIN f = {}, f = [k \in DOMAIN f |-> f[k]]
  PROVE  Total(f) = 0
BY TotalZero

\* The invariant holds at the start.
LEMMA LoanInitKeeps ==
  ASSUME LoanInit
  PROVE  LoanInv
<1>1. Left(<<>>) = 0 /\ Lost(<<>>) = 0 /\ <<>> \in Seq(LayerRows) /\ Len(<<>>) = 0 /\ DOMAIN <<>> = {}
  <2>1. DOMAIN <<>> = {}
    OBVIOUS
  <2>2. Left(<<>>) = 0
    BY <2>1, NoTerms DEF Left
  <2>3. Lost(<<>>) = 0
    BY <2>1, NoTerms DEF Lost
  <2> QED
    BY <2>1, <2>2, <2>3
<1>2. layers = [p \in Products |-> <<>>] /\ stock = [p \in Products |-> [actual |-> 0, available |-> 0]]
  BY DEF LoanInit, GoodsInit
<1>3. Sound(layers, stock)
  <2>1. layers \in [Products -> Seq(LayerRows)] /\ stock \in [Products -> StockRows]
    BY <1>1, <1>2 DEF StockRows
  <2>2. \A p \in Products : layers[p] = <<>> /\ stock[p].actual = 0 /\ stock[p].available = 0
    BY <1>2
  <2>3. ASSUME NEW p \in Products PROVE SoundAt(layers, stock, p)
    BY <1>1, <2>2, StockGoodsAssumption DEF SoundAt
  <2> QED
    BY <2>1, <2>3 DEF Sound
<1> DEFINE none == [status |-> "NONE", direction |-> "OUTGOING", product |-> CHOOSE p \in Products : TRUE,
                    qty |-> 0, returned |-> 0, converted |-> 0, writtenOff |-> 0, recovered |-> 0,
                    alloc |-> 0, offs |-> <<>>, handed |-> 0]
<1>4. loan = [l \in Loans |-> none]
  BY DEF LoanInit
<1>5. none \in LoanRows
  <2>1. (CHOOSE p \in Products : TRUE) \in Products
    BY InventoryLoanAssumption
  <2>2. <<>> \in Seq([qty : Nat, recovered : Nat])
    OBVIOUS
  <2> QED
    BY <2>1, <2>2 DEF LoanRows, Directions
<1>6. /\ none.status = "NONE" /\ none.returned = 0 /\ none.converted = 0 /\ none.writtenOff = 0
      /\ none.recovered = 0 /\ none.offs = <<>> /\ none.handed = 0
  OBVIOUS
<1> HIDE DEF none
<1>7. ~Going(none)
  BY <1>6 DEF Going
<1>8. Booked(none)
  <2>1. Lost(none.offs) = 0 - 0 /\ DOMAIN none.offs = {}
    BY <1>1, <1>6
  <2> QED
    BY <1>5, <1>6, <1>7, <2>1 DEF Booked
<1>9. StatusTells(none) /\ ~Borrowed(none)
  BY <1>7 DEF StatusTells, Borrowed
<1>10. \A l \in Loans : loan[l] = none
  BY <1>4
<1>11. Owned(layers, loan)
  <2>1. \A p \in Products : DOMAIN layers[p] = {}
    BY <1>1, <1>2
  <2> QED
    BY <1>9, <1>10, <2>1 DEF Owned
<1>12. loan \in [Loans -> LoanRows] /\ \A l \in Loans : Booked(loan[l]) /\ StatusTells(loan[l])
  BY <1>4, <1>5, <1>8, <1>9, <1>10
<1> QED
  BY <1>3, <1>11, <1>12 DEF LoanInv, Kept

\* No step disturbs the invariant of loans.
LEMMA LoanNextKeeps ==
  ASSUME LoanInv, [LoanNext]_loanVars
  PROVE  LoanInv'
<1>1. CASE GoodsNext /\ UNCHANGED loan
  <2>1. /\ Sound(layers, stock) /\ loan \in [Loans -> LoanRows] /\ Owned(layers, loan)
        /\ \A m \in Loans : Booked(loan[m]) /\ StatusTells(loan[m])
    BY DEF LoanInv, Kept
  <2>2. Sound(layers', stock') /\ \A p \in Products : Retains(layers[p], layers'[p])
    BY <1>1, <2>1, GoodsNextKeeps DEF GoodsKept
  <2>3. layers \in [Products -> Seq(LayerRows)] /\ layers' \in [Products -> Seq(LayerRows)]
    BY <2>1, <2>2 DEF Sound
  <2>4. Owned(layers', loan)
    BY <2>1, <2>2, <2>3, OwnedRetained
  <2>5. loan' = loan
    BY <1>1
  <2> QED
    BY <2>1, <2>2, <2>4, <2>5 DEF LoanInv, Kept
<1>2. CASE \E l \in Loans, direction \in Directions, p \in Products, n \in Quantities : Save(l, direction, p, n)
  BY <1>2, SaveKeeps
<1>3. CASE \E l \in Loans : Cancel(l) \/ Activate(l)
  BY <1>3, CancelKeeps, ActivateKeeps
<1>4. ASSUME NEW l \in Loans, Resolvable(l), NEW x \in Items,
             ValidItems(loan[l], <<x>>), CanApply(Current, l, x), Resolve(l, x)
      PROVE  LoanInv'
  BY <1>4, ResolveKeeps
<1>5. ASSUME NEW l \in Loans, Resolvable(l), NEW x \in Items, NEW y \in Items,
             ValidItems(loan[l], <<x>>), ValidItems(loan[l], <<x, y>>), CanApply(Current, l, x),
             ResolveTwo(l, x, y)
      PROVE  LoanInv'
  BY <1>5, ResolveTwoKeeps
<1>6. CASE UNCHANGED loanVars
  BY <1>6 DEF LoanInv, loanVars
<1>7. CASE \E l \in Loans : Resolvable(l) /\
             LET valid == {x \in Items : ValidItems(loan[l], <<x>>) /\ CanApply(Current, l, x)}
             IN  \/ \E x \in valid : Resolve(l, x)
                 \/ \E x, y \in {z \in valid : z.qty = 1} :
                      ValidItems(loan[l], <<x, y>>) /\ ResolveTwo(l, x, y)
  BY <1>4, <1>5, <1>7
<1> QED
  BY <1>1, <1>2, <1>3, <1>6, <1>7 DEF LoanNext

\* The inductive invariant of loans.
LEMMA LoanInvAlways ==
  LoanSpec => []LoanInv
<1>1. LoanInit => LoanInv
  BY LoanInitKeeps
<1>2. LoanInv /\ [LoanNext]_loanVars => LoanInv'
  BY LoanNextKeeps
<1> QED
  BY <1>1, <1>2, PTL DEF LoanSpec

\* The FIFO layers of every product hold the goods its stock row counts, through purchases,
\* sales, transformations and loans (fifo.service.ts, changeStock of inventory.service.ts).
THEOREM LayersAlwaysHoldStock ==
  LoanSpec => []LayersHoldStock
<1>1. LoanInv => LayersHoldStock
  BY DEF LoanInv, Kept, Sound, SoundAt, LayersHoldStock
<1> QED
  BY <1>1, LoanInvAlways, PTL

\* Goods leave the layers as if one unit left after the other, each from the oldest layer
\* that has one, and what they cost is what the layers are worth less; an emptied layer is
\* worth nothing (consumeFifoLayers of fifo-consumption.utils.ts).
THEOREM OldestAlwaysFirst ==
  LoanSpec => []ConsumesOldestFirst
<1>1. ASSUME LoanInv PROVE ConsumesOldestFirst
  <2>1. \A p \in Products : layers[p] \in Seq(LayerRows)
    BY <1>1 DEF LoanInv, Kept, Sound
  <2>2. ASSUME NEW ls \in Seq(LayerRows)
        PROVE  /\ \A n \in 0 .. Left(ls) :
                    /\ \A k \in DOMAIN ls :
                         /\ Consume(ls, n)[k].left = OneByOne(ls, n)[k].left
                         /\ Even(ls[k]) => Consume(ls, n)[k].value = OneByOne(ls, n)[k].value
                    /\ ConsumedCost(ls, n) = Worth(ls) - Worth(Consume(ls, n))
               /\ \A k \in DOMAIN ls : ls[k].left = 0 => ls[k].value = 0
    <3>1. Left(ls) \in Nat /\ \A k \in DOMAIN ls : ls[k] \in LayerRows
      BY LeftsType
    <3>2. \A k \in DOMAIN ls : ls[k].left = 0 => ls[k].value = 0
      BY <3>1 DEF LayerRows
    <3>3. \A n \in 0 .. Left(ls) : n \in Nat /\ n <= Left(ls)
      BY <3>1
    <3> QED
      BY <3>2, <3>3, OldestFirst
  <2> QED
    BY <2>1, <2>2 DEF ConsumesOldestFirst
<1> QED
  BY <1>1, LoanInvAlways, PTL

\* The invariant implies that loans are settled once.
LEMMA SettledOnce ==
  ASSUME LoanInv
  PROVE  LoansSettledOnce
<1>1. Sound(layers, stock) /\ \A l \in Loans : Booked(loan[l]) /\ StatusTells(loan[l]) /\ loan[l] \in LoanRows
  BY DEF LoanInv, Kept, Booked
<1>2. GoodsTypeOK
  <2>1. ASSUME NEW p \in Products
        PROVE  /\ Len(layers[p]) <= MaxLayers
               /\ \A k \in DOMAIN layers[p] : layers[p][k].left \in Nat /\ layers[p][k].value \in Nat
    <3>1. layers[p] \in Seq(LayerRows) /\ Len(layers[p]) <= MaxLayers
      BY <1>1 DEF Sound, SoundAt
    <3>2. \A k \in DOMAIN layers[p] : layers[p][k] \in LayerRows
      BY <3>1
    <3> QED
      BY <3>1, <3>2 DEF LayerRows
  <2>2. stock \in [Products -> [actual : Nat, available : Nat]]
    BY <1>1 DEF Sound, StockRows
  <2> QED
    BY <2>1, <2>2 DEF GoodsTypeOK
<1>3. ASSUME NEW l \in Loans, Active(l)
      PROVE  LET r == loan[l]
             IN  /\ r.alloc = Outstanding(r)
                 /\ Lost(r.offs) = r.writtenOff - r.recovered
                 /\ \A w \in DOMAIN r.offs : r.offs[w].recovered <= r.offs[w].qty
                 /\ (r.status = "CLOSED") <=> (Outstanding(r) = 0 /\ Lost(r.offs) = 0)
  <2> DEFINE r == loan[l]
  <2>1. Booked(r) /\ Going(r) /\ r.status = Status(r)
    BY <1>1, <1>3 DEF Active, Going, StatusTells
  <2>2. /\ r.alloc = Outstanding(r) /\ Lost(r.offs) = r.writtenOff - r.recovered
        /\ \A w \in DOMAIN r.offs : r.offs[w].recovered <= r.offs[w].qty
    BY <2>1 DEF Booked
  <2>3. Lost(r.offs) \in Nat /\ Outstanding(r) \in Nat
    <3>1. r.offs \in Seq(Offs) /\ r.alloc \in Nat
      BY <1>1 DEF LoanRows, Offs
    <3> QED
      BY <2>2, <3>1, LostType
  <2>4. r.writtenOff \in Nat /\ r.recovered \in Nat
    BY <1>1 DEF LoanRows
  <2> HIDE DEF r
  <2>5. (r.status = "CLOSED") <=> (Outstanding(r) = 0 /\ Lost(r.offs) = 0)
    BY <2>1, <2>2, <2>3, <2>4 DEF Status
  <2> QED
    BY <2>2, <2>5 DEF r
<1> QED
  BY <1>1, <1>2, <1>3 DEF LoansSettledOnce, LoanTypeOK, Lost

\* However a loan is resolved, everything lent is settled once (resolve of
\* inventory-loan.service.ts).
THEOREM LoansAlwaysSettledOnce ==
  LoanSpec => []LoansSettledOnce
<1>1. LoanInv => LoansSettledOnce
  BY SettledOnce
<1> QED
  BY <1>1, LoanInvAlways, PTL

\* The invariant implies that what went back of borrowed goods came out of the layers.
LEMMA GoodsReturned ==
  ASSUME LoanInv
  PROVE  BorrowedGoodsReturned
<1>1. Owned(layers, loan) /\ \A l \in Loans : loan[l] \in LoanRows
  BY DEF LoanInv, Kept, Booked
<1>2. ASSUME NEW l \in Loans, Active(l), loan[l].direction = "INCOMING"
      PROVE  layers[loan[l].product][OwnLayer(Current, l)].left + loan[l].handed <= loan[l].qty
  <2>1. OwnedAt(layers, loan[l], l) /\ loan[l].product \in Products
    BY <1>1, <1>2 DEF Owned, Borrowed, Going, Active, LoanRows
  <2>2. PICK k \in DOMAIN layers[loan[l].product] :
          /\ layers[loan[l].product][k].origin = l
          /\ layers[loan[l].product][k].left + loan[l].handed <= loan[l].qty
    BY <2>1 DEF OwnedAt
  <2>3. IsOwn(layers, loan, l, k)
    BY <1>1, <2>1, <2>2 DEF IsOwn
  <2>4. Current = St(layers, stock, loan)
    BY DEF Current, St
  <2>5. OwnLayer(Current, l) = k
    BY <2>3, <2>4, OwnLayerIs
  <2> QED
    BY <2>2, <2>5
<1> QED
  BY <1>2 DEF BorrowedGoodsReturned

\* Borrowed goods are given back out of the layer they came in
\* (consumeIncomingLoanLayers of inventory-loan.service.ts).
THEOREM BorrowedGoodsAlwaysReturned ==
  LoanSpec => []BorrowedGoodsReturned
<1>1. LoanInv => BorrowedGoodsReturned
  BY GoodsReturned
<1> QED
  BY <1>1, LoanInvAlways, PTL

-----------------------------------------------------------------------------
(***************************************************************************)
(* The books of the accounts                                               *)
(***************************************************************************)

AccountRows == [type : Types \cup {"NONE"}, active : BOOLEAN, default : BOOLEAN, balance : 0 .. MaxBalance]

\* The balances of the accounts of type t.
OfType(acc, t) == [a \in Accounts |-> IF acc[a].type = t THEN acc[a].balance ELSE 0]

\* Ledger and journal follow the balances.
Books(acc, post, jour) ==
  /\ acc \in [Accounts -> AccountRows] /\ post \in [Accounts -> Int] /\ jour \in [Types -> Int]
  /\ \A a \in Accounts : post[a] = acc[a].balance
  /\ \A t \in Types : jour[t] = Total(OfType(acc, t))

\* The balances of the accounts of one type have a sum.
LEMMA OfTypeIs ==
  ASSUME NEW acc \in [Accounts -> AccountRows], NEW t
  PROVE  /\ OfType(acc, t) \in [Accounts -> Nat] /\ IsFiniteSet(Accounts)
         /\ Total(OfType(acc, t)) \in Nat
<1>1. \A a \in Accounts : acc[a].balance \in Nat
  BY FinanceAssumption DEF AccountRows
<1>2. OfType(acc, t) \in [Accounts -> Nat]
  BY <1>1 DEF OfType
<1> QED
  BY <1>2, FinanceAssumption, TotalType

\* What the row of account a adds to the balance of type t.
Adds(row, t) == IF row.type = t THEN row.balance ELSE 0

RowChanges(acc, new, a, row) ==
  /\ acc \in [Accounts -> AccountRows] /\ a \in Accounts /\ row \in AccountRows
  /\ new = [acc EXCEPT ![a] = row]

\* A change of one row changes the sum of a type by what the row adds then and added
\* before.
LEMMA OneRowChanges ==
  ASSUME NEW acc, NEW new, NEW a, NEW row, RowChanges(acc, new, a, row), NEW t
  PROVE  Total(OfType(new, t)) = Total(OfType(acc, t)) - Adds(acc[a], t) + Adds(row, t)
<1>1. /\ new \in [Accounts -> AccountRows] /\ new[a] = row /\ a \in Accounts
      /\ \A x \in Accounts : x # a => new[x] = acc[x]
      /\ acc \in [Accounts -> AccountRows]
  BY DEF RowChanges
<1>2. /\ OfType(acc, t) \in [Accounts -> Nat] /\ OfType(new, t) \in [Accounts -> Nat]
      /\ IsFiniteSet(Accounts)
  BY <1>1, OfTypeIs
<1>3. \A x \in Accounts \ {a} : OfType(new, t)[x] = OfType(acc, t)[x]
  BY <1>1 DEF OfType
<1>4. OfType(acc, t)[a] = Adds(acc[a], t) /\ OfType(new, t)[a] = Adds(row, t)
  BY <1>1 DEF OfType, Adds
<1> QED
  BY <1>1, <1>2, <1>3, <1>4, TotalUpdate

\* A row is given other marks, type and balance staying.
LEMMA MarksChange ==
  ASSUME NEW acc, NEW acc2 \in [Accounts -> AccountRows], NEW post, NEW jour, Books(acc, post, jour),
         \A a \in Accounts : acc2[a].type = acc[a].type /\ acc2[a].balance = acc[a].balance
  PROVE  Books(acc2, post, jour)
<1>1. \A t : OfType(acc2, t) = OfType(acc, t)
  BY DEF OfType
<1> QED
  BY <1>1 DEF Books

\* The balance of an account changes, and its ledger and chart account with it.
LEMMA BalanceChanges ==
  ASSUME NEW acc, NEW post, NEW jour, Books(acc, post, jour),
         NEW a \in Accounts, acc[a].type \in Types, NEW n \in 0 .. MaxBalance,
         NEW d \in Int, n = acc[a].balance + d
  PROVE  Books([acc EXCEPT ![a].balance = n], [post EXCEPT ![a] = @ + d],
               [jour EXCEPT ![acc[a].type] = @ + d])
<1> DEFINE row   == [acc[a] EXCEPT !.balance = n]
           acc2  == [acc EXCEPT ![a] = row]
           post2 == [post EXCEPT ![a] = @ + d]
           ty    == acc[a].type
           jour2 == [jour EXCEPT ![ty] = @ + d]
<1>1. /\ acc \in [Accounts -> AccountRows] /\ post \in [Accounts -> Int] /\ jour \in [Types -> Int]
      /\ post[a] = acc[a].balance
      /\ \A t \in Types : jour[t] = Total(OfType(acc, t))
  BY DEF Books
<1>2. acc[a] \in AccountRows /\ acc[a].balance \in Nat
  BY <1>1, FinanceAssumption DEF AccountRows
<1>3. row \in AccountRows /\ row.type = ty /\ row.balance = n
  BY <1>2 DEF AccountRows
<1> HIDE DEF row
<1>4. /\ acc2 \in [Accounts -> AccountRows] /\ acc2[a] = row
      /\ \A x \in Accounts : x # a => acc2[x] = acc[x]
  BY <1>1, <1>3
<1>5. \A t \in Types : Total(OfType(acc2, t)) = Total(OfType(acc, t)) - Adds(acc[a], t) + Adds(row, t)
  <2>1. RowChanges(acc, acc2, a, row)
    BY <1>1, <1>3 DEF RowChanges
  <2> QED
    BY <2>1, OneRowChanges
<1> HIDE DEF acc2
<1>6. ASSUME NEW x \in Accounts PROVE post2[x] = acc2[x].balance
  <2>1. CASE x = a
    BY <1>1, <1>3, <1>4, <2>1
  <2>2. CASE x # a
    BY <1>1, <1>4, <2>2 DEF Books
  <2> QED
    BY <2>1, <2>2
<1>7. ASSUME NEW t \in Types PROVE jour2[t] = Total(OfType(acc2, t))
  <2>1. Total(OfType(acc, t)) \in Nat /\ jour[t] = Total(OfType(acc, t))
    BY <1>1, OfTypeIs
  <2>2. Adds(acc[a], t) = (IF ty = t THEN acc[a].balance ELSE 0) /\ Adds(row, t) = IF ty = t THEN n ELSE 0
    BY <1>3 DEF Adds
  <2>3. jour2[t] = IF ty = t THEN jour[t] + d ELSE jour[t]
    BY <1>1
  <2> HIDE DEF jour2, ty
  <2> QED
    BY <1>2, <1>5, <2>1, <2>2, <2>3
<1>8. post2 \in [Accounts -> Int] /\ jour2 \in [Types -> Int]
  BY <1>1
<1>9. Books(acc2, post2, jour2)
  BY <1>4, <1>6, <1>7, <1>8 DEF Books
<1>10. [acc EXCEPT ![a].balance = n] = acc2
  BY DEF acc2, row
<1> QED
  BY <1>9, <1>10

\* An account is opened with its opening balance.
LEMMA AccountOpens ==
  ASSUME NEW acc, NEW post, NEW jour, Books(acc, post, jour),
         NEW a \in Accounts, acc[a].type \notin Types, NEW row \in AccountRows, row.type \in Types
  PROVE  Books([acc EXCEPT ![a] = row], [post EXCEPT ![a] = row.balance],
               [jour EXCEPT ![row.type] = @ + row.balance])
<1> DEFINE n     == row.balance
           acc2  == [acc EXCEPT ![a] = row]
           post2 == [post EXCEPT ![a] = n]
           ty    == row.type
           jour2 == [jour EXCEPT ![ty] = @ + n]
<1>1. /\ acc \in [Accounts -> AccountRows] /\ post \in [Accounts -> Int] /\ jour \in [Types -> Int]
      /\ \A t \in Types : jour[t] = Total(OfType(acc, t))
  BY DEF Books
<1>2. n \in Nat
  BY FinanceAssumption DEF AccountRows
<1>3. /\ acc2 \in [Accounts -> AccountRows] /\ acc2[a] = row
      /\ \A x \in Accounts : x # a => acc2[x] = acc[x]
  BY <1>1
<1>4. \A t \in Types : Total(OfType(acc2, t)) = Total(OfType(acc, t)) - Adds(acc[a], t) + Adds(row, t)
  <2>1. RowChanges(acc, acc2, a, row)
    BY <1>1 DEF RowChanges
  <2> QED
    BY <2>1, OneRowChanges
<1> HIDE DEF acc2
<1>5. ASSUME NEW x \in Accounts PROVE post2[x] = acc2[x].balance
  <2>1. CASE x = a
    BY <1>1, <1>3, <2>1
  <2>2. CASE x # a
    BY <1>1, <1>3, <2>2 DEF Books
  <2> QED
    BY <2>1, <2>2
<1>6. ASSUME NEW t \in Types PROVE jour2[t] = Total(OfType(acc2, t))
  <2>1. Total(OfType(acc, t)) \in Nat /\ jour[t] = Total(OfType(acc, t))
    BY <1>1, OfTypeIs
  <2>2. Adds(acc[a], t) = 0 /\ Adds(row, t) = IF ty = t THEN n ELSE 0
    BY DEF Adds
  <2>3. jour2[t] = IF ty = t THEN jour[t] + n ELSE jour[t]
    BY <1>1
  <2> HIDE DEF jour2, ty, n
  <2> QED
    BY <1>2, <1>4, <2>1, <2>2, <2>3
<1>7. post2 \in [Accounts -> Int] /\ jour2 \in [Types -> Int]
  BY <1>1, <1>2
<1>8. Books(acc2, post2, jour2)
  BY <1>3, <1>5, <1>6, <1>7 DEF Books
<1> QED
  BY <1>8 DEF acc2

-----------------------------------------------------------------------------
(***************************************************************************)
(* What a request knows                                                    *)
(***************************************************************************)

Moving(r) == r.op \in {"manual", "transfer"}

\* The accounts of a movement exist and that of a creation does not yet; a movement
\* with all its locks has seen the balances that are.
Knows(acc, r) ==
  /\ Moving(r) => /\ \A a \in Touches(r) : a \in Accounts /\ acc[a].type \in Types
                  /\ (\A a \in Touches(r) : Row(a) \in r.held) =>
                       \A a \in Touches(r) : r.seen[a] = acc[a].balance
  /\ r.op = "create" => acc[r.of].type \notin Types

\* A request as it was made.
Made(r) ==
  /\ "op" \in DOMAIN r /\ "held" \in DOMAIN r /\ "seen" \in DOMAIN r
  /\ r.op \in {"none", "transfer", "manual", "status", "default", "create"}
  /\ r.op = "transfer" => /\ "from" \in DOMAIN r /\ "to" \in DOMAIN r /\ "n" \in DOMAIN r
                          /\ r.from \in Accounts /\ r.to \in Accounts /\ r.from # r.to /\ r.n \in Amounts
  /\ r.op = "manual" => /\ "of" \in DOMAIN r /\ "n" \in DOMAIN r /\ "direction" \in DOMAIN r
                        /\ r.of \in Accounts /\ r.n \in Amounts /\ r.direction \in {"IN", "OUT"}
  /\ r.op = "status" => "of" \in DOMAIN r /\ "active" \in DOMAIN r /\ r.of \in Accounts /\ r.active \in BOOLEAN
  /\ r.op = "default" => "of" \in DOMAIN r /\ "type" \in DOMAIN r /\ r.of \in Accounts /\ r.type \in Types
  /\ r.op = "create" => /\ "of" \in DOMAIN r /\ "type" \in DOMAIN r /\ "n" \in DOMAIN r /\ "default" \in DOMAIN r
                        /\ r.of \in Accounts /\ r.type \in Types /\ r.n \in {0} \cup Amounts
                        /\ r.default \in BOOLEAN

\* No two requests hold the same lock or create the same account.
Apart(r, s) ==
  /\ r.held \cap s.held = {}
  /\ r.op = "create" /\ s.op = "create" => r.of # s.of

\* The inductive invariant.
FinanceInv ==
  /\ Books(account, posted, journal)
  /\ tx = [w \in Workers |-> tx[w]]
  /\ \A w \in Workers : Made(tx[w]) /\ Knows(account, tx[w])
  /\ \A v, w \in Workers : v # w => Apart(tx[v], tx[w])

\* The invariant holds at the start.
LEMMA FinanceStarts ==
  ASSUME FinanceInit
  PROVE  FinanceInv
<1>1. /\ account = [a \in Accounts |-> [type |-> "NONE", active |-> FALSE, default |-> FALSE, balance |-> 0]]
      /\ posted = [a \in Accounts |-> 0] /\ journal = [t \in Types |-> 0] /\ tx = [w \in Workers |-> Idle]
  BY DEF FinanceInit
<1>2. account \in [Accounts -> AccountRows]
  BY <1>1, FinanceAssumption DEF AccountRows
<1>3. ASSUME NEW t \in Types PROVE Total(OfType(account, t)) = 0
  <2>1. OfType(account, t) \in [Accounts -> Nat] /\ \A a \in Accounts : OfType(account, t)[a] = 0
    BY <1>1 DEF OfType
  <2> QED
    BY <2>1, TotalZero
<1>4. Books(account, posted, journal)
  <2>1. \A a \in Accounts : account[a].balance = 0 /\ posted[a] = 0
    BY <1>1
  <2>2. posted \in [Accounts -> Int] /\ journal \in [Types -> Int] /\ \A t \in Types : journal[t] = 0
    BY <1>1
  <2> QED
    BY <1>2, <1>3, <2>1, <2>2 DEF Books
<1>5. Idle.op = "none" /\ Idle.held = {} /\ Made(Idle)
  BY DEF Idle, Made
<1>6. Knows(account, Idle)
  BY <1>5 DEF Knows, Moving
<1>7. Apart(Idle, Idle)
  BY <1>5 DEF Apart
<1>8. tx = [w \in Workers |-> tx[w]] /\ \A w \in Workers : tx[w] = Idle
  BY <1>1
<1> QED
  BY <1>4, <1>5, <1>6, <1>7, <1>8 DEF FinanceInv

\* A request is made, locks or gives up: the accounts stay.
LEMMA RequestKeeps ==
  ASSUME FinanceInv, NEW w \in Workers, NEW r, Made(r), Knows(account, r),
         \A v \in Workers : v # w => Apart(tx[v], r),
         tx' = [tx EXCEPT ![w] = r], UNCHANGED <<account, posted, journal>>
  PROVE  FinanceInv'
<1> DEFINE t2 == [tx EXCEPT ![w] = r]
<1>1. /\ Books(account, posted, journal) /\ tx = [v \in Workers |-> tx[v]]
      /\ \A v \in Workers : Made(tx[v]) /\ Knows(account, tx[v])
      /\ \A u, v \in Workers : u # v => Apart(tx[u], tx[v])
  BY DEF FinanceInv
<1>2. t2 = [v \in Workers |-> t2[v]] /\ t2[w] = r /\ \A v \in Workers : v # w => t2[v] = tx[v]
  BY <1>1
<1> HIDE DEF t2
<1>3. \A v \in Workers : Made(t2[v]) /\ Knows(account, t2[v])
  BY <1>1, <1>2
<1>4. ASSUME NEW u \in Workers, NEW v \in Workers, u # v PROVE Apart(t2[u], t2[v])
  <2>1. CASE u = w
    <3>1. Apart(tx[v], r)
      BY <1>4, <2>1
    <3>2. Apart(r, tx[v])
      BY <3>1 DEF Apart
    <3> QED
      BY <1>2, <1>4, <2>1, <3>2
  <2>2. CASE v = w
    BY <1>2, <1>4, <2>2
  <2>3. CASE u # w /\ v # w
    BY <1>1, <1>2, <1>4, <2>3
  <2> QED
    BY <2>1, <2>2, <2>3
<1>5. tx' = t2 /\ account' = account /\ posted' = posted /\ journal' = journal
  BY DEF t2
<1> QED
  BY <1>1, <1>2, <1>3, <1>4, <1>5 DEF FinanceInv

\* A transaction that ends keeps the accounts that others touch as they know them.
LEMMA CommitKeepsOthers ==
  ASSUME FinanceInv, NEW w \in Workers, NEW acc, NEW post, NEW jour, Books(acc, post, jour),
         \A a \in Accounts : account[a].type \in Types =>
           /\ acc[a].type = account[a].type
           /\ Row(a) \in tx[w].held \/ acc[a].balance = account[a].balance,
         \A a \in Accounts : (account[a].type \notin Types /\ acc[a].type \in Types) =>
           tx[w].op = "create" /\ tx[w].of = a,
         tx' = [tx EXCEPT ![w] = Idle], account' = acc, posted' = post, journal' = jour
  PROVE  FinanceInv'
<1> DEFINE t2 == [tx EXCEPT ![w] = Idle]
<1>1. /\ tx = [v \in Workers |-> tx[v]]
      /\ \A v \in Workers : Made(tx[v]) /\ Knows(account, tx[v])
      /\ \A u, v \in Workers : u # v => Apart(tx[u], tx[v])
  BY DEF FinanceInv
<1>2. t2 = [v \in Workers |-> t2[v]] /\ t2[w] = Idle /\ \A v \in Workers : v # w => t2[v] = tx[v]
  BY <1>1
<1> HIDE DEF t2
<1>3. Idle.op = "none" /\ Idle.held = {} /\ Made(Idle) /\ Knows(acc, Idle)
  BY DEF Idle, Made, Knows, Moving
<1>4. ASSUME NEW v \in Workers, v # w PROVE Knows(acc, tx[v])
  <2> DEFINE r == tx[v]
  <2>1. Knows(account, r) /\ Apart(r, tx[w]) /\ Made(r)
    BY <1>1, <1>4
  <2> HIDE DEF r
  <2>2. ASSUME Moving(r)
        PROVE  /\ \A a \in Touches(r) : a \in Accounts /\ acc[a].type \in Types
               /\ (\A a \in Touches(r) : Row(a) \in r.held) =>
                    \A a \in Touches(r) : r.seen[a] = acc[a].balance
    <3>1. \A a \in Touches(r) : a \in Accounts /\ account[a].type \in Types
      BY <2>1, <2>2 DEF Knows
    <3>2. \A a \in Touches(r) : acc[a].type \in Types
      BY <3>1
    <3>3. ASSUME \A a \in Touches(r) : Row(a) \in r.held, NEW a \in Touches(r)
          PROVE  r.seen[a] = acc[a].balance
      <4>1. r.seen[a] = account[a].balance
        BY <2>1, <2>2, <3>3 DEF Knows
      <4>2. Row(a) \notin tx[w].held
        BY <2>1, <3>3 DEF Apart
      <4> QED
        BY <3>1, <4>1, <4>2
    <3> QED
      BY <3>1, <3>2, <3>3
  <2>3. ASSUME r.op = "create" PROVE acc[r.of].type \notin Types
    <3>1. account[r.of].type \notin Types /\ r.of \in Accounts
      BY <2>1, <2>3 DEF Knows, Made
    <3>2. ~(tx[w].op = "create" /\ tx[w].of = r.of)
      BY <2>1, <2>3 DEF Apart
    <3> QED
      BY <3>1, <3>2
  <2>4. Knows(acc, r)
    BY <2>2, <2>3 DEF Knows
  <2> QED
    BY <2>4 DEF r
<1>5. \A v \in Workers : Made(t2[v]) /\ Knows(acc, t2[v])
  BY <1>1, <1>2, <1>3, <1>4
<1>6. ASSUME NEW u \in Workers, NEW v \in Workers, u # v PROVE Apart(t2[u], t2[v])
  <2>1. CASE u # w /\ v # w
    BY <1>1, <1>2, <1>6, <2>1
  <2>2. CASE u = w \/ v = w
    BY <1>2, <1>3, <2>2 DEF Apart
  <2> QED
    BY <2>1, <2>2
<1>7. tx' = t2
  BY DEF t2
<1> QED
  BY <1>2, <1>5, <1>6, <1>7 DEF FinanceInv

-----------------------------------------------------------------------------
(***************************************************************************)
(* Requests and locks                                                      *)
(***************************************************************************)

\* A new request knows nothing yet.
LEMMA RequestMade ==
  ASSUME FinanceInv, NEW w \in Workers, Request(w)
  PROVE  FinanceInv'
<1>0. account \in [Accounts -> AccountRows] /\ \A a \in Accounts : account[a].type \in Types \cup {"NONE"}
  BY DEF FinanceInv, Books, AccountRows
<1>1. ASSUME NEW r, Begin(w, r), Made(r), Knows(account, r), r.held = {},
             \A v \in Workers : r.op = "create" /\ tx[v].op = "create" => tx[v].of # r.of
      PROVE  FinanceInv'
  <2>1. \A v \in Workers : v # w => Apart(tx[v], r)
    BY <1>1 DEF Apart
  <2> QED
    BY <1>1, <2>1, RequestKeeps DEF Begin
<1>2. ASSUME NEW a \in Accounts, NEW t \in Types, NEW n \in {0} \cup Amounts, NEW d \in BOOLEAN,
             BeginCreate(w, a, t, n, d)
      PROVE  FinanceInv'
  <2> DEFINE r == [op |-> "create", held |-> {}, seen |-> Unseen, of |-> a, type |-> t, n |-> n, default |-> d]
  <2>1. Made(r)
    BY DEF Made
  <2>2. Knows(account, r)
    BY <1>2 DEF Knows, Moving, BeginCreate, Exists
  <2>3. r.held = {} /\ \A v \in Workers : tx[v].op = "create" => tx[v].of # r.of
    BY <1>2 DEF BeginCreate
  <2>4. Begin(w, r)
    BY <1>2 DEF BeginCreate
  <2> HIDE DEF r
  <2> QED
    BY <1>1, <2>1, <2>2, <2>3, <2>4
<1>3. ASSUME NEW a \in Accounts, BeginDefault(w, a) PROVE FinanceInv'
  <2> DEFINE r == [op |-> "default", held |-> {}, seen |-> Unseen, of |-> a, type |-> account[a].type]
  <2>1. Made(r)
    BY <1>3 DEF Made, BeginDefault, Exists
  <2>2. Knows(account, r)
    BY DEF Knows, Moving
  <2>3. r.held = {} /\ r.op = "default"
    OBVIOUS
  <2>4. Begin(w, r)
    BY <1>3 DEF BeginDefault
  <2> HIDE DEF r
  <2> QED
    BY <1>1, <2>1, <2>2, <2>3, <2>4
<1>4. ASSUME NEW a \in Accounts, NEW active \in BOOLEAN, BeginStatus(w, a, active) PROVE FinanceInv'
  <2> DEFINE r == [op |-> "status", held |-> {}, seen |-> Unseen, of |-> a, active |-> active]
  <2>1. Made(r)
    BY DEF Made
  <2>2. Knows(account, r)
    BY DEF Knows, Moving
  <2>3. r.held = {} /\ r.op = "status"
    OBVIOUS
  <2>4. Begin(w, r)
    BY <1>4 DEF BeginStatus
  <2> HIDE DEF r
  <2> QED
    BY <1>1, <2>1, <2>2, <2>3, <2>4
<1>5. ASSUME NEW a \in Accounts, NEW d \in {"IN", "OUT"}, NEW n \in Amounts, BeginManual(w, a, d, n)
      PROVE  FinanceInv'
  <2> DEFINE r == [op |-> "manual", held |-> {}, seen |-> Unseen, of |-> a, direction |-> d, n |-> n]
  <2>1. Made(r)
    BY DEF Made
  <2>2. r.held = {} /\ r.op = "manual" /\ r.of = a
    OBVIOUS
  <2>3. Begin(w, r) /\ account[a].type \in Types
    BY <1>5 DEF BeginManual, Exists
  <2> HIDE DEF r
  <2>4. Touches(r) = {a}
    BY <2>2 DEF Touches
  <2>5. Knows(account, r)
    BY <2>2, <2>3, <2>4 DEF Knows, Moving
  <2> QED
    BY <1>1, <2>1, <2>2, <2>3, <2>5
<1>6. ASSUME NEW a \in Accounts, NEW b \in Accounts, NEW n \in Amounts, BeginTransfer(w, a, b, n)
      PROVE  FinanceInv'
  <2> DEFINE r == [op |-> "transfer", held |-> {}, seen |-> Unseen, from |-> a, to |-> b, n |-> n]
  <2>1. Made(r)
    BY <1>6 DEF Made, BeginTransfer
  <2>2. r.held = {} /\ r.op = "transfer" /\ r.from = a /\ r.to = b
    OBVIOUS
  <2>3. Begin(w, r) /\ account[a].type \in Types /\ account[b].type \in Types
    BY <1>6 DEF BeginTransfer, Exists
  <2> HIDE DEF r
  <2>4. Touches(r) = {a, b}
    BY <2>2 DEF Touches
  <2>5. Knows(account, r)
    BY <2>2, <2>3, <2>4 DEF Knows, Moving
  <2> QED
    BY <1>1, <2>1, <2>2, <2>3, <2>5
<1> QED
  BY <1>2, <1>3, <1>4, <1>5, <1>6 DEF Request

\* The locks that a movement needs are those of the rows it touches.
LEMMA NeedsOfMovement ==
  ASSUME NEW r, Made(r), Moving(r), NEW held
  PROVE  Missing(Needs(r), held) = {} <=> \A a \in Touches(r) : Row(a) \in held
<1>1. CASE r.op = "manual"
  <2>1. Needs(r) = <<Row(r.of)>> /\ Touches(r) = {r.of}
    BY <1>1 DEF Needs, Touches
  <2>2. DOMAIN Needs(r) = 1 .. 1 /\ Needs(r)[1] = Row(r.of)
    BY <2>1
  <2> QED
    BY <2>1, <2>2 DEF Missing
<1>2. CASE r.op = "transfer"
  <2> DEFINE low  == Lower(r.from, r.to)
             high == Higher(r.from, r.to)
  <2>1. Needs(r) = <<Row(low), Row(high)>> /\ Touches(r) = {r.from, r.to}
    BY <1>2 DEF Needs, Touches, LockOrder
  <2>2. Touches(r) = {low, high}
    BY <2>1 DEF Lower, Higher
  <2> HIDE DEF low, high
  <2>3. DOMAIN Needs(r) = 1 .. 2 /\ Needs(r)[1] = Row(low) /\ Needs(r)[2] = Row(high)
    BY <2>1
  <2>4. \A k : k \in 1 .. 2 <=> k = 1 \/ k = 2
    OBVIOUS
  <2>5. Missing(Needs(r), held) = {} <=> Row(low) \in held /\ Row(high) \in held
    BY <2>3, <2>4 DEF Missing
  <2> QED
    BY <2>2, <2>5
<1> QED
  BY <1>1, <1>2 DEF Moving

\* A request that gets its last lock reads the balances there are.
LEMMA LockKeeps ==
  ASSUME FinanceInv, NEW w \in Workers, Lock(w)
  PROVE  FinanceInv'
<1> DEFINE r    == tx[w]
           lock == NextLock(Needs(r), r.held)
           held == r.held \cup {lock}
           seen == [a \in Accounts |-> IF a \in Touches(r) THEN account[a].balance ELSE 0]
           s    == IF Missing(Needs(r), held) = {} THEN seen ELSE Unseen
           r2   == [r EXCEPT !.held = held, !.seen = s]
<1>1. /\ Made(r) /\ Knows(account, r) /\ tx = [v \in Workers |-> tx[v]]
      /\ \A v \in Workers : v # w => Apart(tx[v], r)
  BY DEF FinanceInv
<1>2. UNCHANGED <<account, posted, journal>> /\ ~Waits(Held, AllNeeds, w) /\ Missing(Needs(r), r.held) # {}
  BY DEF Lock
<1>3. tx' = [tx EXCEPT ![w] = r2]
  <2>1. tx' = [tx EXCEPT ![w].held = held, ![w].seen = s]
    BY DEF Lock
  <2> HIDE DEF held, s
  <2> QED
    BY <1>1, <2>1
<1>4. ASSUME NEW v \in Workers, v # w PROVE lock \notin tx[v].held
  <2>1. ~WaitsFor(Held, AllNeeds, w, v)
    BY <1>2 DEF Waits, Held
  <2>2. Held[w] = r.held /\ Held[v] = tx[v].held /\ AllNeeds[w] = Needs(r)
    BY DEF Held, AllNeeds
  <2> QED
    BY <1>2, <1>4, <2>1, <2>2 DEF WaitsFor
<1>5. s = IF Missing(Needs(r), held) = {} THEN seen ELSE Unseen
  OBVIOUS
<1> HIDE DEF s
<1>6. /\ r2.held = held /\ r2.seen = s /\ DOMAIN r2 = DOMAIN r
      /\ \A f \in DOMAIN r : f \notin {"held", "seen"} => r2[f] = r[f]
  BY <1>1 DEF Made
<1> HIDE DEF r2
<1>7. r2.op = r.op /\ (Moving(r2) <=> Moving(r))
  BY <1>1, <1>6 DEF Made, Moving
<1>8. Made(r2) /\ (r.op = "create" => r2.of = r.of)
  <2>1. r.op = "transfer" => r2.from = r.from /\ r2.to = r.to /\ r2.n = r.n
    BY <1>1, <1>6 DEF Made
  <2>2. r.op = "manual" => r2.of = r.of /\ r2.n = r.n /\ r2.direction = r.direction
    BY <1>1, <1>6 DEF Made
  <2>3. r.op = "status" => r2.of = r.of /\ r2.active = r.active
    BY <1>1, <1>6 DEF Made
  <2>4. r.op = "default" => r2.of = r.of /\ r2.type = r.type
    BY <1>1, <1>6 DEF Made
  <2>5. r.op = "create" => r2.of = r.of /\ r2.type = r.type /\ r2.n = r.n /\ r2.default = r.default
    BY <1>1, <1>6 DEF Made
  <2> QED
    BY <1>1, <1>6, <1>7, <2>1, <2>2, <2>3, <2>4, <2>5 DEF Made
<1>9. Moving(r) => Touches(r2) = Touches(r)
  BY <1>1, <1>6, <1>7 DEF Touches, Moving, Made
<1>10. Knows(account, r2)
  <2>1. ASSUME Moving(r2), \A a \in Touches(r) : Row(a) \in held, NEW a \in Touches(r)
        PROVE  r2.seen[a] = account[a].balance
    <3>1. Missing(Needs(r), held) = {}
      BY <1>1, <1>7, <2>1, NeedsOfMovement
    <3>2. a \in Accounts
      BY <1>1, <1>7, <2>1 DEF Knows
    <3> QED
      BY <1>5, <1>6, <2>1, <3>1, <3>2
  <2>2. Moving(r2) => \A a \in Touches(r2) : a \in Accounts /\ account[a].type \in Types
    BY <1>1, <1>7, <1>9 DEF Knows
  <2>3. r2.op = "create" => account[r2.of].type \notin Types
    BY <1>1, <1>7, <1>8 DEF Knows
  <2> HIDE DEF r, held
  <2> QED
    BY <1>6, <1>7, <1>9, <2>1, <2>2, <2>3 DEF Knows
<1>11. ASSUME NEW v \in Workers, v # w PROVE Apart(tx[v], r2)
  BY <1>1, <1>4, <1>6, <1>7, <1>8, <1>11 DEF Apart
<1> HIDE DEF r
<1> QED
  BY <1>2, <1>3, <1>8, <1>10, <1>11, RequestKeeps

-----------------------------------------------------------------------------
(***************************************************************************)
(* The ends of transactions                                                *)
(***************************************************************************)

\* A movement that ends has seen the balances that are, under its locks.
LEMMA MovementSeen ==
  ASSUME FinanceInv, NEW w \in Workers, HoldsAll(w), Moving(tx[w]), NEW a \in Touches(tx[w])
  PROVE  /\ a \in Accounts /\ account[a].type \in Types /\ Row(a) \in tx[w].held
         /\ tx[w].seen[a] = account[a].balance /\ account[a].balance \in 0 .. MaxBalance
<1>1. Made(tx[w]) /\ Knows(account, tx[w]) /\ account \in [Accounts -> AccountRows]
  BY DEF FinanceInv, Books
<1>2. \A b \in Touches(tx[w]) : Row(b) \in tx[w].held
  BY <1>1, NeedsOfMovement DEF HoldsAll
<1>3. a \in Accounts /\ account[a].type \in Types /\ tx[w].seen[a] = account[a].balance
  BY <1>1, <1>2 DEF Knows
<1>4. account[a].balance \in 0 .. MaxBalance
  BY <1>1, <1>3 DEF AccountRows
<1> QED
  BY <1>2, <1>3, <1>4

\* A manual movement writes the balance it has read under its lock, and the same amount to
\* the journal.
LEMMA ManualKeeps ==
  ASSUME FinanceInv, NEW w \in Workers, HoldsAll(w), CanCommit(tx[w]), tx[w].op = "manual",
         Manual(tx[w]), tx' = [tx EXCEPT ![w] = Idle]
  PROVE  FinanceInv'
<1> DEFINE r == tx[w]
           a == r.of
           d == Signed(r.direction, r.n)
           n == r.seen[a] + d
<1>1. Books(account, posted, journal) /\ Made(r) /\ Moving(r) /\ account \in [Accounts -> AccountRows]
  BY DEF FinanceInv, Books, Moving
<1>2. r.n \in Nat /\ r.direction \in {"IN", "OUT"} /\ a \in Touches(r) /\ MaxBalance \in Nat
  BY <1>1, FinanceAssumption DEF Made, Touches
<1>3. /\ a \in Accounts /\ account[a].type \in Types /\ Row(a) \in r.held
      /\ r.seen[a] = account[a].balance /\ account[a].balance \in 0 .. MaxBalance
  BY <1>1, <1>2, MovementSeen
<1>4. CanPostMovement(a, r.direction, r.n, r.seen[a])
  BY DEF CanCommit
<1>5. d \in Int /\ n \in 0 .. MaxBalance /\ n = account[a].balance + d
  BY <1>2, <1>3, <1>4 DEF CanPostMovement, Signed
<1> DEFINE acc  == [account EXCEPT ![a].balance = n]
           post == [posted EXCEPT ![a] = @ + d]
           jour == [journal EXCEPT ![account[a].type] = @ + d]
<1>6. account' = acc /\ posted' = post /\ journal' = jour
  BY DEF Manual
<1> HIDE DEF a, d, n
<1>7. Books(acc, post, jour)
  BY <1>1, <1>3, <1>5, BalanceChanges
<1>8. \A b \in Accounts : /\ acc[b].type = account[b].type
                          /\ b = a \/ acc[b].balance = account[b].balance
  BY <1>1, <1>3 DEF AccountRows
<1> HIDE DEF acc, post, jour
<1>9. \A b \in Accounts : account[b].type \in Types =>
        /\ acc[b].type = account[b].type
        /\ Row(b) \in tx[w].held \/ acc[b].balance = account[b].balance
  BY <1>3, <1>8
<1>10. \A b \in Accounts : ~(account[b].type \notin Types /\ acc[b].type \in Types)
  BY <1>8
<1> QED
  BY <1>6, <1>7, <1>9, <1>10, CommitKeepsOthers

\* A transfer writes two balances read under their locks, of two different accounts.
LEMMA TransferKeeps ==
  ASSUME FinanceInv, NEW w \in Workers, HoldsAll(w), CanCommit(tx[w]), tx[w].op = "transfer",
         Transfer(tx[w]), tx' = [tx EXCEPT ![w] = Idle]
  PROVE  FinanceInv'
<1> DEFINE r == tx[w]
           a == r.from
           b == r.to
           n == r.n
           x == r.seen[a] - n
           y == r.seen[b] + n
<1>1. Books(account, posted, journal) /\ Made(r) /\ Moving(r) /\ account \in [Accounts -> AccountRows]
      /\ posted \in [Accounts -> Int] /\ journal \in [Types -> Int]
  BY DEF FinanceInv, Books, Moving
<1>2. n \in Nat /\ a \in Touches(r) /\ b \in Touches(r) /\ a # b /\ MaxBalance \in Nat
  BY <1>1, FinanceAssumption DEF Made, Touches
<1>3. /\ a \in Accounts /\ account[a].type \in Types /\ Row(a) \in r.held
      /\ r.seen[a] = account[a].balance /\ account[a].balance \in 0 .. MaxBalance
      /\ b \in Accounts /\ account[b].type \in Types /\ Row(b) \in r.held
      /\ r.seen[b] = account[b].balance /\ account[b].balance \in 0 .. MaxBalance
  BY <1>1, <1>2, MovementSeen
<1>4. n <= r.seen[a] /\ r.seen[b] + n <= MaxBalance
  BY DEF CanCommit, CanPostMovement
<1>5. /\ x \in 0 .. MaxBalance /\ x = account[a].balance + (-n) /\ -n \in Int
      /\ y \in 0 .. MaxBalance /\ y = account[b].balance + n /\ n \in Int
  BY <1>2, <1>3, <1>4
<1> DEFINE acc1  == [account EXCEPT ![a].balance = x]
           post1 == [posted EXCEPT ![a] = @ + (-n)]
           jour1 == [journal EXCEPT ![account[a].type] = @ + (-n)]
           acc   == [acc1 EXCEPT ![b].balance = y]
           post  == [post1 EXCEPT ![b] = @ + n]
           jour  == [jour1 EXCEPT ![acc1[b].type] = @ + n]
<1>6. /\ account' = [account EXCEPT ![a].balance = x, ![b].balance = y]
      /\ posted' = [posted EXCEPT ![a] = @ - n, ![b] = @ + n]
      /\ journal' = [[journal EXCEPT ![account[a].type] = @ - n] EXCEPT ![account[b].type] = @ + n]
  BY DEF Transfer
<1> HIDE DEF x, y, a, b, n
<1>7. Books(acc1, post1, jour1)
  BY <1>1, <1>3, <1>5, BalanceChanges
<1>8. /\ acc1[b] = account[b]
      /\ \A c \in Accounts : acc1[c].type = account[c].type /\ (c = a \/ acc1[c].balance = account[c].balance)
  BY <1>1, <1>2, <1>3 DEF AccountRows
<1>9. acc1 \in [Accounts -> AccountRows]
  BY <1>7 DEF Books
<1>10. account' = acc
  BY <1>6
<1>11. posted' = post
  <2>1. posted[a] - n = posted[a] + (-n)
    BY <1>1, <1>2, <1>3
  <2>2. posted' = [[posted EXCEPT ![a] = posted[a] + (-n)] EXCEPT ![b] = posted[b] + n]
    BY <1>1, <1>2, <1>3, <1>6, <2>1
  <2>3. post1[b] = posted[b]
    BY <1>1, <1>2, <1>3
  <2> QED
    BY <2>2, <2>3
<1>12. journal' = jour
  <2>1. journal[account[a].type] - n = journal[account[a].type] + (-n)
    BY <1>1, <1>2, <1>3
  <2> QED
    BY <1>6, <1>8, <2>1
<1> HIDE DEF acc1, post1, jour1
<1>13. Books(acc, post, jour)
  BY <1>3, <1>5, <1>7, <1>8, BalanceChanges
<1>14. \A c \in Accounts : /\ acc[c].type = acc1[c].type
                           /\ c = b \/ acc[c].balance = acc1[c].balance
  BY <1>3, <1>9 DEF AccountRows
<1> HIDE DEF acc, post, jour
<1>15. \A c \in Accounts : account[c].type \in Types =>
        /\ acc[c].type = account[c].type
        /\ Row(c) \in tx[w].held \/ acc[c].balance = account[c].balance
  BY <1>3, <1>8, <1>14
<1>16. \A c \in Accounts : ~(account[c].type \notin Types /\ acc[c].type \in Types)
  BY <1>8, <1>14
<1> QED
  BY <1>10, <1>11, <1>12, <1>13, <1>15, <1>16, CommitKeepsOthers

\* Marks change: active or default.
LEMMA MarksKeep ==
  ASSUME FinanceInv, NEW w \in Workers, NEW acc \in [Accounts -> AccountRows],
         \A a \in Accounts : acc[a].type = account[a].type /\ acc[a].balance = account[a].balance,
         account' = acc, UNCHANGED <<posted, journal>>, tx' = [tx EXCEPT ![w] = Idle]
  PROVE  FinanceInv'
<1>1. Books(account, posted, journal)
  BY DEF FinanceInv
<1>2. Books(acc, posted, journal)
  BY <1>1, MarksChange
<1> QED
  BY <1>2, CommitKeepsOthers

\* A change of status moves no money.
LEMMA StatusKeeps ==
  ASSUME FinanceInv, NEW w \in Workers, tx[w].op = "status",
         ChangeStatus(tx[w]), tx' = [tx EXCEPT ![w] = Idle]
  PROVE  FinanceInv'
<1> DEFINE r   == tx[w]
           acc == [account EXCEPT ![r.of].active = r.active]
<1>1. account \in [Accounts -> AccountRows] /\ r.of \in Accounts /\ r.active \in BOOLEAN
  BY DEF FinanceInv, Books, Made
<1>2. account' = acc /\ UNCHANGED <<posted, journal>>
  BY DEF ChangeStatus
<1> HIDE DEF r
<1>3. acc \in [Accounts -> AccountRows]
  BY <1>1 DEF AccountRows
<1>4. \A a \in Accounts : acc[a].type = account[a].type /\ acc[a].balance = account[a].balance
  BY <1>1 DEF AccountRows
<1> HIDE DEF acc
<1> QED
  BY <1>2, <1>3, <1>4, MarksKeep

\* The default mark changes neither type nor balance.
LEMMA DefaultMade ==
  ASSUME NEW rows \in [Accounts -> AccountRows], NEW t, NEW a
  PROVE  /\ MakeDefault(rows, t, a) \in [Accounts -> AccountRows]
         /\ \A x \in Accounts : /\ MakeDefault(rows, t, a)[x].type = rows[x].type
                                /\ MakeDefault(rows, t, a)[x].balance = rows[x].balance
<1> DEFINE new == MakeDefault(rows, t, a)
<1>1. ASSUME NEW x \in Accounts
      PROVE  new[x] \in AccountRows /\ new[x].type = rows[x].type /\ new[x].balance = rows[x].balance
  <2>1. rows[x] \in AccountRows
    OBVIOUS
  <2>2. CASE rows[x].type = t
    <3>1. PICK b \in BOOLEAN : b = (x = a)
      OBVIOUS
    <3>2. new[x] = [rows[x] EXCEPT !.default = b]
      BY <2>2, <3>1 DEF MakeDefault
    <3> QED
      BY <2>1, <3>1, <3>2 DEF AccountRows
  <2>3. CASE rows[x].type # t
    BY <2>1, <2>3 DEF MakeDefault
  <2> QED
    BY <2>2, <2>3
<1>2. new = [x \in Accounts |-> new[x]]
  BY DEF MakeDefault
<1> HIDE DEF new
<1>3. new \in [Accounts -> AccountRows]
  BY <1>1, <1>2
<1> QED
  BY <1>1, <1>3 DEF new

\* A change of default moves no money.
LEMMA DefaultKeeps ==
  ASSUME FinanceInv, NEW w \in Workers, SetDefault(tx[w]), tx' = [tx EXCEPT ![w] = Idle]
  PROVE  FinanceInv'
<1> DEFINE acc == MakeDefault(account, tx[w].type, tx[w].of)
<1>1. account \in [Accounts -> AccountRows]
  BY DEF FinanceInv, Books
<1>2. /\ acc \in [Accounts -> AccountRows]
      /\ \A a \in Accounts : acc[a].type = account[a].type /\ acc[a].balance = account[a].balance
  BY <1>1, DefaultMade
<1>3. account' = acc /\ UNCHANGED <<posted, journal>>
  BY DEF SetDefault
<1> HIDE DEF acc
<1> QED
  BY <1>2, <1>3, MarksKeep

\* An account created with a balance posts it.
LEMMA CreateKeeps ==
  ASSUME FinanceInv, NEW w \in Workers, tx[w].op = "create",
         Create(tx[w]), tx' = [tx EXCEPT ![w] = Idle]
  PROVE  FinanceInv'
<1> DEFINE r     == tx[w]
           a     == r.of
           row   == [type |-> r.type, active |-> TRUE, default |-> MakesDefault(r), balance |-> r.n]
           added == [account EXCEPT ![a] = row]
           acc   == IF MakesDefault(r) THEN MakeDefault(added, r.type, a) ELSE added
           post  == [posted EXCEPT ![a] = row.balance]
           jour  == [journal EXCEPT ![row.type] = @ + row.balance]
<1>1. /\ Books(account, posted, journal) /\ account \in [Accounts -> AccountRows]
      /\ a \in Accounts /\ r.type \in Types /\ r.n \in 0 .. MaxBalance
      /\ account[a].type \notin Types
  BY FinanceAssumption DEF FinanceInv, Books, Made, Knows
<1>2. row \in AccountRows /\ row.type = r.type /\ row.balance = r.n
  <2>1. PICK b \in BOOLEAN : b = MakesDefault(r)
    BY DEF MakesDefault
  <2>2. row = [type |-> r.type, active |-> TRUE, default |-> b, balance |-> r.n]
    BY <2>1
  <2> HIDE DEF row
  <2> QED
    BY <1>1, <2>1, <2>2 DEF AccountRows
<1>3. account' = acc /\ posted' = post /\ journal' = jour
  BY <1>2 DEF Create
<1> HIDE DEF row
<1>4. Books(added, post, jour)
  BY <1>1, <1>2, AccountOpens
<1>5. added \in [Accounts -> AccountRows] /\ \A b \in Accounts : b # a => added[b] = account[b]
  BY <1>1, <1>2
<1> HIDE DEF added
<1>6. /\ acc \in [Accounts -> AccountRows]
      /\ \A b \in Accounts : acc[b].type = added[b].type /\ acc[b].balance = added[b].balance
  BY <1>5, DefaultMade
<1> HIDE DEF acc, post, jour
<1>7. Books(acc, post, jour)
  BY <1>4, <1>6, MarksChange
<1>8. \A b \in Accounts : b # a => acc[b].type = account[b].type /\ acc[b].balance = account[b].balance
  BY <1>5, <1>6
<1>9. \A b \in Accounts : account[b].type \in Types =>
        /\ acc[b].type = account[b].type
        /\ Row(b) \in tx[w].held \/ acc[b].balance = account[b].balance
  BY <1>1, <1>8
<1>10. \A b \in Accounts : (account[b].type \notin Types /\ acc[b].type \in Types) =>
         tx[w].op = "create" /\ tx[w].of = b
  BY <1>8
<1> QED
  BY <1>3, <1>7, <1>9, <1>10, CommitKeepsOthers

\* A rollback releases the locks and writes nothing.
LEMMA RollbackKeeps ==
  ASSUME FinanceInv, NEW w \in Workers, Rollback(w)
  PROVE  FinanceInv'
<1>1. Idle.op = "none" /\ Idle.held = {} /\ Made(Idle)
  BY DEF Idle, Made
<1>2. Knows(account, Idle) /\ \A v \in Workers : Apart(tx[v], Idle)
  BY <1>1 DEF Knows, Moving, Apart
<1> QED
  BY <1>1, <1>2, RequestKeeps DEF Rollback

\* No step disturbs the invariant of the finance service.
LEMMA FinanceKept ==
  ASSUME FinanceInv, [FinanceNext]_financeVars
  PROVE  FinanceInv'
<1>1. CASE UNCHANGED financeVars
  BY <1>1 DEF FinanceInv, financeVars
<1>2. ASSUME NEW w \in Workers, CommitTx(w) PROVE FinanceInv'
  BY <1>2, ManualKeeps, TransferKeeps, StatusKeeps, DefaultKeeps, CreateKeeps DEF CommitTx
<1>3. ASSUME NEW w \in Workers, Request(w) \/ Progress(w) PROVE FinanceInv'
  BY <1>2, <1>3, RequestMade, LockKeeps, RollbackKeeps DEF Progress, Refuse, BreakDeadlock
<1> QED
  BY <1>1, <1>3 DEF FinanceNext

\* The balances of cash and bank accounts are what their ledgers and the journal say,
\* whatever movements, transfers and changes of default overlap
\* (postFinancialMovement of financial-posting.ts, health of finance.service.ts).
THEOREM BalancesAlwaysReconcile ==
  FinanceSpec => []BalancesReconcile
<1>1. FinanceInit => FinanceInv
  BY FinanceStarts
<1>2. FinanceInv /\ [FinanceNext]_financeVars => FinanceInv'
  BY FinanceKept
<1>3. FinanceInv => BalancesReconcile
  BY DEF FinanceInv, Books, BalancesReconcile, FinanceTypeOK, AccountRows, OfType
<1> QED
  BY <1>1, <1>2, <1>3, PTL DEF FinanceSpec
=============================================================================
