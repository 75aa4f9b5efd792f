----------------------------- MODULE FifoLayers -----------------------------
(***************************************************************************)
(* The FIFO layers of a product: what is left of each receipt, oldest       *)
(* first, and what it is worth.  Goods are taken from the oldest layer that *)
(* has any, at the average cost of what is left of it.                      *)
(***************************************************************************)
EXTENDS Integers, Sequences, Tally

Least(m, n) == IF m < n THEN m ELSE n
Positive(n) == IF n < 0 THEN 0 ELSE n

Layer(origin, n, value) == [origin |-> origin, left |-> n, value |-> value]

Left(ls) == Total([k \in DOMAIN ls |-> ls[k].left])

OlderThan(ls, k) == Total([j \in 1 .. k - 1 |-> ls[j].left])

Taken_NewestFirst(ls, n, k) ==
  Least(ls[k].left, Positive(n - Total([j \in k + 1 .. Len(ls) |-> ls[j].left])))

\* What taking n takes from layer k: what the older ones do not cover.
Taken(ls, n, k) == Least(ls[k].left, Positive(n - OlderThan(ls, k)))

\* n times the average cost of a unit, rounded to a whole amount.
Cost(layer, n) ==
  IF n = 0 THEN 0 ELSE (2 * layer.value * n + layer.left) \div (2 * layer.left)

TakeLayer(layer, n) ==
  [layer EXCEPT !.left = @ - n, !.value = Positive(@ - Cost(layer, n))]

\* consumeFifoLayers, which refuses more than there is.
CanConsume(ls, n) == n <= Left(ls)

Consume(ls, n) ==
  SubSeq([k \in DOMAIN ls |-> TakeLayer(ls[k], Taken(ls, n, k))], 1, Len(ls))

\* The cost of goods that consumeFifoLayers returns.
ConsumedCost(ls, n) == Total([k \in DOMAIN ls |-> Cost(ls[k], Taken(ls, n, k))])

-----------------------------------------------------------------------------

\* For reference: one unit, from the oldest layer that has one; and n such units.
OneTaken(ls) ==
  LET oldest == CHOOSE k \in DOMAIN ls : ls[k].left > 0 /\ \A j \in 1 .. k - 1 : ls[j].left = 0
  IN  [ls EXCEPT ![oldest] = TakeLayer(@, 1)]

OneByOne(ls, n) ==
  LET after[m \in 0 .. n] == IF m = 0 THEN ls ELSE OneTaken(after[m - 1])
  IN  after[n]

Worth(ls) == Total([k \in DOMAIN ls |-> ls[k].value])

\* The units of a layer cost the same, without a remainder.
Even(layer) == \E cost \in 0 .. layer.value : layer.value = layer.left * cost
=============================================================================
