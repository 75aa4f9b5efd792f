----------------------------- MODULE StockGoods -----------------------------
(***************************************************************************)
(* The stock rows of the products and their FIFO layers, as purchases,      *)
(* sales and transformations move them.  A transformation turns goods of    *)
(* one product into goods of another, in one SERIALIZABLE transaction that  *)
(* locks the stock rows it reads.                                           *)
(***************************************************************************)
EXTENDS FifoLayers

CONSTANTS Products,
          Bulk,       \* products that may be transformed: "curah", "bal"
          Packs,      \* products that may result: "repack"
          UnitCosts,  \* costs a receipt may have
          MaxLayers,  \* bound on the layers of a product
          MaxStock,   \* bound on the goods of a product that are bought or made
          MaxQty      \* bound on the goods that a document moves

ASSUME StockGoodsAssumption ==
  /\ Bulk \subseteq Products /\ Packs \subseteq Products
  /\ UnitCosts \subseteq Nat /\ MaxLayers \in Nat /\ MaxStock \in Nat /\ MaxQty \in Nat

VARIABLES layers,  \* layers[p]: the FIFO layers of product p
          stock    \* stock[p]: actual and available quantity

goodsVars == <<layers, stock>>

Quantities == 1 .. MaxQty

RoomFor(p, n) == Len(layers[p]) < MaxLayers /\ stock[p].actual + n <= MaxStock

\* A movement of n units of product p into a layer of its own, or out.
In(p, n, layer) ==
  /\ layers' = [layers EXCEPT ![p] = Append(@, layer)]
  /\ stock'  = [stock EXCEPT ![p] = [actual |-> @.actual + n, available |-> @.available + n]]

Buy(p, n, cost) ==
  /\ RoomFor(p, n)
  /\ In(p, n, Layer("PURCHASE_INVOICE", n, n * cost))

Reserve(p) ==
  /\ stock[p].available > 0
  /\ stock' = [stock EXCEPT ![p].available = @ - 1]
  /\ UNCHANGED layers

Release(p) ==
  /\ stock[p].available < stock[p].actual
  /\ stock' = [stock EXCEPT ![p].available = @ + 1]
  /\ UNCHANGED layers

\* Completion of a sale of reserved goods.
Deliver(p) ==
  /\ stock[p].available < stock[p].actual
  /\ CanConsume(layers[p], 1)
  /\ layers' = [layers EXCEPT ![p] = Consume(@, 1)]
  /\ stock'  = [stock EXCEPT ![p].actual = @ - 1]

\* Goods in bulk become packed goods of another product.
MayBecome(p, q) == p # q /\ p \in Bulk /\ q \in Packs

\* Reserved goods, packed or not, are not transformed.
CanTransform(p, n) == n <= stock[p].available /\ CanConsume(layers[p], n)

\* createTransformation with one line: n of p become m of q, at the cost of what
\* was taken or at the cost the user gives.
Transform(p, n, q, m, applied) ==
  LET suggested == ConsumedCost(layers[p], n)
  IN  /\ MayBecome(p, q)
      /\ CanTransform(p, n) /\ RoomFor(q, m)
      /\ \E cost \in {suggested, applied * m} :
           layers' = [layers EXCEPT ![p] = Consume(@, n),
                                    ![q] = Append(@, Layer("INVENTORY_TRANSFORMATION", m, cost))]
      /\ stock' = [stock EXCEPT ![p] = [actual |-> @.actual - n, available |-> @.available - n],
                                ![q] = [actual |-> @.actual + m, available |-> @.available + m]]

GoodsInit ==
  /\ layers = [p \in Products |-> <<>>]
  /\ stock  = [p \in Products |-> [actual |-> 0, available |-> 0]]

GoodsNext ==
  \/ \E p \in Products, n \in Quantities, cost \in UnitCosts : Buy(p, n, cost)
  \/ \E p \in Products : Reserve(p) \/ Release(p) \/ Deliver(p)
  \/ \E p, q \in Products, n, m \in Quantities, cost \in UnitCosts : Transform(p, n, q, m, cost)

-----------------------------------------------------------------------------

GoodsTypeOK ==
  /\ \A p \in Products :
       /\ Len(layers[p]) <= MaxLayers
       /\ \A k \in DOMAIN layers[p] : layers[p][k].left \in Nat /\ layers[p][k].value \in Nat
  /\ stock \in [Products -> [actual : Nat, available : Nat]]

\* The layers of a product hold the goods its stock row counts, however they came
\* and whichever of them left; and reserved goods are among them.
LayersHoldStock ==
  \A p \in Products :
    /\ Left(layers[p]) = stock[p].actual
    /\ stock[p].available <= stock[p].actual

\* Taking goods in one go leaves of every layer what taking them one by one leaves,
\* the oldest first, and as much value, but for rounding; what they cost is what the
\* layers lose, to the last unit: an emptied layer is worth nothing.
ConsumesOldestFirst ==
  \A p \in Products :
    LET ls == layers[p]
    IN  /\ \A n \in 0 .. Left(ls) :
             /\ \A k \in DOMAIN ls :
                  /\ Consume(ls, n)[k].left = OneByOne(ls, n)[k].left
                  /\ Even(ls[k]) => Consume(ls, n)[k].value = OneByOne(ls, n)[k].value
             /\ ConsumedCost(ls, n) = Worth(ls) - Worth(Consume(ls, n))
        /\ \A k \in DOMAIN ls : ls[k].left = 0 => ls[k].value = 0
=============================================================================
