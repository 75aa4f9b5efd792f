--------------------------- MODULE InventoryLoan ---------------------------
(***************************************************************************)
(* Goods lent to customers and borrowed from suppliers.  A loan is drafted, *)
(* activated, and resolved bit by bit: the goods or others come back, or    *)
(* are invoiced, or are written off and perhaps recovered later.            *)
(*                                                                          *)
(* Every operation locks the loan.  Activation and resolution are           *)
(* SERIALIZABLE, and a stock row changed since they began fails them, so    *)
(* that each is one action here.  A loan is of one product; a resolution    *)
(* has one item, or two of a unit each.                                     *)
(***************************************************************************)
EXTENDS StockGoods

CONSTANTS Loans,
          Provisional,  \* the provisional cost of a unit
          Prices,       \* prices an invoice may give it instead
          NoProduct

ASSUME InventoryLoanAssumption ==
  /\ IsFiniteSet(Loans) /\ Products # {}
  /\ {"PURCHASE_INVOICE", "INVENTORY_TRANSFORMATION", "INVENTORY_LOAN_RETURN"} \cap Loans = {}
  /\ Provisional \in Nat /\ Prices \subseteq Nat
  /\ NoProduct \notin Products

VARIABLE loan

loanVars == <<layers, stock, loan>>

Directions == {"OUTGOING", "INCOMING"}

\* alloc: remainingAllocationQuantity over the loan's FIFO allocations; offs: its
\* write-offs with what was recovered of each; handed: goods that were returned
\* as what they are.
LoanRows ==
  [status : {"NONE", "DRAFT", "OUTSTANDING", "WRITTEN_OFF", "CLOSED", "CANCELLED"},
   direction : Directions, product : Products, qty : Nat,
   returned : Nat, converted : Nat, writtenOff : Nat, recovered : Nat, alloc : Nat,
   offs : Seq([qty : Nat, recovered : Nat]), handed : Nat]

\* An item of a resolution; w is the index of the write-off it recovers, or 0.
Item(type, n, p, m, price, w) ==
  [type |-> type, qty |-> n, product |-> p, replacement |-> m, price |-> price, recovers |-> w]

\* A replacement may be named, and then moves, whatever the type.
Items ==
  LET writeOffs == 0 .. MaxQty
      anyProduct == Products \cup {NoProduct}
  IN  {Item("SAME_PRODUCT_RETURN", n, NoProduct, n, Provisional, w) : n \in Quantities, w \in writeOffs}
      \cup {Item("REPLACEMENT_PRODUCT", n, p, m, Provisional, w) :
               n \in Quantities, p \in Products, m \in Quantities, w \in writeOffs}
      \cup {Item("INVOICE_CONVERSION", n, p, n, price, w) :
               n \in Quantities, p \in anyProduct, price \in Prices, w \in writeOffs}
      \cup {Item("WRITE_OFF", n, p, n, Provisional, 0) : n \in Quantities, p \in anyProduct}

-----------------------------------------------------------------------------
(***************************************************************************)
(* Drafting and activation                                                 *)
(***************************************************************************)

Save(l, direction, p, n) ==
  /\ loan[l].status \in {"NONE", "DRAFT"}
  /\ loan' = [loan EXCEPT ![l].status = "DRAFT", ![l].direction = direction,
                          ![l].product = p, ![l].qty = n]
  /\ UNCHANGED goodsVars

Cancel(l) ==
  /\ loan[l].status = "DRAFT"
  /\ loan' = [loan EXCEPT ![l].status = "CANCELLED"]
  /\ UNCHANGED goodsVars

\* The state a resolution or activation works on and commits.
Current == [layers |-> layers, stock |-> stock, loan |-> loan]

Commit(s) ==
  layers' = s.layers /\ stock' = s.stock /\ loan' = s.loan

\* changeStock: neither quantity may fall below zero.
CanTakeOut(s, p, n) == n <= s.stock[p].actual /\ n <= s.stock[p].available

Moved(s, p, n) ==
  [s EXCEPT !.stock[p] = [actual |-> @.actual + n, available |-> @.available + n]]

BroughtIn(s, p, n, layer) ==
  Moved([s EXCEPT !.layers[p] = Append(@, layer)], p, n)

Consumed(s, p, n) ==
  Moved([s EXCEPT !.layers[p] = Consume(@, n)], p, -n)

Activated(s, l) ==
  LET r == s.loan[l]
      t == [s EXCEPT !.loan[l].status = "OUTSTANDING", !.loan[l].alloc = r.qty]
  IN  IF r.direction = "OUTGOING"
      THEN Consumed(t, r.product, r.qty)
      ELSE BroughtIn(t, r.product, r.qty, Layer(l, r.qty, r.qty * Provisional))

Activate(l) ==
  LET r == loan[l]
  IN  /\ r.status = "DRAFT"
      /\ IF r.direction = "OUTGOING"
         THEN CanConsume(layers[r.product], r.qty) /\ CanTakeOut(Current, r.product, r.qty)
         ELSE RoomFor(r.product, r.qty)
      /\ Commit(Activated(Current, l))

-----------------------------------------------------------------------------
(***************************************************************************)
(* Resolution                                                              *)
(***************************************************************************)

\* inventoryLoanOutstanding.
Outstanding(r) == r.qty - r.returned - r.converted - r.writtenOff

\* The layer that an incoming loan brought.
OwnLayer(s, l) ==
  CHOOSE k \in DOMAIN s.layers[s.loan[l].product] : s.layers[s.loan[l].product][k].origin = l

Requested(items) == Total([k \in DOMAIN items |-> IF items[k].recovers = 0 THEN items[k].qty ELSE 0])

Recovering(items, w) ==
  Total([k \in DOMAIN items |-> IF items[k].recovers = w THEN items[k].qty ELSE 0])

ValidItems_OneByOne(r, items) ==
  \A k \in DOMAIN items :
    IF items[k].recovers = 0
    THEN items[k].qty <= Outstanding(r)
    ELSE /\ items[k].recovers \in DOMAIN r.offs
         /\ items[k].qty <= r.offs[items[k].recovers].qty - r.offs[items[k].recovers].recovered

\* The items together exceed neither what is outstanding nor what is left of
\* the write-offs they recover.
ValidItems(r, items) ==
  /\ \A k \in DOMAIN items : items[k].recovers \in {0} \cup DOMAIN r.offs
  /\ Requested(items) <= Outstanding(r)
  /\ \A w \in DOMAIN r.offs : Recovering(items, w) <= r.offs[w].qty - r.offs[w].recovered

\* The product that moves, and how much of it.
MovedProduct(r, x)  == IF x.type = "SAME_PRODUCT_RETURN" THEN r.product ELSE x.product
Moves(r, x)         == MovedProduct(r, x) # NoProduct

\* consumeIncomingLoanLayers: what was borrowed goes back out of its own layer.
CanReturn(s, l, x) ==
  x.qty <= s.layers[s.loan[l].product][OwnLayer(s, l)].left

Returned_OldestFirst(s, l, x) == Consumed(s, s.loan[l].product, x.qty)

Returned_LayerOnly(s, l, x) ==
  [s EXCEPT !.layers[s.loan[l].product][OwnLayer(s, l)] = TakeLayer(@, x.qty)]

Returned(s, l, x) ==
  LET p == s.loan[l].product
  IN  Moved([s EXCEPT !.layers[p][OwnLayer(s, l)] = TakeLayer(@, x.qty)], p, -x.qty)

\* revalueIncomingLoanCost: the goods still there are worth the price invoiced.
Revalued(s, l, x) ==
  LET p == s.loan[l].product
      k == OwnLayer(s, l)
      n == Least(x.qty, s.layers[p][k].left)
  IN  IF s.loan[l].direction = "INCOMING" /\ x.type = "INVOICE_CONVERSION"
      THEN [s EXCEPT !.layers[p][k].value = @ + n * (x.price - Provisional)]
      ELSE s

CanRevalue(s, l) ==
  s.loan[l].direction = "INCOMING" =>
    s.layers[s.loan[l].product][OwnLayer(s, l)].value >= 0

CanMove(s, l, x) ==
  LET r == s.loan[l]
      p == MovedProduct(r, x)
  IN  Moves(r, x) =>
        IF r.direction = "OUTGOING" THEN Len(s.layers[p]) < MaxLayers
        ELSE /\ IF x.type = "SAME_PRODUCT_RETURN"
                THEN CanReturn(s, l, x) ELSE CanConsume(s.layers[p], x.replacement)
             /\ CanTakeOut(s, p, x.replacement)

\* Goods that come back, or go back, for item x.
GoodsMoved(s, l, x) ==
  LET r == s.loan[l]
      p == MovedProduct(r, x)
  IN  IF ~Moves(r, x) THEN s
      ELSE IF r.direction = "OUTGOING"
      THEN BroughtIn(s, p, x.replacement,
                     Layer("INVENTORY_LOAN_RETURN", x.replacement, x.qty * Provisional))
      ELSE IF x.type = "SAME_PRODUCT_RETURN" THEN Returned(s, l, x)
      ELSE Consumed(s, p, x.replacement)

\* The quantity of the loan that item x counts towards.
Counted(r, x) ==
  IF x.recovers # 0
  THEN [r EXCEPT !.recovered = @ + x.qty, !.offs[x.recovers].recovered = @ + x.qty]
  ELSE IF x.type = "INVOICE_CONVERSION" THEN [r EXCEPT !.converted = @ + x.qty]
  ELSE IF x.type = "WRITE_OFF"
  THEN [r EXCEPT !.writtenOff = @ + x.qty, !.offs = Append(@, [qty |-> x.qty, recovered |-> 0])]
  ELSE [r EXCEPT !.returned = @ + x.qty]

\* allocateLoanObligation; a recovery uses the allocation its write-off used.
CanAllocate(r, x) == x.recovers = 0 => x.qty <= r.alloc

Allocated(r, x) ==
  [r EXCEPT !.alloc  = IF x.recovers = 0 THEN @ - x.qty ELSE @,
            !.handed = IF x.type = "SAME_PRODUCT_RETURN" THEN @ + x.qty ELSE @]

CanApply(s, l, x) ==
  /\ CanMove(Revalued(s, l, x), l, x)
  /\ CanRevalue(Revalued(s, l, x), l)
  /\ CanAllocate(s.loan[l], x)

Applied(s, l, x) ==
  [GoodsMoved(Revalued(s, l, x), l, x) EXCEPT !.loan[l] = Counted(Allocated(@, x), x)]

Status(r) ==
  IF Outstanding(r) > 0 THEN "OUTSTANDING"
  ELSE IF r.writtenOff > r.recovered THEN "WRITTEN_OFF" ELSE "CLOSED"

WithStatus(s, l) == [s EXCEPT !.loan[l].status = Status(s.loan[l])]

Resolvable(l) == loan[l].status \in {"OUTSTANDING", "WRITTEN_OFF"}

\* The items of a request one after the other: each finds what the last one left.
Resolve(l, x) == Commit(WithStatus(Applied(Current, l, x), l))

ResolveTwo(l, x, y) ==
  LET once == Applied(Current, l, x)
  IN  /\ CanApply(once, l, y)
      /\ Commit(WithStatus(Applied(once, l, y), l))

-----------------------------------------------------------------------------

LoanInit ==
  /\ GoodsInit
  /\ loan = [l \in Loans |-> [status |-> "NONE", direction |-> "OUTGOING", product |-> CHOOSE p \in Products : TRUE,
                              qty |-> 0, returned |-> 0, converted |-> 0, writtenOff |-> 0, recovered |-> 0,
                              alloc |-> 0, offs |-> <<>>, handed |-> 0]]

LoanNext ==
  \/ GoodsNext /\ UNCHANGED loan
  \/ \E l \in Loans, direction \in Directions, p \in Products, n \in Quantities : Save(l, direction, p, n)
  \/ \E l \in Loans : Cancel(l) \/ Activate(l)
  \/ \E l \in Loans : Resolvable(l) /\
       LET valid == {x \in Items : ValidItems(loan[l], <<x>>) /\ CanApply(Current, l, x)}
       IN  \/ \E x \in valid : Resolve(l, x)
           \/ \E x, y \in {z \in valid : z.qty = 1} :
                ValidItems(loan[l], <<x, y>>) /\ ResolveTwo(l, x, y)

LoanSpec == LoanInit /\ [][LoanNext]_loanVars

-----------------------------------------------------------------------------
(***************************************************************************)
(* Properties                                                              *)
(***************************************************************************)

LoanTypeOK == GoodsTypeOK /\ \A l \in Loans : loan[l] \in LoanRows

Active(l) == loan[l].status \in {"OUTSTANDING", "WRITTEN_OFF", "CLOSED"}

\* However a loan is resolved, in how many requests and items, everything lent is
\* settled once: its FIFO allocations follow what is outstanding, it is closed
\* when nothing is missing, and no loss is recovered twice.
LoansSettledOnce ==
  /\ LoanTypeOK
  /\ \A l \in Loans :
       LET r    == loan[l]
           lost == Total([w \in DOMAIN r.offs |-> r.offs[w].qty - r.offs[w].recovered])
       IN  Active(l) =>
             /\ r.alloc = Outstanding(r)
             /\ lost = r.writtenOff - r.recovered
             /\ \A w \in DOMAIN r.offs : r.offs[w].recovered <= r.offs[w].qty
             /\ (r.status = "CLOSED") <=> (Outstanding(r) = 0 /\ lost = 0)

\* Borrowed goods that were sold are not given back out of the firm's own: what is
\* returned of them and what is left of their layer are what was borrowed at most.
BorrowedGoodsReturned ==
  \A l \in Loans :
    (Active(l) /\ loan[l].direction = "INCOMING") =>
      layers[loan[l].product][OwnLayer(Current, l)].left + loan[l].handed <= loan[l].qty

\* "membagi koreksi modal antara inventory tersisa dan HPP terpakai": when borrowed
\* goods are invoiced, those still there come to be worth the price at most,
\* whatever the correction for those already sold.
WorthItsPrice ==
  \A l \in Loans :
    (Active(l) /\ loan[l].direction = "INCOMING") =>
      LET own == layers[loan[l].product][OwnLayer(Current, l)]
      IN  \E price \in Prices : own.value <= own.left * price
=============================================================================
