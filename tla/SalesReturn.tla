----------------------------- MODULE SalesReturn -----------------------------
(***************************************************************************)
(* Returns of the goods of one COMPLETED sales invoice, while the invoice   *)
(* is still being paid.  A return puts goods back into the FIFO layers they *)
(* came from, sets its value off against what the invoice has outstanding,  *)
(* and refunds the rest or credits it to a replacement invoice.             *)
(*                                                                          *)
(* create locks the invoice row from the start; complete locks the return   *)
(* only.  completeTx then runs as a sequence of READ COMMITTED statements:  *)
(* it reads the return with its invoice, numbers its stock movement, walks  *)
(* the layers (for each, reads what was restored already, then locks and    *)
(* increases it), and settles, writing the invoice from the values it read  *)
(* first.  receivePayment holds the invoice row from its first read to its  *)
(* commit and is one action.                                                *)
(***************************************************************************)
EXTENDS Integers, FiniteSets, Tally

CONSTANTS Returns,
          Days,            \* dates a return may bear
          Layers,          \* the FIFO allocations of the sale, last first: 1 .. Layers
          Allocation,      \* Allocation[k], the quantity taken from layer k
          Price,           \* value of a unit, line discounts included
          DocDiscount,     \* the discount on the document as a whole
          MaxReplacement,  \* bound on the total of a replacement invoice
          Slots            \* bound on the transactions that overlap

Smaller(m, n) == IF m < n THEN m ELSE n
Larger(m, n)  == IF m < n THEN n ELSE m

Sold         == Total(Allocation)
InvoiceTotal == Sold * Price - DocDiscount

ASSUME SalesReturnAssumption ==
  /\ IsFiniteSet(Returns)
  /\ Layers \in Nat /\ Allocation \in [1 .. Layers -> Nat \ {0}]
  /\ Price \in Nat /\ DocDiscount \in Nat /\ DocDiscount < Sold * Price
  /\ MaxReplacement \in Nat /\ Slots \in Nat \ {0}

VARIABLES db,   \* the committed rows
          tx,   \* tx[r]: the transaction completing return r, if any
          slots \* how many of the invoice's transactions may overlap: never changes

vars == <<db, tx, slots>>

Restored == [1 .. Layers -> Nat]
NoGoods  == [k \in 1 .. Layers |-> 0]

ReturnRows ==
  [status : {"NONE", "DRAFT", "COMPLETED"}, qty : 0 .. Sold,
   resolution : {"REFUND", "REPLACEMENT"}, day : Days]

\* The receivable is recorded on the invoice, in the customer summary and in
\* account 1201; replacement is what the replacement invoices have outstanding.
Database ==
  [customer    : BOOLEAN,               \* or a guest
   paid        : Nat,
   outstanding : Int,
   summary     : Int,
   receivable  : Int,
   replacement : Nat,
   refunded    : Nat,                   \* in cash, over all returns
   credited    : Nat,                   \* to replacement invoices
   restored    : Restored,              \* by completed returns, per layer
   stock       : Nat,                   \* actual_qty and available_qty put back
   ret         : [Returns -> ReturnRows]]

Idle == [step |-> "IDLE"]

\* row is the return as the transaction knows it and outstanding the invoice as
\* it read it; layer is the allocation it is at, remaining what it has still to
\* restore, take what it found there is room for, and taken what it wrote.
Busy ==
  [step        : {"NUMBER", "LOOK", "TAKE", "SETTLE"},
   row         : ReturnRows,
   invoiceHeld : BOOLEAN,
   outstanding : Int,
   layer       : 1 .. Layers + 1,
   remaining   : Nat,
   take        : Nat,
   taken       : Restored]

Running(r)  == tx[r].step # "IDLE"
SlotFree    == Cardinality({r \in Returns : Running(r)}) < slots
InvoiceFree == \A r \in Returns : Running(r) => ~tx[r].invoiceHeld
LayerFree(k, r) == \A s \in Returns \ {r} : Running(s) => tx[s].taken[k] = 0

-----------------------------------------------------------------------------
(***************************************************************************)
(* Payment and creation                                                    *)
(***************************************************************************)

\* What recordPaymentTx asks of a payment of a COMPLETED invoice; a guest's is
\* settled before it is completed.
CanPay(a) ==
  /\ a > 0 /\ a <= db.outstanding
  /\ db.customer => a <= db.summary

ReceivePayment(a) ==
  /\ SlotFree /\ InvoiceFree
  /\ CanPay(a)
  /\ db' = [db EXCEPT !.paid        = @ + a,
                      !.outstanding = @ - a,
                      !.summary     = IF db.customer THEN @ - a ELSE @,
                      !.receivable  = @ - a]
  /\ UNCHANGED tx

Returned == Total([r \in Returns |-> IF db.ret[r].status = "NONE" THEN 0 ELSE db.ret[r].qty])

Returnable_CompletedOnly(n) ==
  n > 0 /\ Total([r \in Returns |-> IF db.ret[r].status = "COMPLETED" THEN db.ret[r].qty ELSE 0])
             + n <= Sold

\* assertReturnQuantity: the DRAFT returns count as well.
Returnable(n) == n > 0 /\ Returned + n <= Sold

CreateDraft(r, n, resolution, day) ==
  /\ SlotFree /\ InvoiceFree
  /\ db.ret[r].status = "NONE" /\ ~Running(r)
  /\ Returnable(n)
  /\ db' = [db EXCEPT !.ret[r] = [status |-> "DRAFT", qty |-> n,
                                  resolution |-> resolution, day |-> day]]
  /\ UNCHANGED tx

-----------------------------------------------------------------------------
(***************************************************************************)
(* Completion                                                              *)
(***************************************************************************)

\* completeTx reads the return with its invoice.
Begin(r, row, held) ==
  /\ SlotFree /\ ~Running(r)
  /\ tx' = [tx EXCEPT ![r] = [step |-> "NUMBER", row |-> row, invoiceHeld |-> held,
                              outstanding |-> db.outstanding, layer |-> 1,
                              remaining |-> row.qty, take |-> 0, taken |-> NoGoods]]
  /\ UNCHANGED db

\* create with status COMPLETED goes on to completeTx in the same transaction.
CreateCompleted(r, n, resolution, day) ==
  /\ InvoiceFree
  /\ db.ret[r].status = "NONE"
  /\ Returnable(n)
  /\ Begin(r, [status |-> "DRAFT", qty |-> n, resolution |-> resolution, day |-> day], TRUE)

CanComplete(r) == db.ret[r].status = "DRAFT"

Complete(r) ==
  /\ CanComplete(r)
  /\ Begin(r, db.ret[r], FALSE)

NumberFree_Unlocked(r) == TRUE

\* generateInventoryMovementNumber: the lock on the numbers of a day is held to
\* the end of the transaction.
NumberFree(r) ==
  \A s \in Returns \ {r} :
    (Running(s) /\ tx[s].step # "NUMBER") => tx[s].row.day # tx[r].row.day

TakeNumber(r) ==
  /\ tx[r].step = "NUMBER"
  /\ NumberFree(r)
  /\ tx' = [tx EXCEPT ![r].step = "LOOK"]
  /\ UNCHANGED db

\* What the sale took from layer k less what returns of it put back.
Capacity(k) == Larger(0, Allocation[k] - db.restored[k])

\* The read of alreadyRestored, before the layer is locked.
LookAtLayer(r) ==
  LET t    == tx[r]
      take == Smaller(t.remaining, Capacity(t.layer))
  IN  /\ t.step = "LOOK"
      /\ t.remaining > 0 /\ t.layer <= Layers
      /\ tx' = [tx EXCEPT ![r] = IF take > 0 THEN [t EXCEPT !.step = "TAKE", !.take = take]
                                             ELSE [t EXCEPT !.layer = @ + 1]]
      /\ UNCHANGED db

\* The layer is locked and increased, once no other transaction holds it.
TakeLayer(r) ==
  LET t == tx[r]
  IN  /\ t.step = "TAKE"
      /\ LayerFree(t.layer, r)
      /\ tx' = [tx EXCEPT ![r] = [t EXCEPT !.step = "LOOK", !.layer = @ + 1, !.take = 0,
                                           !.remaining = @ - t.take,
                                           !.taken[t.layer] = t.take]]
      /\ UNCHANGED db

\* Goods left over at the end of the allocations fail the return.
FinishLayers(r) ==
  /\ tx[r].step = "LOOK" /\ tx[r].remaining = 0
  /\ tx' = [tx EXCEPT ![r].step = "SETTLE"]
  /\ UNCHANGED db

Value(r) == tx[r].row.qty * Price

Offset_WholeReturn(r) == Value(r)

\* resolveReturnSettlement.
Offset(r) == Smaller(Value(r), Larger(0, tx[r].outstanding))

\* The part of the residual value that pays for a replacement of that total.
Credit(r, total) ==
  IF tx[r].row.resolution = "REFUND" THEN 0 ELSE Smaller(Value(r) - Offset(r), total)

\* A REPLACEMENT brings an invoice, created and completed here, of a positive
\* total, on which pays is paid now and a guest pays all that is left.
ValidReplacement(r, total, pays) ==
  IF tx[r].row.resolution = "REFUND"
  THEN total = 0 /\ pays = 0
  ELSE /\ total > 0
       /\ pays <= total - Credit(r, total)
       /\ ~db.customer => pays = total - Credit(r, total)

\* The rest of completeTx, and its commit.  The invoice gets the outstanding
\* amount read at the start less the offset.
Settle(r, total, pays) ==
  LET t      == tx[r]
      offset == Offset(r)
      credit == Credit(r, total)
  IN  /\ t.step = "SETTLE"
      /\ t.invoiceHeld \/ InvoiceFree
      /\ ValidReplacement(r, total, pays)
      /\ db' = [db EXCEPT
                  !.outstanding = t.outstanding - offset,
                  !.summary     = IF db.customer THEN @ - offset + (total - credit - pays) ELSE @,
                  !.receivable  = @ - offset - credit + (total - pays),
                  !.replacement = @ + (total - credit - pays),
                  !.refunded    = @ + (Value(r) - offset - credit),
                  !.credited    = @ + credit,
                  !.restored    = [k \in 1 .. Layers |-> @[k] + t.taken[k]],
                  !.stock       = @ + t.row.qty,
                  !.ret[r]      = [t.row EXCEPT !.status = "COMPLETED"]]
      /\ tx' = [tx EXCEPT ![r] = Idle]

\* The transaction fails, times out or is a deadlock's victim.
Rollback(r) ==
  /\ Running(r)
  /\ tx' = [tx EXCEPT ![r] = Idle]
  /\ UNCHANGED db

-----------------------------------------------------------------------------

\* The invoice as completion left it: a customer may owe any part of it.
Init ==
  /\ slots \in 1 .. Slots
  /\ \E customer \in BOOLEAN, paid \in 0 .. InvoiceTotal, someday \in Days :
       LET owed == InvoiceTotal - paid
       IN  /\ ~customer => owed = 0
           /\ db = [customer |-> customer, paid |-> paid, outstanding |-> owed,
                    summary |-> owed, receivable |-> owed, replacement |-> 0,
                    refunded |-> 0, credited |-> 0, restored |-> NoGoods, stock |-> 0,
                    ret |-> [r \in Returns |-> [status |-> "NONE", qty |-> 0,
                                                resolution |-> "REFUND", day |-> someday]]]
           /\ tx = [r \in Returns |-> Idle]

Next ==
  \/ \E a \in 1 .. InvoiceTotal : ReceivePayment(a)
  \/ \E r \in Returns, n \in 1 .. Sold, resolution \in {"REFUND", "REPLACEMENT"}, day \in Days :
        CreateDraft(r, n, resolution, day) \/ CreateCompleted(r, n, resolution, day)
  \/ \E r \in Returns :
        Complete(r) \/ TakeNumber(r) \/ LookAtLayer(r) \/ TakeLayer(r) \/ FinishLayers(r) \/ Rollback(r)
  \/ \E r \in Returns, total, pays \in 0 .. MaxReplacement : Settle(r, total, pays)

Spec == Init /\ [][Next /\ UNCHANGED slots]_vars

-----------------------------------------------------------------------------
(***************************************************************************)
(* Properties                                                              *)
(***************************************************************************)

TypeOK == db \in Database /\ tx \in [Returns -> {Idle} \cup Busy] /\ slots \in 1 .. Slots

\* The requests about the invoice came one after the other.
OneByOne == slots = 1

\* Returns, drafts included, never claim more than was sold, whether they are
\* made one after the other or at once.
ReturnsWithinSold == Returned <= Sold

\* What came back into stock is what the completed returns say, and the FIFO
\* layers got as much: no return is put back twice, and a return that fails
\* half-way leaves nothing behind.
GoodsRestoredOnce ==
  /\ db.stock = Total([r \in Returns |-> IF db.ret[r].status = "COMPLETED"
                                         THEN db.ret[r].qty ELSE 0])
  /\ Total(db.restored) = db.stock

\* What came back is worth what was set off, credited and refunded for it, and no more
\* is given back than was paid, but for the discount on the document: a return's value
\* is the lines', without it.
ValueSplit ==
  /\ db.stock * Price = (InvoiceTotal - db.paid - db.outstanding) + db.credited + db.refunded
  /\ db.credited + db.refunded <= db.paid + DocDiscount

\* Invoice, summary and account 1201 agree on what is receivable after any mix
\* of payments, offsets, replacements and refunds that came one by one, and each
\* return's value went to the debt first and came back only as far as it was paid.
SettlementReconciles ==
  /\ TypeOK
  /\ OneByOne => /\ db.receivable = db.outstanding + db.replacement
                 /\ db.customer => db.summary = db.receivable
                 /\ db.outstanding >= 0
                 /\ ValueSplit

\* Returns that come one by one, or bear one date, do not overfill a layer: of those
\* completed at once, the lock on the day's movement numbers makes the second look again.
SameDayWithinAllocation ==
  (OneByOne \/ \A r, s \in Returns : db.ret[r].day = db.ret[s].day)
    => \A k \in 1 .. Layers : db.restored[k] <= Allocation[k]

\* "Jumlah retur melebihi alokasi FIFO asli." is refused: no layer gets back more
\* than the sale took from it.
LayersWithinAllocation == \A k \in 1 .. Layers : db.restored[k] <= Allocation[k]

\* "Ringkasan piutang customer tidak konsisten." is not said of a payment the
\* invoice itself allows: what is outstanding can be received.
OutstandingReceivable == db.outstanding > 0 => CanPay(db.outstanding)
=============================================================================
