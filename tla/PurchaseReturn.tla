--------------------------- MODULE PurchaseReturn ---------------------------
(***************************************************************************)
(* Returns of purchased goods to the supplier, over the invoices of         *)
(* Purchasing and the stock that sales promise and deliver.                 *)
(*                                                                          *)
(* A return that becomes READY takes its goods out of the FIFO layer of the *)
(* purchase and of the stock, and is owed by the supplier in account 1391;  *)
(* completing it settles that debt, cancelling it puts the goods back.      *)
(* Making a return READY locks the return and then the layer, reads the     *)
(* stock without a lock, and decrements it: two steps.  Completion and      *)
(* cancellation lock what they depend on and are one action each.           *)
(***************************************************************************)
EXTENDS Purchasing

CONSTANTS Returns,
          MaxPromised,  \* bound on the goods promised to customers at once
          Values   \* what the supplier may be asked to refund for a return

Resolutions == {"REPLACEMENT", "CURRENT_INVOICE_DEDUCTION", "NEXT_INVOICE_DEDUCTION", "CASHBACK"}

ASSUME PurchaseReturnAssumption == IsFiniteSet(Returns) /\ Values \subseteq Nat \ {0}

VARIABLES rt,      \* returns, layers and stock, as committed
          ready    \* ready[r]: the request making r READY, if any

returnVars == <<rt, ready>>
allVars    == <<db, tx, raced, rt, ready>>

ReturnRows ==
  [status : {"NONE", "DRAFT", "READY", "COMPLETED", "CANCELLED"}, invoice : Invoices,
   qty : Nat, total : Nat, resolution : Resolutions]

\* taken and replaced: what returns took from the layer of an invoice and what
\* suppliers replaced; delivered: what sales took from it.  available may fall
\* below zero; promised goods are reserved by sales; wronged: READY requests
\* whose read of the stock was out of date when they used it.
Store ==
  [ret       : [Returns -> ReturnRows],
   taken     : [Invoices -> Nat],
   delivered : [Invoices -> Nat],
   replaced  : Nat,
   gone      : Nat,                 \* delivered out of replacement goods
   promised  : Nat,
   out       : Nat,                 \* what sales and returns took in all
   clearing  : Int,                 \* account 1391
   wronged   : SUBSET Returns]

Remaining(i) == db.received[i] - rt.taken[i] - rt.delivered[i]
Layered      == Total([i \in Invoices |-> Remaining(i)]) + (rt.replaced - rt.gone)
Actual       == Total(db.received) + rt.replaced - rt.out
Available    == Actual - rt.promised

MakingReady(r) == ready[r].step # "IDLE"
Making         == {r \in Returns : MakingReady(r)}
LayerFree(i)   == \A r \in Making : ready[r].row.invoice # i

\* The requests that read the stock before it was taken from.
StaleReads == [r \in Returns |-> IF MakingReady(r) THEN [ready[r] EXCEPT !.stale = TRUE] ELSE Idle]

Held(i, statuses, besides) ==
  Total([r \in Returns \ besides |->
           IF rt.ret[r].status \in statuses /\ rt.ret[r].invoice = i THEN rt.ret[r].qty ELSE 0])

-----------------------------------------------------------------------------
(***************************************************************************)
(* Drafting                                                                *)
(***************************************************************************)

\* buildDetails: the invoice is COMPLETED with one layer for the goods, and
\* neither the paid goods not yet returned nor the layer are exceeded.
CanReturn(i, n, r) ==
  /\ Completed(i) /\ db.receipts[i] = 1
  /\ n <= db.inv[i].bought - Held(i, {"READY", "COMPLETED"}, {r})
  /\ n <= Remaining(i)

Draft(i, n, v, resolution) ==
  [status |-> "DRAFT", invoice |-> i, qty |-> n, total |-> v, resolution |-> resolution]

SaveDraft(r, row) ==
  /\ rt' = [rt EXCEPT !.ret[r] = row]
  /\ UNCHANGED <<ready, vars>>

-----------------------------------------------------------------------------
(***************************************************************************)
(* READY                                                                   *)
(***************************************************************************)

OthersHeld_CompletedOnly(i, r) == Held(i, {"COMPLETED"}, {r})

\* What the other active returns hold of the goods of invoice i.
OthersHeld(i, r) == Held(i, {"READY", "COMPLETED"}, {r})

StockAllows_Physical(n) == n <= Actual

\* Neither actual_qty nor available_qty may be exceeded; the row is not locked.
StockAllows(n) == n <= Actual /\ n <= Available

\* The checks of markReadyInTransaction, with the layer locked.
CheckReady(r, row) ==
  LET i == row.invoice
  IN  /\ row.resolution = "CURRENT_INVOICE_DEDUCTION" => row.total <= db.inv[i].outstanding
      /\ LayerFree(i)
      /\ row.qty <= Remaining(i)
      /\ row.qty <= db.inv[i].bought - OthersHeld(i, r)
      /\ StockAllows(row.qty)
      /\ ready' = [ready EXCEPT ![r] = [step |-> "CHECKED", row |-> row, stale |-> FALSE]]
      /\ UNCHANGED <<rt, vars>>

\* The goods leave layer and stock; 1391 is debited with the value of the return.
TakeOut(r) ==
  LET row == ready[r].row
  IN  /\ MakingReady(r)
      /\ rt' = [rt EXCEPT !.ret[r]             = [row EXCEPT !.status = "READY"],
                          !.taken[row.invoice] = @ + row.qty,
                          !.out                = @ + row.qty,
                          !.clearing           = @ + row.total,
                          !.wronged            = IF ready[r].stale THEN @ \cup {r} ELSE @]
      /\ ready' = [StaleReads EXCEPT ![r] = Idle]
      /\ UNCHANGED vars

Abandon(r) ==
  /\ MakingReady(r)
  /\ ready' = [ready EXCEPT ![r] = Idle]
  /\ UNCHANGED <<rt, vars>>

Create(r, i, n, v, resolution) ==
  LET row == Draft(i, n, v, resolution)
  IN  /\ rt.ret[r].status = "NONE" /\ ~MakingReady(r)
      /\ CanReturn(i, n, r)
      /\ SaveDraft(r, row) \/ CheckReady(r, row)

\* The invoice a return is of cannot be changed.
Update(r, n, v, resolution) ==
  LET i   == rt.ret[r].invoice
      row == Draft(i, n, v, resolution)
  IN  /\ rt.ret[r].status = "DRAFT" /\ ~MakingReady(r)
      /\ CanReturn(i, n, r)
      /\ SaveDraft(r, row) \/ CheckReady(r, row)

MarkReady(r) ==
  /\ rt.ret[r].status = "DRAFT" /\ ~MakingReady(r)
  /\ CheckReady(r, rt.ret[r])

-----------------------------------------------------------------------------
(***************************************************************************)
(* Completion and cancellation                                             *)
(***************************************************************************)

Settled(r) ==
  [rt EXCEPT !.ret[r].status = "COMPLETED",
             !.clearing      = @ - rt.ret[r].total]

\* The supplier replaces the goods: a layer of their own, and stock.
Replace(r) ==
  /\ rt.ret[r].resolution = "REPLACEMENT"
  /\ rt' = [Settled(r) EXCEPT !.replaced = @ + rt.ret[r].qty]
  /\ UNCHANGED <<ready, vars>>

\* The value is taken off what its invoice has outstanding, read with a lock.
Deduct(r) ==
  LET i == rt.ret[r].invoice
      v == rt.ret[r].total
      s == db.inv[i].supplier
  IN  /\ rt.ret[r].resolution = "CURRENT_INVOICE_DEDUCTION"
      /\ v <= db.inv[i].outstanding /\ v <= db.summary[s]
      /\ rt' = Settled(r)
      /\ db' = [db EXCEPT !.inv[i].outstanding = @ - v,
                          !.payable            = @ - v,
                          !.summary[s]         = @ - v]
      /\ UNCHANGED <<ready, tx, raced>>

\* Another completed invoice of the supplier is noted; nothing is posted.
NoteNext(r, i) ==
  /\ rt.ret[r].resolution = "NEXT_INVOICE_DEDUCTION"
  /\ i # rt.ret[r].invoice /\ Completed(i)
  /\ db.inv[i].supplier = db.inv[rt.ret[r].invoice].supplier
  /\ rt' = [rt EXCEPT !.ret[r].status = "COMPLETED"]
  /\ UNCHANGED <<ready, vars>>

\* Cash comes in against 1391.
Cashback(r) ==
  /\ rt.ret[r].resolution = "CASHBACK"
  /\ rt' = Settled(r)
  /\ UNCHANGED <<ready, vars>>

Complete(r) ==
  /\ rt.ret[r].status = "READY"
  /\ \/ Replace(r)
     \/ Deduct(r)
     \/ \E i \in Invoices : NoteNext(r, i)
     \/ Cashback(r)

PutBack_StockOnly(r, row) ==
  [rt EXCEPT !.ret[r].status = "CANCELLED",
             !.out = IF row.status = "READY" THEN @ - row.qty ELSE @]

\* cancel restores layer and stock of a READY return, and posts nothing.
PutBack(r, row) ==
  IF row.status = "READY"
  THEN [rt EXCEPT !.ret[r].status      = "CANCELLED",
                  !.taken[row.invoice] = @ - row.qty,
                  !.out                = @ - row.qty]
  ELSE [rt EXCEPT !.ret[r].status = "CANCELLED"]

Cancel(r) ==
  /\ rt.ret[r].status \in {"DRAFT", "READY"} /\ ~MakingReady(r)
  /\ rt.ret[r].status = "READY" => LayerFree(rt.ret[r].invoice)
  /\ rt' = PutBack(r, rt.ret[r])
  /\ UNCHANGED <<ready, vars>>

-----------------------------------------------------------------------------
(***************************************************************************)
(* Sales of the goods                                                      *)
(***************************************************************************)

\* The stock row is locked before available_qty is read.
Promise ==
  /\ Available > 0 /\ rt.promised < MaxPromised
  /\ rt' = [rt EXCEPT !.promised = @ + 1]
  /\ ready' = StaleReads
  /\ UNCHANGED vars

Withdraw ==
  /\ rt.promised > 0
  /\ rt' = [rt EXCEPT !.promised = @ - 1]
  /\ UNCHANGED <<ready, vars>>

\* A unit is taken from a layer that has goods left: of a purchase, or of a
\* replacement.
Deliver ==
  /\ rt.promised > 0 /\ Actual > 0
  /\ \/ \E i \in Invoices :
          /\ Remaining(i) > 0 /\ LayerFree(i)
          /\ rt' = [rt EXCEPT !.promised = @ - 1, !.out = @ + 1, !.delivered[i] = @ + 1]
     \/ /\ rt.replaced > rt.gone
        /\ rt' = [rt EXCEPT !.promised = @ - 1, !.out = @ + 1, !.gone = @ + 1]
  /\ UNCHANGED <<ready, vars>>

-----------------------------------------------------------------------------

ReturnInit ==
  /\ \E i \in Invoices, v \in Values :
       rt = [ret |-> [r \in Returns |-> [status |-> "NONE", invoice |-> i, qty |-> 0, total |-> v,
                                         resolution |-> "CASHBACK"]],
             taken |-> [j \in Invoices |-> 0], delivered |-> [j \in Invoices |-> 0],
             replaced |-> 0, gone |-> 0, promised |-> 0, out |-> 0, clearing |-> 0,
             wronged |-> {}]
  /\ ready = [r \in Returns |-> Idle]

AllInit == Init /\ ReturnInit

ReturnNext ==
  \/ \E r \in Returns, n \in 1 .. 2, v \in Values, resolution \in Resolutions :
       \/ \E i \in Invoices : Create(r, i, n, v, resolution)
       \/ Update(r, n, v, resolution)
  \/ \E r \in Returns : MarkReady(r) \/ TakeOut(r) \/ Abandon(r) \/ Complete(r) \/ Cancel(r)
  \/ Promise \/ Withdraw \/ Deliver

AllNext == (Next /\ UNCHANGED returnVars) \/ ReturnNext

ReturnSpec == AllInit /\ [][AllNext]_allVars

-----------------------------------------------------------------------------
(***************************************************************************)
(* Properties                                                              *)
(***************************************************************************)

TypeOK ==
  /\ PurchasingTypeOK
  /\ rt \in Store
  /\ ready \in [Returns -> {Idle} \cup [step : {"CHECKED"}, row : ReturnRows, stale : BOOLEAN]]

\* The layers hold what the stock rows say is there, whatever sales and returns
\* take from them and cancellations and replacements put back.
LayersHoldStock == TypeOK /\ Actual = Layered /\ \A i \in Invoices : Remaining(i) >= 0

\* The goods of a return are gone, and not replaced.
Away(row) ==
  row.status = "READY" \/ (row.status = "COMPLETED" /\ row.resolution # "REPLACEMENT")

\* What returns took on a read of the stock that was out of date, as long as it is away.
Astray == Total([r \in Returns |-> IF r \in rt.wronged /\ Away(rt.ret[r]) THEN rt.ret[r].qty ELSE 0])

\* Goods promised to customers are not sent back to the supplier by a return that read the
\* stock as it was when it took them; the promises that lack goods lack no more than what
\* the others took, and lack nothing once those are cancelled or replaced.
PromisesCovered == Available + Astray >= 0

\* However returns are drafted, readied and cancelled, no more goes back to the
\* supplier than was paid for; what was a bonus stays.
ReturnsWithinPurchase ==
  raced \cap Invoices = {} =>
    \A i \in Invoices : Held(i, {"READY", "COMPLETED"}, {}) <= db.inv[i].bought

\* Account 1391, "Piutang Refund Supplier", holds the value of the returns whose
\* refund is still to come.
RefundsDue ==
  rt.clearing = Total([r \in Returns |-> IF rt.ret[r].status = "READY" THEN rt.ret[r].total ELSE 0])
=============================================================================
