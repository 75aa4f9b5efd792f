----------------------------- MODULE SourceOrder -----------------------------
(***************************************************************************)
(* Sales orders and the invoices made from them.  An invoice line refers to *)
(* a line of its source order; the order is COMPLETED once its invoices     *)
(* cover it.                                                                *)
(*                                                                          *)
(* Concurrency is that of READ COMMITTED transactions: a statement sees     *)
(* what is committed when it starts and the writes of its own transaction.  *)
(* Transactions that begin by locking the order row and keep it to the end  *)
(* (createInvoice, updateOrder, cancelOrder) see nothing change under them  *)
(* and are one action.  The others lock their invoice and the stock of its  *)
(* products, and reach the order in syncSourceOrder, which reads the order, *)
(* then reads its lines' invoices, then writes the order: three statements, *)
(* three steps, the last of which waits for the order row and commits.      *)
(* updateInvoice checks the new source before that, under its lock, and     *)
(* only then waits for the stock of what the invoice will have.             *)
(* Left out: the day's document number locks, which keep two completions of *)
(* one day apart as well, and payments, which may refuse a cancellation.    *)
(***************************************************************************)
EXTENDS Integers, FiniteSets, Tally

CONSTANTS Orders,
          NoOrder,    \* the source of an invoice made without an order
          Invoices,
          Parties,    \* the customers, and the guest
          Lines,      \* the products an order may list, one line each
          Workers,    \* connections that run a transaction each
          MaxQty,     \* bound on the quantity of a line
          MaxBonus    \* bound on its bonus quantity

ASSUME SourceOrderAssumption ==
  /\ IsFiniteSet(Invoices)
  /\ NoOrder \notin Orders
  /\ MaxQty \in Nat /\ MaxBonus \in Nat

VARIABLES order,     \* the committed sales_order rows with their details
          invoice,   \* the committed sales_invoice rows with their details
          tx         \* what each connection is in the middle of

vars == <<order, invoice, tx>>

\* A position with quantity 0 is absent.
Items == [Lines -> [qty : 0 .. MaxQty, bonus : 0 .. MaxBonus]]

\* What a request may carry: at least one line, no line without a quantity.
Requests == {r \in Items : /\ \E l \in Lines : r[l].qty > 0
                           /\ \A l \in Lines : r[l].qty = 0 => r[l].bonus = 0}

\* OPEN stands for DRAFT and READY, which no guard here tells apart.
Statuses == {"NONE", "OPEN", "COMPLETED", "CANCELLED"}

OrderRows   == [status : Statuses,
                party  : Parties,
                lines  : Items]

InvoiceRows == [status : Statuses,
                party  : Parties,
                source : Orders \cup {NoOrder},
                lines  : Items]

Idle == [step |-> "IDLE"]

\* A transaction in progress: the invoice it locks, the row it writes for it,
\* the order it locked (lock) and the order it has still to synchronise (sync),
\* of which it has read a status (seen) and the fulfilment (full).
Busy == [step : {"RESERVE", "STATUS", "DETAILS", "WRITE"},
         inv  : Invoices,
         row  : InvoiceRows,
         lock : Orders \cup {NoOrder},
         sync : Orders \cup {NoOrder},
         seen : Statuses,
         full : BOOLEAN]

Running(w) == tx[w].step # "IDLE"

\* SELECT ... FOR UPDATE gets the row at once.
InvoiceFree(i) == \A w \in Workers : Running(w) => tx[w].inv # i

OrderFree(o) == \A w \in Workers : Running(w) => tx[w].lock # o

\* A transaction holds the stock of what its invoice had, and that of what it will
\* have once it has reserved it.
HoldsStock(v, l) ==
  /\ Running(v)
  /\ \/ invoice[tx[v].inv].lines[l].qty > 0
     \/ tx[v].step # "RESERVE" /\ tx[v].row.lines[l].qty > 0

\* lockStocks gets the stock of the products of some items at once.
StockFree(others, items) == \A v \in others, l \in Lines : items[l].qty > 0 => ~HoldsStock(v, l)

-----------------------------------------------------------------------------
(***************************************************************************)
(* Allocation                                                              *)
(***************************************************************************)

Active(row, o) == row.source = o /\ row.status \in {"OPEN", "COMPLETED"}

\* What the invoices inv take of a line of order o, in goods and in bonus.
Allocated(inv, o, l) ==
  Total([i \in Invoices |-> IF Active(inv[i], o) THEN inv[i].lines[l].qty ELSE 0])
AllocatedBonus(inv, o, l) ==
  Total([i \in Invoices |-> IF Active(inv[i], o) THEN inv[i].lines[l].bonus ELSE 0])

Fulfilled(inv, o) ==
  \A l \in Lines : /\ Allocated(inv, o, l) >= order[o].lines[l].qty
                   /\ AllocatedBonus(inv, o, l) >= order[o].lines[l].bonus

ValidAllocation_BonusOfRequest(inv, o, request) ==
  \A l \in Lines : request[l].qty > 0 =>
    /\ Allocated(inv, o, l) <= order[o].lines[l].qty
    /\ AllocatedBonus(inv, o, l) <= order[o].lines[l].bonus
    /\ request[l].qty >= order[o].lines[l].qty
         => AllocatedBonus(inv, o, l) >= order[o].lines[l].bonus

\* assertValidSourceAllocation with the invoices inv, which include the request:
\* no line beyond what was ordered, and the last goods bring the last bonus.
ValidAllocation(inv, o, request) ==
  \A l \in Lines : request[l].qty > 0 =>
    LET goods == Allocated(inv, o, l)
        bonus == AllocatedBonus(inv, o, l)
    IN  /\ goods <= order[o].lines[l].qty
        /\ bonus <= order[o].lines[l].bonus
        /\ goods >= order[o].lines[l].qty => bonus >= order[o].lines[l].bonus

\* validateSourceOrder for the invoice row that invoice i is to have.
ValidSource(i, row, creating) ==
  LET o == row.source
  IN  o # NoOrder =>
        /\ OrderFree(o)
        /\ order[o].status \in IF creating THEN {"OPEN"} ELSE {"OPEN", "COMPLETED"}
        /\ order[o].party = row.party
        /\ \A l \in Lines : row.lines[l].qty > 0 => order[o].lines[l].qty > 0
        /\ ValidAllocation([invoice EXCEPT ![i] = row], o, row.lines)

\* The status syncSourceOrder writes.
Synced(status, full) ==
  IF full THEN "COMPLETED" ELSE IF status = "COMPLETED" THEN "OPEN" ELSE status

-----------------------------------------------------------------------------
(***************************************************************************)
(* Transactions that hold the order                                        *)
(***************************************************************************)

NoItems == [l \in Lines |-> [qty |-> 0, bonus |-> 0]]

Init ==
  \E nobody \in Parties :
    /\ order = [o \in Orders |-> [status |-> "NONE", party |-> nobody, lines |-> NoItems]]
    /\ invoice = [i \in Invoices |-> [status |-> "NONE", party |-> nobody,
                                      source |-> NoOrder, lines |-> NoItems]]
    /\ tx = [w \in Workers |-> Idle]

CreateOrder(o, party, lines) ==
  /\ order[o].status = "NONE"
  /\ order' = [order EXCEPT ![o] = [status |-> "OPEN", party |-> party, lines |-> lines]]
  /\ UNCHANGED <<invoice, tx>>

EditableOrder_Referenced(o) == OrderFree(o) /\ order[o].status = "OPEN"

\* An order some invoice refers to, even a cancelled one, is not edited.
EditableOrder(o) ==
  /\ OrderFree(o)
  /\ order[o].status = "OPEN"
  /\ \A i \in Invoices : invoice[i].source # o

UpdateOrder(o, party, lines) ==
  /\ EditableOrder(o)
  /\ order' = [order EXCEPT ![o] = [status |-> "OPEN", party |-> party, lines |-> lines]]
  /\ UNCHANGED <<invoice, tx>>

CancellableOrder_Invoiced(o) ==
  OrderFree(o) /\ order[o].status \in {"OPEN", "CANCELLED"}

CancellableOrder(o) ==
  /\ OrderFree(o)
  /\ order[o].status \in {"OPEN", "CANCELLED"}
  /\ \A i \in Invoices : ~Active(invoice[i], o)

CancelOrder(o) ==
  /\ CancellableOrder(o)
  /\ order' = [order EXCEPT ![o].status = "CANCELLED"]
  /\ UNCHANGED <<invoice, tx>>

\* createInvoiceTx: the order is synchronised under the lock of its validation.
\* What the stock lacks may go to a new order, rest, with lines of its own.
CreateInvoice(i, row, requests) ==
  LET o == row.source
      rows == [invoice EXCEPT ![i] = row]
  IN  /\ invoice[i].status = "NONE"
      /\ ValidSource(i, row, TRUE)
      /\ StockFree(Workers, row.lines)
      /\ invoice' = rows
      /\ \E rest \in {NoOrder} \cup {x \in Orders : order[x].status = "NONE"} :
           \E lines \in IF rest = NoOrder THEN {NoItems} ELSE requests :
             order' = [x \in Orders |->
                        CASE x = o    -> [order[x] EXCEPT !.status = Synced(@, Fulfilled(rows, o))]
                          [] x = rest -> [status |-> "OPEN", party |-> row.party, lines |-> lines]
                          [] OTHER    -> order[x]]
      /\ UNCHANGED tx

-----------------------------------------------------------------------------
(***************************************************************************)
(* Transactions that hold the invoice                                      *)
(***************************************************************************)

\* A transaction synchronises the order the invoice had, if it had one.
FirstStep(source) == IF source = NoOrder THEN "WRITE" ELSE "STATUS"

\* The transaction of w locks invoice i and the stock of its lines, will write row for
\* it, and holds order lock.
Start(w, i, row, lock, step) ==
  /\ ~Running(w)
  /\ InvoiceFree(i) /\ StockFree(Workers, invoice[i].lines)
  /\ invoice[i].status = "OPEN"
  /\ tx' = [tx EXCEPT ![w] =
              [step |-> step,
               inv  |-> i,     row  |-> row,
               lock |-> lock,  sync |-> invoice[i].source,
               seen |-> "NONE", full |-> FALSE]]
  /\ UNCHANGED <<order, invoice>>

LockedByUpdate_None(row) == NoOrder

\* validateSourceOrder locks the new source of an updated invoice.
LockedByUpdate(row) == row.source

\* updateInvoice may change the source, detach the invoice or complete it.
UpdateInvoice(w, i, row) ==
  /\ ValidSource(i, row, FALSE)
  /\ Start(w, i, row, LockedByUpdate(row), "RESERVE")

\* reserve: the new lines wait for their stock, behind the check of the source.
Reserve(w) ==
  /\ tx[w].step = "RESERVE"
  /\ StockFree(Workers \ {w}, tx[w].row.lines)
  /\ tx' = [tx EXCEPT ![w].step = FirstStep(tx[w].sync)]
  /\ UNCHANGED <<order, invoice>>

\* completeInvoice, changeInvoiceStatus or processInvoice to COMPLETED.
CompleteInvoice(w, i) ==
  Start(w, i, [invoice[i] EXCEPT !.status = "COMPLETED"], NoOrder, FirstStep(invoice[i].source))

CancelInvoice(w, i) ==
  Start(w, i, [invoice[i] EXCEPT !.status = "CANCELLED"], NoOrder, FirstStep(invoice[i].source))

\* The rows a statement of w sees.
View(w) == [invoice EXCEPT ![tx[w].inv] = tx[w].row]

\* syncSourceOrder, the read of the order; a CANCELLED order ends it.
ReadStatus(w) ==
  LET status == order[tx[w].sync].status
  IN  /\ tx[w].step = "STATUS"
      /\ tx' = [tx EXCEPT ![w].seen = status,
                          ![w].step = "DETAILS"]
      /\ UNCHANGED <<order, invoice>>

\* syncSourceOrder, the read of the invoices of the order's lines.
ReadDetails(w) ==
  /\ tx[w].step = "DETAILS"
  /\ tx' = [tx EXCEPT ![w].full = Fulfilled(View(w), tx[w].sync),
                      ![w].step = "WRITE"]
  /\ UNCHANGED <<order, invoice>>

\* The order rows as w leaves them: the old source as it was read, then the
\* locked one as it is.
OrdersAfter(w) ==
  LET t   == tx[w]
      old == [o \in Orders |->
                IF o = t.sync /\ t.seen # "CANCELLED"
                THEN [order[o] EXCEPT !.status = Synced(t.seen, t.full)] ELSE order[o]]
  IN  [o \in Orders |->
         IF o = t.lock
         THEN [old[o] EXCEPT !.status = Synced(@, Fulfilled(View(w), o))] ELSE old[o]]

\* syncSourceOrder writes the order, once no other transaction holds it, and the
\* transaction commits.
Commit(w) ==
  /\ tx[w].step = "WRITE"
  /\ \A v \in Workers \ {w} : Running(v) => tx[v].lock # tx[w].sync \/ tx[w].sync = NoOrder
  /\ order' = OrdersAfter(w)
  /\ invoice' = View(w)
  /\ tx' = [tx EXCEPT ![w] = Idle]

\* A transaction fails, times out or is the victim of a deadlock.
Rollback(w) ==
  /\ Running(w)
  /\ tx' = [tx EXCEPT ![w] = Idle]
  /\ UNCHANGED <<order, invoice>>

\* The rows that requests to create or update an invoice may ask for.
RowsFor(parties, requests) ==
  [status : {"OPEN", "COMPLETED"}, party : parties, source : Orders \cup {NoOrder}, lines : requests]

\* The steps when only some parties send requests, and only some requests.
NextOf(parties, requests) ==
  \/ \E o \in Orders, party \in parties, lines \in requests :
        CreateOrder(o, party, lines) \/ UpdateOrder(o, party, lines)
  \/ \E o \in Orders : CancelOrder(o)
  \/ \E i \in {j \in Invoices : invoice[j].status = "NONE"}, row \in RowsFor(parties, requests) :
        CreateInvoice(i, row, requests)
  \/ \E w \in {v \in Workers : ~Running(v)}, i \in {j \in Invoices : invoice[j].status = "OPEN"} :
        \/ \E row \in RowsFor(parties, requests) : UpdateInvoice(w, i, row)
        \/ CompleteInvoice(w, i)
        \/ CancelInvoice(w, i)
  \/ \E w \in Workers : Reserve(w) \/ ReadStatus(w) \/ ReadDetails(w) \/ Commit(w) \/ Rollback(w)

Next == NextOf(Parties, Requests)

Spec == Init /\ [][Next]_vars

-----------------------------------------------------------------------------
(***************************************************************************)
(* Properties                                                              *)
(***************************************************************************)

TypeOK ==
  /\ order \in [Orders -> OrderRows]
  /\ invoice \in [Invoices -> InvoiceRows]
  /\ tx \in [Workers -> {Idle} \cup Busy]
  /\ \A v, w \in Workers : (v # w /\ Running(v) /\ Running(w)) =>
       /\ tx[v].inv # tx[w].inv
       /\ tx[v].lock # NoOrder => tx[v].lock # tx[w].lock

\* However the invoices of an order are created, edited, moved to and from it
\* and cancelled, at the same time or not, they never take more of a line than
\* was ordered, in goods or in bonus (assertValidSourceAllocation).
AllocationsWithinOrder ==
  \A o \in Orders, l \in Lines :
    /\ Allocated(invoice, o, l) <= order[o].lines[l].qty
    /\ AllocatedBonus(invoice, o, l) <= order[o].lines[l].bonus

\* Once all of a line's goods are on invoices so is all of its bonus, whichever
\* invoice carries it and whatever was edited since: an order is never left with
\* bonus goods that no invoice could take.
BonusWithGoods ==
  \A o \in Orders, l \in Lines :
    Allocated(invoice, o, l) = order[o].lines[l].qty
      => AllocatedBonus(invoice, o, l) = order[o].lines[l].bonus

\* The invoices of an order are its customer's, though both documents can be
\* edited and no row is locked for as long as both exist: the check that
\* validateSourceOrder makes once still holds when it is no longer made.
InvoicesMatchOrder ==
  /\ TypeOK
  /\ \A o \in Orders, i \in Invoices : Active(invoice[i], o) => invoice[i].party = order[o].party

\* A cancelled order has no active invoice: cancelOrder and the transactions
\* that attach an invoice exclude each other.
CancelledOrdersUnused ==
  \A o \in Orders : order[o].status = "CANCELLED" => \A i \in Invoices : ~Active(invoice[i], o)

\* A cancelled order stays as it is: no synchronisation that read it before the
\* cancellation brings it back.
CancellationFinal ==
  [][\A o \in Orders : order[o].status = "CANCELLED" => order'[o] = order[o]]_vars

\* "Sales Order yang sudah terpenuhi tidak dapat dibatalkan." is what cancelOrder
\* says of an order because it is COMPLETED: a COMPLETED order is fulfilled.
CompletedIsFulfilled ==
  \A o \in Orders : order[o].status = "COMPLETED" => Fulfilled(invoice, o)
=============================================================================
