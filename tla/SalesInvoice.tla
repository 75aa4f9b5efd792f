---------------------------- MODULE SalesInvoice ----------------------------
(***************************************************************************)
(* The sales invoice service: stock reservation, packing, delivery, the    *)
(* receipt of payments, and the three places a receivable is recorded (the *)
(* invoice, the customer summary with its subledger, the general ledger).  *)
(*                                                                         *)
(* Every service method is one database transaction that locks the row of  *)
(* its invoice, then the stock rows it touches, so that a method is one    *)
(* action.  The variable db is the database; the operators that take a     *)
(* database d and return a database are the private ...Tx methods, which   *)
(* the actions compose in the order the code calls them.                   *)
(*                                                                         *)
(* Quantities are in the unit stock is kept in, goods and bonus together   *)
(* (what groupBase adds up); amounts are in the smallest currency unit.    *)
(***************************************************************************)
EXTENDS Integers, FiniteSets, Tally

CONSTANTS Invoices,    \* the sales invoices that may be created
          Customers,   \* registered customers
          Guest,       \* the party of an invoice without a customer
          Products,    \* stock-keeping units
          MaxQty,      \* bound on one product's quantity in an invoice
          MaxTotal,    \* bound on an invoice total
          MaxStock     \* bound on the stock of a product

ASSUME ConstantsAssumption ==
  /\ IsFiniteSet(Invoices)
  /\ Guest \notin Customers
  /\ MaxQty \in Nat /\ MaxTotal \in Nat /\ MaxStock \in Nat

VARIABLE db

Parties == Customers \cup {Guest}

\* "NONE" is an invoice that does not exist yet.
Statuses == {"NONE", "DRAFT", "READY", "COMPLETED", "CANCELLED"}

\* Chart accounts: cash and bank, trade receivables, customer advances, sales.
Accounts == {"CASH", "1201", "2201", "4101"}

Quantities == [Products -> 0 .. MaxQty]

\* The item lists a request may carry: at least one line, each of a positive
\* quantity.
ItemLists == {q \in Quantities : \E p \in Products : q[p] > 0}

Nothing == [p \in Products |-> 0]

Database ==
  [actual      : [Products -> Nat],       \* inventory_stock.actual_qty
   available   : [Products -> Nat],       \* inventory_stock.available_qty
   packed      : [Products -> Nat],       \* inventory_stock.packed_qty
   layered     : [Products -> Nat],       \* remaining_qty over the FIFO layers
   status      : [Invoices -> Statuses],
   customer    : [Invoices -> Parties],
   dated       : [Invoices -> BOOLEAN],   \* due_date is set
   items       : [Invoices -> Quantities],
   total       : [Invoices -> Nat],
   paid        : [Invoices -> Nat],
   outstanding : [Invoices -> Nat],
   held        : [Invoices -> Nat],       \* sales_payment_holding, HELD
   summary     : [Customers -> Nat],      \* customer_financial_summary
   subledger   : [Customers -> Nat],      \* customer_account_transaction, IN - OUT
   gl          : [Accounts -> Int]]       \* journal lines, debit - credit

Open(d, i) == d.status[i] \in {"DRAFT", "READY"}

Editable_AlsoCompleted(d, i) == d.status[i] \in {"DRAFT", "READY", "COMPLETED"}

\* What updateInvoice may still rewrite.
Editable(d, i) == Open(d, i)

-----------------------------------------------------------------------------
(***************************************************************************)
(* Stock                                                                   *)
(***************************************************************************)

Plus(f, q)  == [p \in Products |-> f[p] + q[p]]
Minus(f, q) == [p \in Products |-> f[p] - q[p]]
Covers(f, q) == \A p \in Products : q[p] <= f[p]

CanReserve_Actual(d, q) == Covers(d.actual, q)

\* Every updateMany of reserve finds its row: available_qty >= quantity.
CanReserve(d, q) == Covers(d.available, q)

\* reserve: the quantity is no longer available; a READY invoice packs it.
Reserve(d, q, s) ==
  [d EXCEPT !.available = Minus(@, q),
            !.packed    = IF s = "READY" THEN Plus(@, q) ELSE @]

CanRelease(d, i) == d.status[i] = "READY" => Covers(d.packed, d.items[i])

Release_KeepPacked(d, i) ==
  [d EXCEPT !.available = Plus(@, d.items[i]), !.items[i] = Nothing]

\* releaseReservation gives the quantity back.  Every caller then deletes or
\* abandons the details, so that the invoice reserves nothing.
Release(d, i) ==
  [d EXCEPT !.available = Plus(@, d.items[i]),
            !.packed    = IF d.status[i] = "READY" THEN Minus(@, d.items[i]) ELSE @,
            !.items[i]  = Nothing]

\* Goods that are physically there and in no package can be packed.
CanRepack(d, i, target) ==
  IF target = "READY"
  THEN \A p \in Products : d.items[i][p] <= d.actual[p] - d.packed[p]
  ELSE Covers(d.packed, d.items[i])

\* changeInvoiceStatusTx between DRAFT and READY.
Repack(d, i, target) ==
  [d EXCEPT !.packed    = IF target = "READY" THEN Plus(@, d.items[i])
                                              ELSE Minus(@, d.items[i]),
            !.status[i] = target]

CanIssue(d, i) ==
  LET q == d.items[i]
  IN  /\ Covers(d.actual, q)
      /\ d.status[i] = "READY" => Covers(d.packed, q)
      /\ Covers(d.layered, q)

\* The goods leave: FIFO layers are consumed and actual_qty falls.
\* available_qty does not, it fell when the goods were reserved.
Issue(d, i) ==
  [d EXCEPT !.actual  = Minus(@, d.items[i]),
            !.packed  = IF d.status[i] = "READY" THEN Minus(@, d.items[i]) ELSE @,
            !.layered = Minus(@, d.items[i])]

-----------------------------------------------------------------------------
(***************************************************************************)
(* Money                                                                   *)
(***************************************************************************)

\* postJournalEntry with one debit and one credit line.
Post(gl, debit, credit, amount) ==
  [gl EXCEPT ![debit] = @ + amount, ![credit] = @ - amount]

Credit(ledger, c, amount) ==
  IF c = Guest THEN ledger ELSE [ledger EXCEPT ![c] = @ + amount]

\* A guest owes everything or nothing.
GuestTerms(c, paid, outstanding) ==
  ~(c = Guest /\ paid > 0 /\ outstanding > 0)

\* The guards of recordPaymentTx.
CanPay(d, i, a) ==
  /\ d.status[i] \in {"DRAFT", "READY", "COMPLETED"}
  /\ a > 0
  /\ a <= d.outstanding[i]
  /\ GuestTerms(d.customer[i], d.paid[i] + a, d.outstanding[i] - a)
  /\ (d.status[i] = "COMPLETED" /\ d.customer[i] # Guest)
       => a <= d.summary[d.customer[i]]

Pay_AlwaysReceivable(d, i, a) ==
  [d EXCEPT
     !.paid[i]        = @ + a,
     !.outstanding[i] = @ - a,
     !.held[i]        = IF d.status[i] = "COMPLETED" THEN @ ELSE @ + a,
     !.gl             = Post(@, "CASH", "1201", a),
     !.summary        = IF d.status[i] = "COMPLETED" THEN Credit(@, d.customer[i], -a) ELSE @,
     !.subledger      = IF d.status[i] = "COMPLETED" THEN Credit(@, d.customer[i], -a) ELSE @]

Pay_SummaryAtOnce(d, i, a) ==
  LET final == d.status[i] = "COMPLETED"
  IN  [d EXCEPT
         !.paid[i]        = @ + a,
         !.outstanding[i] = @ - a,
         !.held[i]        = IF final THEN @ ELSE @ + a,
         !.gl             = Post(@, "CASH", IF final THEN "1201" ELSE "2201", a),
         !.summary        = Credit(@, d.customer[i], -a),
         !.subledger      = Credit(@, d.customer[i], -a)]

\* recordPaymentTx.  Before completion the money is an advance (2201) held for
\* the invoice; afterwards it reduces the receivable (1201) and, for a
\* customer, the summary and the subledger.
Pay(d, i, a) ==
  LET final == d.status[i] = "COMPLETED"
      c     == d.customer[i]
  IN  [d EXCEPT
         !.paid[i]        = @ + a,
         !.outstanding[i] = @ - a,
         !.held[i]        = IF final THEN @ ELSE @ + a,
         !.gl             = Post(@, "CASH", IF final THEN "1201" ELSE "2201", a),
         !.summary        = IF final THEN Credit(@, c, -a) ELSE @,
         !.subledger      = IF final THEN Credit(@, c, -a) ELSE @]

\* The entries of a list of up to two initial payments; 0 stands for none.
CanPayAll(d, i, a, b) ==
  /\ a > 0 => CanPay(d, i, a)
  /\ b > 0 => a > 0 /\ CanPay(Pay(d, i, a), i, b)

PayAll(d, i, a, b) ==
  CASE a = 0 -> d
    [] a > 0 /\ b = 0 -> Pay(d, i, a)
    [] a > 0 /\ b > 0 -> Pay(Pay(d, i, a), i, b)

\* Completion needs a settled guest or a dated customer, and an amount that
\* postJournalEntry accepts.
CanRecognise(d, i) ==
  /\ Open(d, i)
  /\ d.customer[i] = Guest => d.outstanding[i] = 0
  /\ (d.customer[i] # Guest /\ d.outstanding[i] > 0) => d.dated[i]
  /\ d.total[i] > 0

Recognise_SummaryOfTotal(d, i) ==
  [d EXCEPT
     !.status[i] = "COMPLETED",
     !.held[i]   = 0,
     !.summary   = Credit(@, d.customer[i], d.total[i]),
     !.subledger = Credit(@, d.customer[i], d.total[i] - d.paid[i]),
     !.gl        = Post(Post(@, "1201", "4101", d.total[i]), "2201", "1201", d.paid[i])]

\* The money half of completeInvoiceTx: held payments become APPLIED, the
\* customer owes what is outstanding, the sale and the use of the advance are
\* journalled, and the invoice is final.
Recognise(d, i) ==
  LET c == d.customer[i]
  IN  [d EXCEPT
         !.status[i] = "COMPLETED",
         !.held[i]   = 0,
         !.summary   = Credit(@, c, d.outstanding[i]),
         !.subledger = Credit(@, c, d.total[i] - d.paid[i]),
         !.gl        = Post(Post(@, "1201", "4101", d.total[i]),
                            "2201", "1201", d.paid[i])]

CanComplete(d, i) == CanRecognise(d, i) /\ CanIssue(d, i)

\* completeInvoiceTx of an open invoice.
Complete(d, i) == Recognise(Issue(d, i), i)

-----------------------------------------------------------------------------
(***************************************************************************)
(* Documents                                                               *)
(***************************************************************************)

\* The row create and update write: whatever has been paid already stays.
Write(d, i, c, q, t, s, due) ==
  [d EXCEPT !.status[i]      = s,
            !.customer[i]    = c,
            !.dated[i]       = due,
            !.items[i]       = q,
            !.total[i]       = t,
            !.outstanding[i] = t - d.paid[i]]

\* The reservation is made in this status even when completion is requested.
Operational(s) == IF s = "READY" THEN "READY" ELSE "DRAFT"

Dated(d, i, due) == [d EXCEPT !.dated[i] = @ \/ due]

\* changeInvoiceStatusTx: the guards, then the due date, then the status.
CanChangeStatus(d, i, target, due) ==
  /\ d.status[i] \in {"DRAFT", "READY", "COMPLETED"}
  /\ d.status[i] = "COMPLETED" => target = "COMPLETED"
  /\ due => d.customer[i] # Guest
  /\ d.status[i] # target =>
       IF target = "COMPLETED" THEN CanComplete(Dated(d, i, due), i)
                               ELSE CanRepack(d, i, target)

ChangeStatus(d, i, target, due) ==
  CASE d.status[i] = target -> Dated(d, i, due)
    [] d.status[i] # target /\ target = "COMPLETED" -> Complete(Dated(d, i, due), i)
    [] d.status[i] # target /\ target # "COMPLETED" -> Repack(Dated(d, i, due), i, target)

\* Without a customer the due date of a request is dropped.
RequestTerms(c, due) == c = Guest => ~due

-----------------------------------------------------------------------------
(***************************************************************************)
(* The operations                                                          *)
(***************************************************************************)

Init ==
  db = [actual      |-> Nothing,
        available   |-> Nothing,
        packed      |-> Nothing,
        layered     |-> Nothing,
        status      |-> [i \in Invoices |-> "NONE"],
        customer    |-> [i \in Invoices |-> Guest],
        dated       |-> [i \in Invoices |-> FALSE],
        items       |-> [i \in Invoices |-> Nothing],
        total       |-> [i \in Invoices |-> 0],
        paid        |-> [i \in Invoices |-> 0],
        outstanding |-> [i \in Invoices |-> 0],
        held        |-> [i \in Invoices |-> 0],
        summary     |-> [c \in Customers |-> 0],
        subledger   |-> [c \in Customers |-> 0],
        gl          |-> [a \in Accounts |-> 0]]

\* createInvoiceTx without return credit: initial payments a and b, and
\* completion in the same transaction when the request asks for it.
CreateInvoice(i, c, q, t, a, b, s, due) ==
  LET written == Write(Reserve(db, q, Operational(s)), i, c, q, t, Operational(s), due)
      settled == PayAll(written, i, a, b)
  IN  /\ db.status[i] = "NONE"
      /\ RequestTerms(c, due)
      /\ a + b <= t
      /\ GuestTerms(c, a + b, t - (a + b))
      /\ CanReserve(db, q)
      /\ CanPayAll(written, i, a, b)
      /\ s = "COMPLETED" => CanComplete(settled, i)
      /\ db' = IF s = "COMPLETED" THEN Complete(settled, i) ELSE settled

\* createCompletedInventoryLoanInvoiceTx: lent goods the customer keeps are
\* invoiced and recognised, but they left the stock when they were lent.
ConvertLoan(i, c, q, t, due) ==
  LET written == Write(db, i, c, q, t, "DRAFT", due)
  IN  /\ db.status[i] = "NONE"
      /\ c # Guest
      /\ due
      /\ CanRecognise(written, i)
      /\ db' = Recognise(written, i)

\* updateInvoice: the old reservation is released before the new one is made.
UpdateInvoice(i, c, q, t, s, due) ==
  LET released == Release(db, i)
      written  == Write(Reserve(released, q, Operational(s)), i, c, q, t, Operational(s), due)
  IN  /\ Editable(db, i)
      /\ RequestTerms(c, due)
      /\ CanRelease(db, i)
      /\ db.paid[i] <= t
      /\ CanReserve(released, q)
      /\ GuestTerms(c, db.paid[i], t - db.paid[i])
      /\ s = "COMPLETED" => CanComplete(written, i)
      /\ db' = IF s = "COMPLETED" THEN Complete(written, i) ELSE written

\* completeInvoice; completing a COMPLETED invoice changes nothing.
CompleteInvoice(i) ==
  /\ CanComplete(db, i)
  /\ db' = Complete(db, i)

ChangeInvoiceStatus(i, target, due) ==
  /\ CanChangeStatus(db, i, target, due)
  /\ db' = ChangeStatus(db, i, target, due)

ReceivePayment(i, a) ==
  /\ CanPay(db, i, a)
  /\ db' = Pay(db, i, a)

\* processInvoice: a payment and a change of status in one transaction.
ProcessInvoice(i, a, target, due) ==
  /\ CanPay(db, i, a)
  /\ CanChangeStatus(Pay(db, i, a), i, target, due)
  /\ db' = ChangeStatus(Pay(db, i, a), i, target, due)

Cancellable_DespitePayments(d, i) == Open(d, i) /\ CanRelease(d, i)

\* A payment, once received, blocks cancellation.
Cancellable(d, i) == Open(d, i) /\ d.paid[i] = 0 /\ CanRelease(d, i)

Cancel(d, i) == [Release(d, i) EXCEPT !.status[i] = "CANCELLED"]

CancelInvoice(i) ==
  /\ Cancellable(db, i)
  /\ db' = Cancel(db, i)

\* What a stock adjustment of product p by n, up or down, writes: a new FIFO
\* layer or the consumption of old ones, and both quantities.
Adjust(d, p, n) ==
  [d EXCEPT !.actual[p] = @ + n, !.available[p] = @ + n, !.layered[p] = @ + n]

AdjustmentIn(p, n) ==
  /\ n > 0
  /\ db.actual[p] + n <= MaxStock
  /\ db' = Adjust(db, p, n)

CanAdjustOut_Physical(d, p, n) == n > 0 /\ n <= d.actual[p] /\ n <= d.layered[p]

\* A stock adjustment OUT takes goods nobody was promised.
CanAdjustOut(d, p, n) ==
  n > 0 /\ n <= d.actual[p] /\ n <= d.available[p] /\ n <= d.layered[p]

AdjustmentOut(p, n) ==
  /\ CanAdjustOut(db, p, n)
  /\ db' = Adjust(db, p, -n)

Requested == {"DRAFT", "READY", "COMPLETED"}
Amounts   == 0 .. MaxTotal

Next ==
  \/ \E i \in Invoices, c \in Parties, q \in ItemLists, t, a, b \in Amounts,
        s \in Requested, due \in BOOLEAN :
        CreateInvoice(i, c, q, t, a, b, s, due)
  \/ \E i \in Invoices, c \in Parties, q \in ItemLists, t \in Amounts, due \in BOOLEAN :
        ConvertLoan(i, c, q, t, due)
  \/ \E i \in Invoices, c \in Parties, q \in ItemLists, t \in Amounts,
        s \in Requested, due \in BOOLEAN :
        UpdateInvoice(i, c, q, t, s, due)
  \/ \E i \in Invoices : CompleteInvoice(i)
  \/ \E i \in Invoices, target \in Requested, due \in BOOLEAN :
        ChangeInvoiceStatus(i, target, due)
  \/ \E i \in Invoices, a \in Amounts : ReceivePayment(i, a)
  \/ \E i \in Invoices, a \in Amounts, target \in Requested, due \in BOOLEAN :
        ProcessInvoice(i, a, target, due)
  \/ \E i \in Invoices : CancelInvoice(i)
  \/ \E p \in Products, n \in 1 .. MaxStock : AdjustmentIn(p, n)
  \/ \E p \in Products, n \in 1 .. MaxStock : AdjustmentOut(p, n)

Spec == Init /\ [][Next]_db

-----------------------------------------------------------------------------
(***************************************************************************)
(* Properties                                                              *)
(***************************************************************************)

\* What the open, and what the READY, invoices reserve of a product; what the
\* invoices in a set of statuses owe, in all and by customer.
Reserved(d, p) == Total([i \in Invoices |-> IF Open(d, i) THEN d.items[i][p] ELSE 0])
Packages(d, p) ==
  Total([i \in Invoices |-> IF d.status[i] = "READY" THEN d.items[i][p] ELSE 0])
Owed(d) ==
  Total([i \in Invoices |-> IF d.status[i] = "COMPLETED" THEN d.outstanding[i] ELSE 0])
OwedBy(d, c) ==
  Total([i \in Invoices |-> IF d.status[i] = "COMPLETED" /\ d.customer[i] = c
                            THEN d.outstanding[i] ELSE 0])

\* Every quantity stays a natural number: stock that is available, packed or in
\* FIFO layers never goes below zero, and nobody is owed a negative amount.
TypeOK == db \in Database

\* The available quantity is the physical one less what the open invoices
\* reserve, the packed one is what the READY ones reserve, and the FIFO layers
\* hold exactly the physical stock: no sequence of edits, status changes,
\* completions and cancellations (releaseReservation, reserve, completeInvoiceTx)
\* lets the counters of inventory_stock drift from the documents.
StockReconcilesIn(d) ==
  \A p \in Products : /\ d.available[p] + Reserved(d, p) = d.actual[p]
                      /\ d.packed[p] = Packages(d, p)
                      /\ d.layered[p] = d.actual[p]
StockReconciles == StockReconcilesIn(db)

\* What an open invoice was promised can be delivered whatever the other
\* invoices and the stock adjustments did since: the physical stock, the packed
\* stock of a READY invoice and the FIFO layers cover it, so the "tidak
\* konsisten" refusals of completion, release and packing are never met; and the
\* CHECK that packed_qty is within actual_qty never fails.
PromisesDeliverable ==
  /\ \A i \in Invoices : Open(db, i) =>
       /\ CanIssue(db, i)
       /\ CanRelease(db, i)
       /\ db.status[i] = "DRAFT" => CanRepack(db, i, "READY")
  /\ Covers(db.actual, db.packed)

\* The receivables account of the general ledger is what completed invoices
\* have outstanding, whichever mix of advances, payments at completion and later
\* payments settled them.
ReceivablesReconcileIn(d) == d.gl["1201"] = Owed(d)
ReceivablesReconcile == ReceivablesReconcileIn(db)

\* The summary of a customer and the balance of its subledger are both what its
\* completed invoices have outstanding.
CustomersReconcileIn(d) ==
  \A c \in Customers : d.summary[c] = OwedBy(d, c) /\ d.subledger[c] = OwedBy(d, c)
CustomersReconcile == CustomersReconcileIn(db)

\* Money received before completion is, in the ledger and in the holdings, what
\* the open invoices have been paid: completion applies all of it, cancellation
\* strands none.
AdvancesReconcileIn(d) ==
  /\ \A i \in Invoices : d.held[i] = IF Open(d, i) THEN d.paid[i] ELSE 0
  /\ d.gl["2201"] + Total(d.held) = 0
AdvancesReconcile == AdvancesReconcileIn(db)

\* Of an invoice nothing is lost or counted twice: what was paid and what is
\* outstanding add up to its total, after any edit of a part-paid invoice.
InvoicesBalanceIn(d) ==
  \A i \in Invoices : /\ d.paid[i] + d.outstanding[i] = d.total[i]
                      /\ d.status[i] = "NONE" => d.total[i] = 0
InvoicesBalance == InvoicesBalanceIn(db)

\* A guest's goods are handed over only against full payment, and a customer's
\* debt has a due date from the moment it exists; a guest is never half paid.
CreditTermsIn(d) ==
  \A i \in Invoices :
    /\ GuestTerms(d.customer[i], d.paid[i], d.outstanding[i])
    /\ (d.status[i] = "COMPLETED" /\ d.outstanding[i] > 0)
         => d.customer[i] # Guest /\ d.dated[i]
CreditTerms == CreditTermsIn(db)

\* The money a customer owes on an invoice can always be received: the guard on
\* the summary in recordPaymentTx ("Ringkasan piutang customer tidak konsisten.")
\* refuses no payment the invoice itself allows.
PaymentsAccepted ==
  \A i \in Invoices :
    (db.status[i] = "COMPLETED" /\ db.outstanding[i] > 0) => CanPay(db, i, db.outstanding[i])

\* The goods promised to an invoice: those it reserves while it is open.
Promised == [i \in Invoices |-> IF Open(db, i) THEN db.items[i] ELSE Nothing]

Abstract == INSTANCE StockPromises
              WITH Documents <- Invoices, physical <- db.actual, promised <- Promised

\* The service implements the abstract stock promises: with nothing but the
\* counter of available goods to look at, createInvoice, updateInvoice and the
\* stock adjustments never promise or withdraw goods already promised, and a
\* completion settles its own promise and leaves every other one covered.
ImplementsStockPromises == Abstract!Spec

\* A completed or cancelled invoice is final: no operation changes its party,
\* items or total, takes back a payment, or raises what it still owes; what was
\* paid on any invoice is never reduced.
FinalDocumentsFrozen ==
  [][\A i \in Invoices :
       /\ db'.paid[i] >= db.paid[i]
       /\ db.status[i] \in {"COMPLETED", "CANCELLED"} =>
            /\ db'.status[i]   = db.status[i]
            /\ db'.customer[i] = db.customer[i]
            /\ db'.items[i]    = db.items[i]
            /\ db'.total[i]    = db.total[i]
            /\ db'.outstanding[i] <= db.outstanding[i]]_db
=============================================================================
