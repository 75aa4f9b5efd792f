----------------------------- MODULE Purchasing -----------------------------
(***************************************************************************)
(* Purchase orders, purchase invoices and what is owed to suppliers.        *)
(*                                                                          *)
(* An invoice is saved as DRAFT or COMPLETED.  Completing it receives its   *)
(* goods into stock, accrues the debt and completes the order it refers to. *)
(* An edit reads the status of the invoice and of the order without a lock, *)
(* deletes the lines of the invoice, and then writes everything else and    *)
(* commits: edits of one draft overlap. A creation holds the lock on the    *)
(* day's numbers to its end, so that creations follow one another.          *)
(* Orders and payments hold the row they read and are one action each.      *)
(***************************************************************************)
EXTENDS Integers, FiniteSets, Tally

CONSTANTS Suppliers, Orders, Invoices,
          NoOrder,  \* an invoice need not refer to an order
          Goods,    \* what a request may ask for: [bought, bonus, total]
          Amounts,  \* what may be paid at once
          Workers,  \* requests served at the same time
          MaxBought \* bound on the paid goods of an invoice with merged lines

ASSUME PurchasingAssumption ==
  /\ IsFiniteSet(Suppliers) /\ IsFiniteSet(Invoices)
  /\ NoOrder \notin Orders
  /\ \A g \in Goods : g.bought \in Nat \ {0} /\ g.bonus \in Nat /\ g.total \in Nat
  /\ Amounts \subseteq Nat \ {0}
  /\ IsFiniteSet(Workers)

VARIABLES db,     \* the committed rows
          tx,     \* tx[w]: the invoice request worker w is serving
          raced   \* history: documents that two requests used at once

vars == <<db, tx, raced>>

OrderRows == [status : {"NONE", "DRAFT", "READY", "COMPLETED"}, supplier : Suppliers]

InvoiceRows ==
  [status : {"NONE", "DRAFT", "COMPLETED"}, supplier : Suppliers,
   order : Orders \cup {NoOrder}, bought : Nat, bonus : Nat,
   total : Nat, paid : Nat, outstanding : Nat]

\* received and receipts: the goods, and the number of times, that an invoice
\* put into stock; accrued: its entry in the journal, whose key is unique.
Database ==
  [order    : [Orders -> OrderRows],
   inv      : [Invoices -> InvoiceRows],
   received : [Invoices -> Nat],
   receipts : [Invoices -> Nat],
   accrued  : [Invoices -> Nat],
   payable  : Int,                  \* account 2101
   summary  : [Suppliers -> Int]]   \* supplierFinancialSummary

\* What a request refers to is checked first; what it asks for is used when it is
\* saved, and is chosen there.
References == [supplier : Suppliers, order : Orders \cup {NoOrder}]

Contents ==
  {c \in [goods : Goods, status : {"DRAFT", "COMPLETED"}, paid : {0} \cup Amounts] :
     c.paid <= (IF c.status = "COMPLETED" THEN c.goods.total ELSE 0)}

Idle == [step |-> "IDLE"]

NoLines == [bought |-> 0, bonus |-> 0]

\* kept: committed lines of overlapping edits that the deletion did not see; blind:
\* it saw none to delete, for another edit had deleted them.
Busy == [step : {"VALIDATED", "WAITING", "REPLACED"}, kind : {"CREATE", "EDIT"},
         invoice : Invoices, request : References,
         kept : [bought : Nat, bonus : Nat], blind : BOOLEAN]

Running(w)      == tx[w].step # "IDLE"
Serving(i)      == {w \in Workers : Running(w) /\ tx[w].invoice = i}
Ordering(o)     == {w \in Workers : Running(w) /\ tx[w].request.order = o}
Deleting(w)     == tx[w].step = "REPLACED" /\ ~tx[w].blind

-----------------------------------------------------------------------------
(***************************************************************************)
(* Orders                                                                  *)
(***************************************************************************)

\* A completed order can no longer be edited; there is no status after it.
EditableOrder(o) == db.order[o].status \in {"DRAFT", "READY"}

\* The status and the supplier of an order come from the request.
SaveOrder(o, status, s) ==
  /\ db' = [db EXCEPT !.order[o] = [status |-> status, supplier |-> s]]
  /\ raced' = raced \cup (IF Ordering(o) = {} THEN {} ELSE {o})
  /\ UNCHANGED tx

CreateOrder(o, status, s) ==
  /\ db.order[o].status = "NONE"
  /\ SaveOrder(o, status, s)

\* update holds the row of the order from its first read.
UpdateOrder(o, status, s) ==
  /\ EditableOrder(o)
  /\ SaveOrder(o, status, s)

-----------------------------------------------------------------------------
(***************************************************************************)
(* Saving an invoice                                                       *)
(***************************************************************************)

ValidReferences_AnyOrder(q) == TRUE

\* validateInvoiceReferences: the order is READY and of the same supplier.
ValidReferences(q) ==
  q.order # NoOrder => db.order[q.order] = [status |-> "READY", supplier |-> q.supplier]

NumberFree == \A w \in Workers : Running(w) => tx[w].kind # "CREATE"

Begin(w, i, q, kind, step) ==
  /\ ~Running(w)
  /\ ValidReferences(q)
  /\ tx' = [tx EXCEPT ![w] = [step |-> step, kind |-> kind, invoice |-> i,
                              request |-> q, kept |-> NoLines, blind |-> FALSE]]
  /\ raced' = raced \cup (IF Serving(i) = {} THEN {} ELSE {i})
                    \cup (IF q.order # NoOrder /\ Ordering(q.order) # {} THEN {q.order} ELSE {})
  /\ UNCHANGED db

BeginCreate(w, i, q) ==
  /\ db.inv[i].status = "NONE" /\ Serving(i) = {}
  /\ NumberFree
  /\ Begin(w, i, q, "CREATE", "REPLACED")

\* update reads the status of the invoice without locking it.
Editable(i) == db.inv[i].status = "DRAFT"

BeginEdit(w, i, q) ==
  /\ Editable(i)
  /\ Begin(w, i, q, "EDIT", "VALIDATED")

\* A line that has a FIFO layer cannot be deleted (onDelete: Restrict).
DeletableLines(i) == db.receipts[i] = 0

\* deleteMany of the lines, which waits for another edit that deleted them.
DeleteLines(w) ==
  LET i == tx[w].invoice
  IN  /\ tx[w].step = "VALIDATED"
      /\ DeletableLines(i)
      /\ tx' = [tx EXCEPT ![w].step = IF \E u \in Serving(i) : Deleting(u)
                                      THEN "WAITING" ELSE "REPLACED"]
      /\ UNCHANGED <<db, raced>>

Both(a, b) == [bought |-> a.bought + b.bought, bonus |-> a.bonus + b.bonus]

\* Request u on the invoice that w commits with its own lines: an edit that waited
\* finds those it was to delete gone, and misses the new ones.  Who deletes nothing
\* has all there are now; who deleted the old ones has w's besides its own.
Informed(u, w, own, lines) ==
  IF Deleting(w) /\ tx[u].step # "VALIDATED"
  THEN [tx[u] EXCEPT !.step = "REPLACED", !.blind = TRUE, !.kept = lines]
  ELSE IF tx[u].step = "REPLACED" THEN [tx[u] EXCEPT !.kept = Both(own, @)]
  ELSE tx[u]

Released(w, own, lines) ==
  [u \in Workers |-> IF u = w THEN Idle
                     ELSE IF u \in Serving(tx[w].invoice) THEN Informed(u, w, own, lines)
                     ELSE tx[u]]

CanAccrue_Again(i, total) == TRUE

\* The posting key of the accrual is unique; no entry is made of a total of zero.
CanAccrue(i, total) == total > 0 => db.accrued[i] = 0

\* A layer of a line that another edit is deleting waits for that edit, which needs
\* the row of the invoice: one of them is rolled back.
LayersAllowed(w) == \A u \in Serving(tx[w].invoice) \ {w} : ~Deleting(u)

\* _processInventory: every line found gets a layer, bonus goods included.
Received(d, i, lines) ==
  [d EXCEPT !.received[i] = @ + lines.bought + lines.bonus,
            !.receipts[i] = @ + 1]

Owe_WholeTotal(d, i, s, c) ==
  [d EXCEPT !.accrued[i] = @ + c.goods.total,
            !.payable    = @ + c.goods.total - c.paid,
            !.summary[s] = @ + c.goods.total]

\* _processFinance: the accrual, the payments made at once and the summary.
Owe(d, i, s, c) ==
  [d EXCEPT !.accrued[i] = @ + c.goods.total,
            !.payable    = @ + c.goods.total - c.paid,
            !.summary[s] = @ + (c.goods.total - c.paid)]

\* _processPO sets the status whatever it is by now.
OrderDone(d, o) ==
  IF o = NoOrder THEN d ELSE [d EXCEPT !.order[o].status = "COMPLETED"]

Row(q, c, lines) ==
  [status |-> c.status, supplier |-> q.supplier, order |-> q.order,
   bought |-> lines.bought, bonus |-> lines.bonus,
   total |-> c.goods.total, paid |-> c.paid, outstanding |-> c.goods.total - c.paid]

\* The rest of createInvoiceTx or update, and the commit.
Save(w, c) ==
  LET i     == tx[w].invoice
      q     == tx[w].request
      lines == Both(c.goods, tx[w].kept)
      saved == [db EXCEPT !.inv[i] = Row(q, c, lines)]
  IN  /\ tx[w].step = "REPLACED"
      /\ lines.bought <= MaxBought
      /\ c.status = "COMPLETED" => CanAccrue(i, c.goods.total) /\ LayersAllowed(w)
      /\ db' = IF c.status = "COMPLETED"
               THEN OrderDone(Owe(Received(saved, i, lines), i, q.supplier, c), q.order)
               ELSE saved
      /\ tx' = Released(w, c.goods, lines)
      /\ UNCHANGED raced

\* The request fails, at a refusal or a constraint of the database; edits that
\* waited for it find the lines they were to delete.
Rollback(w) ==
  /\ Running(w)
  /\ tx' = [u \in Workers |->
              IF u = w THEN Idle
              ELSE IF Deleting(w) /\ u \in Serving(tx[w].invoice) /\ tx[u].step = "WAITING"
              THEN [tx[u] EXCEPT !.step = "VALIDATED"]
              ELSE tx[u]]
  /\ UNCHANGED <<db, raced>>

\* createCompletedInventoryLoanInvoiceTx: the goods are in stock already.
ConvertLoan(i, s, total) ==
  /\ db.inv[i].status = "NONE" /\ Serving(i) = {} /\ NumberFree
  /\ db' = [db EXCEPT !.inv[i] = [status |-> "COMPLETED", supplier |-> s, order |-> NoOrder,
                                  bought |-> 0, bonus |-> 0, total |-> total,
                                  paid |-> 0, outstanding |-> total],
                      !.accrued[i] = total,
                      !.payable    = @ + total,
                      !.summary[s] = @ + total]
  /\ UNCHANGED <<tx, raced>>

-----------------------------------------------------------------------------
(***************************************************************************)
(* Payment                                                                 *)
(***************************************************************************)

CanPay(i, a) ==
  /\ db.inv[i].status = "COMPLETED"
  /\ a <= db.inv[i].outstanding
  /\ a <= db.summary[db.inv[i].supplier]

\* addPayment holds the row of the invoice from its first read.
AddPayment(i, a) ==
  /\ CanPay(i, a)
  /\ db' = [db EXCEPT !.inv[i].paid        = @ + a,
                      !.inv[i].outstanding = @ - a,
                      !.payable            = @ - a,
                      !.summary[db.inv[i].supplier] = @ - a]
  /\ UNCHANGED <<tx, raced>>

-----------------------------------------------------------------------------

\* The rows of documents that do not exist yet say nothing.
NothingBought(s) ==
  [order    |-> [o \in Orders |-> [status |-> "NONE", supplier |-> s]],
   inv      |-> [i \in Invoices |->
                   [status |-> "NONE", supplier |-> s, order |-> NoOrder, bought |-> 0,
                    bonus |-> 0, total |-> 0, paid |-> 0, outstanding |-> 0]],
   received |-> [i \in Invoices |-> 0],
   receipts |-> [i \in Invoices |-> 0],
   accrued  |-> [i \in Invoices |-> 0],
   payable  |-> 0,
   summary  |-> [u \in Suppliers |-> 0]]

Init ==
  /\ \E s \in Suppliers : db = NothingBought(s)
  /\ tx = [w \in Workers |-> Idle]
  /\ raced = {}

Next ==
  \/ \E o \in Orders, status \in {"DRAFT", "READY"}, s \in Suppliers :
       CreateOrder(o, status, s) \/ UpdateOrder(o, status, s)
  \/ \E w \in Workers, i \in Invoices, q \in References : BeginCreate(w, i, q) \/ BeginEdit(w, i, q)
  \/ \E w \in Workers : DeleteLines(w) \/ Rollback(w)
  \/ \E w \in Workers, c \in Contents : Save(w, c)
  \/ \E i \in Invoices, s \in Suppliers, g \in Goods : g.total > 0 /\ ConvertLoan(i, s, g.total)
  \/ \E i \in Invoices, a \in Amounts : AddPayment(i, a)

Spec == Init /\ [][Next]_vars

-----------------------------------------------------------------------------
(***************************************************************************)
(* Properties                                                              *)
(***************************************************************************)

PurchasingTypeOK ==
  /\ db \in Database
  /\ tx \in [Workers -> {Idle} \cup Busy]
  /\ raced \subseteq Orders \cup Invoices

Completed(i) == db.inv[i].status = "COMPLETED"

\* What is owed to the suppliers is one amount in three places: the ledger, the
\* summaries, and, unless edits of an invoice overlapped, the invoices.
PayablesReconcile ==
  /\ db.payable = Total(db.summary)
  /\ raced \cap Invoices = {} =>
       \A s \in Suppliers :
         db.summary[s] = Total([i \in Invoices |->
                                  IF Completed(i) /\ db.inv[i].supplier = s
                                  THEN db.inv[i].outstanding ELSE 0])

\* An order is completed by one invoice, of the supplier it was made out to, and
\* only so, unless requests on it overlapped.
OrdersInvoicedOnce ==
  \A o \in Orders \ raced :
    LET by == {i \in Invoices : Completed(i) /\ db.inv[i].order = o}
    IN  raced \cap Invoices = {} =>
          /\ Cardinality(by) <= 1
          /\ (db.order[o].status = "COMPLETED") <=> by # {}
          /\ \A i \in by : db.inv[i].supplier = db.order[o].supplier

\* However edits overlap, an invoice with a price puts its goods into stock once; and an
\* invoice that has goods in stock or an entry in the journal is completed, unless
\* requests on it overlapped.
GoodsReceivedOnce ==
  /\ (\A g \in Goods : g.total > 0) =>
       \A i \in Invoices :
         /\ db.receipts[i] <= 1
         /\ db.accrued[i] > 0 /\ db.inv[i].bought > 0 => db.receipts[i] = 1
  /\ \A i \in Invoices \ raced : db.receipts[i] > 0 \/ db.accrued[i] > 0 => Completed(i)

\* "Hanya faktur DRAFT yang dapat diperbarui": what is completed stays so.
CompletedInvoicesKept ==
  [][\A i \in Invoices : Completed(i) => db'.inv[i].status = "COMPLETED"]_vars
=============================================================================
