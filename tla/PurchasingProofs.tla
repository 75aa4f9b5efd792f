-------------------------- MODULE PurchasingProofs --------------------------
(***************************************************************************)
(* Theorems about purchase invoices, their orders and the debts they make,  *)
(* for every set of suppliers, orders, invoices and requests.               *)
(*                                                                          *)
(* An edit trusts what it read without a lock.  The invariant says what is  *)
(* still true of it when it commits: if no two requests used an invoice at  *)
(* once, the invoice is as it was read; if none used the order either, the  *)
(* order is READY and nobody has invoiced it.  What survives overlapping    *)
(* edits rests on two keys instead: the accrual of an invoice is posted     *)
(* once, and goods go into stock in the transaction that posts it.          *)
(***************************************************************************)
EXTENDS PurchaseReturn, TallyTheorems, TLAPS

\* The types, with summaries that never become negative.
Types == PurchasingTypeOK /\ db.summary \in [Suppliers -> Nat]

\* What the invoices in these rows say is owed to a supplier.
Owed(inv, s) ==
  [i \in Invoices |-> IF inv[i].status = "COMPLETED" /\ inv[i].supplier = s
                      THEN inv[i].outstanding ELSE 0]

\* What a row says is owed, to whoever it is.
Due(row) == IF row.status = "COMPLETED" THEN row.outstanding ELSE 0

\* These rows and these summaries say the same.
Matches(inv, sum) == \A s \in Suppliers : sum[s] = Total(Owed(inv, s))

\* Every request that is running was running before, for the same document.
NoneNew ==
  \A u \in Workers : Running(u)' => /\ Running(u)
                                    /\ tx'[u].kind = tx[u].kind
                                    /\ tx'[u].invoice = tx[u].invoice
                                    /\ tx'[u].request = tx[u].request

-----------------------------------------------------------------------------
(***************************************************************************)
(* What each step does to the database and to the requests                 *)
(***************************************************************************)

\* The contents of a request are natural numbers, and no more is paid than is owed.
LEMMA ContentsTypes ==
  ASSUME NEW c \in Contents
  PROVE  /\ c.goods \in Goods /\ c.status \in {"DRAFT", "COMPLETED"}
         /\ c.goods.bought \in Nat /\ c.goods.bonus \in Nat /\ c.goods.total \in Nat
         /\ c.paid \in Nat /\ c.goods.total - c.paid \in Nat
         /\ c.status = "DRAFT" => c.paid = 0
<1>1. /\ c.goods \in Goods /\ c.status \in {"DRAFT", "COMPLETED"}
      /\ c.paid \in {0} \cup Amounts
      /\ c.paid <= (IF c.status = "COMPLETED" THEN c.goods.total ELSE 0)
  BY DEF Contents
<1>2. /\ c.goods.bought \in Nat /\ c.goods.bonus \in Nat /\ c.goods.total \in Nat
      /\ c.paid \in Nat
  <2>1. /\ c.goods \in Goods /\ c.paid \in {0} \cup Amounts
    BY <1>1
  <2>2. \A g \in Goods : g.bought \in Nat \ {0} /\ g.bonus \in Nat /\ g.total \in Nat
    BY PurchasingAssumption
  <2>3. Amounts \subseteq Nat \ {0}
    BY PurchasingAssumption
  <2>4. c.paid \in Nat
    <3>1. CASE c.paid = 0
      BY <3>1
    <3>2. CASE c.paid \in Amounts
      BY <3>2, <2>3
    <3> QED
      BY <2>1, <3>1, <3>2
  <2>5. c.goods.bought \in Nat \ {0} /\ c.goods.bonus \in Nat /\ c.goods.total \in Nat
    BY <2>1, <2>2
  <2> QED
    BY <2>4, <2>5
<1>3. c.status = "COMPLETED" => c.paid <= c.goods.total
  BY <1>1
<1>4. c.status = "DRAFT" => c.paid <= 0
  BY <1>1
<1> QED
  BY <1>1, <1>2, <1>3, <1>4

\* A running request has the fields of one, and idle is not running.
LEMMA RunningTypes ==
  ASSUME Types, NEW w \in Workers
  PROVE  /\ ~Running(w) => tx[w] = Idle
         /\ Running(w) => /\ tx[w] \in Busy
                          /\ tx[w].invoice \in Invoices
                          /\ tx[w].request.supplier \in Suppliers
                          /\ tx[w].request.order \in Orders \cup {NoOrder}
                          /\ tx[w].kept.bought \in Nat /\ tx[w].kept.bonus \in Nat
<1>1. tx[w] \in {Idle} \cup Busy
  BY DEF Types, PurchasingTypeOK
<1>2. ~(Idle.step # "IDLE")
  BY DEF Idle
<1>3. \A b \in Busy : b.step # "IDLE"
  BY DEF Busy
<1> QED
  BY <1>1, <1>2, <1>3 DEF Running, Busy, References

\* What happens to other requests on its invoice when a request ends.
Moved(u) ==
  /\ tx'[u] \in Busy /\ tx'[u].kind = tx[u].kind
  /\ tx'[u].invoice = tx[u].invoice /\ tx'[u].request = tx[u].request

\* The end of a request starts none: it moves others on, or leaves them as they are.
LEMMA EndEffect ==
  ASSUME Types, NEW w \in Workers, Running(w), DOMAIN tx' = Workers, tx' = [u \in Workers |-> tx'[u]],
         tx'[w] = Idle,
         \A u \in Workers \ {w} : tx'[u] = tx[u] \/ (Running(u) /\ Moved(u))
  PROVE  /\ tx' \in [Workers -> {Idle} \cup Busy]
         /\ ~Running(w)' /\ NoneNew
<1>1. ASSUME NEW u \in Workers PROVE tx'[u] \in {Idle} \cup Busy
  BY DEF Types, PurchasingTypeOK, Moved
<1>2. tx' \in [Workers -> {Idle} \cup Busy]
  BY <1>1
<1>3. Idle.step = "IDLE"
  BY DEF Idle
<1>4. ~Running(w)'
  BY <1>3 DEF Running
<1>5. NoneNew
  BY <1>3 DEF NoneNew, Running, Moved
<1> QED
  BY <1>2, <1>4, <1>5

\* A commit moves on those that wait for it, and shows its lines to the others.
LEMMA ReleasedEffect ==
  ASSUME Types, NEW w \in Workers, Running(w), NEW own, own.bought \in Nat, own.bonus \in Nat,
         NEW lines \in [bought : Nat, bonus : Nat], tx' = Released(w, own, lines)
  PROVE  /\ tx' \in [Workers -> {Idle} \cup Busy]
         /\ ~Running(w)' /\ NoneNew
<1>1. tx'[w] = Idle /\ DOMAIN tx' = Workers /\ tx' = [u \in Workers |-> tx'[u]]
  BY DEF Released
<1>2. ASSUME NEW u \in Workers \ {w}
      PROVE  tx'[u] = tx[u] \/ (Running(u) /\ Moved(u))
  <2>1. tx'[u] = tx[u] \/ (Running(u) /\ tx'[u] = Informed(u, w, own, lines))
    BY DEF Released, Serving
  <2>2. ASSUME Running(u), tx'[u] = Informed(u, w, own, lines)
        PROVE  tx'[u] = tx[u] \/ Moved(u)
    <3>1. tx[u] \in Busy
      BY <2>2, RunningTypes
    <3>2. CASE tx'[u] = [tx[u] EXCEPT !.step = "REPLACED", !.blind = TRUE, !.kept = lines]
      BY <3>1, <3>2 DEF Moved, Busy
    <3>3. CASE tx'[u] = [tx[u] EXCEPT !.kept = Both(own, tx[u].kept)]
      <4>1. Both(own, tx[u].kept) \in [bought : Nat, bonus : Nat]
        BY <3>1 DEF Busy, Both
      <4> QED
        BY <3>1, <3>3, <4>1 DEF Moved, Busy
    <3> QED
      BY <2>2, <3>2, <3>3 DEF Informed
  <2> QED
    BY <2>1, <2>2
<1> QED
  BY <1>1, <1>2, EndEffect

\* A rollback lets those that wait for it begin their deletion anew.
LEMMA RollbackEffect ==
  ASSUME Types, NEW w \in Workers, Rollback(w)
  PROVE  Types' /\ NoneNew /\ db' = db /\ raced' = raced
<1>1. Running(w) /\ db' = db /\ raced' = raced
  BY DEF Rollback
<1>2. tx'[w] = Idle /\ DOMAIN tx' = Workers /\ tx' = [u \in Workers |-> tx'[u]]
  BY DEF Rollback
<1>3. ASSUME NEW u \in Workers \ {w}
      PROVE  tx'[u] = tx[u] \/ (Running(u) /\ Moved(u))
  <2>1. tx'[u] = tx[u] \/ (Running(u) /\ tx'[u] = [tx[u] EXCEPT !.step = "VALIDATED"])
    BY DEF Rollback, Serving
  <2>2. ASSUME Running(u), tx'[u] = [tx[u] EXCEPT !.step = "VALIDATED"]
        PROVE  Moved(u)
    <3>1. tx[u] \in Busy
      BY <2>2, RunningTypes
    <3> QED
      BY <2>2, <3>1 DEF Moved, Busy
  <2> QED
    BY <2>1, <2>2
<1>4. tx' \in [Workers -> {Idle} \cup Busy] /\ NoneNew
  BY <1>1, <1>2, <1>3, EndEffect
<1> QED
  BY <1>1, <1>4 DEF Types, PurchasingTypeOK

\* A request that begins is of the types, and the only new one.
LEMMA BeginEffect ==
  ASSUME Types, NEW w \in Workers, NEW i \in Invoices, NEW q \in References,
         NEW kind \in {"CREATE", "EDIT"}, NEW step \in {"VALIDATED", "REPLACED"},
         Begin(w, i, q, kind, step)
  PROVE  /\ Types' /\ ~Running(w) /\ db' = db
         /\ tx'[w].kind = kind /\ tx'[w].invoice = i /\ tx'[w].request = q
         /\ \A u \in Workers \ {w} : tx'[u] = tx[u]
<1> DEFINE new == [step |-> step, kind |-> kind, invoice |-> i, request |-> q, kept |-> NoLines,
                   blind |-> FALSE]
<1>1. new \in Busy
  BY DEF Busy, NoLines
<1>2. new.kind = kind /\ new.invoice = i /\ new.request = q
  OBVIOUS
<1>3. tx' = [tx EXCEPT ![w] = new] /\ ~Running(w) /\ db' = db
  BY DEF Begin
<1> HIDE DEF new
<1>4. tx' \in [Workers -> {Idle} \cup Busy]
  BY <1>1, <1>3 DEF Types, PurchasingTypeOK
<1>5. tx'[w] = new /\ \A u \in Workers \ {w} : tx'[u] = tx[u]
  BY <1>3 DEF Types, PurchasingTypeOK
<1>6. raced' \subseteq Orders \cup Invoices
  BY DEF Begin, Types, PurchasingTypeOK, References
<1> QED
  BY <1>2, <1>3, <1>4, <1>5, <1>6 DEF Types, PurchasingTypeOK

\* Saving an order writes its row alone.
LEMMA SaveOrderEffect ==
  ASSUME Types, NEW o \in Orders, NEW status \in {"DRAFT", "READY"}, NEW s \in Suppliers,
         SaveOrder(o, status, s)
  PROVE  /\ Types' /\ NoneNew
         /\ db'.order = [db.order EXCEPT ![o] = [status |-> status, supplier |-> s]]
         /\ db'.inv = db.inv /\ db'.receipts = db.receipts /\ db'.accrued = db.accrued
         /\ db'.payable = db.payable /\ db'.summary = db.summary /\ db'.received = db.received
<1> DEFINE row == [status |-> status, supplier |-> s]
<1>1. row \in OrderRows
  BY DEF OrderRows
<1>2. db' = [db EXCEPT !.order[o] = row] /\ tx' = tx
      /\ raced' \subseteq Orders \cup Invoices
  BY DEF SaveOrder, Types, PurchasingTypeOK
<1> HIDE DEF row
<1>3. db' \in Database
  BY <1>1, <1>2 DEF Types, PurchasingTypeOK, Database
<1>4. /\ db'.order = [db.order EXCEPT ![o] = row]
      /\ db'.inv = db.inv /\ db'.receipts = db.receipts /\ db'.accrued = db.accrued
      /\ db'.payable = db.payable /\ db'.summary = db.summary /\ db'.received = db.received
  BY <1>2 DEF Types, PurchasingTypeOK, Database
<1>5. NoneNew
  BY <1>2 DEF NoneNew, Running
<1> QED
  BY <1>2, <1>3, <1>4, <1>5 DEF Types, PurchasingTypeOK, row

\* A line deletion moves one edit on, and changes no document.
LEMMA DeleteLinesEffect ==
  ASSUME Types, NEW w \in Workers, DeleteLines(w)
  PROVE  Types' /\ NoneNew /\ db' = db /\ raced' = raced
<1>1. PICK step \in {"WAITING", "REPLACED"} : tx' = [tx EXCEPT ![w].step = step]
  BY DEF DeleteLines
<1>2. tx[w] \in Busy /\ db' = db /\ raced' = raced
  BY RunningTypes DEF DeleteLines, Running
<1>3. /\ tx'[w] \in Busy /\ tx'[w].kind = tx[w].kind
      /\ tx'[w].invoice = tx[w].invoice /\ tx'[w].request = tx[w].request
  BY <1>1, <1>2 DEF Busy, Types, PurchasingTypeOK
<1>4. \A u \in Workers \ {w} : tx'[u] = tx[u]
  BY <1>1 DEF Types, PurchasingTypeOK
<1>5. tx' \in [Workers -> {Idle} \cup Busy]
  BY <1>1, <1>3, <1>4 DEF Types, PurchasingTypeOK
<1>6. NoneNew
  BY <1>2, <1>3, <1>4 DEF NoneNew, Running, Busy
<1> QED
  BY <1>2, <1>5, <1>6 DEF Types, PurchasingTypeOK

\* A payment takes the same amount from the invoice, the ledger and the summary.
LEMMA AddPaymentEffect ==
  ASSUME Types, NEW i \in Invoices, NEW a \in Amounts, AddPayment(i, a)
  PROVE  LET s == db.inv[i].supplier
             row == [db.inv[i] EXCEPT !.paid = @ + a, !.outstanding = @ - a]
         IN  /\ Types' /\ NoneNew /\ raced' = raced
             /\ db.inv[i].status = "COMPLETED" /\ s \in Suppliers
             /\ db'.inv = [db.inv EXCEPT ![i] = row]
             /\ db'.order = db.order /\ db'.receipts = db.receipts /\ db'.accrued = db.accrued
             /\ db'.received = db.received
             /\ db'.payable = db.payable - a
             /\ db'.summary = [db.summary EXCEPT ![s] = @ - a]
<1> DEFINE s == db.inv[i].supplier
           row == [db.inv[i] EXCEPT !.paid = @ + a, !.outstanding = @ - a]
<1>1. /\ db.inv[i] \in InvoiceRows /\ s \in Suppliers /\ db.summary[s] \in Nat
      /\ db.payable \in Int /\ a \in Nat
      /\ db.inv[i].paid \in Nat /\ db.inv[i].outstanding \in Nat
  BY PurchasingAssumption DEF Types, PurchasingTypeOK, Database, InvoiceRows
<1>2. /\ db.inv[i].status = "COMPLETED" /\ a <= db.inv[i].outstanding /\ a <= db.summary[s]
      /\ tx' = tx /\ raced' = raced
  BY DEF AddPayment, CanPay
<1>3. row \in InvoiceRows
  <2>1. db.inv[i].paid + a \in Nat /\ db.inv[i].outstanding - a \in Nat
    BY <1>1, <1>2
  <2>2. ASSUME NEW p \in Nat, NEW n \in Nat
        PROVE  [db.inv[i] EXCEPT !.paid = p, !.outstanding = n] \in InvoiceRows
    BY <1>1 DEF InvoiceRows
  <2> QED
    BY <2>1, <2>2
<1>4. /\ db'.inv = [db.inv EXCEPT ![i] = row]
      /\ db'.order = db.order /\ db'.receipts = db.receipts /\ db'.accrued = db.accrued
      /\ db'.received = db.received
      /\ db'.payable = db.payable - a
      /\ db'.summary = [db.summary EXCEPT ![s] = @ - a]
  BY <1>1 DEF AddPayment, Types, PurchasingTypeOK, Database
<1>5. db'.inv \in [Invoices -> InvoiceRows] /\ db'.summary \in [Suppliers -> Nat]
      /\ db'.payable \in Int
  <2> HIDE DEF row, s
  <2> QED
    BY <1>1, <1>2, <1>3, <1>4 DEF Types, PurchasingTypeOK, Database
<1>6. db' \in Database
  <2> DEFINE O == [Orders -> OrderRows]
             I == [Invoices -> InvoiceRows]
             N == [Invoices -> Nat]
             S == [Suppliers -> Int]
  <2>1. Database = [order : O, inv : I, received : N, receipts : N, accrued : N,
                    payable : Int, summary : S]
    BY DEF Database
  <2>2. db \in Database /\ db'.inv \in I /\ db'.payable \in Int /\ db'.summary \in S
    BY <1>5 DEF Types, PurchasingTypeOK
  <2>3. db' = [db EXCEPT !.inv[i] = row, !.payable = @ - a, !.summary[s] = @ - a]
    <3>1. DOMAIN db = {"order", "inv", "received", "receipts", "accrued", "payable", "summary"}
      BY <2>1, <2>2
    <3>2. i \in DOMAIN db.inv
      BY DEF Types, PurchasingTypeOK, Database
    <3> QED
      BY <3>1, <3>2, <1>1 DEF AddPayment, InvoiceRows
  <2> HIDE DEF O, I, N, S, row
  <2> QED
    BY <2>1, <2>2, <2>3
<1>7. NoneNew
  BY <1>2 DEF NoneNew, Running
<1> QED
  BY <1>1, <1>2, <1>4, <1>5, <1>6, <1>7 DEF Types, PurchasingTypeOK

\* A converted loan is owed in full and takes no goods into stock.
LEMMA ConvertLoanEffect ==
  ASSUME Types, NEW i \in Invoices, NEW s \in Suppliers, NEW total \in Nat,
         ConvertLoan(i, s, total)
  PROVE  /\ Types' /\ NoneNew /\ raced' = raced
         /\ db.inv[i].status = "NONE" /\ Serving(i) = {}
         /\ db'.inv = [db.inv EXCEPT ![i] =
                         [status |-> "COMPLETED", supplier |-> s, order |-> NoOrder,
                          bought |-> 0, bonus |-> 0, total |-> total,
                          paid |-> 0, outstanding |-> total]]
         /\ db'.order = db.order /\ db'.receipts = db.receipts /\ db'.received = db.received
         /\ db'.accrued = [db.accrued EXCEPT ![i] = total]
         /\ db'.payable = db.payable + total
         /\ db'.summary = [db.summary EXCEPT ![s] = @ + total]
<1> DEFINE row == [status |-> "COMPLETED", supplier |-> s, order |-> NoOrder,
                   bought |-> 0, bonus |-> 0, total |-> total,
                   paid |-> 0, outstanding |-> total]
<1>1. row \in InvoiceRows
  BY DEF InvoiceRows
<1>2. /\ tx' = tx /\ raced' = raced /\ db.inv[i].status = "NONE" /\ Serving(i) = {}
      /\ db' = [db EXCEPT !.inv[i] = row, !.accrued[i] = total,
                          !.payable = @ + total, !.summary[s] = @ + total]
  BY DEF ConvertLoan
<1> HIDE DEF row
<1>3. /\ db'.inv = [db.inv EXCEPT ![i] = row]
      /\ db'.order = db.order /\ db'.receipts = db.receipts /\ db'.received = db.received
      /\ db'.accrued = [db.accrued EXCEPT ![i] = total]
      /\ db'.payable = db.payable + total
      /\ db'.summary = [db.summary EXCEPT ![s] = @ + total]
  BY <1>2 DEF Types, PurchasingTypeOK, Database
<1>4. /\ db'.inv \in [Invoices -> InvoiceRows] /\ db'.summary \in [Suppliers -> Nat]
      /\ db'.payable \in Int /\ db'.accrued \in [Invoices -> Nat]
  BY <1>1, <1>3 DEF Types, PurchasingTypeOK, Database
<1>5. db' \in Database
  <2> DEFINE O == [Orders -> OrderRows]
             I == [Invoices -> InvoiceRows]
             N == [Invoices -> Nat]
             S == [Suppliers -> Int]
  <2>1. Database = [order : O, inv : I, received : N, receipts : N, accrued : N,
                    payable : Int, summary : S]
    BY DEF Database
  <2>2. db \in Database /\ db'.inv \in I /\ db'.accrued \in N /\ db'.payable \in Int
        /\ db'.summary \in S
    BY <1>4 DEF Types, PurchasingTypeOK
  <2> HIDE DEF O, I, N, S
  <2> QED
    BY <2>1, <2>2, <1>2
<1>6. NoneNew
  BY <1>2 DEF NoneNew, Running
<1> QED
  BY <1>2, <1>3, <1>4, <1>5, <1>6 DEF Types, PurchasingTypeOK, row

\* Saving a draft writes its row and owes nothing.
LEMMA SaveDraftEffect ==
  ASSUME Types, NEW w \in Workers, NEW c \in Contents, Save(w, c), c.status = "DRAFT"
  PROVE  /\ Types' /\ NoneNew /\ raced' = raced
         /\ Running(w) /\ ~Running(w)'
         /\ \E row \in InvoiceRows :
              row.status = "DRAFT" /\ db'.inv = [db.inv EXCEPT ![tx[w].invoice] = row]
         /\ db'.order = db.order /\ db'.receipts = db.receipts /\ db'.accrued = db.accrued
         /\ db'.payable = db.payable /\ db'.summary = db.summary /\ db'.received = db.received
<1> DEFINE lines == Both(c.goods, tx[w].kept)
           row == Row(tx[w].request, c, lines)
           i == tx[w].invoice
<1>1. Running(w) /\ tx[w].step = "REPLACED"
  BY DEF Save, Running
<1>2. /\ lines \in [bought : Nat, bonus : Nat]
      /\ c.goods.bought \in Nat /\ c.goods.bonus \in Nat
  BY <1>1, ContentsTypes, RunningTypes DEF Both
<1>3. row \in InvoiceRows /\ row.status = "DRAFT" /\ i \in Invoices
  <2> HIDE DEF lines
  <2>1. lines.bought \in Nat /\ lines.bonus \in Nat
    BY <1>2
  <2> QED
    BY <2>1, <1>1, ContentsTypes, RunningTypes DEF Row, InvoiceRows
<1>4. db' = [db EXCEPT !.inv[i] = row] /\ tx' = Released(w, c.goods, lines) /\ raced' = raced
  BY DEF Save
<1> HIDE DEF lines, row, i
<1>5. tx' \in [Workers -> {Idle} \cup Busy] /\ ~Running(w)' /\ NoneNew
  BY <1>1, <1>2, <1>4, ReleasedEffect
<1>6. db' \in Database /\ db'.summary = db.summary
  BY <1>3, <1>4 DEF Types, PurchasingTypeOK, Database
<1>7. /\ db'.inv = [db.inv EXCEPT ![i] = row]
      /\ db'.order = db.order /\ db'.receipts = db.receipts /\ db'.accrued = db.accrued
      /\ db'.payable = db.payable /\ db'.received = db.received
  BY <1>4 DEF Types, PurchasingTypeOK, Database
<1> QED
  BY <1>1, <1>3, <1>4, <1>5, <1>6, <1>7 DEF Types, PurchasingTypeOK, i

\* What completing invoice i for a request on order o of supplier s changes.
Completes(i, o, s, row, total, due) ==
  /\ db'.inv = [db.inv EXCEPT ![i] = row]
  /\ \E n \in Nat : db'.received = [db.received EXCEPT ![i] = @ + n]
  /\ db'.receipts = [db.receipts EXCEPT ![i] = @ + 1]
  /\ db'.accrued = [db.accrued EXCEPT ![i] = @ + total]
  /\ db'.payable = db.payable + due
  /\ db'.summary = [db.summary EXCEPT ![s] = @ + due]
  /\ db'.order = IF o = NoOrder THEN db.order
                 ELSE [db.order EXCEPT ![o] = [status |-> "COMPLETED", supplier |-> @.supplier]]

\* Saving a completed invoice receives it, owes what is unpaid and closes its order.
LEMMA SaveCompletedEffect ==
  ASSUME Types, NEW w \in Workers, NEW c \in Contents, Save(w, c), c.status = "COMPLETED"
  PROVE  /\ Types' /\ NoneNew /\ raced' = raced
         /\ Running(w) /\ ~Running(w)'
         /\ CanAccrue(tx[w].invoice, c.goods.total)
         /\ \E row \in InvoiceRows :
              /\ row.status = "COMPLETED" /\ row.supplier = tx[w].request.supplier
              /\ row.order = tx[w].request.order
              /\ row.outstanding = c.goods.total - c.paid
              /\ Completes(tx[w].invoice, tx[w].request.order, tx[w].request.supplier, row,
                           c.goods.total, c.goods.total - c.paid)
<1> DEFINE lines == Both(c.goods, tx[w].kept)
           row == Row(tx[w].request, c, lines)
           i == tx[w].invoice
           s == tx[w].request.supplier
           o == tx[w].request.order
           n == lines.bought + lines.bonus
           got == db.received[i] + n
           times == db.receipts[i] + 1
           entry == db.accrued[i] + c.goods.total
           due == c.goods.total - c.paid
           sum == db.summary[s] + due
<1>1. Running(w) /\ tx[w].step = "REPLACED"
  BY DEF Save, Running
<1>2. /\ lines \in [bought : Nat, bonus : Nat]
      /\ lines.bought \in Nat /\ lines.bonus \in Nat
      /\ c.goods.bought \in Nat /\ c.goods.bonus \in Nat
  BY <1>1, ContentsTypes, RunningTypes DEF Both
<1>3. /\ row \in InvoiceRows /\ row.status = "COMPLETED"
      /\ row.supplier = s /\ row.order = o /\ row.outstanding = due
      /\ i \in Invoices /\ s \in Suppliers /\ o \in Orders \cup {NoOrder}
  <2> HIDE DEF lines
  <2> QED
    BY <1>1, <1>2, ContentsTypes, RunningTypes DEF Row, InvoiceRows
<1>4. /\ n \in Nat /\ got \in Nat /\ times \in Nat /\ entry \in Nat /\ due \in Nat /\ sum \in Nat
      /\ db.payable + due \in Int
  <2> HIDE DEF lines
  <2>1. /\ db.received[i] \in Nat /\ db.receipts[i] \in Nat /\ db.accrued[i] \in Nat
        /\ db.summary[s] \in Nat /\ db.payable \in Int
    BY <1>3 DEF Types, PurchasingTypeOK, Database
  <2> QED
    BY <1>2, <2>1, ContentsTypes
<1>5. tx' = Released(w, c.goods, lines) /\ raced' = raced /\ CanAccrue(i, c.goods.total)
  BY DEF Save
<1>6. tx' \in [Workers -> {Idle} \cup Busy] /\ ~Running(w)' /\ NoneNew
  <2> HIDE DEF lines
  <2> QED
    BY <1>1, <1>2, <1>5, ReleasedEffect
<1> DEFINE paid == [db EXCEPT !.inv[i] = row, !.received[i] = got, !.receipts[i] = times,
                              !.accrued[i] = entry, !.payable = db.payable + due,
                              !.summary[s] = sum]
<1>7. db' = OrderDone(paid, o)
  <2>1. /\ i \in DOMAIN db.inv /\ i \in DOMAIN db.received /\ i \in DOMAIN db.receipts
        /\ i \in DOMAIN db.accrued /\ s \in DOMAIN db.summary
        /\ DOMAIN db = {"order", "inv", "received", "receipts", "accrued", "payable", "summary"}
    BY <1>3 DEF Types, PurchasingTypeOK, Database
  <2>2. db' = OrderDone(Owe(Received([db EXCEPT !.inv[i] = row], i, lines), i, s, c), o)
    BY DEF Save
  <2>3. Received([db EXCEPT !.inv[i] = row], i, lines)
          = [db EXCEPT !.inv[i] = row, !.received[i] = got, !.receipts[i] = times]
    <3>1. db.received[i] \in Nat /\ lines.bought \in Nat /\ lines.bonus \in Nat
      BY <1>2, <1>3 DEF Types, PurchasingTypeOK, Database
    <3> HIDE DEF lines, row, i
    <3>2. got = db.received[i] + lines.bought + lines.bonus
      BY <3>1
    <3> HIDE DEF got
    <3> QED
      BY <2>1, <3>2 DEF Received
  <2>4. Owe([db EXCEPT !.inv[i] = row, !.received[i] = got, !.receipts[i] = times], i, s, c)
          = paid
    <3> HIDE DEF lines, row, i, s, got, times
    <3> QED
      BY <2>1 DEF Owe
  <2> HIDE DEF paid, lines, row, i, s, o
  <2> QED
    BY <2>2, <2>3, <2>4
<1> HIDE DEF lines, row, i, s, o, n, got, times, entry, due, sum
<1>8. /\ paid \in Database /\ paid.summary \in [Suppliers -> Nat]
      /\ paid.order = db.order
      /\ paid.inv = [db.inv EXCEPT ![i] = row]
      /\ paid.received = [db.received EXCEPT ![i] = got]
      /\ paid.receipts = [db.receipts EXCEPT ![i] = times]
      /\ paid.accrued = [db.accrued EXCEPT ![i] = entry]
      /\ paid.payable = db.payable + due
      /\ paid.summary = [db.summary EXCEPT ![s] = sum]
  <2> DEFINE O == [Orders -> OrderRows]
             I == [Invoices -> InvoiceRows]
             N == [Invoices -> Nat]
             S == [Suppliers -> Int]
  <2>1. Database = [order : O, inv : I, received : N, receipts : N, accrued : N,
                    payable : Int, summary : S]
    BY DEF Database
  <2>2. /\ db \in Database /\ [db.inv EXCEPT ![i] = row] \in I
        /\ [db.received EXCEPT ![i] = got] \in N /\ [db.receipts EXCEPT ![i] = times] \in N
        /\ [db.accrued EXCEPT ![i] = entry] \in N /\ db.payable + due \in Int
        /\ [db.summary EXCEPT ![s] = sum] \in S
        /\ [db.summary EXCEPT ![s] = sum] \in [Suppliers -> Nat]
    BY <1>3, <1>4 DEF Types, PurchasingTypeOK, Database
  <2> HIDE DEF O, I, N, S
  <2> QED
    BY <2>1, <2>2
<1> HIDE DEF paid
<1>9. CASE o = NoOrder
  <2>1. db' = paid
    BY <1>7, <1>9 DEF OrderDone
  <2>2. Completes(i, o, s, row, c.goods.total, due)
    BY <1>4, <1>8, <1>9, <2>1 DEF Completes, got, times, entry, sum
  <2> QED
    BY <1>1, <1>3, <1>5, <1>6, <1>8, <2>1, <2>2 DEF Types, PurchasingTypeOK, i, s, o, due
<1>10. CASE o # NoOrder
  <2>1. o \in Orders /\ db' = [paid EXCEPT !.order[o].status = "COMPLETED"]
    BY <1>3, <1>7, <1>10 DEF OrderDone
  <2>2. db.order \in [Orders -> OrderRows]
    BY DEF Types, PurchasingTypeOK, Database
  <2> DEFINE done == [status |-> "COMPLETED", supplier |-> db.order[o].supplier]
  <2>3. done \in OrderRows /\ [db.order[o] EXCEPT !.status = "COMPLETED"] = done
    BY <2>1, <2>2 DEF OrderRows
  <2>4. db' = [paid EXCEPT !.order[o] = done]
    <3>1. o \in DOMAIN paid.order /\ "order" \in DOMAIN paid
      BY <1>8, <2>1, <2>2 DEF Database
    <3> HIDE DEF done
    <3> QED
      BY <2>1, <2>3, <1>8, <3>1
  <2> HIDE DEF done
  <2>5. /\ db' \in Database /\ db'.order = [db.order EXCEPT ![o] = done]
        /\ db'.inv = paid.inv /\ db'.received = paid.received
        /\ db'.receipts = paid.receipts /\ db'.accrued = paid.accrued
        /\ db'.payable = paid.payable /\ db'.summary = paid.summary
    <3>1. db' \in Database
      BY <1>8, <2>1, <2>3, <2>4 DEF Database
    <3>2. db'.order = [db.order EXCEPT ![o] = done]
      BY <1>8, <2>4 DEF Database
    <3>3. /\ db'.inv = paid.inv /\ db'.received = paid.received
          /\ db'.receipts = paid.receipts /\ db'.accrued = paid.accrued
          /\ db'.payable = paid.payable /\ db'.summary = paid.summary
      BY <1>8, <2>4 DEF Database
    <3> QED
      BY <3>1, <3>2, <3>3
  <2>6. Types'
    BY <1>5, <1>6, <1>8, <2>5 DEF Types, PurchasingTypeOK
  <2>7. Completes(i, o, s, row, c.goods.total, due)
    <3>1. db'.order = [db.order EXCEPT ![o] = [status |-> "COMPLETED", supplier |-> @.supplier]]
      BY <2>5 DEF done
    <3> QED
      BY <1>4, <1>8, <1>10, <2>5, <3>1 DEF Completes, got, times, entry, sum
  <2> QED
    BY <1>1, <1>3, <1>5, <1>6, <2>6, <2>7 DEF i, s, o, due
<1> QED
  BY <1>9, <1>10

-----------------------------------------------------------------------------
(***************************************************************************)
(* The sums                                                                *)
(***************************************************************************)

\* Rows and summaries agree after a step that changes one row, and the summary of its
\* supplier by as much.
LEMMA DebtsFollow ==
  ASSUME NEW inv \in [Invoices -> InvoiceRows], NEW i \in Invoices, NEW row \in InvoiceRows,
         NEW s \in Suppliers, NEW sum \in [Suppliers -> Nat], NEW new \in Nat,
         inv[i].status = "COMPLETED" => inv[i].supplier = s,
         row.status = "COMPLETED" => row.supplier = s,
         new = sum[s] - Due(inv[i]) + Due(row), Matches(inv, sum)
  PROVE  Matches([inv EXCEPT ![i] = row], [sum EXCEPT ![s] = new])
<1> DEFINE next == [inv EXCEPT ![i] = row]
<1>1. next \in [Invoices -> InvoiceRows] /\ next[i] = row
      /\ \A j \in Invoices \ {i} : next[j] = inv[j]
  OBVIOUS
<1> HIDE DEF next
<1>2. ASSUME NEW u \in Suppliers
      PROVE  [sum EXCEPT ![s] = new][u] = Total(Owed(next, u))
  <2> DEFINE f == Owed(inv, u)
             g == Owed(next, u)
  <2>1. \A r \in InvoiceRows : r.outstanding \in Nat
    BY DEF InvoiceRows
  <2>2. f \in [Invoices -> Nat] /\ g \in [Invoices -> Nat]
    BY <1>1, <2>1 DEF Owed
  <2>3. \A j \in Invoices \ {i} : g[j] = f[j]
    BY <1>1 DEF Owed
  <2>4. /\ f[i] = IF inv[i].status = "COMPLETED" /\ inv[i].supplier = u
                  THEN inv[i].outstanding ELSE 0
        /\ g[i] = IF row.status = "COMPLETED" /\ row.supplier = u THEN row.outstanding ELSE 0
    BY <1>1 DEF Owed
  <2>5. sum[u] = Total(f)
    BY DEF Matches
  <2> HIDE DEF f, g
  <2>6. Total(g) = Total(f) - f[i] + g[i]
    BY <2>2, <2>3, TotalUpdate, PurchasingAssumption
  <2>7. CASE u = s
    <3>1. f[i] = Due(inv[i])
      BY <2>4, <2>7 DEF Due
    <3>2. g[i] = Due(row)
      BY <2>4, <2>7 DEF Due
    <3>3. [sum EXCEPT ![s] = new][u] = new
      BY <2>7
    <3> QED
      BY <2>5, <2>6, <2>7, <3>1, <3>2, <3>3 DEF g
  <2>8. CASE u # s
    <3>1. f[i] = 0 /\ g[i] = 0
      BY <2>4, <2>8
    <3>2. Total(f) \in Nat
      BY <2>2, TotalType, PurchasingAssumption
    <3> QED
      BY <2>5, <2>6, <2>8, <3>1, <3>2 DEF g
  <2> QED
    BY <2>7, <2>8
<1> QED
  BY <1>2 DEF next, Matches

\* The ledger follows the summaries when both change by the same amount.
LEMMA LedgerFollows ==
  ASSUME NEW sum \in [Suppliers -> Nat], NEW s \in Suppliers, NEW new \in Nat
  PROVE  Total([sum EXCEPT ![s] = new]) = Total(sum) - sum[s] + new
<1> DEFINE next == [sum EXCEPT ![s] = new]
<1>1. /\ next \in [Suppliers -> Nat] /\ next[s] = new
      /\ \A u \in Suppliers \ {s} : next[u] = sum[u]
  OBVIOUS
<1> HIDE DEF next
<1>2. Total(next) = Total(sum) - sum[s] + next[s]
  BY <1>1, TotalUpdate, PurchasingAssumption
<1> QED
  BY <1>1, <1>2 DEF next

-----------------------------------------------------------------------------
(***************************************************************************)
(* The invariant                                                           *)
(***************************************************************************)

\* No two requests ever used the same invoice at once.
OneByOne == raced \cap Invoices = {}

Ledger == db.payable = Total(db.summary)

Debts == OneByOne => Matches(db.inv, db.summary)

\* A request that shared its invoice with none finds it as it left it: not completed.
Alone ==
  OneByOne =>
    \A w \in Workers : Running(w) =>
      /\ db.inv[tx[w].invoice].status # "COMPLETED"
      /\ \A u \in Workers : Running(u) /\ tx[u].invoice = tx[w].invoice => u = w

BoughtBy(o, i) == Completed(i) /\ db.inv[i].order = o

\* An order that no two requests used at once is still READY, and nobody's, for the one
\* that refers to it.
Promised(o) ==
  /\ \A w \in Workers : Running(w) /\ tx[w].request.order = o =>
       /\ db.order[o] = [status |-> "READY", supplier |-> tx[w].request.supplier]
       /\ \A u \in Workers : Running(u) /\ tx[u].request.order = o => u = w
  /\ \A i \in Invoices : BoughtBy(o, i) =>
       /\ db.inv[i].supplier = db.order[o].supplier
       /\ \A j \in Invoices : BoughtBy(o, j) => j = i
  /\ db.order[o].status = "COMPLETED" <=> \E i \in Invoices : BoughtBy(o, i)

OrdersPromised == OneByOne => \A o \in Orders \ raced : Promised(o)

\* Goods came in with the one entry of the invoice; only a loan has an entry and none.
ReceivedOnce(i) ==
  /\ db.receipts[i] <= 1
  /\ db.receipts[i] > 0 => db.accrued[i] > 0
  /\ db.accrued[i] > 0 /\ db.receipts[i] = 0 =>
       db.inv[i].bought = 0 /\ Completed(i) /\ Serving(i) = {}

Priced == \A g \in Goods : g.total > 0

Receipts == Priced => \A i \in Invoices : ReceivedOnce(i)

InBooks(i) == db.receipts[i] > 0 \/ db.accrued[i] > 0

\* What is in stock or in the journal is of a completed invoice; and whoever works on an
\* invoice finds it not completed, and is the only one.
Undisturbed(i) ==
  /\ InBooks(i) => Completed(i)
  /\ \A w \in Workers : Running(w) /\ tx[w].invoice = i =>
       /\ ~Completed(i)
       /\ \A u \in Workers : Running(u) /\ tx[u].invoice = i => u = w

Books == \A i \in Invoices \ raced : Undisturbed(i)

Inv == Types /\ Ledger /\ Debts /\ Alone /\ OrdersPromised /\ Receipts /\ Books

-----------------------------------------------------------------------------
(***************************************************************************)
(* Every step preserves it                                                 *)
(***************************************************************************)

\* Nobody new serves an invoice or refers to an order.
LEMMA NoneNewServes ==
  ASSUME NoneNew, NEW i, Serving(i) = {}
  PROVE  Serving(i)' = {}
BY DEF NoneNew, Serving

\* An invoice whose books and status stay, while nobody begins on it.
LEMMA BooksStay ==
  ASSUME Inv, NoneNew, raced \subseteq raced', NEW i \in Invoices \ raced',
         Completed(i)' <=> Completed(i), InBooks(i)' => InBooks(i)
  PROVE  Undisturbed(i)'
<1>1. Undisturbed(i)
  BY DEF Inv, Books
<1>2. \A u \in Workers : Running(u)' => Running(u) /\ tx'[u].invoice = tx[u].invoice
  BY DEF NoneNew
<1>3. InBooks(i)' => Completed(i)'
  BY <1>1 DEF Undisturbed
<1>4. ASSUME NEW w \in Workers, Running(w)', tx'[w].invoice = i
      PROVE  /\ ~Completed(i)'
             /\ \A u \in Workers : Running(u)' /\ tx'[u].invoice = i => u = w
  BY <1>1, <1>2, <1>4 DEF Undisturbed
<1> QED
  BY <1>3, <1>4 DEF Undisturbed

\* The invoice of a request that ends: nobody else was at it, and nothing was in the books.
LEMMA BooksClose ==
  ASSUME Inv, NoneNew, raced' = raced, NEW w \in Workers, Running(w), ~Running(w)',
         NEW i \in Invoices \ raced, tx[w].invoice = i, InBooks(i)' => InBooks(i) \/ Completed(i)'
  PROVE  Undisturbed(i)'
<1>1. Undisturbed(i)
  BY DEF Inv, Books
<1>2. \A u \in Workers : Running(u)' => Running(u) /\ tx'[u].invoice = tx[u].invoice
  BY DEF NoneNew
<1>3. ~InBooks(i) /\ \A u \in Workers : Running(u) /\ tx[u].invoice = i => u = w
  BY <1>1 DEF Undisturbed
<1>4. \A u \in Workers : ~(Running(u)' /\ tx'[u].invoice = i)
  BY <1>2, <1>3
<1> QED
  BY <1>3, <1>4 DEF Undisturbed

\* Steps that change no document keep the invariant.
LEMMA QuietKeeps ==
  ASSUME Inv, Types', NoneNew, db' = db, raced' = raced
  PROVE  Inv'
<1>1. Ledger' /\ Debts'
  BY DEF Inv, Ledger, Debts, OneByOne
<1>2. Alone'
  BY DEF Inv, Alone, OneByOne, NoneNew
<1>3. OrdersPromised'
  <2> SUFFICES ASSUME OneByOne', NEW o \in Orders \ raced PROVE Promised(o)'
    BY DEF OrdersPromised
  <2>1. Promised(o)
    BY DEF Inv, OrdersPromised, OneByOne
  <2> QED
    BY <2>1 DEF Promised, NoneNew, BoughtBy, Completed
<1>4. Receipts'
  <2> SUFFICES ASSUME Priced, NEW i \in Invoices PROVE ReceivedOnce(i)'
    BY DEF Receipts, Priced
  <2>1. ReceivedOnce(i)
    BY DEF Inv, Receipts
  <2> QED
    BY <2>1, NoneNewServes DEF ReceivedOnce, Completed
<1>5. Books'
  <2> SUFFICES ASSUME NEW i \in Invoices \ raced' PROVE Undisturbed(i)'
    BY DEF Books
  <2>1. (Completed(i)' <=> Completed(i)) /\ (InBooks(i)' => InBooks(i))
    BY DEF Completed, InBooks
  <2> QED
    BY <2>1, BooksStay
<1> QED
  BY <1>1, <1>2, <1>3, <1>4, <1>5 DEF Inv

\* Saving an order that somebody is invoicing is what "raced" notes; any other order
\* is not completed, and stays so.
LEMMA SaveOrderKeeps ==
  ASSUME Inv, NEW o \in Orders, NEW status \in {"DRAFT", "READY"}, NEW s \in Suppliers,
         SaveOrder(o, status, s), db.order[o].status # "COMPLETED"
  PROVE  Inv'
<1>1. Types
  BY DEF Inv
<1>2. /\ Types' /\ NoneNew
      /\ db'.order = [db.order EXCEPT ![o] = [status |-> status, supplier |-> s]]
      /\ db'.inv = db.inv /\ db'.receipts = db.receipts /\ db'.accrued = db.accrued
      /\ db'.payable = db.payable /\ db'.summary = db.summary
  BY <1>1, SaveOrderEffect
<1>3. /\ db.order[o].status # "COMPLETED" /\ raced \subseteq raced'
      /\ Ordering(o) # {} => o \in raced'
  BY DEF SaveOrder
<1>4. OneByOne' => OneByOne
  BY <1>3 DEF OneByOne
<1>5. Ledger' /\ Debts'
  BY <1>2, <1>4 DEF Inv, Ledger, Debts
<1>6. Alone'
  BY <1>2, <1>4 DEF Inv, Alone, NoneNew
<1>7. OrdersPromised'
  <2> SUFFICES ASSUME OneByOne', NEW p \in Orders \ raced' PROVE Promised(p)'
    BY DEF OrdersPromised
  <2>1. Promised(p)
    BY <1>3, <1>4 DEF Inv, OrdersPromised
  <2>2. \A i \in Invoices : BoughtBy(p, i)' <=> BoughtBy(p, i)
    BY <1>2 DEF BoughtBy, Completed
  <2>3. CASE p = o
    <3>1. \A w \in Workers : ~(Running(w)' /\ tx'[w].request.order = p)
      BY <1>2, <1>3, <2>3 DEF Ordering, NoneNew
    <3>2. db'.order[p] = [status |-> status, supplier |-> s]
      BY <1>1, <1>2, <2>3 DEF Types, PurchasingTypeOK, Database
    <3>3. db'.order[p].status # "COMPLETED" /\ \A i \in Invoices : ~BoughtBy(p, i)
      BY <1>3, <2>1, <2>3, <3>2 DEF Promised
    <3> QED
      BY <3>1, <3>3, <2>2 DEF Promised
  <2>4. CASE p # o
    <3>1. db'.order[p] = db.order[p]
      BY <1>1, <1>2, <2>4 DEF Types, PurchasingTypeOK, Database
    <3> QED
      BY <1>2, <2>1, <2>2, <3>1 DEF Promised, NoneNew
  <2> QED
    BY <2>3, <2>4
<1>8. Receipts'
  <2> SUFFICES ASSUME Priced, NEW i \in Invoices PROVE ReceivedOnce(i)'
    BY DEF Receipts, Priced
  <2>1. ReceivedOnce(i)
    BY DEF Inv, Receipts
  <2> QED
    BY <1>2, <2>1, NoneNewServes DEF ReceivedOnce, Completed
<1>9. Books'
  <2> SUFFICES ASSUME NEW i \in Invoices \ raced' PROVE Undisturbed(i)'
    BY DEF Books
  <2>1. (Completed(i)' <=> Completed(i)) /\ (InBooks(i)' => InBooks(i))
    BY <1>2 DEF Completed, InBooks
  <2> QED
    BY <1>2, <1>3, <2>1, BooksStay
<1> QED
  BY <1>2, <1>5, <1>6, <1>7, <1>8, <1>9 DEF Inv

\* A request that begins on an invoice or an order in use is noted; any other finds the
\* invoice not completed, and the order READY.
LEMMA BeginKeeps ==
  ASSUME Inv, NEW w \in Workers, NEW i \in Invoices, NEW q \in References,
         NEW kind \in {"CREATE", "EDIT"}, NEW step \in {"VALIDATED", "REPLACED"},
         Begin(w, i, q, kind, step), db.inv[i].status # "COMPLETED"
  PROVE  Inv'
<1>1. Types
  BY DEF Inv
<1>2. /\ Types' /\ ~Running(w) /\ db' = db
      /\ tx'[w].invoice = i /\ tx'[w].request = q
      /\ \A u \in Workers \ {w} : tx'[u] = tx[u]
  BY <1>1, BeginEffect
<1>3. /\ raced \subseteq raced'
      /\ Serving(i) # {} => i \in raced'
      /\ q.order # NoOrder /\ Ordering(q.order) # {} => q.order \in raced'
      /\ q.order # NoOrder => db.order[q.order] = [status |-> "READY", supplier |-> q.supplier]
  BY DEF Begin, ValidReferences
<1>4. OneByOne' => OneByOne /\ Serving(i) = {}
  BY <1>3 DEF OneByOne
<1>5. Ledger' /\ Debts'
  BY <1>2, <1>4 DEF Inv, Ledger, Debts
<1>6. Alone'
  <2> SUFFICES ASSUME OneByOne', NEW u \in Workers, Running(u)'
               PROVE  /\ db'.inv[tx'[u].invoice].status # "COMPLETED"
                      /\ \A v \in Workers : Running(v)' /\ tx'[v].invoice = tx'[u].invoice => v = u
    BY DEF Alone
  <2>1. \A v \in Workers : Running(v) => tx[v].invoice # i
    BY <1>4 DEF Serving
  <2>2. \A v \in Workers \ {w} : Running(v)' => Running(v)
    BY <1>2 DEF Running
  <2>3. Alone /\ OneByOne
    BY <1>4 DEF Inv
  <2>4. CASE u = w
    BY <1>2, <2>1, <2>2, <2>4
  <2>5. CASE u # w
    BY <1>2, <2>1, <2>2, <2>3, <2>5 DEF Alone
  <2> QED
    BY <2>4, <2>5
<1>7. OrdersPromised'
  <2> SUFFICES ASSUME OneByOne', NEW o \in Orders \ raced' PROVE Promised(o)'
    BY DEF OrdersPromised
  <2>1. Promised(o)
    BY <1>3, <1>4 DEF Inv, OrdersPromised
  <2>2. \A j \in Invoices : BoughtBy(o, j)' <=> BoughtBy(o, j)
    BY <1>2 DEF BoughtBy, Completed
  <2>3. \A v \in Workers \ {w} : Running(v)' => Running(v)
    BY <1>2 DEF Running
  <2>4. o # NoOrder
    BY PurchasingAssumption
  <2>5. q.order = o => \A v \in Workers : ~(Running(v) /\ tx[v].request.order = o)
    BY <1>3, <2>4 DEF Ordering
  <2>6. ASSUME NEW u \in Workers, Running(u)', tx'[u].request.order = o
        PROVE  /\ db'.order[o] = [status |-> "READY", supplier |-> tx'[u].request.supplier]
               /\ \A v \in Workers : Running(v)' /\ tx'[v].request.order = o => v = u
    <3>1. CASE u = w
      BY <1>2, <1>3, <2>3, <2>4, <2>5, <2>6, <3>1
    <3>2. CASE u # w
      <4>1. Running(u) /\ tx[u].request.order = o /\ tx'[u] = tx[u]
        BY <1>2, <2>3, <2>6, <3>2
      <4>2. q.order # o
        BY <2>5, <4>1
      <4> QED
        BY <1>2, <2>1, <2>3, <4>1, <4>2 DEF Promised
    <3> QED
      BY <3>1, <3>2
  <2> QED
    BY <1>2, <2>1, <2>2, <2>6 DEF Promised
<1>8. Receipts'
  <2> SUFFICES ASSUME Priced, NEW j \in Invoices PROVE ReceivedOnce(j)'
    BY DEF Receipts, Priced
  <2>1. ReceivedOnce(j)
    BY DEF Inv, Receipts
  <2>2. Completed(j) => j # i
    BY DEF Completed
  <2>3. j # i /\ Serving(j) = {} => Serving(j)' = {}
    BY <1>2 DEF Serving, Running
  <2> QED
    BY <1>2, <2>1, <2>2, <2>3 DEF ReceivedOnce, Completed
<1>9. Books'
  <2> SUFFICES ASSUME NEW j \in Invoices \ raced' PROVE Undisturbed(j)'
    BY DEF Books
  <2>1. Undisturbed(j)
    BY <1>3 DEF Inv, Books
  <2>2. \A v \in Workers \ {w} : Running(v)' => Running(v)
    BY <1>2 DEF Running
  <2>3. (Completed(j)' <=> Completed(j)) /\ (InBooks(j)' <=> InBooks(j))
    BY <1>2 DEF Completed, InBooks
  <2>4. CASE j = i
    <3>1. ~Completed(j) /\ \A v \in Workers : Running(v) => tx[v].invoice # j
      BY <1>3, <2>4 DEF Serving, Completed
    <3>2. \A v \in Workers : Running(v)' /\ tx'[v].invoice = j => v = w
      BY <1>2, <2>2, <3>1
    <3> QED
      BY <2>1, <2>3, <3>1, <3>2 DEF Undisturbed
  <2>5. CASE j # i
    <3>1. \A v \in Workers : Running(v)' /\ tx'[v].invoice = j => Running(v) /\ tx[v].invoice = j
      BY <1>2, <2>2, <2>5
    <3> QED
      BY <2>1, <2>3, <3>1 DEF Undisturbed
  <2> QED
    BY <2>4, <2>5
<1> QED
  BY <1>2, <1>5, <1>6, <1>7, <1>8, <1>9 DEF Inv

\* A request that ends leaves the others alone on their invoices, if it was on its own.
LEMMA EndsAlone ==
  ASSUME Inv, OneByOne, NEW w \in Workers, Running(w), ~Running(w)', NoneNew,
         NEW row, Types,
         db'.inv = [db.inv EXCEPT ![tx[w].invoice] = row], raced' = raced
  PROVE  /\ db.inv[tx[w].invoice].status # "COMPLETED"
         /\ Alone'
<1>1. Alone
  BY DEF Inv
<1>2. db.inv[tx[w].invoice].status # "COMPLETED"
  BY <1>1 DEF Alone
<1>3. ASSUME NEW u \in Workers, Running(u)'
      PROVE  /\ Running(u) /\ u # w /\ tx'[u].invoice = tx[u].invoice
             /\ tx[u].invoice \in Invoices /\ tx[u].invoice # tx[w].invoice
  <2>1. Running(u) /\ u # w /\ tx'[u].invoice = tx[u].invoice
    BY <1>3 DEF NoneNew
  <2> QED
    BY <2>1, <1>1, RunningTypes DEF Alone
<1>4. \A j \in Invoices : j # tx[w].invoice => db'.inv[j] = db.inv[j]
  BY DEF Types, PurchasingTypeOK, Database
<1>5. ASSUME NEW u \in Workers, Running(u)'
      PROVE  /\ db'.inv[tx'[u].invoice].status # "COMPLETED"
             /\ \A v \in Workers : Running(v)' /\ tx'[v].invoice = tx'[u].invoice => v = u
  BY <1>1, <1>3, <1>4, <1>5 DEF Alone
<1> QED
  BY <1>2, <1>5 DEF Alone

\* Saving a draft changes a row that owes nothing and invoices no order.
LEMMA SaveDraftKeeps ==
  ASSUME Inv, NEW w \in Workers, NEW c \in Contents, Save(w, c), c.status = "DRAFT"
  PROVE  Inv'
<1> DEFINE i == tx[w].invoice
<1>1. Types
  BY DEF Inv
<1>2. PICK row \in InvoiceRows :
        row.status = "DRAFT" /\ db'.inv = [db.inv EXCEPT ![i] = row]
  BY <1>1, SaveDraftEffect
<1>3. /\ Types' /\ NoneNew /\ raced' = raced /\ Running(w) /\ ~Running(w)'
      /\ db'.order = db.order /\ db'.receipts = db.receipts /\ db'.accrued = db.accrued
      /\ db'.payable = db.payable /\ db'.summary = db.summary
  BY <1>1, SaveDraftEffect
<1>4. i \in Invoices
  BY <1>1, <1>3, RunningTypes
<1>5. /\ db.inv \in [Invoices -> InvoiceRows] /\ db.summary \in [Suppliers -> Nat]
      /\ db.inv[i].supplier \in Suppliers
  BY <1>1, <1>4 DEF Types, PurchasingTypeOK, Database, InvoiceRows
<1>6. /\ OneByOne' <=> OneByOne
      /\ OneByOne => db.inv[i].status # "COMPLETED"
      /\ OneByOne' => Alone'
  BY <1>1, <1>2, <1>3, EndsAlone DEF OneByOne
<1>7. Ledger'
  BY <1>3 DEF Inv, Ledger
<1>8. Debts'
  <2> SUFFICES ASSUME OneByOne' PROVE Matches(db'.inv, db'.summary)
    BY DEF Debts
  <2>1. Matches(db.inv, db.summary)
    BY <1>6 DEF Inv, Debts
  <2> DEFINE s == db.inv[i].supplier
             new == db.summary[s]
  <2>2. s \in Suppliers /\ new \in Nat /\ [db.summary EXCEPT ![s] = new] = db.summary
    BY <1>5
  <2>3. new = db.summary[s] - Due(db.inv[i]) + Due(row)
    BY <1>2, <1>6, <2>2 DEF Due
  <2> HIDE DEF i, s, new
  <2>4. Matches([db.inv EXCEPT ![i] = row], [db.summary EXCEPT ![s] = new])
    BY <1>2, <1>4, <1>5, <1>6, <2>1, <2>2, <2>3, DebtsFollow
  <2> QED
    BY <1>2, <1>3, <2>2, <2>4
<1>9. \A j \in Invoices : j # i => db'.inv[j] = db.inv[j]
  BY <1>2, <1>5
<1>10. db'.inv[i].status = "DRAFT"
  BY <1>2, <1>4, <1>5
<1>11. OrdersPromised'
  <2> SUFFICES ASSUME OneByOne', NEW o \in Orders \ raced PROVE Promised(o)'
    BY <1>3 DEF OrdersPromised
  <2>1. Promised(o)
    BY <1>6 DEF Inv, OrdersPromised
  <2>2. \A j \in Invoices : BoughtBy(o, j)' <=> BoughtBy(o, j)
    BY <1>6, <1>9, <1>10 DEF BoughtBy, Completed
  <2>3. \A j \in Invoices : BoughtBy(o, j) => db'.inv[j] = db.inv[j]
    BY <1>6, <1>9 DEF BoughtBy, Completed
  <2> QED
    BY <1>3, <2>1, <2>2, <2>3 DEF Promised, NoneNew
<1>12. Receipts'
  <2> SUFFICES ASSUME Priced, NEW j \in Invoices PROVE ReceivedOnce(j)'
    BY DEF Receipts, Priced
  <2>1. ReceivedOnce(j)
    BY DEF Inv, Receipts
  <2>2. Serving(j) = {} => j # i
    BY <1>3 DEF Serving
  <2> QED
    BY <1>3, <1>9, <2>1, <2>2, NoneNewServes DEF ReceivedOnce, Completed
<1>13. Books'
  <2> SUFFICES ASSUME NEW j \in Invoices \ raced' PROVE Undisturbed(j)'
    BY DEF Books
  <2>1. InBooks(j)' => InBooks(j)
    BY <1>3 DEF InBooks
  <2>2. CASE j = i
    <3>1. j \in Invoices \ raced /\ tx[w].invoice = j
      BY <1>3, <2>2
    <3> QED
      BY <1>3, <2>1, <3>1, BooksClose
  <2>3. CASE j # i
    <3>1. Completed(j)' <=> Completed(j)
      BY <1>9, <2>3 DEF Completed
    <3> QED
      BY <1>3, <2>1, <3>1, BooksStay
  <2> QED
    BY <2>2, <2>3
<1> QED
  BY <1>3, <1>6, <1>7, <1>8, <1>11, <1>12, <1>13 DEF Inv, Alone

\* Completing an invoice: what it owes is added in all three places, its order becomes
\* its own, and its goods come in with the one entry it may have.
LEMMA SaveCompletedKeeps ==
  ASSUME Inv, NEW w \in Workers, NEW c \in Contents, Save(w, c), c.status = "COMPLETED"
  PROVE  Inv'
<1> DEFINE i == tx[w].invoice
           o == tx[w].request.order
           s == tx[w].request.supplier
           due == c.goods.total - c.paid
<1>1. Types
  BY DEF Inv
<1>2. PICK row \in InvoiceRows :
        /\ row.status = "COMPLETED" /\ row.supplier = s /\ row.order = o
        /\ row.outstanding = due
        /\ Completes(i, o, s, row, c.goods.total, due)
  BY <1>1, SaveCompletedEffect
<1>3. /\ Types' /\ NoneNew /\ raced' = raced /\ Running(w) /\ ~Running(w)'
      /\ CanAccrue(i, c.goods.total)
  BY <1>1, SaveCompletedEffect
<1>4. /\ i \in Invoices /\ s \in Suppliers /\ o \in Orders \cup {NoOrder}
      /\ c.goods.total \in Nat /\ due \in Nat /\ c.goods \in Goods
  BY <1>1, <1>3, RunningTypes, ContentsTypes
<1>5. /\ db'.inv = [db.inv EXCEPT ![i] = row]
      /\ db'.receipts = [db.receipts EXCEPT ![i] = @ + 1]
      /\ db'.accrued = [db.accrued EXCEPT ![i] = @ + c.goods.total]
      /\ db'.payable = db.payable + due
      /\ db'.summary = [db.summary EXCEPT ![s] = @ + due]
      /\ db'.order = IF o = NoOrder THEN db.order
                     ELSE [db.order EXCEPT ![o] = [status |-> "COMPLETED", supplier |-> @.supplier]]
  BY <1>2 DEF Completes
<1> HIDE DEF i, o, s, due
<1>6. /\ db.inv \in [Invoices -> InvoiceRows] /\ db.summary \in [Suppliers -> Nat]
      /\ db.order \in [Orders -> OrderRows] /\ db.payable \in Int
      /\ db.accrued \in [Invoices -> Nat] /\ db.receipts \in [Invoices -> Nat]
  BY <1>1 DEF Types, PurchasingTypeOK, Database
<1>7. /\ OneByOne' <=> OneByOne
      /\ OneByOne => db.inv[i].status # "COMPLETED"
      /\ OneByOne' => Alone'
  BY <1>1, <1>3, <1>5, EndsAlone DEF OneByOne, i
<1> DEFINE new == db.summary[s] + due
<1>8. new \in Nat /\ db'.summary = [db.summary EXCEPT ![s] = new]
  BY <1>4, <1>5, <1>6
<1>9. Ledger'
  <2>1. Total(db'.summary) = Total(db.summary) - db.summary[s] + new
    <3> HIDE DEF new
    <3> QED
      BY <1>4, <1>6, <1>8, LedgerFollows
  <2>2. Total(db.summary) \in Nat
    BY <1>6, TotalType, PurchasingAssumption
  <2>3. db.payable = Total(db.summary)
    BY DEF Inv, Ledger
  <2>4. db.summary[s] \in Nat
    BY <1>4, <1>6
  <2>5. db'.payable = db.payable + due /\ due \in Nat
    BY <1>4, <1>5
  <2> QED
    BY <2>1, <2>2, <2>3, <2>4, <2>5 DEF Ledger
<1>10. Debts'
  <2> SUFFICES ASSUME OneByOne' PROVE Matches(db'.inv, db'.summary)
    BY DEF Debts
  <2>1. Matches(db.inv, db.summary)
    BY <1>7 DEF Inv, Debts
  <2>2. new = db.summary[s] - Due(db.inv[i]) + Due(row)
    <3>1. new = db.summary[s] - 0 + row.outstanding
      BY <1>2, <1>4, <1>6 DEF due
    <3> QED
      BY <1>2, <1>7, <3>1 DEF Due
  <2>3. /\ row.status = "COMPLETED" => row.supplier = s
        /\ db.inv[i].status = "COMPLETED" => db.inv[i].supplier = s
    BY <1>2, <1>7 DEF s
  <2> HIDE DEF new
  <2>4. Matches([db.inv EXCEPT ![i] = row], [db.summary EXCEPT ![s] = new])
    BY <1>4, <1>6, <1>8, <2>1, <2>2, <2>3, DebtsFollow
  <2> QED
    BY <1>5, <1>8, <2>4
<1>11. \A j \in Invoices : j # i => db'.inv[j] = db.inv[j]
  BY <1>5, <1>6
<1>12. db'.inv[i] = row /\ row.status = "COMPLETED" /\ row.supplier = s /\ row.order = o
  BY <1>2, <1>4, <1>5, <1>6 DEF s, o
<1>13. OrdersPromised'
  <2> SUFFICES ASSUME OneByOne', NEW p \in Orders \ raced PROVE Promised(p)'
    BY <1>3 DEF OrdersPromised
  <2>1. Promised(p) /\ db.inv[i].status # "COMPLETED"
    BY <1>7 DEF Inv, OrdersPromised
  <2>2. p # NoOrder
    BY PurchasingAssumption
  <2>3. CASE p = o
    <3>1. /\ db.order[o] = [status |-> "READY", supplier |-> s]
          /\ \A u \in Workers : Running(u) /\ tx[u].request.order = o => u = w
      BY <1>3, <2>1, <2>3 DEF Promised, o, s
    <3>2. db'.order[p] = [status |-> "COMPLETED", supplier |-> s]
      BY <1>5, <1>6, <2>2, <2>3, <3>1
    <3>3. db.order[p].status # "COMPLETED"
      BY <2>3, <3>1
    <3>4. \A j \in Invoices : ~BoughtBy(p, j)
      BY <2>1, <3>3 DEF Promised
    <3>5. \A j \in Invoices : BoughtBy(p, j)' <=> j = i
      BY <1>4, <1>11, <1>12, <2>3, <3>4 DEF BoughtBy, Completed
    <3>6. \A u \in Workers : ~(Running(u)' /\ tx'[u].request.order = p)
      BY <1>3, <2>3, <3>1 DEF NoneNew
    <3> QED
      BY <1>4, <1>12, <3>2, <3>5, <3>6 DEF Promised
  <2>4. CASE p # o
    <3>1. db'.order[p] = db.order[p]
      BY <1>4, <1>5, <1>6, <2>2, <2>4
    <3>2. \A j \in Invoices : BoughtBy(p, j)' <=> BoughtBy(p, j)
      BY <1>11, <1>12, <2>1, <2>4 DEF BoughtBy, Completed
    <3>3. \A j \in Invoices : BoughtBy(p, j) => db'.inv[j] = db.inv[j]
      BY <1>11, <2>1 DEF BoughtBy, Completed
    <3> QED
      BY <1>3, <2>1, <3>1, <3>2, <3>3 DEF Promised, NoneNew
  <2> QED
    BY <2>3, <2>4
<1>14. Receipts'
  <2> SUFFICES ASSUME Priced, NEW j \in Invoices PROVE ReceivedOnce(j)'
    BY DEF Receipts, Priced
  <2>1. ReceivedOnce(j)
    BY DEF Inv, Receipts
  <2>2. CASE j = i
    <3>1. c.goods.total > 0 /\ db.accrued[i] = 0
      BY <1>3, <1>4 DEF Priced, CanAccrue
    <3>2. db.receipts[i] \in Nat /\ ~(db.receipts[i] > 0)
      BY <1>4, <1>6, <2>1, <2>2, <3>1 DEF ReceivedOnce
    <3>3. db'.receipts[i] = db.receipts[i] + 1 /\ db'.accrued[i] = db.accrued[i] + c.goods.total
      BY <1>4, <1>5, <1>6
    <3>4. db'.receipts[i] = 1 /\ db'.accrued[i] > 0
      BY <1>4, <3>1, <3>2, <3>3
    <3> QED
      BY <2>2, <3>4 DEF ReceivedOnce
  <2>3. CASE j # i
    <3>1. db'.receipts[j] = db.receipts[j] /\ db'.accrued[j] = db.accrued[j]
      BY <1>5, <1>6, <2>3
    <3> QED
      BY <1>3, <1>11, <2>1, <2>3, <3>1, NoneNewServes DEF ReceivedOnce, Completed
  <2> QED
    BY <2>2, <2>3
<1>15. Books'
  <2> SUFFICES ASSUME NEW j \in Invoices \ raced' PROVE Undisturbed(j)'
    BY DEF Books
  <2>1. CASE j = i
    <3>1. Completed(j)'
      BY <1>2, <1>4, <1>5, <1>6, <2>1 DEF Completed
    <3>2. j \in Invoices \ raced /\ tx[w].invoice = j
      BY <1>3, <2>1 DEF i
    <3> QED
      BY <1>3, <3>1, <3>2, BooksClose
  <2>2. CASE j # i
    <3>1. (Completed(j)' <=> Completed(j)) /\ (InBooks(j)' => InBooks(j))
      BY <1>5, <1>6, <1>11, <2>2 DEF Completed, InBooks
    <3> QED
      BY <1>3, <3>1, BooksStay
  <2> QED
    BY <2>1, <2>2
<1> QED
  BY <1>3, <1>7, <1>9, <1>10, <1>13, <1>14, <1>15 DEF Inv, Alone

\* A converted loan is owed like an invoice; nobody serves its row, and it is of no order.
LEMMA ConvertLoanKeeps ==
  ASSUME Inv, NEW i \in Invoices, NEW s \in Suppliers, NEW total \in Nat, total > 0,
         ConvertLoan(i, s, total)
  PROVE  Inv'
<1> DEFINE row == [status |-> "COMPLETED", supplier |-> s, order |-> NoOrder,
                   bought |-> 0, bonus |-> 0, total |-> total,
                   paid |-> 0, outstanding |-> total]
           new == db.summary[s] + total
<1>1. Types
  BY DEF Inv
<1>2. /\ Types' /\ NoneNew /\ raced' = raced
      /\ db.inv[i].status = "NONE" /\ Serving(i) = {}
      /\ db'.inv = [db.inv EXCEPT ![i] = row]
      /\ db'.order = db.order /\ db'.receipts = db.receipts
      /\ db'.accrued = [db.accrued EXCEPT ![i] = total]
      /\ db'.payable = db.payable + total
      /\ db'.summary = [db.summary EXCEPT ![s] = @ + total]
  BY <1>1, ConvertLoanEffect
<1>3. /\ row \in InvoiceRows /\ row.status = "COMPLETED" /\ row.supplier = s
      /\ row.order = NoOrder /\ row.bought = 0 /\ row.outstanding = total
  BY DEF InvoiceRows
<1> HIDE DEF row
<1>4. /\ db.inv \in [Invoices -> InvoiceRows] /\ db.summary \in [Suppliers -> Nat]
      /\ db.payable \in Int /\ db.summary[s] \in Nat
      /\ db.accrued \in [Invoices -> Nat] /\ db.receipts \in [Invoices -> Nat]
  BY <1>1 DEF Types, PurchasingTypeOK, Database
<1>5. new \in Nat /\ db'.summary = [db.summary EXCEPT ![s] = new]
  BY <1>2, <1>4
<1>6. OneByOne' <=> OneByOne
  BY <1>2 DEF OneByOne
<1>7. \A j \in Invoices : j # i => db'.inv[j] = db.inv[j] /\ db'.accrued[j] = db.accrued[j]
  BY <1>2, <1>4
<1>8. db'.inv[i] = row
  BY <1>2, <1>4
<1>9. Ledger'
  <2>1. Total(db'.summary) = Total(db.summary) - db.summary[s] + new
    <3> HIDE DEF new
    <3> QED
      BY <1>4, <1>5, LedgerFollows
  <2>2. Total(db.summary) \in Nat
    BY <1>4, TotalType, PurchasingAssumption
  <2>3. db.payable = Total(db.summary) /\ db'.payable = db.payable + total
    BY <1>2 DEF Inv, Ledger
  <2> QED
    BY <1>4, <2>1, <2>2, <2>3 DEF Ledger
<1>10. Debts'
  <2> SUFFICES ASSUME OneByOne' PROVE Matches(db'.inv, db'.summary)
    BY DEF Debts
  <2>1. Matches(db.inv, db.summary)
    BY <1>6 DEF Inv, Debts
  <2>2. new = db.summary[s] - Due(db.inv[i]) + Due(row)
    <3>1. new = db.summary[s] - 0 + row.outstanding
      BY <1>3, <1>4
    <3> QED
      BY <1>2, <1>3, <3>1 DEF Due
  <2>3. /\ row.status = "COMPLETED" => row.supplier = s
        /\ db.inv[i].status = "COMPLETED" => db.inv[i].supplier = s
    BY <1>2, <1>3
  <2> HIDE DEF new
  <2>4. Matches([db.inv EXCEPT ![i] = row], [db.summary EXCEPT ![s] = new])
    BY <1>3, <1>4, <1>5, <2>1, <2>2, <2>3, DebtsFollow
  <2> QED
    BY <1>2, <1>5, <2>4
<1>11. Alone'
  <2> SUFFICES ASSUME OneByOne', NEW w \in Workers, Running(w)'
               PROVE  /\ db'.inv[tx'[w].invoice].status # "COMPLETED"
                      /\ \A u \in Workers : Running(u)' /\ tx'[u].invoice = tx'[w].invoice => u = w
    BY DEF Alone
  <2>1. Running(w) /\ tx'[w].invoice = tx[w].invoice /\ Alone
    BY <1>2 DEF NoneNew, Inv
  <2>2. tx[w].invoice \in Invoices /\ tx[w].invoice # i
    BY <1>1, <1>2, <2>1, RunningTypes DEF Serving
  <2> QED
    BY <1>2, <1>6, <1>7, <2>1, <2>2 DEF Alone, NoneNew
<1>12. OrdersPromised'
  <2> SUFFICES ASSUME OneByOne', NEW o \in Orders \ raced PROVE Promised(o)'
    BY <1>2 DEF OrdersPromised
  <2>1. Promised(o) /\ o # NoOrder
    BY <1>6, PurchasingAssumption DEF Inv, OrdersPromised
  <2>2. \A j \in Invoices : BoughtBy(o, j)' <=> BoughtBy(o, j)
    BY <1>2, <1>3, <1>7, <1>8, <2>1 DEF BoughtBy, Completed
  <2>3. \A j \in Invoices : BoughtBy(o, j) => db'.inv[j] = db.inv[j]
    BY <1>2, <1>7 DEF BoughtBy, Completed
  <2> QED
    BY <1>2, <2>1, <2>2, <2>3 DEF Promised, NoneNew
<1>13. Receipts'
  <2> SUFFICES ASSUME Priced, NEW j \in Invoices PROVE ReceivedOnce(j)'
    BY DEF Receipts, Priced
  <2>1. ReceivedOnce(j)
    BY DEF Inv, Receipts
  <2>2. CASE j = i
    BY <1>2, <1>3, <1>4, <1>8, <2>1, <2>2, NoneNewServes DEF ReceivedOnce, Completed
  <2>3. CASE j # i
    BY <1>2, <1>7, <2>1, <2>3, NoneNewServes DEF ReceivedOnce, Completed
  <2> QED
    BY <2>2, <2>3
<1>14. Books'
  <2> SUFFICES ASSUME NEW j \in Invoices \ raced' PROVE Undisturbed(j)'
    BY DEF Books
  <2>1. CASE j = i
    <3>1. Completed(j)'
      BY <1>3, <1>8, <2>1 DEF Completed
    <3>2. Serving(j)' = {}
      BY <1>2, <2>1, NoneNewServes
    <3> QED
      BY <3>1, <3>2 DEF Undisturbed, Serving
  <2>2. CASE j # i
    <3>1. (Completed(j)' <=> Completed(j)) /\ (InBooks(j)' => InBooks(j))
      BY <1>2, <1>7, <2>2 DEF Completed, InBooks
    <3> QED
      BY <1>2, <3>1, BooksStay
  <2> QED
    BY <2>1, <2>2
<1> QED
  BY <1>2, <1>9, <1>10, <1>11, <1>12, <1>13, <1>14 DEF Inv

\* What is no longer owed of an invoice leaves the ledger and the summary with it.
LEMMA SettlingKeeps ==
  ASSUME Inv, Types', NoneNew, raced' = raced,
         NEW i \in Invoices, NEW s \in Suppliers, NEW a \in Nat, NEW row \in InvoiceRows,
         OneByOne => db.inv[i].status = "COMPLETED",
         s = db.inv[i].supplier, row.status = db.inv[i].status, row.supplier = s,
         row.bought = db.inv[i].bought, row.order = db.inv[i].order,
         row.outstanding = db.inv[i].outstanding - a,
         db'.inv = [db.inv EXCEPT ![i] = row],
         db'.order = db.order, db'.receipts = db.receipts, db'.accrued = db.accrued,
         db'.payable = db.payable - a,
         db'.summary = [db.summary EXCEPT ![s] = @ - a]
  PROVE  Inv'
<1> DEFINE new == db.summary[s] - a
<1>1. Types
  BY DEF Inv
<1>2. /\ db.inv \in [Invoices -> InvoiceRows] /\ db.summary \in [Suppliers -> Nat]
      /\ db.inv[i].outstanding \in Nat /\ db.payable \in Int /\ db.summary[s] \in Nat
  BY <1>1 DEF Types, PurchasingTypeOK, Database, InvoiceRows
<1>3. db'.inv[i] = row /\ \A j \in Invoices : j # i => db'.inv[j] = db.inv[j]
  BY <1>2
<1>4. new \in Nat
  <2>1. db'.summary[s] \in Nat
    BY DEF Types, PurchasingTypeOK, Database
  <2>2. db'.summary[s] = new
    BY <1>2
  <2> QED
    BY <2>1, <2>2
<1>5. db'.summary = [db.summary EXCEPT ![s] = new]
  BY <1>2
<1>6. OneByOne' <=> OneByOne
  BY DEF OneByOne
<1>7. Ledger'
  <2>1. Total(db'.summary) = Total(db.summary) - db.summary[s] + new
    <3> HIDE DEF new
    <3> QED
      BY <1>2, <1>4, <1>5, LedgerFollows
  <2>2. Total(db.summary) \in Nat
    BY <1>2, TotalType, PurchasingAssumption
  <2>3. db.payable = Total(db.summary)
    BY DEF Inv, Ledger
  <2> QED
    BY <1>2, <2>1, <2>2, <2>3 DEF Ledger
<1>8. Debts'
  <2> SUFFICES ASSUME OneByOne' PROVE Matches(db'.inv, db'.summary)
    BY DEF Debts
  <2>1. Matches(db.inv, db.summary)
    BY <1>6 DEF Inv, Debts
  <2>2. new = db.summary[s] - Due(db.inv[i]) + Due(row)
    <3>1. Due(db.inv[i]) = db.inv[i].outstanding /\ Due(row) = db.inv[i].outstanding - a
      BY <1>6 DEF Due
    <3> QED
      BY <1>2, <3>1
  <2> HIDE DEF new
  <2>3. Matches([db.inv EXCEPT ![i] = row], [db.summary EXCEPT ![s] = new])
    BY <1>2, <1>4, <2>1, <2>2, DebtsFollow
  <2> QED
    BY <1>5, <2>3
<1>9. \A j \in Invoices : Completed(j)' <=> Completed(j)
  BY <1>3 DEF Completed
<1>10. \A j \in Invoices : /\ db'.inv[j].supplier = db.inv[j].supplier
                           /\ db'.inv[j].order = db.inv[j].order
                           /\ db'.inv[j].bought = db.inv[j].bought
  BY <1>3
<1>11. Alone'
  <2> SUFFICES ASSUME OneByOne', NEW w \in Workers, Running(w)'
               PROVE  /\ db'.inv[tx'[w].invoice].status # "COMPLETED"
                      /\ \A u \in Workers : Running(u)' /\ tx'[u].invoice = tx'[w].invoice => u = w
    BY DEF Alone
  <2>1. Running(w) /\ tx'[w].invoice = tx[w].invoice /\ Alone
    BY DEF NoneNew, Inv
  <2>2. tx[w].invoice \in Invoices
    BY <1>1, <2>1, RunningTypes
  <2> QED
    BY <1>6, <1>9, <2>1, <2>2 DEF Alone, NoneNew, Completed
<1>12. OrdersPromised'
  <2> SUFFICES ASSUME OneByOne', NEW o \in Orders \ raced PROVE Promised(o)'
    BY DEF OrdersPromised
  <2>1. Promised(o)
    BY <1>6 DEF Inv, OrdersPromised
  <2>2. \A j \in Invoices : BoughtBy(o, j)' <=> BoughtBy(o, j)
    BY <1>9, <1>10 DEF BoughtBy
  <2> QED
    BY <1>10, <2>1, <2>2 DEF Promised, NoneNew
<1>13. Receipts'
  <2> SUFFICES ASSUME Priced, NEW j \in Invoices PROVE ReceivedOnce(j)'
    BY DEF Receipts, Priced
  <2>1. ReceivedOnce(j)
    BY DEF Inv, Receipts
  <2> QED
    BY <1>9, <1>10, <2>1, NoneNewServes DEF ReceivedOnce
<1>14. Books'
  <2> SUFFICES ASSUME NEW j \in Invoices \ raced' PROVE Undisturbed(j)'
    BY DEF Books
  <2>1. Completed(j)' <=> Completed(j)
    BY <1>3 DEF Completed
  <2>2. InBooks(j)' => InBooks(j)
    BY DEF InBooks
  <2> QED
    BY <2>1, <2>2, BooksStay
<1> QED
  BY <1>7, <1>8, <1>11, <1>12, <1>13, <1>14 DEF Inv

\* A payment takes as much from the ledger and the summary as from the invoice.
LEMMA AddPaymentKeeps ==
  ASSUME Inv, NEW i \in Invoices, NEW a \in Amounts, AddPayment(i, a)
  PROVE  Inv'
<1> DEFINE s == db.inv[i].supplier
           row == [db.inv[i] EXCEPT !.paid = @ + a, !.outstanding = @ - a]
<1>1. Types
  BY DEF Inv
<1>2. /\ Types' /\ NoneNew /\ raced' = raced
      /\ db.inv[i].status = "COMPLETED" /\ s \in Suppliers
      /\ db'.inv = [db.inv EXCEPT ![i] = row]
      /\ db'.order = db.order /\ db'.receipts = db.receipts /\ db'.accrued = db.accrued
      /\ db'.payable = db.payable - a
      /\ db'.summary = [db.summary EXCEPT ![s] = @ - a]
  BY <1>1, AddPaymentEffect
<1>3. db.inv \in [Invoices -> InvoiceRows] /\ db.inv[i] \in InvoiceRows /\ a \in Nat
  BY <1>1, PurchasingAssumption DEF Types, PurchasingTypeOK, Database
<1>4. /\ row.status = db.inv[i].status /\ row.supplier = s /\ row.bought = db.inv[i].bought
      /\ row.order = db.inv[i].order /\ row.outstanding = db.inv[i].outstanding - a
  BY <1>2, <1>3 DEF InvoiceRows
<1>5. row \in InvoiceRows
  <2>1. db'.inv[i] \in InvoiceRows
    BY <1>2 DEF Types, PurchasingTypeOK, Database
  <2>2. db'.inv[i] = row
    BY <1>2, <1>3
  <2> QED
    BY <2>1, <2>2
<1> HIDE DEF row
<1> QED
  BY <1>2, <1>3, <1>4, <1>5, SettlingKeeps

-----------------------------------------------------------------------------
(***************************************************************************)
(* Theorems                                                                *)
(***************************************************************************)

\* Nothing is owed before anything is bought.
LEMMA InitHolds ==
  Init => Inv
<1> SUFFICES ASSUME Init PROVE Inv
  OBVIOUS
<1>1. PICK s \in Suppliers : db = NothingBought(s)
  BY DEF Init
<1>2. tx = [w \in Workers |-> Idle] /\ raced = {}
  BY DEF Init
<1>3. /\ db.order = [o \in Orders |-> [status |-> "NONE", supplier |-> s]]
      /\ db.inv = [i \in Invoices |->
                     [status |-> "NONE", supplier |-> s, order |-> NoOrder, bought |-> 0,
                      bonus |-> 0, total |-> 0, paid |-> 0, outstanding |-> 0]]
      /\ db.received = [i \in Invoices |-> 0] /\ db.receipts = [i \in Invoices |-> 0]
      /\ db.accrued = [i \in Invoices |-> 0] /\ db.payable = 0
      /\ db.summary = [u \in Suppliers |-> 0]
  BY <1>1 DEF NothingBought
<1>4. db \in Database
  BY <1>1 DEF NothingBought, Database, OrderRows, InvoiceRows
<1>5. db.summary \in [Suppliers -> Nat] /\ \A u \in Suppliers : db.summary[u] = 0
  BY <1>3
<1>6. Types
  BY <1>2, <1>4, <1>5 DEF Types, PurchasingTypeOK
<1>7. \A w \in Workers : ~Running(w)
  BY <1>2 DEF Running, Idle
<1>8. \A i \in Invoices : ~Completed(i) /\ db.receipts[i] = 0 /\ db.accrued[i] = 0
  BY <1>3 DEF Completed
<1>9. Ledger
  BY <1>3, <1>5, TotalZero DEF Ledger
<1>10. Debts
  <2>1. ASSUME NEW u \in Suppliers PROVE Total(Owed(db.inv, u)) = 0
    <3>1. /\ Owed(db.inv, u) \in [Invoices -> Nat]
          /\ \A i \in Invoices : Owed(db.inv, u)[i] = 0
      BY <1>8 DEF Owed, Completed
    <3> QED
      BY <3>1, TotalZero
  <2> QED
    BY <1>5, <2>1 DEF Debts, Matches
<1>11. Alone
  BY <1>7 DEF Alone
<1>12. OrdersPromised
  BY <1>3, <1>7, <1>8 DEF OrdersPromised, Promised, BoughtBy
<1>13. Receipts
  BY <1>8 DEF Receipts, ReceivedOnce
<1>14. Books
  BY <1>7, <1>8 DEF Books, Undisturbed, InBooks
<1> QED
  BY <1>6, <1>9, <1>10, <1>11, <1>12, <1>13, <1>14 DEF Inv

\* Every step of every handler preserves the invariant.
LEMMA NextKeeps ==
  Inv /\ [Next]_vars => Inv'
<1> SUFFICES ASSUME Inv, [Next]_vars PROVE Inv'
  OBVIOUS
<1>1. Types
  BY DEF Inv
<1>2. ASSUME NEW o \in Orders, NEW status \in {"DRAFT", "READY"}, NEW s \in Suppliers,
             CreateOrder(o, status, s) \/ UpdateOrder(o, status, s)
      PROVE  Inv'
  BY <1>2, SaveOrderKeeps DEF CreateOrder, UpdateOrder, EditableOrder
<1>3. ASSUME NEW w \in Workers, NEW i \in Invoices, NEW q \in References, BeginCreate(w, i, q)
      PROVE  Inv'
  BY <1>3, BeginKeeps DEF BeginCreate
<1>4. ASSUME NEW w \in Workers, NEW i \in Invoices, NEW q \in References, BeginEdit(w, i, q)
      PROVE  Inv'
  BY <1>4, BeginKeeps DEF BeginEdit, Editable
<1>5. ASSUME NEW w \in Workers, DeleteLines(w) PROVE Inv'
  BY <1>1, <1>5, DeleteLinesEffect, QuietKeeps
<1>6. ASSUME NEW w \in Workers, Rollback(w) PROVE Inv'
  BY <1>1, <1>6, RollbackEffect, QuietKeeps
<1>7. ASSUME NEW w \in Workers, NEW c \in Contents, Save(w, c) PROVE Inv'
  BY <1>7, ContentsTypes, SaveDraftKeeps, SaveCompletedKeeps
<1>8. ASSUME NEW i \in Invoices, NEW s \in Suppliers, NEW g \in Goods, g.total > 0,
             ConvertLoan(i, s, g.total)
      PROVE  Inv'
  <2>1. g.total \in Nat
    BY PurchasingAssumption
  <2> QED
    BY <1>8, <2>1, ConvertLoanKeeps
<1>9. ASSUME NEW i \in Invoices, NEW a \in Amounts, AddPayment(i, a) PROVE Inv'
  BY <1>9, AddPaymentKeeps
<1>10. CASE UNCHANGED vars
  <2>1. db' = db /\ tx' = tx /\ raced' = raced
    BY <1>10 DEF vars
  <2>2. NoneNew /\ Types'
    BY <1>1, <2>1 DEF NoneNew, Running, Types, PurchasingTypeOK
  <2> QED
    BY <2>1, <2>2, QuietKeeps
<1> QED
  BY <1>2, <1>3, <1>4, <1>5, <1>6, <1>7, <1>8, <1>9, <1>10 DEF Next

\* What buying leaves alone: a completed invoice stays so with its goods, unless requests
\* on it overlapped, and what was received of it is never less.
Grows ==
  /\ OneByOne' => /\ OneByOne
                  /\ \A i \in Invoices : Completed(i) =>
                       Completed(i)' /\ db'.inv[i].bought = db.inv[i].bought
  /\ \/ db'.received = db.received
     \/ \E i \in Invoices, n \in Nat : db'.received = [db.received EXCEPT ![i] = @ + n]

\* While no two requests overlapped, what a completed invoice bought stays; goods received only grow.
LEMMA BuyingGrows ==
  Inv /\ [Next]_vars => Grows
<1> SUFFICES ASSUME Inv, [Next]_vars PROVE Grows
  OBVIOUS
<1>1. Types /\ db.inv \in [Invoices -> InvoiceRows]
  BY DEF Inv, Types, PurchasingTypeOK, Database
<1>2. ASSUME db'.inv = db.inv, db'.received = db.received, raced \subseteq raced' PROVE Grows
  BY <1>2 DEF Grows, OneByOne, Completed
<1>3. ASSUME NEW o \in Orders, NEW status \in {"DRAFT", "READY"}, NEW s \in Suppliers,
             CreateOrder(o, status, s) \/ UpdateOrder(o, status, s)
      PROVE  Grows
  BY <1>1, <1>2, <1>3, SaveOrderEffect DEF CreateOrder, UpdateOrder, SaveOrder
<1>4. ASSUME NEW w \in Workers, NEW i \in Invoices, NEW q \in References,
             BeginCreate(w, i, q) \/ BeginEdit(w, i, q)
      PROVE  Grows
  BY <1>2, <1>4 DEF BeginCreate, BeginEdit, Begin
<1>5. ASSUME NEW w \in Workers, DeleteLines(w) \/ Rollback(w) PROVE Grows
  BY <1>2, <1>5 DEF DeleteLines, Rollback
<1>6. ASSUME NEW w \in Workers, NEW c \in Contents, Save(w, c) PROVE Grows
  <2> DEFINE i == tx[w].invoice
  <2>1. c.status = "DRAFT" \/ c.status = "COMPLETED"
    BY ContentsTypes
  <2>2. PICK row : /\ db'.inv = [db.inv EXCEPT ![i] = row]
                   /\ \/ db'.received = db.received
                      \/ \E n \in Nat : db'.received = [db.received EXCEPT ![i] = @ + n]
    <3>1. CASE c.status = "DRAFT"
      BY <1>1, <1>6, <3>1, SaveDraftEffect
    <3>2. CASE c.status = "COMPLETED"
      BY <1>1, <1>6, <3>2, SaveCompletedEffect DEF Completes
    <3> QED
      BY <2>1, <3>1, <3>2
  <2>3. Running(w) /\ ~Running(w)' /\ NoneNew /\ raced' = raced
    BY <1>1, <1>6, <2>1, SaveDraftEffect, SaveCompletedEffect
  <2>4. i \in Invoices
    BY <1>1, <2>3, RunningTypes
  <2>5. OneByOne => db.inv[i].status # "COMPLETED"
    BY <1>1, <2>2, <2>3, EndsAlone
  <2>6. \A j \in Invoices : j # i => db'.inv[j] = db.inv[j]
    BY <1>1, <2>2
  <2>7. OneByOne' => OneByOne /\ \A j \in Invoices : Completed(j) => db'.inv[j] = db.inv[j]
    BY <2>3, <2>5, <2>6 DEF OneByOne, Completed
  <2> QED
    BY <2>2, <2>4, <2>7 DEF Grows, Completed
<1>7. ASSUME NEW i \in Invoices, NEW s \in Suppliers, NEW total \in Nat,
             ConvertLoan(i, s, total)
      PROVE  Grows
  <2> DEFINE row == [status |-> "COMPLETED", supplier |-> s, order |-> NoOrder,
                     bought |-> 0, bonus |-> 0, total |-> total,
                     paid |-> 0, outstanding |-> total]
  <2>1. Types
    BY <1>1
  <2>2. raced' = raced /\ db'.received = db.received
    BY <1>7, <2>1, ConvertLoanEffect
  <2>3. db.inv[i].status = "NONE"
    BY <1>7 DEF ConvertLoan
  <2>4. db'.inv = [db.inv EXCEPT ![i] = row]
    BY <2>1, <1>7 DEF ConvertLoan, Types, PurchasingTypeOK, Database
  <2>5. \A j \in Invoices : j # i => db'.inv[j] = db.inv[j]
    BY <1>1, <2>4
  <2> QED
    BY <2>2, <2>3, <2>5 DEF Grows, OneByOne, Completed
<1>8. ASSUME NEW i \in Invoices, NEW a \in Amounts, AddPayment(i, a) PROVE Grows
  <2> DEFINE row == [db.inv[i] EXCEPT !.paid = @ + a, !.outstanding = @ - a]
  <2>1. /\ raced' = raced /\ db'.received = db.received
        /\ db'.inv = [db.inv EXCEPT ![i] = row]
    BY <1>1, <1>8, AddPaymentEffect
  <2>2. row.status = db.inv[i].status /\ row.bought = db.inv[i].bought
    BY <1>1 DEF InvoiceRows
  <2> HIDE DEF row
  <2>3. db'.inv[i] = row /\ \A j \in Invoices : j # i => db'.inv[j] = db.inv[j]
    BY <1>1, <2>1
  <2> QED
    BY <2>1, <2>2, <2>3 DEF Grows, OneByOne, Completed
<1>9. CASE UNCHANGED vars
  BY <1>2, <1>9 DEF vars
<1>10. \A g \in Goods : g.total \in Nat
  BY PurchasingAssumption
<1> QED
  BY <1>3, <1>4, <1>5, <1>6, <1>7, <1>8, <1>9, <1>10 DEF Next

\* The invariant holds throughout, however requests of the back office interleave.
THEOREM Invariant ==
  Spec => []Inv
BY InitHolds, NextKeeps, PTL DEF Spec

\* The rows, the requests and the history keep their types, and no supplier's summary
\* ever becomes negative (createInvoiceTx, update, addPayment).
THEOREM PurchasingTypes ==
  Spec => []PurchasingTypeOK
<1>1. Inv => PurchasingTypeOK
  BY DEF Inv, Types
<1> QED
  BY <1>1, Invariant, PTL

\* What the invariant says of the debts.
LEMMA PayablesFollow ==
  Inv => PayablesReconcile
<1> SUFFICES ASSUME Inv PROVE PayablesReconcile
  OBVIOUS
<1>1. \A s \in Suppliers :
        Owed(db.inv, s) = [i \in Invoices |-> IF Completed(i) /\ db.inv[i].supplier = s
                                             THEN db.inv[i].outstanding ELSE 0]
  BY DEF Owed, Completed
<1>2. OneByOne => \A s \in Suppliers : db.summary[s] = Total(Owed(db.inv, s))
  BY DEF Inv, Debts, Matches
<1> QED
  BY <1>1, <1>2 DEF PayablesReconcile, OneByOne, Inv, Ledger

\* What the ledger, the summaries and the invoices say is owed is one amount
\* (_processFinance, addPayment, createCompletedInventoryLoanInvoiceTx): the first two
\* always, the third unless requests on an invoice overlapped.
THEOREM PayablesAlwaysReconcile ==
  Spec => []PayablesReconcile
BY Invariant, PayablesFollow, PTL

\* What the invariant says of an order and its invoices.
LEMMA OrdersFollow ==
  Inv => OrdersInvoicedOnce
<1> SUFFICES ASSUME Inv, OneByOne, NEW o \in Orders \ raced
             PROVE  LET by == {i \in Invoices : Completed(i) /\ db.inv[i].order = o}
                    IN  /\ Cardinality(by) <= 1
                        /\ (db.order[o].status = "COMPLETED") <=> by # {}
                        /\ \A i \in by : db.inv[i].supplier = db.order[o].supplier
  BY DEF OrdersInvoicedOnce, OneByOne
<1> DEFINE by == {i \in Invoices : Completed(i) /\ db.inv[i].order = o}
<1>1. Promised(o)
  BY DEF Inv, OrdersPromised
<1>2. \A i : i \in by <=> i \in Invoices /\ BoughtBy(o, i)
  BY DEF BoughtBy
<1>3. Cardinality(by) <= 1
  <2>1. CASE by = {}
    BY <2>1, FS_EmptySet
  <2>2. CASE by # {}
    <3> HIDE DEF by
    <3>1. PICK i : i \in by
      BY <2>2
    <3>2. \A j \in by : j = i
      BY <1>1, <1>2, <3>1 DEF Promised
    <3>3. by = {i}
      BY <3>1, <3>2
    <3>4. Cardinality({i}) = 1
      BY FS_Singleton
    <3> QED
      BY <3>3, <3>4
  <2> QED
    BY <2>1, <2>2
<1> QED
  BY <1>1, <1>2, <1>3 DEF Promised

\* An order is completed by exactly one invoice, of its own supplier (_processPO), unless
\* requests on it overlapped: what an edit checked before it waited still holds.
THEOREM OrdersAreInvoicedOnce ==
  Spec => []OrdersInvoicedOnce
BY Invariant, OrdersFollow, PTL

\* What the invariant says of the goods of an invoice.
LEMMA GoodsFollow ==
  Inv => GoodsReceivedOnce
<1>0. Inv => \A i \in Invoices \ raced : InBooks(i) => Completed(i)
  BY DEF Inv, Books, Undisturbed
<1> SUFFICES ASSUME Inv, Priced, NEW i \in Invoices
             PROVE  /\ db.receipts[i] <= 1
                    /\ db.accrued[i] > 0 /\ db.inv[i].bought > 0 => db.receipts[i] = 1
  BY <1>0 DEF GoodsReceivedOnce, Priced, InBooks
<1>1. ReceivedOnce(i)
  BY DEF Inv, Receipts
<1>2. db.receipts[i] \in Nat
  BY DEF Inv, Types, PurchasingTypeOK, Database
<1>3. ~(db.inv[i].bought = 0 /\ db.inv[i].bought > 0)
  BY SMT
<1>4. CASE db.receipts[i] = 0
  BY <1>1, <1>3, <1>4 DEF ReceivedOnce
<1>5. CASE db.receipts[i] # 0
  BY <1>1, <1>2, <1>5 DEF ReceivedOnce
<1> QED
  BY <1>4, <1>5

\* However requests overlap, the goods of a priced invoice come into stock once
\* (_processInventory, and the unique posting key of the accrual).
THEOREM GoodsAreReceivedOnce ==
  Spec => []GoodsReceivedOnce
BY Invariant, GoodsFollow, PTL

-----------------------------------------------------------------------------
(***************************************************************************)
(* Theorems about returns to suppliers, while goods are bought, promised to *)
(* customers and delivered by other requests, for every set of documents.   *)
(*                                                                          *)
(* A request that makes a return READY checks first and takes the goods out *)
(* later.  What it checked of the layer stays true because it holds the     *)
(* layer's lock; what it checked of the stock row may not, and the history  *)
(* says when it was used all the same.  The layer of an invoice has lost    *)
(* what returns hold of it and what sales took, so that cancelling a return *)
(* never gives back more than was taken.                                    *)
(***************************************************************************)

\* The statuses in which a return holds goods of its invoice.
Kept == {"READY", "COMPLETED"}

\* What a return with this row holds of the goods of invoice i.
Bearing(row, i) == IF row.status \in Kept /\ row.invoice = i THEN row.qty ELSE 0

HeldOf(ret, i) == Total([r \in Returns |-> Bearing(ret[r], i)])

\* What is gone from the layers is what returns hold and sales took.
Taking ==
  /\ \A i \in Invoices : rt.taken[i] = HeldOf(rt.ret, i)
  /\ rt.out = Total(rt.taken) + Total(rt.delivered) + rt.gone

\* Layers hold the goods the stock row counts.
Layering == Actual = Layered /\ \A i \in Invoices : Remaining(i) >= 0

\* Returns are of completed invoices, and of no more than was paid for.
Returning ==
  OneByOne =>
    /\ \A r \in Returns : rt.ret[r].status # "NONE" => Completed(rt.ret[r].invoice)
    /\ \A i \in Invoices : rt.taken[i] <= db.inv[i].bought

\* What a request has checked is still so: it alone may take from the layer, which holds
\* enough; the invoice is completed and not all returned; and the stock allows it, unless
\* somebody promised or took of it meanwhile.
Checked(r) ==
  LET row == ready[r].row
      i   == row.invoice
  IN  /\ rt.ret[r].status \in {"NONE", "DRAFT"}
      /\ row.qty <= Remaining(i)
      /\ \A q \in Returns : MakingReady(q) /\ ready[q].row.invoice = i => q = r
      /\ OneByOne => Completed(i) /\ rt.taken[i] + row.qty <= db.inv[i].bought
      /\ ~ready[r].stale => row.qty <= Available

ReadyInv == \A r \in Returns : MakingReady(r) => Checked(r)

ReturnTypes ==
  /\ rt \in Store
  /\ ready \in [Returns -> {Idle} \cup [step : {"CHECKED"}, row : ReturnRows, stale : BOOLEAN]]

ReturnInv ==
  Inv /\ ReturnTypes /\ Taking /\ Layering /\ Returning /\ ReadyInv /\ PromisesCovered

-----------------------------------------------------------------------------
(***************************************************************************)
(* Sums                                                                    *)
(***************************************************************************)

\* What returns hold of an invoice follows the one row that changes.
LEMMA HeldFollows ==
  ASSUME NEW ret \in [Returns -> ReturnRows], NEW r \in Returns, NEW row \in ReturnRows,
         NEW i \in Invoices
  PROVE  /\ HeldOf([ret EXCEPT ![r] = row], i) = HeldOf(ret, i) - Bearing(ret[r], i) + Bearing(row, i)
         /\ HeldOf(ret, i) \in Nat /\ Bearing(ret[r], i) \in Nat /\ Bearing(row, i) \in Nat
         /\ Bearing(ret[r], i) <= HeldOf(ret, i)
<1> DEFINE f == [q \in Returns |-> Bearing(ret[q], i)]
           g == [q \in Returns |-> Bearing([ret EXCEPT ![r] = row][q], i)]
<1>1. \A w \in ReturnRows : Bearing(w, i) \in Nat
  BY DEF Bearing, ReturnRows
<1>2. f \in [Returns -> Nat] /\ Bearing(row, i) \in Nat /\ f[r] = Bearing(ret[r], i)
  BY <1>1
<1>3. g = [f EXCEPT ![r] = Bearing(row, i)]
  OBVIOUS
<1>4. Total(f) = HeldOf(ret, i) /\ Total(g) = HeldOf([ret EXCEPT ![r] = row], i)
  BY DEF HeldOf
<1> DEFINE n == Bearing(row, i)
<1>5. n \in Nat
  BY <1>2
<1>6. IsFiniteSet(Returns)
  BY PurchaseReturnAssumption
<1> HIDE DEF f, g, n
<1>7. /\ Total([f EXCEPT ![r] = n]) = Total(f) - f[r] + n
      /\ Total(f) \in Nat /\ f[r] <= Total(f)
  BY <1>2, <1>5, <1>6, TotalReplaced
<1> QED
  BY <1>2, <1>3, <1>4, <1>7 DEF n

\* What the other returns hold is what all hold less what this one does.
LEMMA HeldBesides ==
  ASSUME ReturnTypes, NEW r \in Returns, NEW i \in Invoices
  PROVE  /\ Held(i, Kept, {}) = HeldOf(rt.ret, i)
         /\ Held(i, Kept, {r}) = HeldOf(rt.ret, i) - Bearing(rt.ret[r], i)
<1> DEFINE f == [q \in Returns |-> Bearing(rt.ret[q], i)]
           h == [q \in Returns \ {r} |-> Bearing(rt.ret[q], i)]
<1>1. \A q \in Returns : rt.ret[q] \in ReturnRows
  BY DEF ReturnTypes, Store
<1>2. \A q \in Returns : Bearing(rt.ret[q], i) \in Nat
  BY <1>1 DEF Bearing, ReturnRows
<1>3. f \in [Returns -> Nat] /\ h \in [Returns \ {r} -> Nat]
  BY <1>2
<1>4. Returns \ {} = Returns
  OBVIOUS
<1>5. Held(i, Kept, {}) = Total(f) /\ Held(i, Kept, {r}) = Total(h) /\ HeldOf(rt.ret, i) = Total(f)
  BY <1>4 DEF Held, HeldOf, Bearing
<1>6. Total(f) = Total(h) + f[r]
  <2>1. LET rest == UNION {{y} \X (1 .. f[y]) : y \in Returns \ {r}}
        IN  Total(f) = Cardinality(rest) + f[r]
    BY <1>3, TotalSplit, PurchaseReturnAssumption
  <2>2. UnitsOf(h) = UNION {{y} \X (1 .. f[y]) : y \in Returns \ {r}}
    BY DEF UnitsOf
  <2> QED
    BY <2>1, <2>2 DEF Total
<1>7. Total(f) \in Nat /\ f[r] \in Nat /\ Total(h) \in Nat
  <2>1. IsFiniteSet(Returns \ {r}) /\ IsFiniteSet(Returns)
    BY PurchaseReturnAssumption, FS_Difference
  <2> HIDE DEF f, h
  <2> QED
    BY <1>3, <2>1, TotalType
<1> QED
  BY <1>5, <1>6, <1>7

\* What return q took too late, in a store with these returns and these wronged.
Share(ret, wronged, q) == IF q \in wronged /\ Away(ret[q]) THEN ret[q].qty ELSE 0

\* What returns took too late follows the one return that changes.
LEMMA AstrayFollows ==
  ASSUME ReturnTypes, ReturnTypes', NEW r \in Returns,
         \A q \in Returns \ {r} : /\ rt'.ret[q] = rt.ret[q]
                                  /\ q \in rt'.wronged <=> q \in rt.wronged
  PROVE  /\ Astray' = Astray - Share(rt.ret, rt.wronged, r) + Share(rt'.ret, rt'.wronged, r)
         /\ Astray \in Nat /\ Astray' \in Nat
         /\ Share(rt.ret, rt.wronged, r) \in Nat /\ Share(rt'.ret, rt'.wronged, r) \in Nat
<1> DEFINE f == [q \in Returns |-> Share(rt.ret, rt.wronged, q)]
           g == [q \in Returns |-> Share(rt'.ret, rt'.wronged, q)]
<1>1. \A q \in Returns : rt.ret[q].qty \in Nat /\ rt'.ret[q].qty \in Nat
  BY DEF ReturnTypes, Store, ReturnRows
<1>2. f \in [Returns -> Nat] /\ g \in [Returns -> Nat]
  BY <1>1 DEF Share
<1>3. \A q \in Returns \ {r} : g[q] = f[q]
  BY DEF Share
<1>4. Astray = Total(f) /\ Astray' = Total(g)
  BY DEF Astray, Share
<1>5. f[r] = Share(rt.ret, rt.wronged, r) /\ g[r] = Share(rt'.ret, rt'.wronged, r)
  OBVIOUS
<1>6. IsFiniteSet(Returns)
  BY PurchaseReturnAssumption
<1> HIDE DEF f, g
<1>7. /\ Total(g) = Total(f) - f[r] + g[r]
      /\ Total(f) \in Nat /\ Total(g) \in Nat /\ f[r] \in Nat /\ g[r] \in Nat
  BY <1>2, <1>3, <1>6, TotalUpdate, TotalType
<1> QED
  BY <1>4, <1>5, <1>7

\* What returns took too late is a number, the same while the returns are.
LEMMA AstrayStays ==
  ASSUME ReturnTypes
  PROVE  /\ Astray \in Nat
         /\ rt'.ret = rt.ret /\ rt'.wronged = rt.wronged => Astray' = Astray
<1>1. \A q \in Returns : rt.ret[q].qty \in Nat
  BY DEF ReturnTypes, Store, ReturnRows
<1>2. [q \in Returns |-> IF q \in rt.wronged /\ Away(rt.ret[q]) THEN rt.ret[q].qty ELSE 0]
        \in [Returns -> Nat]
  BY <1>1
<1>3. Astray \in Nat
  BY <1>2, TotalType, PurchaseReturnAssumption DEF Astray
<1> QED
  BY <1>3 DEF Astray

\* The stock and the layers stay equal when one layer and the stock change alike.
LEMMA LayersFollow ==
  ASSUME Types, Types', ReturnTypes, ReturnTypes', Layering, NEW i \in Invoices,
         Remaining(i)' >= 0,
         \A j \in Invoices \ {i} : Remaining(j)' = Remaining(j),
         Actual' - (rt'.replaced - rt'.gone)
           = Actual - (rt.replaced - rt.gone) - Remaining(i) + Remaining(i)'
  PROVE  Layering'
<1> DEFINE f == [j \in Invoices |-> Remaining(j)]
           g == [j \in Invoices |-> Remaining(j)']
<1>1. \A j \in Invoices : Remaining(j) \in Int /\ Remaining(j)' \in Int
  BY DEF Types, PurchasingTypeOK, Database, ReturnTypes, Store, Remaining
<1>2. \A j \in Invoices : Remaining(j) >= 0 /\ Remaining(j)' >= 0
  BY DEF Layering
<1>3. f \in [Invoices -> Nat] /\ g \in [Invoices -> Nat]
  BY <1>1, <1>2
<1>4. f[i] = Remaining(i) /\ g[i] = Remaining(i)' /\ \A j \in Invoices \ {i} : g[j] = f[j]
  OBVIOUS
<1>5. /\ Layered = Total(f) + (rt.replaced - rt.gone)
      /\ Layered' = Total(g) + (rt'.replaced - rt'.gone)
  BY DEF Layered
<1>6. /\ rt.replaced \in Nat /\ rt.gone \in Nat /\ rt'.replaced \in Nat /\ rt'.gone \in Nat
      /\ rt.out \in Nat /\ rt'.out \in Nat
  BY DEF ReturnTypes, Store
<1>7. Actual \in Int /\ Actual' \in Int
  <2>1. Total(db.received) \in Nat /\ Total(db'.received) \in Nat
    BY TotalType, PurchasingAssumption DEF Types, PurchasingTypeOK, Database
  <2> QED
    BY <1>6, <2>1 DEF Actual
<1> HIDE DEF f, g
<1>8. /\ Total(g) = Total(f) - f[i] + g[i]
      /\ Total(f) \in Nat /\ Total(g) \in Nat
  BY <1>3, <1>4, TotalUpdate, TotalType, PurchasingAssumption
<1>9. Actual = Layered
  BY DEF Layering
<1>10. Actual' = Layered'
  BY <1>1, <1>4, <1>5, <1>6, <1>7, <1>8, <1>9
<1> QED
  BY <1>2, <1>10 DEF Layering

\* The amounts in the store are numbers.
LEMMA StoreNumbers ==
  ASSUME Types, ReturnTypes
  PROVE  /\ Actual \in Int /\ Available \in Int /\ Total(db.received) \in Nat
         /\ \A i \in Invoices : /\ db.received[i] \in Nat /\ rt.taken[i] \in Nat
                                /\ rt.delivered[i] \in Nat /\ Remaining(i) \in Int
                                /\ db.inv[i].bought \in Nat
         /\ rt.replaced \in Nat /\ rt.gone \in Nat /\ rt.promised \in Nat /\ rt.out \in Nat
         /\ rt.clearing \in Int
<1>1. /\ rt.replaced \in Nat /\ rt.gone \in Nat /\ rt.promised \in Nat /\ rt.out \in Nat
      /\ rt.clearing \in Int
  BY DEF ReturnTypes, Store
<1>2. ASSUME NEW i \in Invoices
      PROVE  /\ db.received[i] \in Nat /\ rt.taken[i] \in Nat
             /\ rt.delivered[i] \in Nat /\ db.inv[i].bought \in Nat
  BY DEF Types, PurchasingTypeOK, Database, InvoiceRows, ReturnTypes, Store
<1>3. Total(db.received) \in Nat
  BY TotalType, PurchasingAssumption DEF Types, PurchasingTypeOK, Database
<1> QED
  BY <1>1, <1>2, <1>3 DEF Actual, Available, Remaining

-----------------------------------------------------------------------------
(***************************************************************************)
(* Buying and returning                                                    *)
(***************************************************************************)

\* Buying more leaves every return as it is, and every check as good as it was.
LEMMA BuyingKeepsReturns ==
  ASSUME ReturnInv, Inv', Grows, rt' = rt, ready' = ready
  PROVE  ReturnInv'
<1>1. Types /\ Types' /\ ReturnTypes /\ ReturnTypes'
  BY DEF ReturnInv, Inv, ReturnTypes
<1>2. /\ Actual \in Int /\ Available \in Int
      /\ \A j \in Invoices : Remaining(j) \in Int /\ db.received[j] \in Nat
                           /\ rt.taken[j] \in Nat /\ rt.delivered[j] \in Nat
      /\ rt.replaced \in Nat /\ rt.gone \in Nat /\ rt.out \in Nat /\ rt.promised \in Nat
      /\ Total(db.received) \in Nat
  BY <1>1, StoreNumbers
<1>3. PICK n \in Nat :
        /\ Total(db'.received) = Total(db.received) + n
        /\ \/ n = 0 /\ db'.received = db.received
           \/ \E i \in Invoices : db'.received = [db.received EXCEPT ![i] = @ + n]
  <2>1. CASE db'.received = db.received
    <3>1. Total(db'.received) = Total(db.received) + 0
      BY <1>2, <2>1
    <3> WITNESS 0 \in Nat
    <3> QED
      BY <2>1, <3>1
  <2>2. ASSUME NEW i \in Invoices, NEW n \in Nat,
               db'.received = [db.received EXCEPT ![i] = @ + n]
        PROVE  Total(db'.received) = Total(db.received) + n
    <3> DEFINE m == db.received[i] + n
               f == db.received
    <3>1. m \in Nat /\ f \in [Invoices -> Nat] /\ f[i] \in Nat
      BY <1>1, <1>2 DEF Types, PurchasingTypeOK, Database
    <3>2. db'.received = [f EXCEPT ![i] = m]
      BY <2>2
    <3>3. IsFiniteSet(Invoices)
      BY PurchasingAssumption
    <3> HIDE DEF m, f
    <3>4. Total([f EXCEPT ![i] = m]) = Total(f) - f[i] + m /\ Total(f) \in Nat
      BY <3>1, <3>3, TotalReplaced
    <3> QED
      BY <1>2, <3>1, <3>2, <3>4 DEF m, f
  <2> QED
    BY <2>1, <2>2 DEF Grows
<1>4. \A j \in Invoices : Remaining(j)' \in Int /\ Remaining(j)' >= Remaining(j)
  BY <1>1, <1>2, <1>3 DEF Remaining, Types, PurchasingTypeOK, Database
<1>5. Actual' = Actual + n /\ Available' = Available + n
  BY <1>2, <1>3 DEF Actual, Available
<1>6. Taking'
  BY DEF ReturnInv, Taking
<1>7. Layering'
  <2>1. CASE db'.received = db.received
    <3>1. Total([i \in Invoices |-> Remaining(i)']) = Total([i \in Invoices |-> Remaining(i)])
      BY <2>1 DEF Remaining
    <3> QED
      BY <2>1, <3>1 DEF ReturnInv, Layering, Actual, Layered, Remaining
  <2>2. ASSUME NEW i \in Invoices, db'.received = [db.received EXCEPT ![i] = @ + n]
        PROVE  Layering'
    <3>1. Remaining(i)' = Remaining(i) + n
      BY <1>1, <1>2, <2>2 DEF Remaining, Types, PurchasingTypeOK, Database
    <3>2. \A j \in Invoices \ {i} : Remaining(j)' = Remaining(j)
      BY <1>1, <2>2 DEF Remaining, Types, PurchasingTypeOK, Database
    <3>3. Layering /\ Remaining(i) >= 0
      BY DEF ReturnInv, Layering
    <3>4. Remaining(i)' >= 0
      BY <1>2, <3>1, <3>3
    <3>5. Actual' - (rt'.replaced - rt'.gone)
            = Actual - (rt.replaced - rt.gone) - Remaining(i) + Remaining(i)'
      BY <1>2, <1>5, <3>1
    <3> QED
      BY <1>1, <3>2, <3>3, <3>4, <3>5, LayersFollow
  <2> QED
    BY <1>3, <2>1, <2>2
<1>8. OneByOne' => /\ OneByOne
                   /\ \A i \in Invoices : Completed(i) =>
                       Completed(i)' /\ db'.inv[i].bought = db.inv[i].bought
  BY DEF Grows
<1>9. \A r \in Returns : rt.ret[r].invoice \in Invoices
  BY <1>1 DEF ReturnTypes, Store, ReturnRows
<1>10. Returning'
  <2> SUFFICES ASSUME OneByOne'
               PROVE  /\ \A r \in Returns : rt.ret[r].status # "NONE" => Completed(rt.ret[r].invoice)'
                      /\ \A i \in Invoices : rt.taken[i] <= db'.inv[i].bought
    BY DEF Returning
  <2>1. /\ \A r \in Returns : rt.ret[r].status # "NONE" => Completed(rt.ret[r].invoice)
        /\ \A i \in Invoices : rt.taken[i] <= db.inv[i].bought
    BY <1>8 DEF ReturnInv, Returning
  <2>2. ASSUME NEW i \in Invoices PROVE rt.taken[i] <= db'.inv[i].bought
    <3>1. CASE Completed(i)
      BY <1>8, <2>1, <3>1
    <3>2. CASE ~Completed(i)
      <4>1. \A r \in Returns : Bearing(rt.ret[r], i) = 0
        BY <2>1, <3>2 DEF Bearing, Kept
      <4>2. HeldOf(rt.ret, i) = 0
        <5>1. [r \in Returns |-> Bearing(rt.ret[r], i)] \in [Returns -> Nat]
          BY <4>1
        <5> QED
          BY <4>1, <5>1, TotalZero DEF HeldOf
      <4>3. rt.taken[i] = 0
        BY <4>2 DEF ReturnInv, Taking
      <4>4. db'.inv[i].bought \in Nat
        BY <1>1 DEF Types, PurchasingTypeOK, Database, InvoiceRows
      <4> QED
        BY <4>3, <4>4
    <3> QED
      BY <3>1, <3>2
  <2> QED
    BY <1>8, <1>9, <2>1, <2>2
<1>11. ReadyInv'
  <2> SUFFICES ASSUME NEW r \in Returns, MakingReady(r)' PROVE Checked(r)'
    BY DEF ReadyInv
  <2>1. MakingReady(r) /\ Checked(r)
    BY DEF ReturnInv, ReadyInv, MakingReady
  <2>2. ready[r].row \in ReturnRows
    BY <1>1, <2>1 DEF ReturnTypes, MakingReady, Idle
  <2>3. ready[r].row.invoice \in Invoices /\ ready[r].row.qty \in Nat
    BY <2>2 DEF ReturnRows
  <2>4. ready[r].row.qty <= Remaining(ready[r].row.invoice)'
    BY <1>2, <1>4, <2>1, <2>3 DEF Checked
  <2>5. ~ready[r].stale => ready[r].row.qty <= Available'
    BY <1>2, <1>5, <2>1, <2>3 DEF Checked
  <2>6. OneByOne' => /\ Completed(ready[r].row.invoice)'
                     /\ rt.taken[ready[r].row.invoice] + ready[r].row.qty
                          <= db'.inv[ready[r].row.invoice].bought
    BY <1>8, <2>1, <2>3 DEF Checked
  <2> QED
    BY <2>1, <2>4, <2>5, <2>6 DEF Checked, MakingReady
<1>12. PromisesCovered'
  <2>1. Astray \in Nat /\ Astray' = Astray
    BY <1>1, AstrayStays
  <2> QED
    BY <1>2, <1>5, <2>1 DEF ReturnInv, PromisesCovered
<1> QED
  BY <1>1, <1>6, <1>7, <1>10, <1>11, <1>12 DEF ReturnInv

\* While nothing is bought, the purchasing invariant holds on.
LEMMA NothingBoughtKeeps ==
  ASSUME Inv, UNCHANGED vars
  PROVE  Inv' /\ (OneByOne' <=> OneByOne) /\ \A i : Completed(i)' <=> Completed(i)
<1>1. Inv'
  BY NextKeeps
<1> QED
  BY <1>1 DEF vars, OneByOne, Completed

\* A request that is making a return READY has the fields of one.
LEMMA ReadyTypes ==
  ASSUME ReturnTypes, NEW r \in Returns
  PROVE  /\ ~MakingReady(r) => ready[r] = Idle
         /\ MakingReady(r) => /\ ready[r] \in [step : {"CHECKED"}, row : ReturnRows, stale : BOOLEAN]
                              /\ ready[r].row \in ReturnRows /\ ready[r].stale \in BOOLEAN
                              /\ ready[r].row.invoice \in Invoices
                              /\ ready[r].row.qty \in Nat /\ ready[r].row.total \in Nat
<1>1. ready[r] \in {Idle} \cup [step : {"CHECKED"}, row : ReturnRows, stale : BOOLEAN]
  BY DEF ReturnTypes
<1>2. Idle.step = "IDLE"
  BY DEF Idle
<1>3. \A b \in [step : {"CHECKED"}, row : ReturnRows, stale : BOOLEAN] : b.step # "IDLE"
  OBVIOUS
<1> QED
  BY <1>1, <1>2, <1>3 DEF MakingReady, ReturnRows

\* A draft holds no goods.
LEMMA SaveDraftReturnKeeps ==
  ASSUME ReturnInv, NEW r \in Returns, NEW row \in ReturnRows, row.status = "DRAFT",
         rt.ret[r].status \in {"NONE", "DRAFT"}, OneByOne => Completed(row.invoice),
         SaveDraft(r, row)
  PROVE  ReturnInv'
<1>1. /\ UNCHANGED vars /\ ready' = ready /\ rt' = [rt EXCEPT !.ret[r] = row]
  BY DEF SaveDraft
<1>2. ReturnTypes /\ rt \in Store /\ Types
  BY DEF ReturnInv, ReturnTypes, Inv
<1>3. /\ rt' \in Store /\ rt'.ret = [rt.ret EXCEPT ![r] = row]
      /\ rt'.taken = rt.taken /\ rt'.delivered = rt.delivered /\ rt'.replaced = rt.replaced
      /\ rt'.gone = rt.gone /\ rt'.promised = rt.promised /\ rt'.out = rt.out
      /\ rt'.wronged = rt.wronged
  BY <1>1, <1>2 DEF Store
<1>4. Inv' /\ (OneByOne' <=> OneByOne) /\ \A i : Completed(i)' <=> Completed(i)
  BY <1>1, NothingBoughtKeeps DEF ReturnInv
<1>5. rt.ret \in [Returns -> ReturnRows] /\ db' = db
  BY <1>1, <1>2 DEF Store, vars
<1>6. Taking'
  <2>1. ASSUME NEW i \in Invoices PROVE HeldOf(rt'.ret, i) = HeldOf(rt.ret, i)
    <3>1. /\ HeldOf(rt'.ret, i) = HeldOf(rt.ret, i) - Bearing(rt.ret[r], i) + Bearing(row, i)
          /\ HeldOf(rt.ret, i) \in Nat
      BY <1>3, <1>5, HeldFollows
    <3>2. Bearing(rt.ret[r], i) = 0 /\ Bearing(row, i) = 0
      BY DEF Bearing, Kept
    <3> QED
      BY <3>1, <3>2
  <2> QED
    BY <1>3, <2>1 DEF ReturnInv, Taking
<1>7. /\ \A i : Remaining(i)' = Remaining(i)
      /\ Actual' = Actual /\ Layered' = Layered /\ Available' = Available
  BY <1>3, <1>5 DEF Remaining, Actual, Layered, Available
<1>11. Layering'
  BY <1>3, <1>7 DEF ReturnInv, Layering
<1>12. rt'.ret[r] = row /\ \A q \in Returns \ {r} : rt'.ret[q] = rt.ret[q]
  BY <1>3, <1>5
<1>8. PromisesCovered'
  <2>1. Share(rt.ret, rt.wronged, r) = 0 /\ Share(rt'.ret, rt'.wronged, r) = 0
    BY <1>12 DEF Share, Away
  <2>2. ReturnTypes'
    BY <1>1, <1>2, <1>3 DEF ReturnTypes
  <2>3. Astray \in Nat /\ Astray' = Astray
    BY <1>2, <1>3, <1>12, <2>1, <2>2, AstrayFollows
  <2> QED
    BY <1>7, <2>3 DEF ReturnInv, PromisesCovered
<1>9. Returning'
  <2>1. \A q \in Returns \ {r} : rt'.ret[q] = rt.ret[q]
    BY <1>12
  <2>2. rt'.ret[r] = row
    BY <1>12
  <2> QED
    BY <1>3, <1>4, <1>5, <2>1, <2>2 DEF ReturnInv, Returning
<1>10. ReadyInv'
  <2> SUFFICES ASSUME NEW q \in Returns, MakingReady(q)' PROVE Checked(q)'
    BY DEF ReadyInv
  <2>1. MakingReady(q) /\ Checked(q)
    BY <1>1 DEF ReturnInv, ReadyInv, MakingReady
  <2>2. rt'.ret[q].status \in {"NONE", "DRAFT"}
    BY <1>3, <1>5, <2>1 DEF Checked
  <2> QED
    BY <1>1, <1>3, <1>4, <1>5, <1>7, <2>1, <2>2 DEF Checked, MakingReady
<1> QED
  BY <1>1, <1>2, <1>3, <1>4, <1>6, <1>8, <1>9, <1>10, <1>11 DEF ReturnInv, ReturnTypes

\* The checks of a request hold when it is made.
LEMMA CheckReadyKeeps ==
  ASSUME ReturnInv, NEW r \in Returns, NEW row \in ReturnRows,
         rt.ret[r].status \in {"NONE", "DRAFT"}, OneByOne => Completed(row.invoice),
         CheckReady(r, row)
  PROVE  ReturnInv'
<1> DEFINE i == row.invoice
           new == [step |-> "CHECKED", row |-> row, stale |-> FALSE]
<1>1. /\ UNCHANGED vars /\ rt' = rt /\ ready' = [ready EXCEPT ![r] = new]
      /\ LayerFree(i) /\ row.qty <= Remaining(i)
      /\ row.qty <= db.inv[i].bought - OthersHeld(i, r) /\ row.qty <= Available
  BY DEF CheckReady, StockAllows
<1>2. ReturnTypes /\ Types /\ i \in Invoices /\ row.qty \in Nat
  BY DEF ReturnInv, Inv, ReturnRows
<1>3. /\ Inv' /\ (OneByOne' <=> OneByOne) /\ (\A j : Completed(j)' <=> Completed(j))
      /\ db' = db
  BY <1>1, NothingBoughtKeeps DEF ReturnInv, vars
<1>4. /\ \A j : Remaining(j)' = Remaining(j)
      /\ Actual' = Actual /\ Layered' = Layered /\ Available' = Available
  BY <1>1, <1>3 DEF Remaining, Actual, Layered, Available
<1>5. Taking' /\ Layering' /\ Returning' /\ PromisesCovered'
  <2>1. Astray' = Astray
    BY <1>1, <1>2, AstrayStays
  <2> QED
    BY <1>1, <1>3, <1>4, <2>1 DEF ReturnInv, Taking, Layering, Returning, PromisesCovered
<1>6. /\ new \in [step : {"CHECKED"}, row : ReturnRows, stale : BOOLEAN]
      /\ new.row = row /\ new.step # "IDLE"
  OBVIOUS
<1>7. ready' \in [Returns -> {Idle} \cup [step : {"CHECKED"}, row : ReturnRows, stale : BOOLEAN]]
      /\ ready'[r] = new /\ \A q \in Returns \ {r} : ready'[q] = ready[q]
  <2> HIDE DEF new
  <2> QED
    BY <1>1, <1>2, <1>6 DEF ReturnTypes
<1>8. rt.taken[i] + row.qty <= db.inv[i].bought
  <2>1. /\ Held(i, Kept, {r}) = HeldOf(rt.ret, i) - Bearing(rt.ret[r], i)
        /\ Bearing(rt.ret[r], i) = 0
    BY <1>2, HeldBesides DEF Bearing, Kept
  <2>2. rt.taken[i] = HeldOf(rt.ret, i) /\ rt.taken[i] \in Nat /\ db.inv[i].bought \in Nat
    BY <1>2, StoreNumbers DEF ReturnInv, Taking
  <2>3. OthersHeld(i, r) = Held(i, Kept, {r})
    BY DEF OthersHeld, Kept
  <2>4. OthersHeld(i, r) = rt.taken[i]
    BY <2>1, <2>2, <2>3
  <2> QED
    BY <1>1, <1>2, <2>2, <2>4
<1>9. \A q \in Returns \ {r} : MakingReady(q) => ready[q].row.invoice # i
  BY <1>1 DEF LayerFree, Making
<1>10. ReadyInv'
  <2> SUFFICES ASSUME NEW q \in Returns, MakingReady(q)' PROVE Checked(q)'
    BY DEF ReadyInv
  <2>1. \A p \in Returns \ {r} : MakingReady(p)' <=> MakingReady(p)
    BY <1>7 DEF MakingReady
  <2>2. CASE q = r
    <3>1. ready'[q].row = row
      BY <1>6, <1>7, <2>2
    <3>2. \A p \in Returns : MakingReady(p)' /\ ready'[p].row.invoice = i => p = q
      BY <1>7, <1>9, <2>1, <2>2
    <3> QED
      BY <1>1, <1>3, <1>4, <1>8, <2>2, <3>1, <3>2 DEF Checked
  <2>3. CASE q # r
    <3>1. MakingReady(q) /\ Checked(q) /\ ready'[q] = ready[q] /\ ready[q].row.invoice # i
      BY <1>7, <1>9, <2>1, <2>3 DEF ReturnInv, ReadyInv
    <3>2. \A p \in Returns : MakingReady(p)' /\ ready'[p].row.invoice = ready[q].row.invoice => p = q
      BY <1>6, <1>7, <2>1, <3>1 DEF Checked
    <3> QED
      BY <1>1, <1>3, <1>4, <3>1, <3>2 DEF Checked
  <2> QED
    BY <2>2, <2>3
<1> QED
  BY <1>1, <1>2, <1>3, <1>5, <1>7, <1>10 DEF ReturnInv, ReturnTypes

\* A request that gives up leaves the others as they are.
LEMMA AbandonKeeps ==
  ASSUME ReturnInv, NEW r \in Returns, Abandon(r)
  PROVE  ReturnInv'
<1>1. UNCHANGED vars /\ rt' = rt /\ ready' = [ready EXCEPT ![r] = Idle]
  BY DEF Abandon
<1>2. ReturnTypes
  BY DEF ReturnInv
<1>3. /\ Inv' /\ (OneByOne' <=> OneByOne) /\ (\A j : Completed(j)' <=> Completed(j))
      /\ db' = db
  BY <1>1, NothingBoughtKeeps DEF ReturnInv, vars
<1>4. /\ \A j : Remaining(j)' = Remaining(j)
      /\ Actual' = Actual /\ Layered' = Layered /\ Available' = Available
  BY <1>1, <1>3 DEF Remaining, Actual, Layered, Available
<1>5. Taking' /\ Layering' /\ Returning' /\ PromisesCovered'
  <2>1. Astray' = Astray
    BY <1>1, <1>2, AstrayStays
  <2> QED
    BY <1>1, <1>3, <1>4, <2>1 DEF ReturnInv, Taking, Layering, Returning, PromisesCovered
<1>6. /\ ready' \in [Returns -> {Idle} \cup [step : {"CHECKED"}, row : ReturnRows, stale : BOOLEAN]]
      /\ \A q \in Returns : MakingReady(q)' => MakingReady(q) /\ ready'[q] = ready[q]
  BY <1>1, <1>2 DEF ReturnTypes, MakingReady, Idle
<1>7. ReadyInv'
  <2> SUFFICES ASSUME NEW q \in Returns, MakingReady(q)' PROVE Checked(q)'
    BY DEF ReadyInv
  <2>1. Checked(q) /\ ready'[q] = ready[q]
    BY <1>6 DEF ReturnInv, ReadyInv
  <2> QED
    BY <1>1, <1>3, <1>4, <1>6, <2>1 DEF Checked
<1> QED
  BY <1>1, <1>2, <1>3, <1>5, <1>6, <1>7 DEF ReturnInv, ReturnTypes

\* Reads that have become stale are those of the same requests.
LEMMA StaleReadsEffect ==
  ASSUME ReturnTypes
  PROVE  /\ StaleReads \in [Returns -> {Idle} \cup [step : {"CHECKED"}, row : ReturnRows, stale : BOOLEAN]]
         /\ \A q \in Returns : ~MakingReady(q) => StaleReads[q] = Idle
         /\ \A q \in Returns : MakingReady(q) => /\ StaleReads[q].row = ready[q].row
                                               /\ StaleReads[q].stale
<1>1. ASSUME NEW q \in Returns
      PROVE  /\ StaleReads[q] \in {Idle} \cup [step : {"CHECKED"}, row : ReturnRows, stale : BOOLEAN]
             /\ ~MakingReady(q) => StaleReads[q] = Idle
             /\ MakingReady(q) => StaleReads[q].row = ready[q].row /\ StaleReads[q].stale
  <2>1. CASE ~MakingReady(q)
    BY <2>1 DEF StaleReads
  <2>2. CASE MakingReady(q)
    <3>1. ready[q] \in [step : {"CHECKED"}, row : ReturnRows, stale : BOOLEAN]
      BY <2>2, ReadyTypes
    <3>2. StaleReads[q] = [ready[q] EXCEPT !.stale = TRUE]
      BY <2>2 DEF StaleReads
    <3> QED
      BY <2>2, <3>1, <3>2
  <2> QED
    BY <2>1, <2>2
<1> QED
  BY <1>1 DEF StaleReads

\* The goods a request has checked leave the layer and the stock.
LEMMA TakeOutKeeps ==
  ASSUME ReturnInv, NEW r \in Returns, TakeOut(r)
  PROVE  ReturnInv'
<1>1. ReturnTypes /\ Types /\ MakingReady(r) /\ Checked(r) /\ UNCHANGED vars
  BY DEF ReturnInv, Inv, ReadyInv, TakeOut
<1> PICK row \in ReturnRows : row = ready[r].row
  BY <1>1, ReadyTypes
<1> DEFINE i == row.invoice
           n == row.qty
           new == [row EXCEPT !.status = "READY"]
           some == rt.taken[i] + n
           out == rt.out + n
           sum == rt.clearing + row.total
           wronged == IF ready[r].stale THEN rt.wronged \cup {r} ELSE rt.wronged
<1>2. i \in Invoices /\ n \in Nat /\ row.total \in Nat
  BY DEF ReturnRows
<1>3. new \in ReturnRows /\ new.status = "READY" /\ new.invoice = i /\ new.qty = n
  BY DEF ReturnRows
<1>4. /\ rt.taken[i] \in Nat /\ rt.out \in Nat /\ rt.clearing \in Int /\ Actual \in Int
      /\ Available \in Int /\ Total(db.received) \in Nat /\ rt.replaced \in Nat /\ rt.gone \in Nat
      /\ rt.promised \in Nat /\ db.received[i] \in Nat /\ rt.delivered[i] \in Nat
      /\ Remaining(i) \in Int
  BY <1>1, <1>2, StoreNumbers
<1>5. some \in Nat /\ out \in Nat /\ sum \in Int /\ wronged \in SUBSET Returns
  BY <1>1, <1>2, <1>4 DEF ReturnTypes, Store
<1>6. /\ rt' = [rt EXCEPT !.ret[r] = new, !.taken[i] = some, !.out = out,
                         !.clearing = sum, !.wronged = wronged]
      /\ ready' = [StaleReads EXCEPT ![r] = Idle]
  <2>1. rt' = [rt EXCEPT !.ret[r]             = new,
                         !.taken[row.invoice] = @ + row.qty,
                         !.out                = @ + row.qty,
                         !.clearing           = @ + row.total,
                         !.wronged            = IF ready[r].stale THEN @ \cup {r} ELSE @]
    BY DEF TakeOut
  <2>2. "taken" \in DOMAIN rt /\ i \in DOMAIN rt.taken /\ "out" \in DOMAIN rt
        /\ "clearing" \in DOMAIN rt /\ "wronged" \in DOMAIN rt
    BY <1>1, <1>2 DEF ReturnTypes, Store
  <2>3. i = row.invoice /\ n = row.qty
    OBVIOUS
  <2>4. ready' = [StaleReads EXCEPT ![r] = Idle]
    BY DEF TakeOut
  <2> HIDE DEF new, i, n
  <2> QED
    BY <2>1, <2>2, <2>3, <2>4
<1> HIDE DEF i, n, new, some, out, sum, wronged
<1>7. /\ rt' \in Store /\ rt'.ret = [rt.ret EXCEPT ![r] = new]
      /\ rt'.taken = [rt.taken EXCEPT ![i] = some]
      /\ rt'.delivered = rt.delivered /\ rt'.replaced = rt.replaced
      /\ rt'.gone = rt.gone /\ rt'.promised = rt.promised /\ rt'.out = out
      /\ rt'.wronged = wronged
  <2> DEFINE A == [Returns -> ReturnRows]
             B == [Invoices -> Nat]
             C == SUBSET Returns
  <2>1. Store = [ret : A, taken : B, delivered : B, replaced : Nat, gone : Nat, promised : Nat,
                 out : Nat, clearing : Int, wronged : C]
    BY DEF Store
  <2>2. /\ rt \in Store /\ [rt.ret EXCEPT ![r] = new] \in A /\ [rt.taken EXCEPT ![i] = some] \in B
        /\ wronged \in C
    BY <1>1, <1>2, <1>3, <1>5 DEF ReturnTypes, Store
  <2> HIDE DEF A, B, C
  <2> QED
    BY <1>5, <1>6, <2>1, <2>2
<1>8. Inv' /\ (OneByOne' <=> OneByOne) /\ (\A j : Completed(j)' <=> Completed(j)) /\ db' = db
  BY <1>1, NothingBoughtKeeps DEF ReturnInv, vars
<1>9. /\ rt.ret \in [Returns -> ReturnRows] /\ rt.taken \in [Invoices -> Nat]
      /\ rt.delivered \in [Invoices -> Nat]
  BY <1>1 DEF ReturnTypes, Store
<1>10. /\ ready' \in [Returns -> {Idle} \cup [step : {"CHECKED"}, row : ReturnRows, stale : BOOLEAN]]
       /\ \A q \in Returns : MakingReady(q)' =>
            MakingReady(q) /\ q # r /\ ready'[q].row = ready[q].row /\ ready'[q].stale
  BY <1>1, <1>6, StaleReadsEffect DEF MakingReady, Idle
<1>11. rt'.taken[i] = rt.taken[i] + n /\ \A j \in Invoices \ {i} : rt'.taken[j] = rt.taken[j]
  BY <1>2, <1>7, <1>9 DEF some
<1>12. Taking'
  <2>1. ASSUME NEW j \in Invoices PROVE rt'.taken[j] = HeldOf(rt'.ret, j)
    <3>1. /\ HeldOf(rt'.ret, j) = HeldOf(rt.ret, j) - Bearing(rt.ret[r], j) + Bearing(new, j)
          /\ HeldOf(rt.ret, j) \in Nat
      BY <1>3, <1>7, <1>9, HeldFollows
    <3>2. Bearing(rt.ret[r], j) = 0 /\ Bearing(new, j) = IF j = i THEN n ELSE 0
      BY <1>1, <1>3 DEF Bearing, Kept, Checked
    <3>3. rt.taken[j] = HeldOf(rt.ret, j)
      BY DEF ReturnInv, Taking
    <3> QED
      BY <1>2, <1>11, <3>1, <3>2, <3>3
  <2>2. /\ Total(rt'.taken) = Total(rt.taken) - rt.taken[i] + some
        /\ Total(rt.taken) \in Nat
    <3>1. IsFiniteSet(Invoices)
      BY PurchasingAssumption
    <3> QED
      BY <1>2, <1>5, <1>7, <1>9, <3>1, TotalReplaced
  <2>3. Total(rt.delivered) \in Nat
    BY <1>9, TotalType, PurchasingAssumption
  <2>4. rt.out = Total(rt.taken) + Total(rt.delivered) + rt.gone
    BY DEF ReturnInv, Taking
  <2>5. rt'.out = Total(rt'.taken) + Total(rt'.delivered) + rt'.gone
    BY <1>2, <1>4, <1>7, <2>2, <2>3, <2>4 DEF some, out
  <2> QED
    BY <2>1, <2>5 DEF Taking
<1>13. Actual' = Actual - n /\ Available' = Available - n
  BY <1>2, <1>4, <1>7, <1>8 DEF Actual, Available, out
<1>14. /\ Remaining(i)' = Remaining(i) - n
       /\ \A j \in Invoices \ {i} : Remaining(j)' = Remaining(j)
  BY <1>2, <1>4, <1>7, <1>8, <1>11 DEF Remaining
<1>15. n <= Remaining(i) /\ (OneByOne => Completed(i) /\ rt.taken[i] + n <= db.inv[i].bought)
       /\ (~ready[r].stale => n <= Available)
       /\ \A q \in Returns : MakingReady(q) /\ ready[q].row.invoice = i => q = r
  BY <1>1 DEF Checked, i, n
<1>16. Layering'
  <2>1. Remaining(i)' >= 0
    BY <1>2, <1>4, <1>14, <1>15
  <2>2. Actual' - (rt'.replaced - rt'.gone)
          = Actual - (rt.replaced - rt.gone) - Remaining(i) + Remaining(i)'
    BY <1>2, <1>4, <1>7, <1>13, <1>14
  <2>3. Types' /\ ReturnTypes' /\ Layering
    BY <1>7, <1>8, <1>10 DEF Inv, ReturnInv, ReturnTypes
  <2> QED
    BY <1>1, <1>2, <1>14, <2>1, <2>2, <2>3, LayersFollow
<1>17. Returning'
  <2>1. \A q \in Returns \ {r} : rt'.ret[q] = rt.ret[q]
    BY <1>7, <1>9
  <2>2. rt'.ret[r] = new
    BY <1>7, <1>9
  <2> QED
    BY <1>3, <1>8, <1>11, <1>15, <2>1, <2>2 DEF ReturnInv, Returning
<1>18. ReadyInv'
  <2> SUFFICES ASSUME NEW q \in Returns, MakingReady(q)' PROVE Checked(q)'
    BY DEF ReadyInv
  <2>1. /\ MakingReady(q) /\ q # r /\ ready'[q].row = ready[q].row /\ ready'[q].stale
        /\ Checked(q) /\ ready[q].row.invoice # i
    BY <1>10, <1>15 DEF ReturnInv, ReadyInv
  <2>2. ready[q].row.invoice \in Invoices
    BY <1>1, <2>1, ReadyTypes
  <2>3. rt'.ret[q] = rt.ret[q]
    BY <1>7, <1>9, <2>1
  <2>4. \A p \in Returns : MakingReady(p)' /\ ready'[p].row.invoice = ready[q].row.invoice => p = q
    BY <1>10, <2>1 DEF Checked
  <2> QED
    BY <1>8, <1>11, <1>14, <2>1, <2>2, <2>3, <2>4 DEF Checked
<1>19. PromisesCovered'
  <2>1. rt'.ret[r] = new /\ \A q \in Returns \ {r} : rt'.ret[q] = rt.ret[q]
    BY <1>7, <1>9
  <2>2. \A q \in Returns \ {r} : q \in rt'.wronged <=> q \in rt.wronged
    BY <1>7 DEF wronged
  <2>3. Share(rt.ret, rt.wronged, r) = 0
    BY <1>1 DEF Checked, Share, Away
  <2>4. ReturnTypes'
    BY <1>7, <1>10 DEF ReturnTypes
  <2>5. /\ Astray' = Astray + Share(rt'.ret, rt'.wronged, r)
        /\ Astray \in Nat /\ Astray' \in Nat
    BY <1>1, <2>1, <2>2, <2>3, <2>4, AstrayFollows
  <2>6. CASE ready[r].stale
    <3>1. r \in rt'.wronged
      BY <1>7, <2>6 DEF wronged
    <3>2. Share(rt'.ret, rt'.wronged, r) = n
      BY <1>3, <2>1, <3>1 DEF Share, Away
    <3> QED
      BY <1>2, <1>4, <1>13, <2>5, <3>2 DEF ReturnInv, PromisesCovered
  <2>7. CASE ~ready[r].stale
    BY <1>2, <1>4, <1>13, <1>15, <2>5, <2>7 DEF PromisesCovered
  <2> QED
    BY <2>6, <2>7
<1> QED
  BY <1>7, <1>8, <1>10, <1>12, <1>16, <1>17, <1>18, <1>19 DEF ReturnInv, ReturnTypes

\* The fields of the store that a step of a return leaves as they are.
SameStock ==
  /\ rt'.taken = rt.taken /\ rt'.delivered = rt.delivered /\ rt'.gone = rt.gone
  /\ rt'.promised = rt.promised /\ rt'.out = rt.out /\ rt'.wronged = rt.wronged

\* Invoices are as they were, but for what they owe.
SameGoods ==
  /\ db'.received = db.received /\ (OneByOne' <=> OneByOne)
  /\ \A i \in Invoices : (Completed(i)' <=> Completed(i)) /\ db'.inv[i].bought = db.inv[i].bought

\* Return r is completed with this row, and n more goods replace others.
Finishing(r, done, n) ==
  /\ done \in ReturnRows /\ done.status = "COMPLETED"
  /\ done.invoice = rt.ret[r].invoice /\ done.qty = rt.ret[r].qty
  /\ done.resolution = "REPLACEMENT" => n = done.qty
  /\ rt' \in Store /\ rt'.ret = [rt.ret EXCEPT ![r] = done] /\ SameStock
  /\ rt'.replaced = rt.replaced + n /\ ready' = ready

\* A completed return goes on holding its goods; goods that replace them are more stock.
LEMMA CompletionKeeps ==
  ASSUME ReturnInv, Inv', NEW r \in Returns, rt.ret[r].status = "READY",
         NEW done, NEW n \in Nat, Finishing(r, done, n), SameGoods
  PROVE  ReturnInv'
<1>0. /\ done \in ReturnRows /\ done.status = "COMPLETED"
      /\ done.invoice = rt.ret[r].invoice /\ done.qty = rt.ret[r].qty
      /\ rt' \in Store /\ rt'.ret = [rt.ret EXCEPT ![r] = done] /\ SameStock
      /\ rt'.replaced = rt.replaced + n /\ ready' = ready
  BY DEF Finishing
<1>1. ReturnTypes /\ Types /\ ReturnTypes' /\ rt.ret \in [Returns -> ReturnRows]
  BY <1>0 DEF ReturnInv, Inv, ReturnTypes, Store
<1>2. /\ Actual \in Int /\ Available \in Int /\ Total(db.received) \in Nat
      /\ rt.replaced \in Nat /\ rt.gone \in Nat /\ rt.promised \in Nat /\ rt.out \in Nat
  BY <1>1, StoreNumbers
<1>3. Taking'
  <2>1. ASSUME NEW i \in Invoices PROVE HeldOf(rt'.ret, i) = HeldOf(rt.ret, i)
    <3>1. /\ HeldOf(rt'.ret, i) = HeldOf(rt.ret, i) - Bearing(rt.ret[r], i) + Bearing(done, i)
          /\ HeldOf(rt.ret, i) \in Nat /\ Bearing(rt.ret[r], i) \in Nat
      BY <1>0, <1>1, HeldFollows
    <3>2. Bearing(rt.ret[r], i) = Bearing(done, i)
      BY <1>0 DEF Bearing, Kept
    <3> QED
      BY <3>1, <3>2
  <2> QED
    BY <1>0, <2>1 DEF ReturnInv, Taking, SameStock
<1>4. \A i : Remaining(i)' = Remaining(i)
  BY <1>0 DEF Remaining, SameStock, SameGoods
<1>5. Actual' = Actual + n /\ Available' = Available + n
  BY <1>0, <1>2 DEF Actual, Available, SameStock, SameGoods
<1>6. Layering'
  <2>1. Total([i \in Invoices |-> Remaining(i)]) \in Nat
    <3>1. \A i \in Invoices : Remaining(i) \in Int /\ Remaining(i) >= 0
      BY <1>1, StoreNumbers DEF ReturnInv, Layering
    <3>2. [i \in Invoices |-> Remaining(i)] \in [Invoices -> Nat]
      BY <3>1
    <3> QED
      BY <3>2, TotalType, PurchasingAssumption
  <2>2. Total([i \in Invoices |-> Remaining(i)'])  = Total([i \in Invoices |-> Remaining(i)])
    BY <1>4
  <2>3. Layered' = Layered + n
    BY <1>0, <1>2, <2>1, <2>2 DEF Layered, SameStock, SameGoods
  <2>4. Actual = Layered
    BY DEF ReturnInv, Layering
  <2> QED
    BY <1>4, <1>5, <2>3, <2>4 DEF ReturnInv, Layering
<1>7. \A q \in Returns \ {r} : rt'.ret[q] = rt.ret[q]
  BY <1>0, <1>1
<1>8. rt'.ret[r] = done /\ rt.ret[r].invoice \in Invoices
  BY <1>0, <1>1 DEF ReturnRows
<1>9. \A q \in Returns : rt.ret[q].invoice \in Invoices
  BY <1>1 DEF ReturnRows
<1>10. Returning'
  BY <1>0, <1>7, <1>8, <1>9 DEF ReturnInv, Returning, SameStock, SameGoods
<1>11. ReadyInv'
  <2> SUFFICES ASSUME NEW q \in Returns, MakingReady(q)' PROVE Checked(q)'
    BY DEF ReadyInv
  <2>1. MakingReady(q) /\ Checked(q)
    BY <1>0 DEF ReturnInv, ReadyInv, MakingReady
  <2>2. q # r /\ rt'.ret[q] = rt.ret[q]
    BY <1>7, <2>1 DEF Checked
  <2>3. ready[q].row.invoice \in Invoices /\ ready[q].row.qty \in Nat
    BY <1>1, <2>1, ReadyTypes
  <2>4. ~ready[q].stale => ready[q].row.qty <= Available'
    BY <1>2, <1>5, <2>1, <2>3 DEF Checked
  <2> QED
    BY <1>0, <1>4, <2>1, <2>2, <2>3, <2>4 DEF Checked, MakingReady, SameStock, SameGoods
<1>12. PromisesCovered'
  <2>1. \A q \in Returns \ {r} : q \in rt'.wronged <=> q \in rt.wronged
    BY <1>0 DEF SameStock
  <2>2. /\ Astray' = Astray - Share(rt.ret, rt.wronged, r) + Share(rt'.ret, rt'.wronged, r)
        /\ Astray \in Nat /\ Astray' \in Nat
        /\ Share(rt.ret, rt.wronged, r) \in Nat /\ Share(rt'.ret, rt'.wronged, r) \in Nat
    BY <1>1, <1>7, <2>1, AstrayFollows
  <2>3. Share(rt.ret, rt.wronged, r) - n <= Share(rt'.ret, rt'.wronged, r)
    <3>1. done.qty \in Nat
      BY <1>0 DEF ReturnRows
    <3>2. CASE done.resolution = "REPLACEMENT"
      <4>1. n = done.qty
        BY <3>2 DEF Finishing
      <4> QED
        BY <1>0, <2>2, <3>1, <4>1 DEF Share, Away
    <3>3. CASE done.resolution # "REPLACEMENT"
      <4>1. Share(rt'.ret, rt'.wronged, r) = Share(rt.ret, rt.wronged, r)
        BY <1>0, <1>8, <3>3 DEF Share, Away, SameStock
      <4> QED
        BY <2>2, <4>1
    <3> QED
      BY <3>2, <3>3
  <2> QED
    BY <1>2, <1>5, <2>2, <2>3 DEF ReturnInv, PromisesCovered
<1> QED
  BY <1>1, <1>3, <1>6, <1>10, <1>11, <1>12 DEF ReturnInv

\* The return is settled by this row; 1391 becomes sum, and n more goods replace others.
Settling(r, done, sum, n) ==
  /\ done = [rt.ret[r] EXCEPT !.status = "COMPLETED"]
  /\ rt.ret[r].resolution = "REPLACEMENT" => n = rt.ret[r].qty
  /\ rt' = [rt EXCEPT !.ret[r] = done, !.clearing = sum, !.replaced = rt.replaced + n]

\* What completing a return does to the store, whatever its resolution.
LEMMA SettledStore ==
  ASSUME ReturnInv, NEW r \in Returns, NEW done, NEW sum \in Int, NEW n \in Nat,
         rt.ret[r].status = "READY", Settling(r, done, sum, n), ready' = ready
  PROVE  Finishing(r, done, n)
<1>1. rt \in Store /\ rt.ret \in [Returns -> ReturnRows] /\ rt.ret[r] \in ReturnRows
  BY DEF ReturnInv, ReturnTypes, Store
<1>2. /\ done \in ReturnRows /\ done.status = "COMPLETED"
      /\ done.invoice = rt.ret[r].invoice /\ done.qty = rt.ret[r].qty
      /\ done.resolution = "REPLACEMENT" => n = done.qty
  BY <1>1 DEF ReturnRows, Settling
<1> DEFINE m == rt.replaced + n
<1>3. m \in Nat
  BY <1>1 DEF Store
<1>4. rt' = [rt EXCEPT !.ret[r] = done, !.clearing = sum, !.replaced = m]
  BY DEF Settling
<1> HIDE DEF m
<1>5. /\ rt' \in Store /\ rt'.ret = [rt.ret EXCEPT ![r] = done] /\ rt'.replaced = m
      /\ SameStock
  <2> DEFINE A == [Returns -> ReturnRows]
             B == [Invoices -> Nat]
             C == SUBSET Returns
  <2>1. Store = [ret : A, taken : B, delivered : B, replaced : Nat, gone : Nat, promised : Nat,
                 out : Nat, clearing : Int, wronged : C]
    BY DEF Store
  <2>2. rt \in Store /\ [rt.ret EXCEPT ![r] = done] \in A
    BY <1>1, <1>2
  <2> HIDE DEF A, B, C
  <2> QED
    BY <1>3, <1>4, <2>1, <2>2 DEF SameStock
<1> QED
  BY <1>2, <1>5 DEF m, Finishing

\* Taking the value of a return off what its invoice has outstanding settles the same
\* amount in the ledger, in the summary of the supplier and on the invoice.
LEMMA DeductEffect ==
  ASSUME ReturnInv, NEW r \in Returns, rt.ret[r].status = "READY", Deduct(r)
  PROVE  /\ Inv' /\ db'.received = db.received /\ raced' = raced
         /\ \A i \in Invoices : /\ db'.inv[i].status = db.inv[i].status
                                /\ db'.inv[i].bought = db.inv[i].bought
<1> DEFINE i == rt.ret[r].invoice
           a == rt.ret[r].total
           s == db.inv[i].supplier
           row == [db.inv[i] EXCEPT !.outstanding = @ - a]
<1>1. Inv /\ Types /\ ReturnTypes
  BY DEF ReturnInv, Inv
<1>2. i \in Invoices /\ a \in Nat
  BY <1>1 DEF ReturnTypes, Store, ReturnRows
<1>3. OneByOne => db.inv[i].status = "COMPLETED"
  BY DEF ReturnInv, Returning, Completed
<1>4. /\ a <= db.inv[i].outstanding /\ a <= db.summary[s] /\ tx' = tx /\ raced' = raced
      /\ db' = [db EXCEPT !.inv[i].outstanding = @ - a, !.payable = @ - a, !.summary[s] = @ - a]
  BY DEF Deduct
<1> HIDE DEF i, a
<1>5. /\ db.inv[i] \in InvoiceRows /\ s \in Suppliers /\ db.summary[s] \in Nat
      /\ db.payable \in Int /\ db.inv[i].outstanding \in Nat
  BY <1>1, <1>2 DEF Types, PurchasingTypeOK, Database, InvoiceRows
<1>6. row \in InvoiceRows
  <2>1. db.inv[i].outstanding - a \in Nat
    BY <1>2, <1>4, <1>5
  <2>2. ASSUME NEW n \in Nat PROVE [db.inv[i] EXCEPT !.outstanding = n] \in InvoiceRows
    BY <1>5 DEF InvoiceRows
  <2> QED
    BY <2>1, <2>2
<1>7. /\ db'.inv = [db.inv EXCEPT ![i] = row]
      /\ db'.order = db.order /\ db'.receipts = db.receipts /\ db'.accrued = db.accrued
      /\ db'.received = db.received
      /\ db'.payable = db.payable - a
      /\ db'.summary = [db.summary EXCEPT ![s] = @ - a]
  BY <1>1, <1>2, <1>4, <1>5 DEF Types, PurchasingTypeOK, Database
<1>8. db'.inv \in [Invoices -> InvoiceRows] /\ db'.summary \in [Suppliers -> Nat]
      /\ db'.payable \in Int
  <2> HIDE DEF row, s
  <2> QED
    BY <1>1, <1>2, <1>4, <1>5, <1>6, <1>7 DEF Types, PurchasingTypeOK, Database
<1>9. db' \in Database
  <2> DEFINE O == [Orders -> OrderRows]
             I == [Invoices -> InvoiceRows]
             N == [Invoices -> Nat]
             S == [Suppliers -> Int]
  <2>1. Database = [order : O, inv : I, received : N, receipts : N, accrued : N,
                    payable : Int, summary : S]
    BY DEF Database
  <2>2. db \in Database /\ db'.inv \in I /\ db'.payable \in Int /\ db'.summary \in S
    BY <1>1, <1>8 DEF Types, PurchasingTypeOK
  <2> HIDE DEF O, I, N, S, row, s
  <2> QED
    BY <1>4, <2>1, <2>2
<1>10. Types'
  BY <1>1, <1>4, <1>8, <1>9 DEF Types, PurchasingTypeOK
<1>11. NoneNew
  BY <1>4 DEF NoneNew, Running
<1>12. /\ row.status = db.inv[i].status /\ row.supplier = s /\ row.bought = db.inv[i].bought
       /\ row.order = db.inv[i].order /\ row.outstanding = db.inv[i].outstanding - a
  BY <1>5 DEF InvoiceRows
<1> HIDE DEF row
<1>13. Inv'
  BY <1>1, <1>2, <1>3, <1>4, <1>5, <1>6, <1>7, <1>10, <1>11, <1>12, SettlingKeeps
<1>14. ASSUME NEW j \in Invoices
       PROVE  db'.inv[j].status = db.inv[j].status /\ db'.inv[j].bought = db.inv[j].bought
  BY <1>1, <1>2, <1>7, <1>12 DEF Types, PurchasingTypeOK, Database
<1> QED
  BY <1>4, <1>7, <1>13, <1>14

\* What completing a return does keeps the invariant.
LEMMA CompleteKeeps ==
  ASSUME ReturnInv, NEW r \in Returns, Complete(r)
  PROVE  ReturnInv'
<1> PICK done : done = [rt.ret[r] EXCEPT !.status = "COMPLETED"]
  OBVIOUS
<1>1. /\ rt.ret[r].status = "READY" /\ rt \in Store /\ rt.ret \in [Returns -> ReturnRows]
      /\ rt.ret[r] \in ReturnRows /\ rt.replaced \in Nat /\ rt.clearing \in Int
      /\ rt.ret[r].total \in Nat /\ rt.ret[r].qty \in Nat
  BY DEF ReturnInv, ReturnTypes, Store, Complete, ReturnRows
<1>2. DOMAIN rt = {"ret", "taken", "delivered", "replaced", "gone", "promised", "out", "clearing",
                   "wronged"}
  BY <1>1 DEF Store
<1>3. ASSUME NEW sum \in Int, NEW n \in Nat, ready' = ready, Settling(r, done, sum, n),
             Inv', db'.received = db.received, raced' = raced,
             \A i \in Invoices : /\ db'.inv[i].status = db.inv[i].status
                                 /\ db'.inv[i].bought = db.inv[i].bought
      PROVE  ReturnInv'
  <2>1. Finishing(r, done, n)
    BY <1>1, <1>3, SettledStore
  <2>2. SameGoods
    BY <1>3 DEF SameGoods, OneByOne, Completed
  <2> QED
    BY <1>1, <1>3, <2>1, <2>2, CompletionKeeps
<1>4. ASSUME UNCHANGED vars
      PROVE  /\ Inv' /\ db'.received = db.received /\ raced' = raced
             /\ \A i \in Invoices : /\ db'.inv[i].status = db.inv[i].status
                                    /\ db'.inv[i].bought = db.inv[i].bought
  BY <1>4, NothingBoughtKeeps DEF ReturnInv, vars
<1> DEFINE less == rt.clearing - rt.ret[r].total
<1>5. Settled(r) = [rt EXCEPT !.ret[r] = done, !.clearing = less, !.replaced = rt.replaced + 0]
  <2>1. [rt EXCEPT !.ret[r].status = "COMPLETED"].clearing = rt.clearing
    BY <1>1, <1>2
  <2>2. rt.replaced + 0 = rt.replaced
    BY <1>1
  <2> QED
    BY <1>1, <1>2, <2>1, <2>2 DEF Settled, Store
<1>6. less \in Int
  BY <1>1
<1>7. CASE Replace(r)
  <2>1. Settling(r, done, less, rt.ret[r].qty)
    <3>1. rt' = [Settled(r) EXCEPT !.replaced = @ + rt.ret[r].qty]
      BY <1>7 DEF Replace
    <3>2. Settled(r).replaced = rt.replaced
      BY <1>1, <1>2, <1>5
    <3> HIDE DEF less
    <3> QED
      BY <1>2, <1>5, <1>7, <3>1, <3>2 DEF Settling
  <2> HIDE DEF less
  <2> QED
    BY <1>1, <1>3, <1>4, <1>6, <1>7, <2>1 DEF Replace
<1>8. CASE Deduct(r)
  <2>1. /\ Inv' /\ db'.received = db.received /\ raced' = raced
        /\ \A i \in Invoices : /\ db'.inv[i].status = db.inv[i].status
                               /\ db'.inv[i].bought = db.inv[i].bought
    BY <1>1, <1>8, DeductEffect
  <2>2. Settling(r, done, less, 0)
    BY <1>5, <1>8 DEF Deduct, Settling
  <2> HIDE DEF less
  <2> QED
    BY <1>3, <1>6, <1>8, <2>1, <2>2 DEF Deduct
<1>9. CASE \E i \in Invoices : NoteNext(r, i)
  <2>1. /\ rt' = [rt EXCEPT !.ret[r].status = "COMPLETED"] /\ ready' = ready /\ UNCHANGED vars
        /\ rt.ret[r].resolution # "REPLACEMENT"
    BY <1>9 DEF NoteNext
  <2>2. Settling(r, done, rt.clearing, 0)
    <3>1. rt.replaced + 0 = rt.replaced
      BY <1>1
    <3> QED
      BY <1>1, <1>2, <2>1, <3>1 DEF Store, Settling
  <2> QED
    BY <1>1, <1>3, <1>4, <2>1, <2>2
<1>10. CASE Cashback(r)
  <2>1. /\ rt' = Settled(r) /\ ready' = ready /\ UNCHANGED vars
        /\ rt.ret[r].resolution # "REPLACEMENT"
    BY <1>10 DEF Cashback
  <2>2. Settling(r, done, less, 0)
    BY <1>5, <2>1 DEF Settling
  <2> HIDE DEF less
  <2> QED
    BY <1>3, <1>4, <1>6, <2>1, <2>2
<1> QED
  BY <1>7, <1>8, <1>9, <1>10 DEF Complete

-----------------------------------------------------------------------------
(***************************************************************************)
(* Cancellation and sales                                                  *)
(***************************************************************************)

\* A draft that is cancelled held nothing.
LEMMA CancelDraftKeeps ==
  ASSUME ReturnInv, NEW r \in Returns, Cancel(r), rt.ret[r].status = "DRAFT"
  PROVE  ReturnInv'
<1> PICK row : row = [rt.ret[r] EXCEPT !.status = "CANCELLED"]
  OBVIOUS
<1>1. /\ ReturnTypes /\ rt \in Store /\ Types /\ rt.ret \in [Returns -> ReturnRows]
      /\ ~MakingReady(r) /\ UNCHANGED vars /\ ready' = ready
      /\ rt' = [rt EXCEPT !.ret[r].status = "CANCELLED"]
  BY DEF ReturnInv, ReturnTypes, Inv, Store, Cancel, PutBack
<1>2. row \in ReturnRows /\ row.status = "CANCELLED" /\ row.invoice = rt.ret[r].invoice
  BY <1>1 DEF ReturnRows
<1>3. /\ rt' \in Store /\ rt'.ret = [rt.ret EXCEPT ![r] = row]
      /\ rt'.replaced = rt.replaced /\ SameStock
  <2>1. rt' = [rt EXCEPT !.ret[r] = row]
    BY <1>1 DEF Store
  <2> QED
    BY <1>1, <1>2, <2>1 DEF Store, SameStock
<1>4. Inv' /\ (OneByOne' <=> OneByOne) /\ (\A i : Completed(i)' <=> Completed(i)) /\ db' = db
  BY <1>1, NothingBoughtKeeps DEF ReturnInv, vars
<1>5. Taking'
  <2>1. ASSUME NEW i \in Invoices PROVE HeldOf(rt'.ret, i) = HeldOf(rt.ret, i)
    <3>1. /\ HeldOf(rt'.ret, i) = HeldOf(rt.ret, i) - Bearing(rt.ret[r], i) + Bearing(row, i)
          /\ HeldOf(rt.ret, i) \in Nat
      BY <1>1, <1>2, <1>3, HeldFollows
    <3>2. Bearing(rt.ret[r], i) = 0 /\ Bearing(row, i) = 0
      BY <1>2 DEF Bearing, Kept
    <3> QED
      BY <3>1, <3>2
  <2> QED
    BY <1>3, <2>1 DEF ReturnInv, Taking, SameStock
<1>6. /\ \A i : Remaining(i)' = Remaining(i)
      /\ Actual' = Actual /\ Layered' = Layered /\ Available' = Available
  BY <1>3, <1>4 DEF Remaining, Actual, Layered, Available, SameStock
<1>7. Layering'
  BY <1>3, <1>6 DEF ReturnInv, Layering, SameStock
<1>8. rt'.ret[r] = row /\ \A q \in Returns \ {r} : rt'.ret[q] = rt.ret[q]
  BY <1>1, <1>3
<1>11. PromisesCovered'
  <2>1. Share(rt.ret, rt.wronged, r) = 0 /\ Share(rt'.ret, rt'.wronged, r) = 0
    BY <1>2, <1>8 DEF Share, Away
  <2>2. ReturnTypes' /\ rt'.wronged = rt.wronged
    BY <1>1, <1>3 DEF ReturnTypes, SameStock
  <2>3. Astray \in Nat /\ Astray' = Astray
    BY <1>1, <1>8, <2>1, <2>2, AstrayFollows
  <2> QED
    BY <1>6, <2>3 DEF ReturnInv, PromisesCovered
<1>9. Returning'
  BY <1>2, <1>3, <1>4, <1>8 DEF ReturnInv, Returning, SameStock
<1>10. ReadyInv'
  <2> SUFFICES ASSUME NEW q \in Returns, MakingReady(q)' PROVE Checked(q)'
    BY DEF ReadyInv
  <2>1. MakingReady(q) /\ Checked(q) /\ rt'.ret[q] = rt.ret[q]
    BY <1>1, <1>8 DEF ReturnInv, ReadyInv, MakingReady
  <2> QED
    BY <1>1, <1>3, <1>4, <1>6, <2>1 DEF Checked, MakingReady, SameStock
<1> QED
  BY <1>1, <1>3, <1>4, <1>5, <1>7, <1>9, <1>10, <1>11 DEF ReturnInv, ReturnTypes

\* The goods of a READY return go back to their layer, which no other request uses.
LEMMA CancelReadyKeeps ==
  ASSUME ReturnInv, NEW r \in Returns, Cancel(r), rt.ret[r].status = "READY"
  PROVE  ReturnInv'
<1>1. /\ ReturnTypes /\ rt \in Store /\ Types /\ rt.ret \in [Returns -> ReturnRows]
      /\ rt.taken \in [Invoices -> Nat] /\ rt.delivered \in [Invoices -> Nat]
      /\ ~MakingReady(r) /\ UNCHANGED vars /\ ready' = ready /\ LayerFree(rt.ret[r].invoice)
  BY DEF ReturnInv, ReturnTypes, Inv, Store, Cancel
<1> PICK old \in ReturnRows : old = rt.ret[r]
  BY <1>1
<1> DEFINE i == old.invoice
           n == old.qty
           row == [old EXCEPT !.status = "CANCELLED"]
           some == rt.taken[i] - n
           out == rt.out - n
<1>2. i \in Invoices /\ n \in Nat /\ old.status = "READY"
  BY DEF ReturnRows
<1>3. row \in ReturnRows /\ row.status = "CANCELLED" /\ row.invoice = i
  BY DEF ReturnRows
<1>4. /\ rt.taken[i] \in Nat /\ rt.out \in Nat /\ rt.clearing \in Int /\ Actual \in Int
      /\ Available \in Int /\ Total(db.received) \in Nat /\ rt.replaced \in Nat /\ rt.gone \in Nat
      /\ rt.promised \in Nat /\ db.received[i] \in Nat /\ rt.delivered[i] \in Nat
      /\ Remaining(i) \in Int
  BY <1>1, <1>2, StoreNumbers
<1>5. n <= rt.taken[i]
  <2>1. Bearing(rt.ret[r], i) = n
    BY <1>2 DEF Bearing, Kept
  <2>2. Bearing(rt.ret[r], i) <= HeldOf(rt.ret, i)
    BY <1>1, <1>2, HeldFollows
  <2> QED
    BY <1>2, <2>1, <2>2 DEF ReturnInv, Taking
<1>6. n <= rt.out
  <2>1. rt.taken[i] <= Total(rt.taken) /\ Total(rt.taken) \in Nat /\ Total(rt.delivered) \in Nat
    BY <1>1, <1>2, TotalMember, TotalType, PurchasingAssumption
  <2> QED
    BY <1>2, <1>4, <1>5, <2>1 DEF ReturnInv, Taking
<1>7. some \in Nat /\ out \in Nat
  BY <1>2, <1>4, <1>5, <1>6
<1>8. rt' = [rt EXCEPT !.ret[r] = row, !.taken[i] = some, !.out = out]
  <2>1. rt' = [rt EXCEPT !.ret[r].status = "CANCELLED", !.taken[i] = @ - n, !.out = @ - n]
    BY <1>2 DEF Cancel, PutBack
  <2>2. "taken" \in DOMAIN rt /\ i \in DOMAIN rt.taken /\ "out" \in DOMAIN rt
        /\ "ret" \in DOMAIN rt /\ r \in DOMAIN rt.ret
    BY <1>1, <1>2 DEF Store
  <2> HIDE DEF i, n
  <2> QED
    BY <1>1, <2>1, <2>2
<1> HIDE DEF i, n, row, some, out
<1>9. /\ rt' \in Store /\ rt'.ret = [rt.ret EXCEPT ![r] = row]
      /\ rt'.taken = [rt.taken EXCEPT ![i] = some]
      /\ rt'.delivered = rt.delivered /\ rt'.replaced = rt.replaced
      /\ rt'.gone = rt.gone /\ rt'.promised = rt.promised /\ rt'.out = out
      /\ rt'.wronged = rt.wronged
  <2> DEFINE A == [Returns -> ReturnRows]
             B == [Invoices -> Nat]
             C == SUBSET Returns
  <2>1. Store = [ret : A, taken : B, delivered : B, replaced : Nat, gone : Nat, promised : Nat,
                 out : Nat, clearing : Int, wronged : C]
    BY DEF Store
  <2>2. rt \in Store /\ [rt.ret EXCEPT ![r] = row] \in A /\ [rt.taken EXCEPT ![i] = some] \in B
    BY <1>1, <1>2, <1>3, <1>7
  <2> HIDE DEF A, B, C
  <2> QED
    BY <1>7, <1>8, <2>1, <2>2
<1>10. Inv' /\ (OneByOne' <=> OneByOne) /\ (\A j : Completed(j)' <=> Completed(j)) /\ db' = db
  BY <1>1, NothingBoughtKeeps DEF ReturnInv, vars
<1>11. /\ rt'.taken[i] = rt.taken[i] - n /\ \A j \in Invoices \ {i} : rt'.taken[j] = rt.taken[j]
       /\ rt'.ret[r] = row /\ \A q \in Returns \ {r} : rt'.ret[q] = rt.ret[q]
  BY <1>1, <1>2, <1>9 DEF some
<1>12. Taking'
  <2>1. ASSUME NEW j \in Invoices PROVE rt'.taken[j] = HeldOf(rt'.ret, j)
    <3>1. /\ HeldOf(rt'.ret, j) = HeldOf(rt.ret, j) - Bearing(rt.ret[r], j) + Bearing(row, j)
          /\ HeldOf(rt.ret, j) \in Nat
      BY <1>1, <1>3, <1>9, HeldFollows
    <3>2. Bearing(row, j) = 0 /\ Bearing(rt.ret[r], j) = IF j = i THEN n ELSE 0
      BY <1>2, <1>3 DEF Bearing, Kept, i, n
    <3>3. rt.taken[j] = HeldOf(rt.ret, j)
      BY DEF ReturnInv, Taking
    <3> QED
      BY <1>2, <1>11, <3>1, <3>2, <3>3
  <2>2. /\ Total(rt'.taken) = Total(rt.taken) - rt.taken[i] + some
        /\ Total(rt.taken) \in Nat
    <3>1. IsFiniteSet(Invoices)
      BY PurchasingAssumption
    <3> QED
      BY <1>1, <1>2, <1>7, <1>9, <3>1, TotalReplaced
  <2>3. Total(rt.delivered) \in Nat
    BY <1>1, TotalType, PurchasingAssumption
  <2>4. rt.out = Total(rt.taken) + Total(rt.delivered) + rt.gone
    BY DEF ReturnInv, Taking
  <2>5. rt'.out = Total(rt'.taken) + Total(rt'.delivered) + rt'.gone
    BY <1>2, <1>4, <1>9, <2>2, <2>3, <2>4 DEF some, out
  <2> QED
    BY <2>1, <2>5 DEF Taking
<1>13. Actual' = Actual + n /\ Available' = Available + n
  BY <1>2, <1>4, <1>9, <1>10 DEF Actual, Available, out
<1>14. /\ Remaining(i)' = Remaining(i) + n
       /\ \A j \in Invoices \ {i} : Remaining(j)' = Remaining(j)
  BY <1>2, <1>4, <1>9, <1>10, <1>11 DEF Remaining
<1>15. Layering'
  <2>1. Remaining(i) >= 0
    BY <1>2 DEF ReturnInv, Layering
  <2>2. Remaining(i)' >= 0
    BY <1>2, <1>4, <1>14, <2>1
  <2>3. Actual' - (rt'.replaced - rt'.gone)
          = Actual - (rt.replaced - rt.gone) - Remaining(i) + Remaining(i)'
    BY <1>2, <1>4, <1>9, <1>13, <1>14
  <2>4. Types' /\ ReturnTypes' /\ Layering
    BY <1>1, <1>9, <1>10 DEF Inv, ReturnInv, ReturnTypes
  <2> QED
    BY <1>1, <1>2, <1>14, <2>2, <2>3, <2>4, LayersFollow
<1>16. Returning'
  <2>1. OneByOne => /\ Completed(i)
                    /\ \A j \in Invoices : rt.taken[j] <= db.inv[j].bought
    BY <1>2 DEF ReturnInv, Returning, i
  <2>2. db.inv[i].bought \in Nat
    BY <1>1, <1>2, StoreNumbers
  <2>3. OneByOne => \A j \in Invoices : rt'.taken[j] <= db.inv[j].bought
    BY <1>2, <1>4, <1>11, <2>1, <2>2
  <2> QED
    BY <1>3, <1>10, <1>11, <2>1, <2>3 DEF ReturnInv, Returning
<1>17. ReadyInv'
  <2> SUFFICES ASSUME NEW q \in Returns, MakingReady(q)' PROVE Checked(q)'
    BY DEF ReadyInv
  <2>1. /\ MakingReady(q) /\ q # r /\ Checked(q) /\ ready[q].row.invoice # i
    BY <1>1 DEF ReturnInv, ReadyInv, MakingReady, LayerFree, Making, i
  <2>2. ready[q].row.invoice \in Invoices /\ ready[q].row.qty \in Nat
    BY <1>1, <2>1, ReadyTypes
  <2>3. rt'.ret[q] = rt.ret[q]
    BY <1>11, <2>1
  <2>4. ~ready[q].stale => ready[q].row.qty <= Available'
    BY <1>2, <1>4, <1>13, <2>1, <2>2 DEF Checked
  <2> QED
    BY <1>1, <1>9, <1>10, <1>11, <1>14, <2>1, <2>2, <2>3, <2>4 DEF Checked, MakingReady
<1>18. PromisesCovered'
  <2>1. Share(rt'.ret, rt'.wronged, r) = 0 /\ Share(rt.ret, rt.wronged, r) <= n
    BY <1>2, <1>3, <1>11 DEF Share, Away, n
  <2>2. ReturnTypes'
    BY <1>1, <1>9 DEF ReturnTypes
  <2>3. /\ Astray' = Astray - Share(rt.ret, rt.wronged, r) + Share(rt'.ret, rt'.wronged, r)
        /\ Astray \in Nat /\ Astray' \in Nat /\ Share(rt.ret, rt.wronged, r) \in Nat
    BY <1>1, <1>9, <1>11, <2>2, AstrayFollows
  <2> QED
    BY <1>2, <1>4, <1>13, <2>1, <2>3 DEF ReturnInv, PromisesCovered
<1> QED
  BY <1>1, <1>9, <1>10, <1>12, <1>15, <1>16, <1>17, <1>18 DEF ReturnInv, ReturnTypes

\* Promising or withdrawing goods moves nothing; a check made before a promise is stale.
LEMMA PromisingKeeps ==
  ASSUME ReturnInv, UNCHANGED vars, NEW n \in Nat, rt' = [rt EXCEPT !.promised = n],
         \/ ready' = ready /\ n <= rt.promised
         \/ ready' = StaleReads /\ n <= rt.promised + 1 /\ Available > 0
  PROVE  ReturnInv'
<1>1. /\ ReturnTypes /\ rt \in Store /\ Types
  BY DEF ReturnInv, ReturnTypes, Inv
<1>2. /\ rt' \in Store /\ rt'.ret = rt.ret /\ rt'.taken = rt.taken /\ rt'.delivered = rt.delivered
      /\ rt'.replaced = rt.replaced /\ rt'.gone = rt.gone /\ rt'.promised = n
      /\ rt'.out = rt.out /\ rt'.wronged = rt.wronged
  BY <1>1 DEF Store
<1>3. Inv' /\ (OneByOne' <=> OneByOne) /\ (\A j : Completed(j)' <=> Completed(j)) /\ db' = db
  BY NothingBoughtKeeps DEF ReturnInv, vars
<1>4. /\ Actual \in Int /\ rt.promised \in Nat /\ Available = Actual - rt.promised
  BY <1>1, StoreNumbers DEF Available
<1>5. /\ \A i : Remaining(i)' = Remaining(i)
      /\ Actual' = Actual /\ Layered' = Layered /\ Available' = Actual - n
  BY <1>2, <1>3 DEF Remaining, Actual, Layered, Available
<1>6. Taking' /\ Layering' /\ Returning'
  BY <1>2, <1>3, <1>5 DEF ReturnInv, Taking, Layering, Returning
<1>7. PromisesCovered'
  <2>0. Astray \in Nat /\ Astray' = Astray
    BY <1>1, <1>2, AstrayStays
  <2>1. CASE n <= rt.promised
    BY <1>4, <1>5, <2>0, <2>1 DEF ReturnInv, PromisesCovered
  <2>2. CASE n <= rt.promised + 1 /\ Available > 0
    BY <1>4, <1>5, <2>0, <2>2 DEF PromisesCovered
  <2> QED
    BY <2>1, <2>2
<1>8. /\ ready' \in [Returns -> {Idle} \cup [step : {"CHECKED"}, row : ReturnRows, stale : BOOLEAN]]
      /\ \A q \in Returns :
           MakingReady(q)' => /\ MakingReady(q)
                              /\ ready'[q].row = ready[q].row
                              /\ ready'[q].stale \/ (ready'[q] = ready[q] /\ n <= rt.promised)
  <2>1. CASE ready' = ready /\ n <= rt.promised
    BY <1>1, <2>1 DEF ReturnTypes, MakingReady
  <2>2. CASE ready' = StaleReads
    BY <1>1, <2>2, StaleReadsEffect DEF MakingReady, Idle
  <2> QED
    BY <2>1, <2>2
<1>9. ReadyInv'
  <2> SUFFICES ASSUME NEW q \in Returns, MakingReady(q)' PROVE Checked(q)'
    BY DEF ReadyInv
  <2>1. /\ MakingReady(q) /\ Checked(q) /\ ready'[q].row = ready[q].row
    BY <1>8 DEF ReturnInv, ReadyInv
  <2>2. ready[q].row.qty \in Nat
    BY <1>1, <2>1, ReadyTypes
  <2>3. ~ready'[q].stale => ready[q].row.qty <= Available'
    <3> SUFFICES ASSUME ~ready'[q].stale PROVE ready[q].row.qty <= Available'
      OBVIOUS
    <3>1. ready'[q] = ready[q] /\ n <= rt.promised
      BY <1>8
    <3>2. ready[q].row.qty <= Available
      BY <2>1, <3>1 DEF Checked
    <3> QED
      BY <1>4, <1>5, <2>2, <3>1, <3>2
  <2>4. \A p \in Returns : MakingReady(p)' /\ ready'[p].row.invoice = ready[q].row.invoice => p = q
    BY <1>8, <2>1 DEF Checked
  <2> QED
    BY <1>2, <1>3, <1>5, <2>1, <2>3, <2>4 DEF Checked
<1> QED
  BY <1>1, <1>2, <1>3, <1>6, <1>7, <1>8, <1>9 DEF ReturnInv, ReturnTypes

\* What a sale delivers, of one layer or of replacement goods, was promised and in stock.
LEMMA DeliverKeeps ==
  ASSUME ReturnInv, Deliver
  PROVE  ReturnInv'
<1>1. /\ ReturnTypes /\ rt \in Store /\ Types /\ rt.delivered \in [Invoices -> Nat]
      /\ rt.taken \in [Invoices -> Nat] /\ rt.promised > 0 /\ Actual > 0
      /\ UNCHANGED vars /\ ready' = ready
  BY DEF ReturnInv, ReturnTypes, Inv, Store, Deliver
<1>2. Inv' /\ (OneByOne' <=> OneByOne) /\ (\A j : Completed(j)' <=> Completed(j)) /\ db' = db
  BY <1>1, NothingBoughtKeeps DEF ReturnInv, vars
<1>3. /\ Actual \in Int /\ Available \in Int /\ Available = Actual - rt.promised
      /\ Total(db.received) \in Nat /\ Actual = Total(db.received) + rt.replaced - rt.out
      /\ rt.replaced \in Nat /\ rt.gone \in Nat /\ rt.promised \in Nat /\ rt.out \in Nat
  BY <1>1, StoreNumbers DEF Actual, Available
<1>4. Total(rt.taken) \in Nat /\ Total(rt.delivered) \in Nat
  BY <1>1, TotalType, PurchasingAssumption
<1>5. rt.out = Total(rt.taken) + Total(rt.delivered) + rt.gone
  BY DEF ReturnInv, Taking
<1> DEFINE less == rt.promised - 1
           out == rt.out + 1
<1>6. less \in Nat /\ out \in Nat
  BY <1>1, <1>3
\* What holds of any store in which one unit more is out and one less promised.
<1>7. ASSUME NEW delivered \in [Invoices -> Nat], NEW gone \in Nat,
             Total(delivered) + gone = Total(rt.delivered) + rt.gone + 1,
             rt' = [rt EXCEPT !.promised = less, !.out = out, !.delivered = delivered,
                              !.gone = gone],
             \A j \in Invoices : /\ Remaining(j)' <= Remaining(j)
                                 /\ LayerFree(j) \/ Remaining(j)' = Remaining(j),
             Layering'
      PROVE  ReturnInv'
  <2>1. /\ rt' \in Store /\ rt'.ret = rt.ret /\ rt'.taken = rt.taken
        /\ rt'.delivered = delivered /\ rt'.replaced = rt.replaced /\ rt'.gone = gone
        /\ rt'.promised = less /\ rt'.out = out /\ rt'.wronged = rt.wronged
    <3> HIDE DEF less, out
    <3> QED
      BY <1>1, <1>6, <1>7 DEF Store
  <2>2. Total(delivered) \in Nat
    BY <1>7, TotalType, PurchasingAssumption
  <2>3. rt'.out = Total(rt'.taken) + Total(rt'.delivered) + rt'.gone
    BY <1>3, <1>4, <1>5, <1>7, <2>1, <2>2
  <2>4. Taking'
    BY <2>1, <2>3 DEF ReturnInv, Taking
  <2>5. Actual' = Actual - 1
    BY <1>2, <1>3, <2>1 DEF Actual
  <2>6. Available' = Available
    BY <1>3, <2>1, <2>5 DEF Available
  <2>7. Returning' /\ PromisesCovered'
    <3>1. Astray' = Astray
      BY <1>1, <2>1, AstrayStays
    <3> QED
      BY <1>2, <2>1, <2>6, <3>1 DEF ReturnInv, Returning, PromisesCovered
  <2>8. ReadyInv'
    <3> SUFFICES ASSUME NEW q \in Returns, MakingReady(q)' PROVE Checked(q)'
      BY DEF ReadyInv
    <3>1. MakingReady(q) /\ Checked(q)
      BY <1>1 DEF ReturnInv, ReadyInv, MakingReady
    <3> PICK i \in Invoices : i = ready[q].row.invoice
      BY <1>1, <3>1, ReadyTypes
    <3>2. ~LayerFree(i)
      BY <3>1 DEF LayerFree, Making
    <3>3. Remaining(i)' = Remaining(i)
      BY <1>7, <3>2
    <3> QED
      BY <1>1, <1>2, <2>1, <2>6, <3>1, <3>3 DEF Checked, MakingReady
  <2> QED
    BY <1>1, <1>2, <1>7, <2>1, <2>4, <2>7, <2>8 DEF ReturnInv, ReturnTypes
<1>8. ASSUME NEW i \in Invoices, Remaining(i) > 0, LayerFree(i),
             rt' = [rt EXCEPT !.promised = @ - 1, !.out = @ + 1, !.delivered[i] = @ + 1]
      PROVE  ReturnInv'
  <2> DEFINE f == rt.delivered
             m == f[i] + 1
             delivered == [f EXCEPT ![i] = m]
  <2>1. f[i] \in Nat /\ m \in Nat /\ delivered \in [Invoices -> Nat] /\ f \in [Invoices -> Nat]
    BY <1>1
  <2>2. rt' = [rt EXCEPT !.promised = less, !.out = out, !.delivered = delivered, !.gone = rt.gone]
    <3>1. DOMAIN rt = {"ret", "taken", "delivered", "replaced", "gone", "promised", "out",
                       "clearing", "wronged"} /\ i \in DOMAIN rt.delivered
      BY <1>1 DEF Store
    <3>2. rt' = [rt EXCEPT !.promised = less, !.out = out, !.delivered = delivered]
      BY <1>8, <3>1
    <3>3. rt = [rt EXCEPT !.gone = rt.gone]
      BY <1>1 DEF Store
    <3> HIDE DEF less, out, delivered
    <3> QED
      BY <1>1, <3>1, <3>2, <3>3 DEF Store
  <2>3. Total(delivered) = Total(f) + 1
    <3>1. IsFiniteSet(Invoices) /\ Total(f) \in Nat
      BY PurchasingAssumption, <1>4
    <3>2. f \in [Invoices -> Nat] /\ m \in Nat /\ f[i] \in Nat /\ m = f[i] + 1
      BY <2>1
    <3> HIDE DEF f, m
    <3>3. Total([f EXCEPT ![i] = m]) = Total(f) - f[i] + m
      BY <3>1, <3>2, TotalReplaced
    <3> QED
      BY <3>1, <3>2, <3>3
  <2>4. Total(delivered) + rt.gone = Total(rt.delivered) + rt.gone + 1
    BY <1>3, <1>4, <2>3
  <2>5. /\ rt'.delivered = delivered /\ rt'.taken = rt.taken /\ rt'.replaced = rt.replaced
        /\ rt'.gone = rt.gone /\ rt'.out = out /\ rt'.promised = less
        /\ rt' \in Store
    <3> HIDE DEF less, out, delivered
    <3> QED
      BY <1>1, <1>6, <2>1, <2>2 DEF Store
  <2>6. Remaining(i) \in Int /\ db.received[i] \in Nat /\ rt.taken[i] \in Nat
    BY <1>1, StoreNumbers
  <2>7. /\ Remaining(i)' = Remaining(i) - 1
        /\ \A j \in Invoices \ {i} : Remaining(j)' = Remaining(j)
    BY <1>1, <1>2, <2>1, <2>5, <2>6 DEF Remaining
  <2>8. \A j \in Invoices : /\ Remaining(j)' <= Remaining(j)
                            /\ LayerFree(j) \/ Remaining(j)' = Remaining(j)
    BY <1>1, <1>8, <2>6, <2>7, StoreNumbers
  <2>9. Layering'
    <3>1. Actual' = Actual - 1
      BY <1>2, <1>3, <2>5 DEF Actual
    <3>2. Remaining(i)' >= 0
      BY <1>8, <2>6, <2>7
    <3>3. Actual' - (rt'.replaced - rt'.gone)
            = Actual - (rt.replaced - rt.gone) - Remaining(i) + Remaining(i)'
      BY <1>3, <2>5, <2>6, <2>7, <3>1
    <3>4. Types' /\ ReturnTypes' /\ Layering
      BY <1>1, <1>2, <2>5 DEF Inv, ReturnInv, ReturnTypes
    <3> QED
      BY <1>1, <2>7, <3>2, <3>3, <3>4, LayersFollow
  <2> HIDE DEF less, out, delivered
  <2> QED
    BY <1>3, <1>7, <2>1, <2>2, <2>4, <2>8, <2>9
<1>9. ASSUME rt.replaced > rt.gone,
             rt' = [rt EXCEPT !.promised = @ - 1, !.out = @ + 1, !.gone = @ + 1]
      PROVE  ReturnInv'
  <2> DEFINE gone == rt.gone + 1
  <2>1. gone \in Nat
    BY <1>3
  <2>2. rt' = [rt EXCEPT !.promised = less, !.out = out, !.delivered = rt.delivered, !.gone = gone]
    <3>1. DOMAIN rt = {"ret", "taken", "delivered", "replaced", "gone", "promised", "out",
                       "clearing", "wronged"}
      BY <1>1 DEF Store
    <3>2. rt' = [rt EXCEPT !.promised = less, !.out = out, !.gone = gone]
      BY <1>9, <3>1
    <3> HIDE DEF less, out, gone
    <3> QED
      BY <1>1, <3>1, <3>2 DEF Store
  <2>3. /\ rt'.delivered = rt.delivered /\ rt'.taken = rt.taken /\ rt'.replaced = rt.replaced
        /\ rt'.gone = gone /\ rt'.out = out /\ rt'.promised = less
    <3> HIDE DEF less, out, gone
    <3> QED
      BY <1>1, <2>2 DEF Store
  <2>4. \A j : Remaining(j)' = Remaining(j)
    BY <1>2, <2>3 DEF Remaining
  <2>5. \A j \in Invoices : /\ Remaining(j)' <= Remaining(j)
                            /\ LayerFree(j) \/ Remaining(j)' = Remaining(j)
    BY <1>1, <2>4, StoreNumbers
  <2>6. Layering'
    <3>1. Actual' = Actual - 1
      BY <1>2, <1>3, <2>3 DEF Actual
    <3>2. Total([j \in Invoices |-> Remaining(j)]) \in Nat
      <4>1. \A j \in Invoices : Remaining(j) \in Int /\ Remaining(j) >= 0
        BY <1>1, StoreNumbers DEF ReturnInv, Layering
      <4>2. [j \in Invoices |-> Remaining(j)] \in [Invoices -> Nat]
        BY <4>1
      <4> QED
        BY <4>2, TotalType, PurchasingAssumption
    <3>3. Total([j \in Invoices |-> Remaining(j)']) = Total([j \in Invoices |-> Remaining(j)])
      BY <2>4
    <3>4. Layered' = Layered - 1
      BY <1>3, <2>3, <3>2, <3>3 DEF Layered
    <3>5. Actual = Layered
      BY DEF ReturnInv, Layering
    <3> QED
      BY <2>4, <3>1, <3>4, <3>5 DEF ReturnInv, Layering
  <2>7. Total(rt.delivered) + gone = Total(rt.delivered) + rt.gone + 1
    BY <1>3, <1>4
  <2> HIDE DEF less, out, gone
  <2> QED
    BY <1>1, <1>7, <2>1, <2>2, <2>5, <2>6, <2>7
<1> QED
  BY <1>8, <1>9 DEF Deliver

-----------------------------------------------------------------------------
(***************************************************************************)
(* Theorems                                                                *)
(***************************************************************************)

\* Nothing is returned before anything is bought.
LEMMA ReturnInitHolds ==
  AllInit => ReturnInv
<1> SUFFICES ASSUME AllInit PROVE ReturnInv
  OBVIOUS
<1>1. Inv /\ Types
  BY InitHolds DEF AllInit, Inv
<1> PICK i \in Invoices, v \in Values :
      rt = [ret |-> [r \in Returns |-> [status |-> "NONE", invoice |-> i, qty |-> 0, total |-> v,
                                        resolution |-> "CASHBACK"]],
            taken |-> [j \in Invoices |-> 0], delivered |-> [j \in Invoices |-> 0],
            replaced |-> 0, gone |-> 0, promised |-> 0, out |-> 0, clearing |-> 0,
            wronged |-> {}]
  BY DEF AllInit, ReturnInit
<1>2. /\ rt.taken = [j \in Invoices |-> 0] /\ rt.delivered = [j \in Invoices |-> 0]
      /\ rt.replaced = 0 /\ rt.gone = 0 /\ rt.promised = 0 /\ rt.out = 0 /\ rt.clearing = 0
      /\ rt.wronged = {} /\ \A r \in Returns : rt.ret[r].status = "NONE"
  OBVIOUS
<1>3. \A r \in Returns : ~MakingReady(r)
  BY DEF AllInit, ReturnInit, MakingReady, Idle
<1>4. ReturnTypes
  <2>1. v \in Nat
    BY PurchaseReturnAssumption
  <2>2. rt \in Store
    BY <2>1 DEF Store, ReturnRows, Resolutions
  <2> QED
    BY <2>2 DEF ReturnTypes, AllInit, ReturnInit
<1>5. Total(rt.taken) = 0 /\ Total(rt.delivered) = 0
  BY <1>2, TotalZero
<1>6. db.received = [j \in Invoices |-> 0] /\ Total(db.received) = 0
  <2>1. db.received = [j \in Invoices |-> 0]
    BY DEF AllInit, Init, NothingBought
  <2> QED
    BY <2>1, TotalZero
<1>7. Taking
  <2>1. ASSUME NEW j \in Invoices PROVE HeldOf(rt.ret, j) = 0
    <3>1. \A r \in Returns : Bearing(rt.ret[r], j) = 0
      BY <1>2 DEF Bearing, Kept
    <3>2. [r \in Returns |-> Bearing(rt.ret[r], j)] \in [Returns -> Nat]
      BY <3>1
    <3> QED
      BY <3>1, <3>2, TotalZero DEF HeldOf
  <2> QED
    BY <1>2, <1>5, <2>1 DEF Taking
<1>8. Actual = 0 /\ Available = 0
  BY <1>2, <1>6 DEF Actual, Available
<1>9. Layering
  <2>1. \A j \in Invoices : Remaining(j) = 0
    BY <1>2, <1>6 DEF Remaining
  <2>2. Total([j \in Invoices |-> Remaining(j)]) = 0
    <3>1. [j \in Invoices |-> Remaining(j)] \in [Invoices -> Nat]
      BY <2>1
    <3> QED
      BY <2>1, <3>1, TotalZero
  <2>3. Layered = 0
    BY <1>2, <2>2 DEF Layered
  <2> QED
    BY <1>8, <2>1, <2>3 DEF Layering
<1>10. Returning
  <2>1. \A j \in Invoices : rt.taken[j] = 0 /\ db.inv[j].bought \in Nat
    BY <1>1, <1>2, <1>4, StoreNumbers
  <2> QED
    BY <1>2, <2>1 DEF Returning
<1>11. PromisesCovered
  <2>1. Astray \in Nat
    BY <1>4, AstrayStays
  <2> QED
    BY <1>8, <2>1 DEF PromisesCovered
<1> QED
  BY <1>1, <1>3, <1>4, <1>7, <1>9, <1>10, <1>11 DEF ReturnInv, ReadyInv

\* Drafts, whatever is chosen for them, are rows, and of a completed invoice.
LEMMA DraftTypes ==
  ASSUME NEW i \in Invoices, NEW n \in 1 .. 2, NEW v \in Values, NEW resolution \in Resolutions
  PROVE  /\ Draft(i, n, v, resolution) \in ReturnRows
         /\ Draft(i, n, v, resolution).status = "DRAFT"
         /\ Draft(i, n, v, resolution).invoice = i
<1>1. v \in Nat /\ n \in Nat
  BY PurchaseReturnAssumption
<1> QED
  BY <1>1 DEF Draft, ReturnRows

\* Every step of the returns keeps the invariant.
LEMMA ReturnNextKeeps ==
  ASSUME ReturnInv, ReturnNext
  PROVE  ReturnInv'
<1>1. ReturnTypes /\ \A r \in Returns : rt.ret[r] \in ReturnRows /\ rt.ret[r].invoice \in Invoices
  BY DEF ReturnInv, ReturnTypes, Store, ReturnRows
<1>2. ASSUME NEW r \in Returns, NEW i \in Invoices, NEW n \in 1 .. 2, NEW v \in Values,
             NEW resolution \in Resolutions, Create(r, i, n, v, resolution)
      PROVE  ReturnInv'
  <2> PICK row : row = Draft(i, n, v, resolution)
    OBVIOUS
  <2>1. /\ row \in ReturnRows /\ row.status = "DRAFT" /\ row.invoice = i /\ Completed(i)
        /\ rt.ret[r].status \in {"NONE", "DRAFT"}
        /\ SaveDraft(r, row) \/ CheckReady(r, row)
    BY <1>2, DraftTypes DEF Create, CanReturn
  <2> QED
    BY <2>1, SaveDraftReturnKeeps, CheckReadyKeeps
<1>3. ASSUME NEW r \in Returns, NEW n \in 1 .. 2, NEW v \in Values,
             NEW resolution \in Resolutions, Update(r, n, v, resolution)
      PROVE  ReturnInv'
  <2> PICK i : i = rt.ret[r].invoice
    OBVIOUS
  <2> PICK row : row = Draft(i, n, v, resolution)
    OBVIOUS
  <2>1. i \in Invoices
    BY <1>1
  <2>2. /\ row \in ReturnRows /\ row.status = "DRAFT" /\ row.invoice = i /\ Completed(i)
        /\ rt.ret[r].status \in {"NONE", "DRAFT"}
        /\ SaveDraft(r, row) \/ CheckReady(r, row)
    BY <1>3, <2>1, DraftTypes DEF Update, CanReturn
  <2> QED
    BY <2>2, SaveDraftReturnKeeps, CheckReadyKeeps
<1>4. ASSUME NEW r \in Returns, MarkReady(r)
      PROVE  ReturnInv'
  <2> PICK row \in ReturnRows : row = rt.ret[r]
    BY <1>1
  <2>1. /\ OneByOne => Completed(row.invoice)
        /\ rt.ret[r].status \in {"NONE", "DRAFT"} /\ CheckReady(r, row)
    BY <1>4 DEF MarkReady, ReturnInv, Returning
  <2> QED
    BY <2>1, CheckReadyKeeps
<1>5. ASSUME NEW r \in Returns, Cancel(r)
      PROVE  ReturnInv'
  BY <1>5, CancelDraftKeeps, CancelReadyKeeps DEF Cancel
<1>6. CASE Promise
  <2> PICK n : n = rt.promised + 1
    OBVIOUS
  <2>1. rt.promised \in Nat /\ "promised" \in DOMAIN rt
    BY <1>1 DEF ReturnTypes, Store
  <2>2. /\ UNCHANGED vars /\ rt' = [rt EXCEPT !.promised = n] /\ n \in Nat
        /\ ready' = StaleReads /\ n <= rt.promised + 1 /\ Available > 0
    BY <1>6, <2>1 DEF Promise
  <2> QED
    BY <2>2, PromisingKeeps
<1>7. CASE Withdraw
  <2> PICK n : n = rt.promised - 1
    OBVIOUS
  <2>1. rt.promised \in Nat /\ "promised" \in DOMAIN rt
    BY <1>1 DEF ReturnTypes, Store
  <2>2. /\ UNCHANGED vars /\ rt' = [rt EXCEPT !.promised = n] /\ n \in Nat
        /\ ready' = ready /\ n <= rt.promised
    BY <1>7, <2>1 DEF Withdraw
  <2> QED
    BY <2>2, PromisingKeeps
<1>8. CASE Deliver
  BY <1>8, DeliverKeeps
<1>9. ASSUME NEW r \in Returns, TakeOut(r) \/ Abandon(r) \/ Complete(r)
      PROVE  ReturnInv'
  BY <1>9, TakeOutKeeps, AbandonKeeps, CompleteKeeps
<1> QED
  BY <1>2, <1>3, <1>4, <1>5, <1>6, <1>7, <1>8, <1>9 DEF ReturnNext

\* Nothing changes while nobody acts.
LEMMA IdleKeeps ==
  ASSUME ReturnInv, UNCHANGED allVars
  PROVE  ReturnInv'
<1>1. UNCHANGED vars /\ rt' = rt /\ ready' = ready
  BY DEF allVars, vars
<1>2. Inv /\ Inv' /\ [Next]_vars
  BY <1>1, NothingBoughtKeeps DEF ReturnInv
<1>3. Grows
  BY <1>2, BuyingGrows
<1> QED
  BY <1>1, <1>2, <1>3, BuyingKeepsReturns

\* The invariant holds throughout: buying, returning and selling at once.
THEOREM ReturnInvariant ==
  ReturnSpec => []ReturnInv
<1>1. AllInit => ReturnInv
  BY ReturnInitHolds
<1>2. ReturnInv /\ [AllNext]_allVars => ReturnInv'
  <2> SUFFICES ASSUME ReturnInv, [AllNext]_allVars PROVE ReturnInv'
    OBVIOUS
  <2>1. CASE Next /\ UNCHANGED returnVars
    <3>1. Inv /\ Inv' /\ rt' = rt /\ ready' = ready
      BY <2>1, NextKeeps DEF ReturnInv, returnVars
    <3>2. Grows
      BY <2>1, <3>1, BuyingGrows
    <3> QED
      BY <3>1, <3>2, BuyingKeepsReturns
  <2>2. CASE ReturnNext
    BY <2>2, ReturnNextKeeps
  <2>3. CASE UNCHANGED allVars
    BY <2>3, IdleKeeps
  <2> QED
    BY <2>1, <2>2, <2>3 DEF AllNext
<1> QED
  BY <1>1, <1>2, PTL DEF ReturnSpec

\* The layers hold what the stock rows say is there, whatever requests to buy,
\* return, replace, promise and deliver overlap.
THEOREM LayersAlwaysHoldStock ==
  ReturnSpec => []LayersHoldStock
<1>1. ReturnInv => LayersHoldStock
  BY DEF ReturnInv, ReturnTypes, Inv, Types, Layering, LayersHoldStock, TypeOK
<1> QED
  BY <1>1, ReturnInvariant, PTL

\* What was promised to customers is in stock but for what returns took on a read of the
\* stock that was out of date, as long as that is away; so it is in stock without condition
\* where no such return is READY or was completed for anything but a replacement.
THEOREM PromisesStayCovered ==
  ReturnSpec => []PromisesCovered
<1>1. ReturnInv => PromisesCovered
  BY DEF ReturnInv
<1> QED
  BY <1>1, ReturnInvariant, PTL

\* No more goods go back to the supplier than were paid for, if no two requests
\* used an invoice at once.
THEOREM ReturnsStayWithinPurchase ==
  ReturnSpec => []ReturnsWithinPurchase
<1>1. ReturnInv => ReturnsWithinPurchase
  <2> SUFFICES ASSUME ReturnInv, OneByOne, NEW i \in Invoices
               PROVE  Held(i, Kept, {}) <= db.inv[i].bought
    BY DEF ReturnsWithinPurchase, OneByOne, Kept
  <2>1. rt.taken[i] <= db.inv[i].bought /\ rt.taken[i] = HeldOf(rt.ret, i)
    BY DEF ReturnInv, Returning, Taking
  <2>2. Held(i, Kept, {}) = HeldOf(rt.ret, i)
    <3>1. Returns \ {} = Returns
      OBVIOUS
    <3> QED
      BY <3>1 DEF Held, HeldOf, Bearing
  <2> QED
    BY <2>1, <2>2
<1> QED
  BY <1>1, ReturnInvariant, PTL

\* What is owed to suppliers is one amount in three places, with the deductions of
\* returns among the payments.
THEOREM PayablesReconcileWithReturns ==
  ReturnSpec => []PayablesReconcile
<1>1. ReturnInv => Inv
  BY DEF ReturnInv
<1> QED
  BY <1>1, ReturnInvariant, PayablesFollow, PTL

\* An order is completed by exactly one invoice, whatever is returned meanwhile.
THEOREM OrdersInvoicedOnceWithReturns ==
  ReturnSpec => []OrdersInvoicedOnce
<1>1. ReturnInv => Inv
  BY DEF ReturnInv
<1> QED
  BY <1>1, ReturnInvariant, OrdersFollow, PTL

\* The goods of a priced invoice come into stock once, whatever is returned meanwhile.
THEOREM GoodsReceivedOnceWithReturns ==
  ReturnSpec => []GoodsReceivedOnce
<1>1. ReturnInv => Inv
  BY DEF ReturnInv
<1> QED
  BY <1>1, ReturnInvariant, GoodsFollow, PTL
=============================================================================
