-------------------------- MODULE SourceOrderProofs --------------------------
(***************************************************************************)
(* Theorems about sales orders and their invoices, for every set of orders, *)
(* invoices, parties, lines and connections and every bound.                *)
(*                                                                          *)
(* The allocation of an order is checked once, when an invoice is attached, *)
(* and written much later, while transactions that hold no lock on the      *)
(* order commit in between.  The invariant says why that is safe: what such *)
(* a transaction writes takes of an order as much as its invoice took, or   *)
(* nothing; and a transaction that holds an order would leave it in         *)
(* agreement with its invoices if it committed now.                         *)
(***************************************************************************)
EXTENDS SourceOrder, TallyTheorems, TLAPS

\* What an invoice row takes of a line of order o.
Goods(row, o, l) == IF Active(row, o) THEN row.lines[l].qty ELSE 0
Bonus(row, o, l) == IF Active(row, o) THEN row.lines[l].bonus ELSE 0

\* Lines without goods have no bonus.
Proper == {r \in Items : \A l \in Lines : r[l].qty = 0 => r[l].bonus = 0}

Live == {"OPEN", "COMPLETED"}

\* Order o, with this row, and the invoices inv agree.
Agrees(row, inv, o) ==
  /\ \A l \in Lines :
       /\ Allocated(inv, o, l) <= row.lines[l].qty
       /\ AllocatedBonus(inv, o, l) <= row.lines[l].bonus
       /\ Allocated(inv, o, l) = row.lines[l].qty
            => AllocatedBonus(inv, o, l) = row.lines[l].bonus
  /\ \A i \in Invoices : Active(inv[i], o) => inv[i].party = row.party

\* Row new takes of an order what row old takes of it, or nothing.
Gives(old, new, o) ==
  Active(new, o) => Active(old, o) /\ new.lines = old.lines /\ new.party = old.party

-----------------------------------------------------------------------------
(***************************************************************************)
(* How an order's allocation changes with one invoice                      *)
(***************************************************************************)

\* The allocations of an order line are natural numbers, and change by what the
\* one invoice that changes takes before and after.
LEMMA AllocatedUpdate ==
  ASSUME NEW inv \in [Invoices -> InvoiceRows], NEW i \in Invoices,
         NEW row \in InvoiceRows, NEW o, NEW l \in Lines
  PROVE  LET next == [inv EXCEPT ![i] = row]
         IN  /\ Allocated(inv, o, l) \in Nat
             /\ Goods(inv[i], o, l) <= Allocated(inv, o, l)
             /\ Allocated(next, o, l)
                  = Allocated(inv, o, l) - Goods(inv[i], o, l) + Goods(row, o, l)
             /\ AllocatedBonus(inv, o, l) \in Nat
             /\ Bonus(inv[i], o, l) <= AllocatedBonus(inv, o, l)
             /\ AllocatedBonus(next, o, l)
                  = AllocatedBonus(inv, o, l) - Bonus(inv[i], o, l) + Bonus(row, o, l)
<1> DEFINE next == [inv EXCEPT ![i] = row]
           f == [j \in Invoices |-> IF Active(inv[j], o) THEN inv[j].lines[l].qty ELSE 0]
           g == [j \in Invoices |-> IF Active(next[j], o) THEN next[j].lines[l].qty ELSE 0]
           a == [j \in Invoices |-> IF Active(inv[j], o) THEN inv[j].lines[l].bonus ELSE 0]
           b == [j \in Invoices |-> IF Active(next[j], o) THEN next[j].lines[l].bonus ELSE 0]
<1>1. next \in [Invoices -> InvoiceRows] /\ next[i] = row
      /\ \A j \in Invoices \ {i} : next[j] = inv[j]
  OBVIOUS
<1> HIDE DEF next
<1>2. \A r \in InvoiceRows : r.lines[l].qty \in Nat /\ r.lines[l].bonus \in Nat
  BY SourceOrderAssumption DEF InvoiceRows, Items
<1>3. /\ f \in [Invoices -> Nat] /\ g \in [Invoices -> Nat]
      /\ a \in [Invoices -> Nat] /\ b \in [Invoices -> Nat]
  BY <1>1, <1>2
<1>4. \A j \in Invoices \ {i} : g[j] = f[j] /\ b[j] = a[j]
  BY <1>1
<1>5. /\ f[i] = Goods(inv[i], o, l) /\ g[i] = Goods(row, o, l)
      /\ a[i] = Bonus(inv[i], o, l) /\ b[i] = Bonus(row, o, l)
  BY <1>1 DEF Goods, Bonus
<1>6. /\ Total(f) = Allocated(inv, o, l) /\ Total(g) = Allocated(next, o, l)
      /\ Total(a) = AllocatedBonus(inv, o, l) /\ Total(b) = AllocatedBonus(next, o, l)
  BY DEF Allocated, AllocatedBonus
<1> HIDE DEF f, g, a, b
<1>7. /\ Total(f) \in Nat /\ f[i] <= Total(f) /\ Total(g) = Total(f) - f[i] + g[i]
  BY <1>3, <1>4, SourceOrderAssumption, TotalType, TotalMember, TotalUpdate
<1>8. /\ Total(a) \in Nat /\ a[i] <= Total(a) /\ Total(b) = Total(a) - a[i] + b[i]
  BY <1>3, <1>4, SourceOrderAssumption, TotalType, TotalMember, TotalUpdate
<1> QED
  BY <1>5, <1>6, <1>7, <1>8 DEF next

\* What a row takes of a line are natural numbers, and no bonus without goods.
LEMMA ShareTypes ==
  ASSUME NEW row \in InvoiceRows, NEW o, NEW l \in Lines
  PROVE  /\ Goods(row, o, l) \in Nat /\ Bonus(row, o, l) \in Nat
         /\ row.lines \in Proper /\ Goods(row, o, l) = 0 => Bonus(row, o, l) = 0
<1>1. row.lines[l].qty \in Nat /\ row.lines[l].bonus \in Nat
  BY SourceOrderAssumption DEF InvoiceRows, Items
<1>2. row.lines \in Proper => (row.lines[l].qty = 0 => row.lines[l].bonus = 0)
  BY DEF Proper
<1> QED
  BY <1>1, <1>2 DEF Goods, Bonus

\* An order and its invoices still agree when an invoice comes to take nothing of
\* the order, or goes on taking what it took: goods given back leave the line short
\* of goods, so that no bonus is missing.
LEMMA GivingKeepsAgreement ==
  ASSUME NEW ord \in OrderRows, NEW inv \in [Invoices -> InvoiceRows], NEW o,
         NEW i \in Invoices, NEW row \in InvoiceRows, inv[i].lines \in Proper,
         Agrees(ord, inv, o), Gives(inv[i], row, o)
  PROVE  Agrees(ord, [inv EXCEPT ![i] = row], o)
<1> DEFINE next == [inv EXCEPT ![i] = row]
<1>1. ASSUME NEW l \in Lines
      PROVE  /\ Allocated(next, o, l) <= ord.lines[l].qty
             /\ AllocatedBonus(next, o, l) <= ord.lines[l].bonus
             /\ Allocated(next, o, l) = ord.lines[l].qty
                  => AllocatedBonus(next, o, l) = ord.lines[l].bonus
  <2>1. /\ Allocated(inv, o, l) \in Nat
        /\ Goods(inv[i], o, l) <= Allocated(inv, o, l)
        /\ Allocated(next, o, l)
             = Allocated(inv, o, l) - Goods(inv[i], o, l) + Goods(row, o, l)
        /\ AllocatedBonus(inv, o, l) \in Nat
        /\ Bonus(inv[i], o, l) <= AllocatedBonus(inv, o, l)
        /\ AllocatedBonus(next, o, l)
             = AllocatedBonus(inv, o, l) - Bonus(inv[i], o, l) + Bonus(row, o, l)
    BY AllocatedUpdate
  <2>2. /\ Goods(inv[i], o, l) \in Nat /\ Bonus(inv[i], o, l) \in Nat
        /\ Goods(inv[i], o, l) = 0 => Bonus(inv[i], o, l) = 0
    BY ShareTypes
  <2>3. \/ Goods(row, o, l) = Goods(inv[i], o, l) /\ Bonus(row, o, l) = Bonus(inv[i], o, l)
        \/ Goods(row, o, l) = 0 /\ Bonus(row, o, l) = 0
    BY DEF Gives, Goods, Bonus
  <2>4. /\ Allocated(inv, o, l) <= ord.lines[l].qty
        /\ AllocatedBonus(inv, o, l) <= ord.lines[l].bonus
        /\ Allocated(inv, o, l) = ord.lines[l].qty
             => AllocatedBonus(inv, o, l) = ord.lines[l].bonus
    BY DEF Agrees
  <2>5. ord.lines[l].qty \in Nat /\ ord.lines[l].bonus \in Nat
    BY SourceOrderAssumption DEF OrderRows, Items
  <2> HIDE DEF next
  <2> QED
    BY <2>1, <2>2, <2>3, <2>4, <2>5
<1>2. ASSUME NEW j \in Invoices, Active(next[j], o) PROVE next[j].party = ord.party
  <2>1. CASE j = i
    BY <1>2, <2>1 DEF Gives, Agrees
  <2>2. CASE j # i
    BY <1>2, <2>2 DEF Agrees
  <2> QED
    BY <2>1, <2>2
<1> QED
  BY <1>1, <1>2 DEF Agrees

\* An invoice row that assertValidSourceAllocation has accepted keeps its order in
\* agreement, in the lines the request does not mention as well.
LEMMA ValidKeepsAgreement ==
  ASSUME NEW inv \in [Invoices -> InvoiceRows], NEW o \in Orders, order[o] \in OrderRows,
         NEW i \in Invoices, NEW row \in InvoiceRows,
         inv[i].lines \in Proper, row.lines \in Proper,
         Agrees(order[o], inv, o), row.party = order[o].party,
         ValidAllocation([inv EXCEPT ![i] = row], o, row.lines)
  PROVE  Agrees(order[o], [inv EXCEPT ![i] = row], o)
<1> DEFINE next == [inv EXCEPT ![i] = row]
           ord  == order[o]
<1>1. ASSUME NEW l \in Lines
      PROVE  /\ Allocated(next, o, l) <= ord.lines[l].qty
             /\ AllocatedBonus(next, o, l) <= ord.lines[l].bonus
             /\ Allocated(next, o, l) = ord.lines[l].qty
                  => AllocatedBonus(next, o, l) = ord.lines[l].bonus
  <2>1. /\ Allocated(inv, o, l) \in Nat
        /\ Goods(inv[i], o, l) <= Allocated(inv, o, l)
        /\ Allocated(next, o, l)
             = Allocated(inv, o, l) - Goods(inv[i], o, l) + Goods(row, o, l)
        /\ AllocatedBonus(inv, o, l) \in Nat
        /\ Bonus(inv[i], o, l) <= AllocatedBonus(inv, o, l)
        /\ AllocatedBonus(next, o, l)
             = AllocatedBonus(inv, o, l) - Bonus(inv[i], o, l) + Bonus(row, o, l)
    BY AllocatedUpdate
  <2>2. /\ Goods(inv[i], o, l) \in Nat /\ Bonus(inv[i], o, l) \in Nat
        /\ Goods(inv[i], o, l) = 0 => Bonus(inv[i], o, l) = 0
        /\ Goods(row, o, l) \in Nat /\ Bonus(row, o, l) \in Nat
    BY ShareTypes
  <2>3. ord.lines[l].qty \in Nat /\ ord.lines[l].bonus \in Nat
    BY SourceOrderAssumption DEF OrderRows, Items
  <2>4. row.lines[l].qty \in Nat
    BY SourceOrderAssumption DEF InvoiceRows, Items
  <2>5. CASE row.lines[l].qty > 0
    <3>1. /\ Allocated(next, o, l) <= ord.lines[l].qty
          /\ AllocatedBonus(next, o, l) <= ord.lines[l].bonus
          /\ Allocated(next, o, l) >= ord.lines[l].qty
               => AllocatedBonus(next, o, l) >= ord.lines[l].bonus
      BY <2>5 DEF ValidAllocation
    <3> HIDE DEF next, ord
    <3> QED
      BY <2>1, <2>2, <2>3, <3>1
  <2>6. CASE row.lines[l].qty = 0
    <3>1. Goods(row, o, l) = 0 /\ Bonus(row, o, l) = 0
      BY <2>6 DEF Goods, Bonus, Proper
    <3>2. /\ Allocated(inv, o, l) <= ord.lines[l].qty
          /\ AllocatedBonus(inv, o, l) <= ord.lines[l].bonus
          /\ Allocated(inv, o, l) = ord.lines[l].qty
               => AllocatedBonus(inv, o, l) = ord.lines[l].bonus
      BY DEF Agrees
    <3> HIDE DEF next, ord
    <3> QED
      BY <2>1, <2>2, <2>3, <3>1, <3>2
  <2> QED
    BY <2>4, <2>5, <2>6
<1>2. ASSUME NEW j \in Invoices, Active(next[j], o) PROVE next[j].party = ord.party
  <2>1. CASE j = i
    BY <2>1
  <2>2. CASE j # i
    BY <1>2, <2>2 DEF Agrees
  <2> QED
    BY <2>1, <2>2
<1> QED
  BY <1>1, <1>2 DEF Agrees

\* An order that no invoice takes anything of agrees with its invoices, whatever
\* its lines.
LEMMA UnusedAgrees ==
  ASSUME NEW ord \in OrderRows, ord.lines \in Proper,
         NEW inv \in [Invoices -> InvoiceRows], NEW o,
         \A i \in Invoices : ~Active(inv[i], o)
  PROVE  Agrees(ord, inv, o)
<1> SUFFICES ASSUME NEW l \in Lines
             PROVE  Allocated(inv, o, l) = 0 /\ AllocatedBonus(inv, o, l) = 0
  <2>1. \A l \in Lines : /\ ord.lines[l].qty \in Nat /\ ord.lines[l].bonus \in Nat
                         /\ ord.lines[l].qty = 0 => ord.lines[l].bonus = 0
    BY SourceOrderAssumption DEF OrderRows, Items, Proper
  <2> QED
    BY <2>1 DEF Agrees
<1> DEFINE f == [i \in Invoices |-> IF Active(inv[i], o) THEN inv[i].lines[l].qty ELSE 0]
           a == [i \in Invoices |-> IF Active(inv[i], o) THEN inv[i].lines[l].bonus ELSE 0]
<1>1. /\ f \in [Invoices -> Nat] /\ \A i \in Invoices : f[i] = 0
      /\ a \in [Invoices -> Nat] /\ \A i \in Invoices : a[i] = 0
  OBVIOUS
<1>2. Total(f) = Allocated(inv, o, l) /\ Total(a) = AllocatedBonus(inv, o, l)
  BY DEF Allocated, AllocatedBonus
<1> HIDE DEF f, a
<1> QED
  BY <1>1, <1>2, TotalZero


-----------------------------------------------------------------------------
(***************************************************************************)
(* The inductive invariant                                                 *)
(***************************************************************************)

\* What a transaction in progress may rely on.  Its invoice is as it was when it
\* was locked; a row written without locking its order takes what the committed
\* one takes; a locked order is live and would agree with its invoices if the
\* transaction committed; a status was read from a live order.
Pending(w) ==
  LET t == tx[w]
  IN  /\ invoice[t.inv].status = "OPEN"
      /\ t.sync = invoice[t.inv].source
      /\ t.row.lines \in Proper
      /\ \/ t.lock = t.row.source
         \/ /\ t.lock = NoOrder
            /\ t.row.source = invoice[t.inv].source
            /\ t.row.lines  = invoice[t.inv].lines
            /\ t.row.party  = invoice[t.inv].party
      /\ t.lock # NoOrder => /\ order[t.lock].status \in Live
                             /\ Agrees(order[t.lock], View(w), t.lock)
      /\ t.sync # NoOrder => t.step \in {"RESERVE", "STATUS"} \/ t.seen \in Live
      /\ t.step \in {"STATUS", "DETAILS"} => t.sync # NoOrder

\* Order o and the committed invoices.
Consistent(o) ==
  /\ order[o].lines \in Proper
  /\ Agrees(order[o], invoice, o)
  /\ \A i \in Invoices : Active(invoice[i], o) => order[o].status \in Live

IInv ==
  /\ TypeOK
  /\ \A i \in Invoices : invoice[i].lines \in Proper
  /\ \A o \in Orders : Consistent(o)
  /\ \A w \in Workers : Running(w) => Pending(w)

\* A transaction in progress is what Busy says, one at a time for an invoice and
\* for an order.
LEMMA BusyFacts ==
  ASSUME TypeOK, NEW w \in Workers, Running(w)
  PROVE  /\ tx[w] \in Busy
         /\ tx[w].step \in {"RESERVE", "STATUS", "DETAILS", "WRITE"}
         /\ tx[w].inv \in Invoices /\ tx[w].row \in InvoiceRows
         /\ tx[w].lock \in Orders \cup {NoOrder} /\ tx[w].sync \in Orders \cup {NoOrder}
         /\ View(w) \in [Invoices -> InvoiceRows]
         /\ \A v \in Workers \ {w} : Running(v) =>
              /\ tx[v].inv # tx[w].inv
              /\ tx[v].lock # NoOrder => tx[v].lock # tx[w].lock
<1>1. tx[w] \in Busy
  BY DEF TypeOK, Running, Idle
<1>2. /\ tx[w].step \in {"RESERVE", "STATUS", "DETAILS", "WRITE"}
      /\ tx[w].inv \in Invoices /\ tx[w].row \in InvoiceRows
      /\ tx[w].lock \in Orders \cup {NoOrder} /\ tx[w].sync \in Orders \cup {NoOrder}
  BY <1>1 DEF Busy
<1>3. View(w) \in [Invoices -> InvoiceRows]
  BY <1>2 DEF View, TypeOK
<1>4. \A v \in Workers \ {w} : Running(v) =>
        /\ tx[v].inv # tx[w].inv
        /\ tx[v].lock # NoOrder => tx[v].lock # tx[w].lock
  BY DEF TypeOK
<1> QED
  BY <1>1, <1>2, <1>3, <1>4

\* What a request lists is proper.
LEMMA RequestsProper == Requests \subseteq Proper /\ NoItems \in Proper
  BY SourceOrderAssumption DEF Requests, Proper, NoItems, Items

\* The invariant holds before anything is ordered.
LEMMA InitInv == Init => IInv
<1> SUFFICES ASSUME Init PROVE IInv
  OBVIOUS
<1>1. PICK nobody \in Parties :
        /\ order = [o \in Orders |-> [status |-> "NONE", party |-> nobody, lines |-> NoItems]]
        /\ invoice = [i \in Invoices |-> [status |-> "NONE", party |-> nobody,
                                          source |-> NoOrder, lines |-> NoItems]]
        /\ tx = [w \in Workers |-> Idle]
  BY DEF Init
<1>2. NoItems \in Items /\ NoItems \in Proper
  BY RequestsProper DEF Proper
<1>3. \A w \in Workers : ~Running(w)
  BY <1>1 DEF Running, Idle
<1>4. TypeOK
  <2>1. order \in [Orders -> OrderRows]
    BY <1>1, <1>2 DEF OrderRows, Statuses
  <2>2. invoice \in [Invoices -> InvoiceRows]
    BY <1>1, <1>2 DEF InvoiceRows, Statuses
  <2>3. tx \in [Workers -> {Idle} \cup Busy]
    BY <1>1
  <2> QED
    BY <1>3, <2>1, <2>2, <2>3 DEF TypeOK
<1>5. ASSUME NEW o \in Orders PROVE Consistent(o)
  <2>1. \A i \in Invoices : ~Active(invoice[i], o)
    BY <1>1 DEF Active
  <2>2. order[o] \in OrderRows /\ order[o].lines \in Proper
    BY <1>1, <1>2, <1>4 DEF TypeOK
  <2>3. Agrees(order[o], invoice, o)
    BY <1>4, <2>1, <2>2, UnusedAgrees DEF TypeOK
  <2> QED
    BY <2>1, <2>2, <2>3 DEF Consistent
<1> QED
  BY <1>1, <1>2, <1>3, <1>4, <1>5 DEF IInv

-----------------------------------------------------------------------------
(***************************************************************************)
(* Transactions that change orders alone                                   *)
(***************************************************************************)

\* The types of a step that changes the order rows alone.
LEMMA OrderStepType ==
  ASSUME TypeOK, order' \in [Orders -> OrderRows], UNCHANGED <<invoice, tx>>
  PROVE  TypeOK'
  BY DEF TypeOK, Running

\* A step that changes one order, which no transaction holds, and leaves it proper
\* and in agreement with its invoices preserves the invariant.
LEMMA OrderStep ==
  ASSUME IInv, NEW o \in Orders, NEW row \in OrderRows,
         order' = [order EXCEPT ![o] = row], UNCHANGED <<invoice, tx>>,
         \A w \in Workers : Running(w) => tx[w].lock # o,
         row.lines \in Proper, Agrees(row, invoice, o),
         \A i \in Invoices : Active(invoice[i], o) => row.status \in Live
  PROVE  IInv'
<1>1. TypeOK /\ order \in [Orders -> OrderRows]
  BY DEF IInv, TypeOK
<1>2. TypeOK'
  BY <1>1, OrderStepType
<1>3. \A x \in Orders : order'[x] = IF x = o THEN row ELSE order[x]
  BY <1>1
<1>4. ASSUME NEW x \in Orders PROVE Consistent(x)'
  BY <1>3 DEF Consistent, IInv
<1>5. ASSUME NEW w \in Workers, Running(w)' PROVE Pending(w)'
  <2>1. Running(w) /\ Pending(w)
    BY <1>5 DEF Running, IInv
  <2>2. tx[w].lock # NoOrder => order'[tx[w].lock] = order[tx[w].lock]
    BY <1>1, <1>3, <2>1, BusyFacts
  <2> QED
    BY <2>1, <2>2 DEF Pending, View
<1> QED
  BY <1>2, <1>4, <1>5 DEF IInv

\* saveOrder creates an order nobody can refer to yet.
LEMMA CreateOrderInv ==
  ASSUME IInv, NEW o \in Orders, NEW party \in Parties, NEW lines \in Requests,
         CreateOrder(o, party, lines)
  PROVE  IInv'
<1> DEFINE row == [status |-> "OPEN", party |-> party, lines |-> lines]
<1>1. /\ order[o].status = "NONE"
      /\ order' = [order EXCEPT ![o] = row] /\ UNCHANGED <<invoice, tx>>
  BY DEF CreateOrder
<1>2. row \in OrderRows /\ row.lines \in Proper
  BY RequestsProper DEF OrderRows, Statuses, Proper
<1>3. \A i \in Invoices : ~Active(invoice[i], o)
  BY <1>1 DEF IInv, Consistent, Live
<1>4. ASSUME NEW w \in Workers, Running(w) PROVE tx[w].lock # o
  BY <1>1, <1>4, SourceOrderAssumption DEF IInv, Pending, Live
<1> HIDE DEF row
<1>5. Agrees(row, invoice, o)
  BY <1>2, <1>3, UnusedAgrees DEF IInv, TypeOK
<1> QED
  BY <1>1, <1>2, <1>3, <1>4, <1>5, OrderStep

\* updateOrder rewrites an order no invoice refers to and nobody holds.
LEMMA UpdateOrderInv ==
  ASSUME IInv, NEW o \in Orders, NEW party \in Parties, NEW lines \in Requests,
         UpdateOrder(o, party, lines)
  PROVE  IInv'
<1> DEFINE row == [status |-> "OPEN", party |-> party, lines |-> lines]
<1>1. /\ EditableOrder(o)
      /\ order' = [order EXCEPT ![o] = row] /\ UNCHANGED <<invoice, tx>>
  BY DEF UpdateOrder
<1>2. row \in OrderRows /\ row.lines \in Proper
  BY RequestsProper DEF OrderRows, Statuses, Proper
<1>3. \A i \in Invoices : ~Active(invoice[i], o)
  BY <1>1 DEF EditableOrder, Active
<1>4. \A w \in Workers : Running(w) => tx[w].lock # o
  BY <1>1 DEF EditableOrder, OrderFree
<1> HIDE DEF row
<1>5. Agrees(row, invoice, o)
  BY <1>2, <1>3, UnusedAgrees DEF IInv, TypeOK
<1> QED
  BY <1>1, <1>2, <1>3, <1>4, <1>5, OrderStep

\* cancelOrder cancels an order without active invoices that nobody holds.
LEMMA CancelOrderInv ==
  ASSUME IInv, NEW o \in Orders, CancelOrder(o)
  PROVE  IInv'
<1> DEFINE row == [order[o] EXCEPT !.status = "CANCELLED"]
<1>1. /\ CancellableOrder(o)
      /\ order' = [order EXCEPT ![o] = row] /\ UNCHANGED <<invoice, tx>>
  BY DEF CancelOrder
<1>2. /\ order[o] \in OrderRows /\ order[o].lines \in Proper
      /\ Agrees(order[o], invoice, o)
  BY DEF IInv, TypeOK, Consistent
<1>3. row \in OrderRows /\ row.lines = order[o].lines /\ row.party = order[o].party
  BY <1>2 DEF OrderRows, Statuses
<1>4. \A i \in Invoices : ~Active(invoice[i], o)
  BY <1>1 DEF CancellableOrder
<1>5. \A w \in Workers : Running(w) => tx[w].lock # o
  BY <1>1 DEF CancellableOrder, OrderFree
<1> HIDE DEF row
<1>6. Agrees(row, invoice, o)
  BY <1>2, <1>3 DEF Agrees
<1> QED
  BY <1>1, <1>2, <1>3, <1>4, <1>5, <1>6, OrderStep

-----------------------------------------------------------------------------
(***************************************************************************)
(* Transactions that change an invoice                                     *)
(***************************************************************************)

\* A live order whose status is synchronised stays live, and keeps its lines.
LEMMA SyncedLive ==
  ASSUME NEW status \in Live, NEW full
  PROVE  Synced(status, full) \in Live
  BY DEF Synced, Live

\* A transaction that is not of this step keeps what it relies on when another
\* invoice comes to take of the order it holds what it took, or nothing.
LEMMA PendingKept ==
  ASSUME IInv, TypeOK', NEW v \in Workers, Running(v), tx'[v] = tx[v],
         NEW i \in Invoices, NEW row \in InvoiceRows,
         invoice' = [invoice EXCEPT ![i] = row], tx[v].inv # i,
         tx[v].lock # NoOrder =>
           /\ order'[tx[v].lock].status \in Live
           /\ order'[tx[v].lock].lines = order[tx[v].lock].lines
           /\ order'[tx[v].lock].party = order[tx[v].lock].party
           /\ Gives(invoice[i], row, tx[v].lock)
  PROVE  Pending(v)'
<1>1. /\ Pending(v) /\ TypeOK /\ tx[v].inv \in Invoices
      /\ View(v) \in [Invoices -> InvoiceRows]
      /\ tx[v].lock \in Orders \cup {NoOrder}
      /\ invoice \in [Invoices -> InvoiceRows] /\ order \in [Orders -> OrderRows]
      /\ tx[v].row \in InvoiceRows
      /\ \A j \in Invoices : invoice[j].lines \in Proper
  BY BusyFacts DEF IInv, TypeOK
<1>2. invoice'[tx[v].inv] = invoice[tx[v].inv]
  BY <1>1
<1>3. View(v)' = [View(v) EXCEPT ![i] = row]
  BY <1>1 DEF View
<1>4. ASSUME tx[v].lock # NoOrder
      PROVE  Agrees(order'[tx[v].lock], View(v)', tx[v].lock)
  <2> DEFINE o == tx[v].lock
  <2>1. View(v)[i] = invoice[i]
    BY <1>1 DEF View
  <2>2. Agrees(order[o], View(v), o) /\ order[o] \in OrderRows
    BY <1>1, <1>4 DEF Pending
  <2>3. Agrees(order[o], [View(v) EXCEPT ![i] = row], o)
    BY <1>1, <1>4, <2>1, <2>2, GivingKeepsAgreement
  <2> QED
    BY <1>3, <1>4, <2>3 DEF Agrees
<1> QED
  BY <1>1, <1>2, <1>4 DEF Pending

\* createInvoiceTx, with an order of the rest or without, preserves the invariant.
LEMMA CreateInvoiceInv ==
  ASSUME IInv, NEW i \in Invoices, NEW row \in RowsFor(Parties, Requests),
         CreateInvoice(i, row, Requests)
  PROVE  IInv'
<1> DEFINE rows == [invoice EXCEPT ![i] = row]
<1>1. /\ TypeOK /\ order \in [Orders -> OrderRows] /\ invoice \in [Invoices -> InvoiceRows]
      /\ \A j \in Invoices : invoice[j].lines \in Proper
      /\ \A x \in Orders : Consistent(x)
  BY DEF IInv, TypeOK
<1>2. row \in InvoiceRows /\ row.lines \in Proper /\ row.source \in Orders \cup {NoOrder}
  BY RequestsProper DEF RowsFor, InvoiceRows, Statuses, Proper
<1>3. /\ invoice[i].status = "NONE" /\ ValidSource(i, row, TRUE)
      /\ invoice' = rows /\ tx' = tx
  BY DEF CreateInvoice
<1>0. PICK rest \in {NoOrder} \cup {x \in Orders : order[x].status = "NONE"} :
        \E lines \in IF rest = NoOrder THEN {NoItems} ELSE Requests :
          order' = [x \in Orders |->
                     CASE x = row.source ->
                            [order[x] EXCEPT !.status = Synced(@, Fulfilled(rows, row.source))]
                       [] x = rest -> [status |-> "OPEN", party |-> row.party, lines |-> lines]
                       [] OTHER    -> order[x]]
  BY DEF CreateInvoice
<1>4. PICK lines \in IF rest = NoOrder THEN {NoItems} ELSE Requests :
        order' = [x \in Orders |->
                   CASE x = row.source ->
                          [order[x] EXCEPT !.status = Synced(@, Fulfilled(rows, row.source))]
                     [] x = rest -> [status |-> "OPEN", party |-> row.party, lines |-> lines]
                     [] OTHER    -> order[x]]
  BY <1>0
<1>5. row.source # NoOrder =>
        /\ OrderFree(row.source) /\ order[row.source].status = "OPEN"
        /\ order[row.source].party = row.party
        /\ ValidAllocation(rows, row.source, row.lines)
  BY <1>3 DEF ValidSource
<1>6. /\ rows \in [Invoices -> InvoiceRows] /\ rows[i] = row
      /\ \A j \in Invoices \ {i} : rows[j] = invoice[j]
  BY <1>1, <1>2
<1> HIDE DEF rows
<1>7. ASSUME NEW x \in Orders, x # row.source, x # rest PROVE order'[x] = order[x]
  BY <1>4, <1>7
<1>8. ASSUME NEW x \in Orders, x = row.source
      PROVE  /\ order'[x] \in OrderRows /\ order'[x].status \in Live
             /\ order'[x].lines = order[x].lines /\ order'[x].party = order[x].party
  <2> DEFINE o == row.source
             synced == Synced(order[o].status, Fulfilled(rows, o))
  <2>a. order'[o] = [order[o] EXCEPT !.status = synced]
    <3>1. o \in Orders /\ o # rest
      BY <1>5, <1>8, SourceOrderAssumption
    <3> QED
      BY <1>4, <3>1
  <2>1. order'[x] = [order[x] EXCEPT !.status = synced]
    BY <1>8, <2>a
  <2>2. order[x].status \in Live
    BY <1>5, <1>8, SourceOrderAssumption DEF Live
  <2>3. synced \in Live
    BY <1>8, <2>2, SyncedLive
  <2>4. order[x] \in OrderRows
    BY <1>1
  <2> HIDE DEF synced
  <2> QED
    BY <2>1, <2>3, <2>4 DEF OrderRows, Statuses, Live
<1>9. ASSUME NEW x \in Orders, x = rest
      PROVE  /\ x # row.source /\ order[x].status = "NONE"
             /\ order'[x] \in OrderRows /\ order'[x].status \in Live
             /\ order'[x].lines \in Proper
  <2>1. x # row.source /\ order[x].status = "NONE" /\ lines \in Requests
    BY <1>4, <1>5, <1>9, SourceOrderAssumption
  <2>2. order'[x] = [status |-> "OPEN", party |-> row.party, lines |-> lines]
    BY <1>4, <1>9, <2>1
  <2>3. row.party \in Parties /\ lines \in Items /\ lines \in Proper
    BY <1>2, <2>1, RequestsProper DEF InvoiceRows, Proper
  <2> QED
    BY <2>1, <2>2, <2>3 DEF OrderRows, Statuses, Live
<1>10. order' \in [Orders -> OrderRows]
  <2>1. \A x \in Orders : order'[x] \in OrderRows
    BY <1>1, <1>7, <1>8, <1>9
  <2>2. DOMAIN order' = Orders /\ order' = [x \in DOMAIN order' |-> order'[x]]
    BY <1>4
  <2> QED
    BY <2>1, <2>2
<1>11. TypeOK'
  BY <1>1, <1>3, <1>6, <1>10 DEF TypeOK, Running
<1>12. \A x \in Orders : x # row.source => ~Active(row, x) /\ ~Active(invoice[i], x)
  BY <1>3 DEF Active
<1>13. ASSUME NEW x \in Orders PROVE Consistent(x)'
  <2>1. CASE x = row.source
    <3>1. Agrees(order[x], rows, x)
      BY <1>1, <1>2, <1>5, <2>1, SourceOrderAssumption, ValidKeepsAgreement DEF rows, Consistent
    <3> QED
      BY <1>1, <1>3, <1>8, <2>1, <3>1 DEF Consistent, Agrees
  <2>2. CASE x = rest
    <3>1. \A j \in Invoices : ~Active(invoice[j], x)
      BY <1>1, <1>9, <2>2 DEF Consistent, Live
    <3>2. \A j \in Invoices : ~Active(rows[j], x)
      BY <1>6, <1>9, <1>12, <2>2, <3>1
    <3>3. Agrees(order'[x], rows, x)
      BY <1>6, <1>9, <2>2, <3>2, UnusedAgrees
    <3> QED
      BY <1>3, <1>9, <2>2, <3>2, <3>3 DEF Consistent
  <2>3. CASE x # row.source /\ x # rest
    <3>1. Agrees(order[x], rows, x)
      <4>1. Gives(invoice[i], row, x) /\ Agrees(order[x], invoice, x) /\ order[x] \in OrderRows
        BY <1>1, <1>12, <2>3 DEF Gives, Consistent
      <4> QED
        BY <1>1, <1>2, <4>1, GivingKeepsAgreement DEF rows
    <3>2. \A j \in Invoices : Active(rows[j], x) => Active(invoice[j], x)
      BY <1>6, <1>12, <2>3
    <3> QED
      BY <1>1, <1>3, <1>7, <2>3, <3>1, <3>2 DEF Consistent
  <2> QED
    BY <2>1, <2>2, <2>3
<1>14. ASSUME NEW v \in Workers, Running(v)' PROVE Pending(v)'
  <2>1. Running(v) /\ Pending(v) /\ tx'[v] = tx[v]
    BY <1>3, <1>14 DEF Running, IInv
  <2>2. tx[v].inv # i
    BY <1>3, <2>1 DEF Pending
  <2>3. ASSUME tx[v].lock # NoOrder
        PROVE  /\ order'[tx[v].lock].status \in Live
               /\ order'[tx[v].lock].lines = order[tx[v].lock].lines
               /\ order'[tx[v].lock].party = order[tx[v].lock].party
               /\ Gives(invoice[i], row, tx[v].lock)
    <3>1. tx[v].lock \in Orders /\ order[tx[v].lock].status \in Live
      BY <1>1, <2>1, <2>3, BusyFacts DEF Pending
    <3>2. tx[v].lock # row.source
      BY <1>5, <2>1, <2>3 DEF OrderFree
    <3>3. tx[v].lock # rest
      BY <1>9, <3>1 DEF Live
    <3> QED
      BY <1>7, <1>12, <3>1, <3>2, <3>3 DEF Gives
  <2> QED
    BY <1>2, <1>3, <1>11, <2>1, <2>2, <2>3, PendingKept DEF rows
<1>15. \A j \in Invoices : invoice'[j].lines \in Proper
  BY <1>1, <1>2, <1>3, <1>6
<1> QED
  BY <1>11, <1>13, <1>14, <1>15 DEF IInv

\* The orders after a transaction commits: the lines and party of every order are
\* what they were, and an order it wrote is live.
LEMMA OrdersAfterFacts ==
  ASSUME IInv, NEW w \in Workers, Running(w), tx[w].step = "WRITE", NEW o \in Orders
  PROVE  /\ OrdersAfter(w)[o] \in OrderRows
         /\ OrdersAfter(w)[o].lines = order[o].lines
         /\ OrdersAfter(w)[o].party = order[o].party
         /\ o \in {tx[w].lock, tx[w].sync} =>
              OrdersAfter(w)[o].status \in Live /\ order[o].status \in Live
         /\ o \notin {tx[w].lock, tx[w].sync} => OrdersAfter(w)[o] = order[o]
<1> DEFINE t == tx[w]
           old == IF o = t.sync /\ t.seen # "CANCELLED"
                  THEN [order[o] EXCEPT !.status = Synced(t.seen, t.full)] ELSE order[o]
<1>1. OrdersAfter(w)[o] =
        IF o = t.lock THEN [old EXCEPT !.status = Synced(old.status, Fulfilled(View(w), o))]
                      ELSE old
  BY DEF OrdersAfter
<1>2. /\ Pending(w) /\ TypeOK /\ order[o] \in OrderRows /\ Consistent(o)
      /\ t.inv \in Invoices
  BY BusyFacts DEF IInv, TypeOK
<1>3. o = t.sync => t.seen \in Live /\ order[o].status \in Live
  <2> SUFFICES ASSUME o = t.sync PROVE t.seen \in Live /\ order[o].status \in Live
    OBVIOUS
  <2>1. t.seen \in Live
    BY <1>2, SourceOrderAssumption DEF Pending
  <2>2. Active(invoice[t.inv], o)
    BY <1>2 DEF Pending, Active
  <2> QED
    BY <1>2, <2>1, <2>2 DEF Consistent
<1>4. o = t.lock => order[o].status \in Live
  BY <1>2, SourceOrderAssumption DEF Pending
<1>5. o = t.sync => Synced(t.seen, t.full) \in Live
  BY <1>3, SyncedLive
<1>6. /\ old \in OrderRows /\ old.lines = order[o].lines /\ old.party = order[o].party
      /\ o = t.sync => old.status \in Live
      /\ o # t.sync => old = order[o]
  <2> HIDE DEF Synced
  <2>1. CASE o = t.sync
    BY <1>2, <1>3, <1>5, <2>1 DEF OrderRows, Statuses, Live
  <2>2. CASE o # t.sync
    BY <1>2, <2>2
  <2> QED
    BY <2>1, <2>2
<1>7. o = t.lock => old.status \in Live
  BY <1>4, <1>6
<1> HIDE DEF old
<1>8. o = t.lock => Synced(old.status, Fulfilled(View(w), o)) \in Live
  BY <1>7, SyncedLive
<1>9. CASE o = t.lock
  <2> DEFINE s == Synced(old.status, Fulfilled(View(w), o))
  <2>1. OrdersAfter(w)[o] = [old EXCEPT !.status = s] /\ s \in Live
    BY <1>1, <1>8, <1>9
  <2> HIDE DEF s
  <2> QED
    BY <1>4, <1>6, <1>9, <2>1 DEF OrderRows, Statuses, Live
<1>10. CASE o # t.lock
  BY <1>1, <1>3, <1>6, <1>10
<1> QED
  BY <1>9, <1>10

\* The commit of updateInvoice, completeInvoice or cancelInvoice, after whatever
\* committed since the transaction began, preserves the invariant.
LEMMA CommitInv ==
  ASSUME IInv, NEW w \in Workers, Commit(w)
  PROVE  IInv'
<1> DEFINE t == tx[w]
<1>1. /\ t.step = "WRITE" /\ Running(w)
      /\ order' = OrdersAfter(w) /\ invoice' = View(w) /\ tx' = [tx EXCEPT ![w] = Idle]
      /\ \A v \in Workers \ {w} : Running(v) => tx[v].lock # t.sync \/ t.sync = NoOrder
  BY DEF Commit, Running
<1>2. /\ TypeOK /\ Pending(w) /\ View(w) \in [Invoices -> InvoiceRows]
      /\ order \in [Orders -> OrderRows] /\ invoice \in [Invoices -> InvoiceRows]
      /\ tx \in [Workers -> {Idle} \cup Busy]
      /\ t.inv \in Invoices /\ t.row \in InvoiceRows
      /\ t.lock \in Orders \cup {NoOrder} /\ t.sync \in Orders \cup {NoOrder}
      /\ \A x \in Orders : Consistent(x)
      /\ \A j \in Invoices : invoice[j].lines \in Proper
  BY <1>1, BusyFacts DEF IInv, TypeOK
<1>3. /\ \A v \in Workers : Running(v)' => Running(v) /\ v # w /\ tx'[v] = tx[v]
  BY <1>1, <1>2 DEF Running, Idle
<1>4. \A x \in Orders :
        /\ order'[x] \in OrderRows
        /\ order'[x].lines = order[x].lines /\ order'[x].party = order[x].party
        /\ x \in {t.lock, t.sync} => order'[x].status \in Live /\ order[x].status \in Live
        /\ x \notin {t.lock, t.sync} => order'[x] = order[x]
  BY <1>1, OrdersAfterFacts
<1>5. order' \in [Orders -> OrderRows]
  <2>1. DOMAIN order' = Orders /\ order' = [x \in DOMAIN order' |-> order'[x]]
    BY <1>1 DEF OrdersAfter
  <2> QED
    BY <1>4, <2>1
<1>6. TypeOK'
  <2>1. tx' \in [Workers -> {Idle} \cup Busy]
    BY <1>1, <1>2
  <2>2. \A u, v \in Workers : (u # v /\ Running(u)' /\ Running(v)') =>
          /\ tx'[u].inv # tx'[v].inv
          /\ tx'[u].lock # NoOrder => tx'[u].lock # tx'[v].lock
    BY <1>2, <1>3 DEF TypeOK
  <2> QED
    BY <1>1, <1>2, <1>5, <2>1, <2>2 DEF TypeOK
<1>7. \A x : x # t.lock => Gives(invoice[t.inv], t.row, x)
  BY <1>2 DEF Pending, Gives, Active
<1>8. /\ View(w) = [invoice EXCEPT ![t.inv] = t.row]
      /\ \A j \in Invoices : View(w)[j] = IF j = t.inv THEN t.row ELSE invoice[j]
  BY <1>2 DEF View
<1>9. ASSUME NEW x \in Orders PROVE Consistent(x)'
  <2>1. Agrees(order[x], View(w), x)
    <3>1. CASE x = t.lock
      BY <1>2, <3>1, SourceOrderAssumption DEF Pending
    <3>2. CASE x # t.lock
      <4>1. /\ order[x] \in OrderRows /\ invoice[t.inv].lines \in Proper
            /\ Agrees(order[x], invoice, x) /\ Gives(invoice[t.inv], t.row, x)
        BY <1>2, <1>7, <3>2 DEF Consistent
      <4>2. Agrees(order[x], [invoice EXCEPT ![t.inv] = t.row], x)
        BY <1>2, <4>1, GivingKeepsAgreement
      <4> QED
        BY <1>8, <4>2
    <3> QED
      BY <3>1, <3>2
  <2>2. Agrees(order'[x], View(w), x)
    BY <1>4, <2>1 DEF Agrees
  <2>3. ASSUME NEW j \in Invoices, Active(View(w)[j], x) PROVE order'[x].status \in Live
    <3>1. CASE x \in {t.lock, t.sync}
      BY <1>4, <3>1
    <3>2. CASE x \notin {t.lock, t.sync}
      <4>1. Active(invoice[j], x)
        BY <1>7, <1>8, <2>3, <3>2 DEF Gives
      <4> QED
        BY <1>2, <1>4, <3>2, <4>1 DEF Consistent
    <3> QED
      BY <3>1, <3>2
  <2> QED
    BY <1>1, <1>2, <1>4, <2>2, <2>3 DEF Consistent
<1>10. ASSUME NEW v \in Workers, Running(v)' PROVE Pending(v)'
  <2>1. Running(v) /\ v # w /\ tx'[v] = tx[v] /\ Pending(v)
    BY <1>3, <1>10 DEF IInv
  <2>2. /\ tx[v].inv # t.inv
        /\ tx[v].lock # NoOrder => tx[v].lock # t.lock /\ tx[v].lock # t.sync
        /\ tx[v].lock \in Orders \cup {NoOrder}
    BY <1>1, <1>2, <2>1, BusyFacts DEF TypeOK
  <2>3. tx[v].lock # NoOrder =>
          /\ order'[tx[v].lock] = order[tx[v].lock]
          /\ order[tx[v].lock].status \in Live
          /\ Gives(invoice[t.inv], t.row, tx[v].lock)
    BY <1>4, <1>7, <2>1, <2>2 DEF Pending
  <2>4. invoice' = [invoice EXCEPT ![t.inv] = t.row]
    BY <1>1, <1>8
  <2> HIDE DEF t
  <2> QED
    BY <1>2, <1>6, <2>1, <2>2, <2>3, <2>4, PendingKept
<1>11. \A j \in Invoices : invoice'[j].lines \in Proper
  BY <1>1, <1>2, <1>8 DEF Pending
<1> QED
  BY <1>6, <1>9, <1>10, <1>11 DEF IInv

-----------------------------------------------------------------------------
(***************************************************************************)
(* The other steps of a transaction                                        *)
(***************************************************************************)

\* A step of w that commits nothing preserves the invariant if what w relies on
\* afterwards holds.
LEMMA TxStep ==
  ASSUME IInv, TypeOK', NEW w \in Workers, UNCHANGED <<order, invoice>>,
         \A v \in Workers \ {w} : tx'[v] = tx[v],
         Running(w)' => Pending(w)'
  PROVE  IInv'
<1>1. ASSUME NEW x \in Orders PROVE Consistent(x)'
  BY DEF IInv, Consistent
<1>2. ASSUME NEW v \in Workers, Running(v)' PROVE Pending(v)'
  <2>1. CASE v = w
    BY <1>2, <2>1
  <2>2. CASE v # w
    <3>1. tx'[v] = tx[v] /\ Running(v) /\ Pending(v)
      BY <1>2, <2>2 DEF Running, IInv
    <3> QED
      BY <3>1 DEF Pending, View
  <2> QED
    BY <2>1, <2>2
<1> QED
  BY <1>1, <1>2 DEF IInv

\* A transaction that has locked its invoice, and perhaps the order of its new row.
LEMMA StartInv ==
  ASSUME IInv, NEW w \in Workers, NEW i \in Invoices, NEW row \in InvoiceRows,
         row.lines \in Proper, NEW lock \in Orders \cup {NoOrder},
         NEW step \in {"RESERVE", FirstStep(invoice[i].source)},
         Start(w, i, row, lock, step),
         lock # NoOrder => OrderFree(lock),
         \/ lock = row.source
         \/ /\ lock = NoOrder
            /\ row.source = invoice[i].source /\ row.lines = invoice[i].lines
            /\ row.party = invoice[i].party,
         lock # NoOrder => /\ order[lock].status \in Live
                           /\ Agrees(order[lock], [invoice EXCEPT ![i] = row], lock)
  PROVE  IInv'
<1> DEFINE t == [step |-> step,
                 inv  |-> i,     row  |-> row,
                 lock |-> lock,  sync |-> invoice[i].source,
                 seen |-> "NONE", full |-> FALSE]
<1>1. /\ ~Running(w) /\ InvoiceFree(i) /\ invoice[i].status = "OPEN"
      /\ tx' = [tx EXCEPT ![w] = t]
      /\ UNCHANGED <<order, invoice>>
  BY DEF Start
<1>2. /\ TypeOK /\ order \in [Orders -> OrderRows] /\ invoice \in [Invoices -> InvoiceRows]
      /\ tx \in [Workers -> {Idle} \cup Busy]
  BY DEF IInv, TypeOK
<1>3. t \in Busy
  BY <1>2 DEF Busy, InvoiceRows, Statuses, FirstStep
<1>4. /\ tx'[w] = t /\ \A v \in Workers \ {w} : tx'[v] = tx[v]
      /\ tx' \in [Workers -> {Idle} \cup Busy]
  BY <1>1, <1>2, <1>3
<1>5. /\ t.inv = i /\ t.row = row /\ t.lock = lock /\ t.sync = invoice[i].source
      /\ t.step \in {"RESERVE", IF t.sync = NoOrder THEN "WRITE" ELSE "STATUS"}
  BY DEF FirstStep
<1> HIDE DEF t
<1>6. TypeOK'
  <2>1. ASSUME NEW u \in Workers, NEW v \in Workers, u # v, Running(u)', Running(v)'
        PROVE  /\ tx'[u].inv # tx'[v].inv
               /\ tx'[u].lock # NoOrder => tx'[u].lock # tx'[v].lock
    <3>1. CASE u = w
      <4>1. Running(v) /\ tx'[v] = tx[v]
        BY <1>4, <2>1, <3>1 DEF Running
      <4>2. tx[v].inv # i /\ (lock # NoOrder => tx[v].lock # lock)
        BY <1>1, <4>1 DEF InvoiceFree, OrderFree
      <4> QED
        BY <1>4, <1>5, <3>1, <4>1, <4>2
    <3>2. CASE v = w
      <4>1. Running(u) /\ tx'[u] = tx[u]
        BY <1>4, <2>1, <3>2 DEF Running
      <4>2. tx[u].inv # i /\ (lock # NoOrder => tx[u].lock # lock)
        BY <1>1, <4>1 DEF InvoiceFree, OrderFree
      <4> QED
        BY <1>4, <1>5, <3>2, <4>1, <4>2
    <3>3. CASE u # w /\ v # w
      BY <1>2, <1>4, <2>1, <3>3 DEF TypeOK, Running
    <3> QED
      BY <3>1, <3>2, <3>3
  <2> QED
    BY <1>1, <1>2, <1>4, <2>1 DEF TypeOK
<1>7. Pending(w)'
  <2>1. View(w)' = [invoice EXCEPT ![i] = row]
    BY <1>1, <1>4, <1>5 DEF View
  <2> QED
    BY <1>1, <1>4, <1>5, <2>1 DEF Pending
<1> QED
  BY <1>1, <1>4, <1>6, <1>7, TxStep

\* updateInvoice, validated against its new order, which it holds from then on.
LEMMA UpdateInvoiceInv ==
  ASSUME IInv, NEW w \in Workers, NEW i \in Invoices, NEW row \in RowsFor(Parties, Requests),
         UpdateInvoice(w, i, row)
  PROVE  IInv'
<1> DEFINE o == row.source
<1>1. ValidSource(i, row, FALSE) /\ Start(w, i, row, o, "RESERVE")
  BY DEF UpdateInvoice, LockedByUpdate
<1>2. row \in InvoiceRows /\ row.lines \in Proper /\ o \in Orders \cup {NoOrder}
  BY RequestsProper DEF RowsFor, InvoiceRows, Statuses, Proper
<1>3. /\ invoice \in [Invoices -> InvoiceRows] /\ order \in [Orders -> OrderRows]
      /\ invoice[i].lines \in Proper
      /\ \A x \in Orders : Agrees(order[x], invoice, x)
  BY DEF IInv, TypeOK, Consistent
<1>4. ASSUME o # NoOrder
      PROVE  /\ OrderFree(o) /\ order[o].status \in Live
             /\ Agrees(order[o], [invoice EXCEPT ![i] = row], o)
  <2>1. /\ OrderFree(o) /\ order[o].status \in Live /\ row.party = order[o].party
        /\ ValidAllocation([invoice EXCEPT ![i] = row], o, row.lines)
    BY <1>1, <1>4 DEF ValidSource, Live
  <2>2. o \in Orders /\ order[o] \in OrderRows /\ Agrees(order[o], invoice, o)
    BY <1>2, <1>3, <1>4
  <2> HIDE DEF o
  <2> QED
    BY <1>2, <1>3, <2>1, <2>2, ValidKeepsAgreement
<1> QED
  BY <1>1, <1>2, <1>4, StartInv

\* completeInvoice and cancelInvoice change nothing of their row but its status.
LEMMA EndInvoiceInv ==
  ASSUME IInv, NEW w \in Workers, NEW i \in Invoices,
         CompleteInvoice(w, i) \/ CancelInvoice(w, i)
  PROVE  IInv'
<1>1. PICK status \in {"COMPLETED", "CANCELLED"} :
        Start(w, i, [invoice[i] EXCEPT !.status = status], NoOrder, FirstStep(invoice[i].source))
  BY DEF CompleteInvoice, CancelInvoice
<1> DEFINE row == [invoice[i] EXCEPT !.status = status]
<1>2. invoice[i] \in InvoiceRows /\ invoice[i].lines \in Proper
  BY DEF IInv, TypeOK
<1>3. /\ row \in InvoiceRows
      /\ row.source = invoice[i].source /\ row.lines = invoice[i].lines
      /\ row.party = invoice[i].party
  BY <1>2 DEF InvoiceRows, Statuses
<1> HIDE DEF row
<1>4. Start(w, i, row, NoOrder, FirstStep(invoice[i].source))
  BY <1>1 DEF row
<1> QED
  BY <1>2, <1>3, <1>4, StartInv

\* reserve takes the stock of the new lines and reads nothing of the order.
LEMMA ReserveInv ==
  ASSUME IInv, NEW w \in Workers, Reserve(w)
  PROVE  IInv'
<1>1. /\ TypeOK /\ Running(w) /\ UNCHANGED <<order, invoice>>
      /\ tx \in [Workers -> {Idle} \cup Busy] /\ tx[w].step = "RESERVE"
  BY DEF Reserve, Running, IInv, TypeOK
<1>2. tx[w] \in Busy /\ Pending(w)
  BY <1>1, BusyFacts DEF IInv
<1>3. PICK s \in {"STATUS", "WRITE"} :
        /\ tx' = [tx EXCEPT ![w] = [tx[w] EXCEPT !.step = s]]
        /\ s = IF tx[w].sync = NoOrder THEN "WRITE" ELSE "STATUS"
  BY DEF Reserve, FirstStep
<1>4. /\ tx'[w] \in Busy /\ tx'[w].step = s
      /\ tx'[w].inv = tx[w].inv /\ tx'[w].row = tx[w].row
      /\ tx'[w].lock = tx[w].lock /\ tx'[w].sync = tx[w].sync
      /\ \A v \in Workers \ {w} : tx'[v] = tx[v]
      /\ tx' \in [Workers -> {Idle} \cup Busy]
  BY <1>1, <1>2, <1>3 DEF Busy
<1>5. \A v \in Workers : Running(v)' => Running(v) /\ tx'[v].inv = tx[v].inv
                                                   /\ tx'[v].lock = tx[v].lock
  BY <1>1, <1>4 DEF Running
<1>6. TypeOK'
  BY <1>1, <1>4, <1>5 DEF TypeOK
<1>7. Pending(w)'
  <2>1. View(w)' = View(w)
    BY <1>1, <1>4 DEF View
  <2> QED
    BY <1>1, <1>2, <1>3, <1>4, <2>1 DEF Pending
<1> QED
  BY <1>1, <1>4, <1>6, <1>7, TxStep

\* syncSourceOrder reads the order and then its invoices.
LEMMA ReadInv ==
  ASSUME IInv, NEW w \in Workers, ReadStatus(w) \/ ReadDetails(w)
  PROVE  IInv'
<1>1. PICK s \in {"DETAILS", "WRITE"}, seen \in Statuses, full \in BOOLEAN :
        /\ tx' = [tx EXCEPT ![w] = [tx[w] EXCEPT !.step = s, !.seen = seen, !.full = full]]
        /\ seen \in Live
  <2>1. Running(w) /\ TypeOK /\ tx \in [Workers -> {Idle} \cup Busy]
    BY DEF ReadStatus, ReadDetails, Running, IInv, TypeOK
  <2>2. /\ tx[w] \in Busy /\ Pending(w) /\ tx[w].inv \in Invoices
        /\ tx[w].sync \in Orders \cup {NoOrder}
    BY <2>1, BusyFacts DEF IInv
  <2>3. CASE ReadStatus(w)
    <3> DEFINE status == order[tx[w].sync].status
    <3>1. tx[w].step = "STATUS" /\ tx[w].sync # NoOrder
      BY <2>2, <2>3 DEF ReadStatus, Pending
    <3>2. Active(invoice[tx[w].inv], tx[w].sync) /\ tx[w].sync \in Orders
      BY <2>2, <3>1 DEF Pending, Active
    <3>3. status \in Live /\ status \in Statuses
      BY <2>2, <3>2 DEF IInv, Consistent, Live, Statuses
    <3>4. tx' = [tx EXCEPT ![w] = [tx[w] EXCEPT !.step = "DETAILS", !.seen = status,
                                                !.full = tx[w].full]]
      BY <2>1, <2>2, <2>3 DEF ReadStatus, Busy
    <3>5. tx[w].full \in BOOLEAN
      BY <2>2 DEF Busy
    <3> QED
      BY <3>3, <3>4, <3>5
  <2>4. CASE ReadDetails(w)
    <3> DEFINE f == Fulfilled(View(w), tx[w].sync)
    <3>1. tx[w].step = "DETAILS" /\ tx[w].sync # NoOrder
      BY <2>2, <2>4 DEF ReadDetails, Pending
    <3>2. tx[w].seen \in Live /\ tx[w].seen \in Statuses
      BY <2>2, <3>1 DEF Pending, Live, Statuses
    <3>3. f \in BOOLEAN
      BY DEF Fulfilled
    <3>4. tx' = [tx EXCEPT ![w] = [tx[w] EXCEPT !.full = f, !.step = "WRITE"]]
      BY <2>1, <2>4 DEF ReadDetails
    <3> HIDE DEF f
    <3>5. tx' = [tx EXCEPT ![w] = [tx[w] EXCEPT !.step = "WRITE", !.seen = tx[w].seen,
                                                !.full = f]]
      BY <2>2, <3>4 DEF Busy
    <3> QED
      BY <3>2, <3>3, <3>5
  <2> QED
    BY <2>3, <2>4
<1>2. /\ TypeOK /\ Running(w) /\ UNCHANGED <<order, invoice>>
      /\ tx \in [Workers -> {Idle} \cup Busy]
  BY DEF ReadStatus, ReadDetails, Running, IInv, TypeOK
<1>3. tx[w] \in Busy /\ Pending(w)
  BY <1>2, BusyFacts DEF IInv
<1>4. /\ tx'[w] \in Busy
      /\ tx'[w].inv = tx[w].inv /\ tx'[w].row = tx[w].row
      /\ tx'[w].lock = tx[w].lock /\ tx'[w].sync = tx[w].sync
      /\ tx'[w].seen \in Live /\ tx'[w].step \in {"DETAILS", "WRITE"}
      /\ \A v \in Workers \ {w} : tx'[v] = tx[v]
      /\ tx' \in [Workers -> {Idle} \cup Busy]
  BY <1>1, <1>2, <1>3 DEF Busy
<1>5. \A v \in Workers : Running(v)' => Running(v) /\ tx'[v].inv = tx[v].inv
                                                   /\ tx'[v].lock = tx[v].lock
  BY <1>2, <1>4 DEF Running
<1>6. TypeOK'
  BY <1>2, <1>4, <1>5 DEF TypeOK
<1>7. Pending(w)'
  <2>1. View(w)' = View(w)
    BY <1>2, <1>4 DEF View
  <2>2. tx[w].step \in {"STATUS", "DETAILS"}
    BY DEF ReadStatus, ReadDetails
  <2> QED
    BY <1>2, <1>3, <1>4, <2>1, <2>2 DEF Pending
<1> QED
  BY <1>2, <1>4, <1>6, <1>7, TxStep

\* A transaction that ends without a commit leaves everything as it was.
LEMMA RollbackInv ==
  ASSUME IInv, NEW w \in Workers, Rollback(w)
  PROVE  IInv'
<1>1. /\ UNCHANGED <<order, invoice>> /\ tx' = [tx EXCEPT ![w] = Idle]
      /\ TypeOK /\ tx \in [Workers -> {Idle} \cup Busy]
  BY DEF Rollback, IInv, TypeOK
<1>2. \A v \in Workers : Running(v)' => v # w /\ Running(v)
  BY <1>1 DEF Running, Idle
<1>3. TypeOK'
  BY <1>1, <1>2 DEF TypeOK
<1> QED
  BY <1>1, <1>2, <1>3, TxStep

-----------------------------------------------------------------------------
(***************************************************************************)
(* The theorems                                                            *)
(***************************************************************************)

\* Every step preserves the invariant.
LEMMA NextInv == IInv /\ [Next]_vars => IInv'
<1> SUFFICES ASSUME IInv, [Next]_vars PROVE IInv'
  OBVIOUS
<1>1. ASSUME NEW o \in Orders, NEW party \in Parties, NEW lines \in Requests,
             CreateOrder(o, party, lines) \/ UpdateOrder(o, party, lines)
      PROVE  IInv'
  BY <1>1, CreateOrderInv, UpdateOrderInv
<1>2. ASSUME NEW o \in Orders, CancelOrder(o) PROVE IInv'
  BY <1>2, CancelOrderInv
<1>3. ASSUME NEW i \in Invoices, NEW row \in RowsFor(Parties, Requests),
             CreateInvoice(i, row, Requests)
      PROVE  IInv'
  BY <1>3, CreateInvoiceInv
<1>4. ASSUME NEW w \in Workers, NEW i \in Invoices, NEW row \in RowsFor(Parties, Requests),
             UpdateInvoice(w, i, row)
      PROVE  IInv'
  BY <1>4, UpdateInvoiceInv
<1>5. ASSUME NEW w \in Workers, NEW i \in Invoices, CompleteInvoice(w, i) \/ CancelInvoice(w, i)
      PROVE  IInv'
  BY <1>5, EndInvoiceInv
<1>6. ASSUME NEW w \in Workers,
             Reserve(w) \/ ReadStatus(w) \/ ReadDetails(w) \/ Commit(w) \/ Rollback(w)
      PROVE  IInv'
  BY <1>6, ReserveInv, ReadInv, CommitInv, RollbackInv
<1>7. CASE UNCHANGED vars
  BY <1>7 DEF vars, IInv, TypeOK, Consistent, Pending, Running, View
<1> QED
  BY <1>1, <1>2, <1>3, <1>4, <1>5, <1>6, <1>7 DEF Next, NextOf

\* The inductive invariant holds in every reachable state.
LEMMA InvInvariant == Spec => []IInv
  BY InitInv, NextInv, PTL DEF Spec

\* However the invoices of an order are created, edited, moved and cancelled, at
\* the same time or not, they take no more of a line than was ordered.
THEOREM AllocationsStayWithinOrder == Spec => []AllocationsWithinOrder
<1>1. IInv => AllocationsWithinOrder
  BY DEF IInv, Consistent, Agrees, AllocationsWithinOrder
<1> QED
  BY <1>1, InvInvariant, PTL

\* Once all of a line's goods are on invoices so is all of its bonus.
THEOREM BonusStaysWithGoods == Spec => []BonusWithGoods
<1>1. IInv => BonusWithGoods
  BY DEF IInv, Consistent, Agrees, BonusWithGoods
<1> QED
  BY <1>1, InvInvariant, PTL

\* The active invoices of an order are those of its customer, and rows and
\* transactions have their types.
THEOREM InvoicesStayWithOrder == Spec => []InvoicesMatchOrder
<1>1. IInv => InvoicesMatchOrder
  BY DEF IInv, Consistent, Agrees, InvoicesMatchOrder
<1> QED
  BY <1>1, InvInvariant, PTL

\* No active invoice is one of a cancelled order.
THEOREM CancelledOrdersStayUnused == Spec => []CancelledOrdersUnused
<1>1. IInv => CancelledOrdersUnused
  BY DEF IInv, Consistent, Live, CancelledOrdersUnused
<1> QED
  BY <1>1, InvInvariant, PTL

\* syncSourceOrder, which reads the status of an order long before it writes it,
\* never revives an order that was cancelled, and nothing edits one.
THEOREM CancelledOrdersStayCancelled == Spec => CancellationFinal
<1>1. IInv /\ [Next]_vars
        => [\A o \in Orders : order[o].status = "CANCELLED" => order'[o] = order[o]]_vars
  <2> SUFFICES ASSUME IInv, Next, NEW x \in Orders, order[x].status = "CANCELLED"
               PROVE  order'[x] = order[x]
    OBVIOUS
  <2>0. order \in [Orders -> OrderRows] /\ TypeOK
    BY DEF IInv, TypeOK
  <2>1. ASSUME NEW o \in Orders, NEW party \in Parties, NEW lines \in Requests,
               CreateOrder(o, party, lines) \/ UpdateOrder(o, party, lines)
        PROVE  order'[x] = order[x]
    BY <2>0, <2>1 DEF CreateOrder, UpdateOrder, EditableOrder
  <2>2. ASSUME NEW o \in Orders, CancelOrder(o) PROVE order'[x] = order[x]
    <3>1. order' = [order EXCEPT ![o].status = "CANCELLED"]
      BY <2>2 DEF CancelOrder
    <3>2. order[x] \in OrderRows
      BY <2>0
    <3> QED
      BY <2>0, <3>1, <3>2 DEF OrderRows
  <2>3. ASSUME NEW i \in Invoices, NEW row \in RowsFor(Parties, Requests),
               CreateInvoice(i, row, Requests)
        PROVE  order'[x] = order[x]
    <3>1. row.source # NoOrder => order[row.source].status = "OPEN"
      BY <2>3 DEF CreateInvoice, ValidSource
    <3>2. x # row.source
      BY <3>1, SourceOrderAssumption
    <3>3. \A rest \in {NoOrder} \cup {y \in Orders : order[y].status = "NONE"} : x # rest
      BY SourceOrderAssumption
    <3> QED
      BY <2>3, <3>2, <3>3 DEF CreateInvoice
  <2>4. ASSUME NEW w \in Workers, Commit(w) PROVE order'[x] = order[x]
    <3>1. order' = OrdersAfter(w) /\ Running(w) /\ tx[w].step = "WRITE"
      BY <2>4 DEF Commit, Running
    <3> QED
      BY <3>1, OrdersAfterFacts DEF Live
  <2>5. ASSUME NEW w \in Workers, NEW i \in Invoices,
               (\E row \in RowsFor(Parties, Requests) : UpdateInvoice(w, i, row))
                 \/ CompleteInvoice(w, i) \/ CancelInvoice(w, i)
        PROVE  order' = order
    BY <2>5 DEF UpdateInvoice, CompleteInvoice, CancelInvoice, Start
  <2>6. ASSUME NEW w \in Workers, Reserve(w) \/ ReadStatus(w) \/ ReadDetails(w) \/ Rollback(w)
        PROVE  order' = order
    BY <2>6 DEF Reserve, ReadStatus, ReadDetails, Rollback
  <2> QED
    BY <2>1, <2>2, <2>3, <2>4, <2>5, <2>6 DEF Next, NextOf
<1> QED
  BY <1>1, InvInvariant, PTL DEF Spec, CancellationFinal
=============================================================================
