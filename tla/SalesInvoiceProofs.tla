------------------------- MODULE SalesInvoiceProofs -------------------------
(***************************************************************************)
(* Theorems about the sales invoice service, for every set of invoices,    *)
(* customers and products and every bound.                                 *)
(*                                                                         *)
(* The inductive invariant is a predicate Inv(d) on databases, so that it  *)
(* can be carried through the several ...Tx operators one action composes: *)
(* for each operator a "Fields" lemma says what it changes and that the    *)
(* result is a database, and an "Inv" lemma that it preserves Inv.         *)
(***************************************************************************)
EXTENDS SalesInvoice, TallyTheorems, TLAPS

MoneyInv(d) ==
  /\ ReceivablesReconcileIn(d)
  /\ CustomersReconcileIn(d)
  /\ AdvancesReconcileIn(d)
  /\ InvoicesBalanceIn(d)
  /\ CreditTermsIn(d)

Inv(d) == d \in Database /\ StockReconcilesIn(d) /\ MoneyInv(d)

-----------------------------------------------------------------------------
(***************************************************************************)
(* How the sums over invoices change when one invoice does                 *)
(***************************************************************************)

\* What is reserved of a product, over all open invoices, is a natural number.
LEMMA ReservedType ==
  ASSUME NEW d \in Database, NEW p \in Products
  PROVE  Reserved(d, p) \in Nat
<1> DEFINE f == [j \in Invoices |-> IF Open(d, j) THEN d.items[j][p] ELSE 0]
<1>1. f \in [Invoices -> Nat]
  BY ConstantsAssumption DEF Database, Quantities
<1> HIDE DEF f
<1>2. Total(f) \in Nat
  BY <1>1, ConstantsAssumption, TotalType
<1> QED
  BY <1>2 DEF Reserved, f

\* When only invoice i changes, the reservations of a product (reserve and
\* releaseReservation) change by what i reserves, and i's share is within them.
LEMMA ReservedUpdate ==
  ASSUME NEW d \in Database, NEW e \in Database,
         NEW i \in Invoices, NEW p \in Products,
         \A j \in Invoices \ {i} : e.status[j] = d.status[j] /\ e.items[j] = d.items[j]
  PROVE  /\ Reserved(d, p) \in Nat
         /\ (IF Open(d, i) THEN d.items[i][p] ELSE 0) <= Reserved(d, p)
         /\ Reserved(e, p) = Reserved(d, p)
                             - (IF Open(d, i) THEN d.items[i][p] ELSE 0)
                             + (IF Open(e, i) THEN e.items[i][p] ELSE 0)
<1> DEFINE f == [j \in Invoices |-> IF Open(d, j) THEN d.items[j][p] ELSE 0]
           g == [j \in Invoices |-> IF Open(e, j) THEN e.items[j][p] ELSE 0]
<1>1. f \in [Invoices -> Nat] /\ g \in [Invoices -> Nat]
  BY ConstantsAssumption DEF Database, Quantities
<1>2. \A j \in Invoices \ {i} : g[j] = f[j]
  BY DEF Open
<1>3. /\ Total(f) \in Nat /\ f[i] <= Total(f)
      /\ Total(g) = Total(f) - f[i] + g[i]
  <2> HIDE DEF f, g
  <2> QED
    BY <1>1, <1>2, ConstantsAssumption, TotalType, TotalMember, TotalUpdate
<1> QED
  BY <1>3 DEF Reserved

\* The same for the packages of the READY invoices (packed_qty).
LEMMA PackagesUpdate ==
  ASSUME NEW d \in Database, NEW e \in Database,
         NEW i \in Invoices, NEW p \in Products,
         \A j \in Invoices \ {i} : e.status[j] = d.status[j] /\ e.items[j] = d.items[j]
  PROVE  /\ Packages(d, p) \in Nat
         /\ (IF d.status[i] = "READY" THEN d.items[i][p] ELSE 0) <= Packages(d, p)
         /\ Packages(e, p) = Packages(d, p)
                             - (IF d.status[i] = "READY" THEN d.items[i][p] ELSE 0)
                             + (IF e.status[i] = "READY" THEN e.items[i][p] ELSE 0)
<1> DEFINE f == [j \in Invoices |-> IF d.status[j] = "READY" THEN d.items[j][p] ELSE 0]
           g == [j \in Invoices |-> IF e.status[j] = "READY" THEN e.items[j][p] ELSE 0]
<1>1. f \in [Invoices -> Nat] /\ g \in [Invoices -> Nat]
  BY ConstantsAssumption DEF Database, Quantities
<1>2. \A j \in Invoices \ {i} : g[j] = f[j]
  OBVIOUS
<1>3. /\ Total(f) \in Nat /\ f[i] <= Total(f)
      /\ Total(g) = Total(f) - f[i] + g[i]
  <2> HIDE DEF f, g
  <2> QED
    BY <1>1, <1>2, ConstantsAssumption, TotalType, TotalMember, TotalUpdate
<1> QED
  BY <1>3 DEF Packages

\* No invoice packs more than it reserves.
LEMMA PackagesWithinReserved ==
  ASSUME NEW d \in Database, NEW p \in Products
  PROVE  Packages(d, p) <= Reserved(d, p)
<1> DEFINE f == [j \in Invoices |-> IF d.status[j] = "READY" THEN d.items[j][p] ELSE 0]
           g == [j \in Invoices |-> IF Open(d, j) THEN d.items[j][p] ELSE 0]
<1>1. f \in [Invoices -> Nat] /\ g \in [Invoices -> Nat]
  BY ConstantsAssumption DEF Database, Quantities
<1>2. \A j \in Invoices : f[j] <= g[j]
  BY ConstantsAssumption DEF Open, Database, Quantities
<1>3. Total(f) <= Total(g)
  <2> HIDE DEF f, g
  <2> QED
    BY <1>1, <1>2, ConstantsAssumption, TotalMonotone
<1> QED
  BY <1>3 DEF Packages, Reserved

\* A part-packed stock leaves room to pack a DRAFT invoice as well.
LEMMA PackagesPlusDraft ==
  ASSUME NEW d \in Database, NEW p \in Products, NEW i \in Invoices,
         d.status[i] = "DRAFT"
  PROVE  Packages(d, p) + d.items[i][p] <= Reserved(d, p)
<1> DEFINE e == [d EXCEPT !.status[i] = "READY"]
<1>1. /\ e \in Database
      /\ e.items = d.items
      /\ e.status = [d.status EXCEPT ![i] = "READY"]
  BY DEF Database, Statuses
<1> HIDE DEF e
<1>2. Packages(e, p) <= Reserved(e, p)
  BY <1>1, PackagesWithinReserved
<1>3. \A j \in Invoices \ {i} : e.status[j] = d.status[j] /\ e.items[j] = d.items[j]
  BY <1>1 DEF Database
<1>4. /\ e.status[i] = "READY" /\ e.items[i] = d.items[i]
      /\ d.items[i][p] \in Nat
  BY <1>1, ConstantsAssumption DEF Database, Quantities
<1>5. /\ Packages(d, p) \in Nat
      /\ Packages(e, p) = Packages(d, p) + d.items[i][p]
  <2>1. /\ Packages(d, p) \in Nat
        /\ Packages(e, p) = Packages(d, p)
                            - (IF d.status[i] = "READY" THEN d.items[i][p] ELSE 0)
                            + (IF e.status[i] = "READY" THEN e.items[i][p] ELSE 0)
    BY <1>1, <1>3, PackagesUpdate
  <2> QED
    BY <1>4, <2>1
<1>6. /\ Reserved(d, p) \in Nat
      /\ Reserved(e, p) = Reserved(d, p) - d.items[i][p] + d.items[i][p]
  <2>1. Open(d, i) /\ Open(e, i)
    BY <1>4 DEF Open
  <2> QED
    BY <1>1, <1>3, <1>4, <2>1, ReservedUpdate
<1> QED
  BY <1>2, <1>4, <1>5, <1>6

\* The same for what the completed invoices have outstanding (account 1201).
LEMMA OwedUpdate ==
  ASSUME NEW d \in Database, NEW e \in Database, NEW i \in Invoices,
         \A j \in Invoices \ {i} : /\ e.status[j] = d.status[j]
                                   /\ e.outstanding[j] = d.outstanding[j]
  PROVE  /\ Owed(d) \in Nat
         /\ Owed(e) = Owed(d)
                      - (IF d.status[i] = "COMPLETED" THEN d.outstanding[i] ELSE 0)
                      + (IF e.status[i] = "COMPLETED" THEN e.outstanding[i] ELSE 0)
<1> DEFINE f == [j \in Invoices |-> IF d.status[j] = "COMPLETED" THEN d.outstanding[j] ELSE 0]
           g == [j \in Invoices |-> IF e.status[j] = "COMPLETED" THEN e.outstanding[j] ELSE 0]
<1>1. f \in [Invoices -> Nat] /\ g \in [Invoices -> Nat]
  BY DEF Database
<1>2. \A j \in Invoices \ {i} : g[j] = f[j]
  OBVIOUS
<1>3. Total(f) \in Nat /\ Total(g) = Total(f) - f[i] + g[i]
  <2> HIDE DEF f, g
  <2> QED
    BY <1>1, <1>2, ConstantsAssumption, TotalType, TotalUpdate
<1> QED
  BY <1>3 DEF Owed

\* The same for what one customer owes (customer_financial_summary).
LEMMA OwedByUpdate ==
  ASSUME NEW d \in Database, NEW e \in Database, NEW i \in Invoices, NEW c \in Customers,
         \A j \in Invoices \ {i} : /\ e.status[j] = d.status[j]
                                   /\ e.customer[j] = d.customer[j]
                                   /\ e.outstanding[j] = d.outstanding[j]
  PROVE  LET OfDebtor(x) == IF x.status[i] = "COMPLETED" /\ x.customer[i] = c
                            THEN x.outstanding[i] ELSE 0
         IN  /\ OwedBy(d, c) \in Nat
             /\ OfDebtor(d) <= OwedBy(d, c)
             /\ OwedBy(e, c) = OwedBy(d, c) - OfDebtor(d) + OfDebtor(e)
<1> DEFINE f == [j \in Invoices |-> IF d.status[j] = "COMPLETED" /\ d.customer[j] = c
                                    THEN d.outstanding[j] ELSE 0]
           g == [j \in Invoices |-> IF e.status[j] = "COMPLETED" /\ e.customer[j] = c
                                    THEN e.outstanding[j] ELSE 0]
<1>1. f \in [Invoices -> Nat] /\ g \in [Invoices -> Nat]
  BY DEF Database
<1>2. \A j \in Invoices \ {i} : g[j] = f[j]
  OBVIOUS
<1>3. Total(f) \in Nat /\ f[i] <= Total(f) /\ Total(g) = Total(f) - f[i] + g[i]
  <2> HIDE DEF f, g
  <2> QED
    BY <1>1, <1>2, ConstantsAssumption, TotalType, TotalMember, TotalUpdate
<1> QED
  BY <1>3 DEF OwedBy

\* The same for the payments held for open invoices (sales_payment_holding).
LEMMA HeldUpdate ==
  ASSUME NEW d \in Database, NEW e \in Database, NEW i \in Invoices,
         \A j \in Invoices \ {i} : e.held[j] = d.held[j]
  PROVE  /\ Total(d.held) \in Nat
         /\ Total(e.held) = Total(d.held) - d.held[i] + e.held[i]
<1>1. d.held \in [Invoices -> Nat] /\ e.held \in [Invoices -> Nat]
  BY DEF Database
<1> QED
  BY <1>1, ConstantsAssumption, TotalType, TotalUpdate

-----------------------------------------------------------------------------
(***************************************************************************)
(* What each operator writes                                               *)
(***************************************************************************)

\* The fields no stock movement touches.
SameMoney(d, e) ==
  /\ e.status = d.status /\ e.customer = d.customer /\ e.dated = d.dated
  /\ e.total = d.total   /\ e.paid = d.paid   /\ e.outstanding = d.outstanding
  /\ e.held = d.held     /\ e.summary = d.summary
  /\ e.subledger = d.subledger /\ e.gl = d.gl

\* The fields no payment touches.
SameStock(d, e) ==
  /\ e.actual = d.actual /\ e.available = d.available
  /\ e.packed = d.packed /\ e.layered = d.layered
  /\ e.status = d.status /\ e.items = d.items

\* The stock counters, and the ledgers with what they record of an invoice.
SameGoods(d, e) ==
  /\ e.actual = d.actual /\ e.available = d.available
  /\ e.packed = d.packed /\ e.layered = d.layered

SameLedgers(d, e) ==
  /\ e.held = d.held /\ e.summary = d.summary
  /\ e.subledger = d.subledger /\ e.gl = d.gl

\* reserve lowers what is available, packs the goods of a READY invoice, and
\* touches neither the physical stock nor any amount.
LEMMA ReserveFields ==
  ASSUME NEW d \in Database, NEW q \in Quantities, NEW s, CanReserve(d, q),
         NEW e, e = Reserve(d, q, s)
  PROVE  /\ e \in Database
         /\ SameMoney(d, e)
         /\ e.actual = d.actual /\ e.layered = d.layered /\ e.items = d.items
         /\ \A p \in Products :
              /\ e.available[p] = d.available[p] - q[p]
              /\ e.packed[p] = d.packed[p] + (IF s = "READY" THEN q[p] ELSE 0)
<1>1. /\ e.available = Minus(d.available, q)
      /\ e.packed = IF s = "READY" THEN Plus(d.packed, q) ELSE d.packed
      /\ e = [d EXCEPT !.available = e.available, !.packed = e.packed]
  BY DEF Reserve, Database
<1>2. e.available \in [Products -> Nat] /\ e.packed \in [Products -> Nat]
  BY <1>1, ConstantsAssumption DEF Database, CanReserve, Covers, Quantities, Plus, Minus
<1>3. e \in Database
  BY <1>1, <1>2 DEF Database
<1>4. \A p \in Products : d.packed[p] \in Nat
  BY DEF Database
<1>5. /\ SameMoney(d, e)
      /\ e.actual = d.actual /\ e.layered = d.layered /\ e.items = d.items
  BY <1>1 DEF SameMoney, Database
<1> QED
  BY <1>1, <1>3, <1>4, <1>5 DEF Plus, Minus

\* The row createInvoice and updateInvoice write replaces the fields of that
\* invoice and nothing else.
LEMMA WriteFields ==
  ASSUME NEW d \in Database, NEW i \in Invoices, NEW c \in Parties, NEW q \in Quantities,
         NEW t \in Nat, NEW s \in Statuses, NEW due \in BOOLEAN, d.paid[i] <= t,
         NEW e, e = Write(d, i, c, q, t, s, due)
  PROVE  /\ e \in Database
         /\ SameGoods(d, e) /\ SameLedgers(d, e) /\ e.paid = d.paid
         /\ e.status = [d.status EXCEPT ![i] = s]
         /\ e.customer = [d.customer EXCEPT ![i] = c]
         /\ e.dated = [d.dated EXCEPT ![i] = due]
         /\ e.items = [d.items EXCEPT ![i] = q]
         /\ e.total = [d.total EXCEPT ![i] = t]
         /\ e.outstanding = [d.outstanding EXCEPT ![i] = t - d.paid[i]]
<1>1. e = [d EXCEPT !.status = e.status, !.customer = e.customer, !.dated = e.dated,
                    !.items = e.items, !.total = e.total, !.outstanding = e.outstanding]
  BY DEF Write, Database
<1>2. /\ e.status \in [Invoices -> Statuses] /\ e.customer \in [Invoices -> Parties]
      /\ e.dated \in [Invoices -> BOOLEAN]   /\ e.items \in [Invoices -> Quantities]
  BY DEF Write, Database
<1>3. t - d.paid[i] \in Nat
  BY DEF Database
<1>4. e.total \in [Invoices -> Nat] /\ e.outstanding \in [Invoices -> Nat]
  BY <1>3 DEF Write, Database
<1>5. e \in Database
  BY <1>1, <1>2, <1>4 DEF Database
<1> QED
  BY <1>5 DEF Write, Database, SameGoods, SameLedgers

\* An invoice without details has a legal item list.
LEMMA NothingType == Nothing \in Quantities
  BY ConstantsAssumption DEF Nothing, Quantities

\* releaseReservation gives back exactly the invoice's goods, unpacking those of
\* a READY one, and touches no amount.
LEMMA ReleaseFields ==
  ASSUME NEW d \in Database, NEW i \in Invoices, CanRelease(d, i),
         NEW e, e = Release(d, i)
  PROVE  /\ e \in Database
         /\ SameMoney(d, e)
         /\ e.actual = d.actual /\ e.layered = d.layered
         /\ e.items = [d.items EXCEPT ![i] = Nothing]
         /\ \A p \in Products :
              /\ e.available[p] = d.available[p] + d.items[i][p]
              /\ e.packed[p] = d.packed[p]
                                 - (IF d.status[i] = "READY" THEN d.items[i][p] ELSE 0)
<1>1. /\ e.available = Plus(d.available, d.items[i])
      /\ e.packed = IF d.status[i] = "READY" THEN Minus(d.packed, d.items[i]) ELSE d.packed
      /\ e.items = [d.items EXCEPT ![i] = Nothing]
      /\ e = [d EXCEPT !.available = e.available, !.packed = e.packed, !.items = e.items]
  BY DEF Release, Database
<1>2. /\ \A p \in Products : d.items[i][p] \in Nat
      /\ e.items \in [Invoices -> Quantities]
  BY <1>1, NothingType, ConstantsAssumption DEF Database, Quantities
<1>3. e.available \in [Products -> Nat] /\ e.packed \in [Products -> Nat]
  BY <1>1, <1>2 DEF Database, CanRelease, Covers, Plus, Minus
<1>4. e \in Database
  BY <1>1, <1>2, <1>3 DEF Database
<1>5. \A p \in Products : d.packed[p] \in Nat
  BY DEF Database
<1>6. SameMoney(d, e) /\ e.actual = d.actual /\ e.layered = d.layered
  BY <1>1 DEF SameMoney, Database
<1> QED
  BY <1>1, <1>2, <1>4, <1>5, <1>6 DEF Plus, Minus

Repacked(d, e, i, target) ==
  /\ SameLedgers(d, e) /\ e.paid = d.paid /\ e.outstanding = d.outstanding
  /\ e.customer = d.customer /\ e.dated = d.dated /\ e.total = d.total
  /\ e.actual = d.actual /\ e.available = d.available /\ e.layered = d.layered
  /\ e.items = d.items
  /\ e.status = [d.status EXCEPT ![i] = target]
  /\ \A p \in Products :
       e.packed[p] = IF target = "READY" THEN d.packed[p] + d.items[i][p]
                                         ELSE d.packed[p] - d.items[i][p]

\* changeInvoiceStatusTx between DRAFT and READY moves packed_qty and the status
\* of the invoice, and nothing else.
LEMMA RepackFields ==
  ASSUME NEW d \in Database, NEW i \in Invoices, NEW target \in {"DRAFT", "READY"},
         CanRepack(d, i, target),
         NEW e, e = Repack(d, i, target)
  PROVE  e \in Database /\ Repacked(d, e, i, target)
<1>1. /\ e.packed = IF target = "READY" THEN Plus(d.packed, d.items[i])
                                        ELSE Minus(d.packed, d.items[i])
      /\ e.status = [d.status EXCEPT ![i] = target]
      /\ e = [d EXCEPT !.packed = e.packed, !.status = e.status]
  BY DEF Repack, Database
<1>2. \A p \in Products : d.items[i][p] \in Nat
  BY ConstantsAssumption DEF Database, Quantities
<1>3. e.packed \in [Products -> Nat] /\ e.status \in [Invoices -> Statuses]
  BY <1>1, <1>2 DEF Database, CanRepack, Covers, Plus, Minus, Statuses
<1>4. e \in Database
  BY <1>1, <1>3 DEF Database
<1>5. \A p \in Products : d.packed[p] \in Nat
  BY DEF Database
<1>6. /\ SameLedgers(d, e) /\ e.paid = d.paid /\ e.outstanding = d.outstanding
      /\ e.customer = d.customer /\ e.dated = d.dated /\ e.total = d.total
      /\ e.actual = d.actual /\ e.available = d.available /\ e.layered = d.layered
      /\ e.items = d.items
  BY <1>1 DEF SameLedgers, Database
<1> QED
  BY <1>1, <1>2, <1>4, <1>5, <1>6 DEF Plus, Minus, Repacked

\* Setting a due date changes nothing but the due date.
LEMMA DatedFields ==
  ASSUME NEW d \in Database, NEW i \in Invoices, NEW due \in BOOLEAN,
         NEW e, e = Dated(d, i, due)
  PROVE  /\ e \in Database
         /\ SameStock(d, e) /\ SameLedgers(d, e)
         /\ e.paid = d.paid /\ e.outstanding = d.outstanding
         /\ e.customer = d.customer /\ e.total = d.total
         /\ e.dated = [d.dated EXCEPT ![i] = d.dated[i] \/ due]
<1>1. /\ e = [d EXCEPT !.dated = e.dated]
      /\ e.dated = [d.dated EXCEPT ![i] = @ \/ due]
  BY DEF Dated, Database
<1>2. e.dated \in [Invoices -> BOOLEAN]
  BY <1>1 DEF Database
<1>3. e \in Database
  BY <1>1, <1>2 DEF Database
<1> QED
  BY <1>1, <1>3 DEF SameStock, SameLedgers, Database

\* The stock half of completeInvoiceTx takes the invoice's goods out of actual_qty,
\* the FIFO layers and, if READY, packed_qty; available_qty stays.
LEMMA IssueFields ==
  ASSUME NEW d \in Database, NEW i \in Invoices, CanIssue(d, i),
         NEW e, e = Issue(d, i)
  PROVE  /\ e \in Database
         /\ SameMoney(d, e) /\ e.available = d.available /\ e.items = d.items
         /\ \A p \in Products :
              /\ e.actual[p]  = d.actual[p] - d.items[i][p]
              /\ e.layered[p] = d.layered[p] - d.items[i][p]
              /\ e.packed[p]  = d.packed[p]
                                  - (IF d.status[i] = "READY" THEN d.items[i][p] ELSE 0)
<1>1. /\ e.actual = Minus(d.actual, d.items[i])
      /\ e.layered = Minus(d.layered, d.items[i])
      /\ e.packed = IF d.status[i] = "READY" THEN Minus(d.packed, d.items[i]) ELSE d.packed
      /\ e = [d EXCEPT !.actual = e.actual, !.packed = e.packed, !.layered = e.layered]
  BY DEF Issue, Database
<1>2. \A p \in Products : d.items[i][p] \in Nat
  BY ConstantsAssumption DEF Database, Quantities
<1>3. /\ e.actual \in [Products -> Nat]
      /\ e.layered \in [Products -> Nat]
      /\ e.packed \in [Products -> Nat]
  BY <1>1, <1>2 DEF Database, CanIssue, Covers, Minus
<1>4. e \in Database
  BY <1>1, <1>3 DEF Database
<1>5. \A p \in Products : d.packed[p] \in Nat
  BY DEF Database
<1>6. SameMoney(d, e) /\ e.available = d.available /\ e.items = d.items
  BY <1>1 DEF SameMoney, Database
<1> QED
  BY <1>1, <1>2, <1>4, <1>5, <1>6 DEF Minus

\* The money half of completeInvoiceTx leaves the stock and the invoice's amounts
\* alone, and moves the unpaid part to 1201 and the paid part out of 2201.
LEMMA RecogniseFields ==
  ASSUME NEW d \in Database, NEW i \in Invoices, d.paid[i] <= d.total[i],
         NEW e, e = Recognise(d, i)
  PROVE  /\ e \in Database
         /\ SameGoods(d, e) /\ e.items = d.items
         /\ e.customer = d.customer /\ e.dated = d.dated /\ e.total = d.total
         /\ e.paid = d.paid /\ e.outstanding = d.outstanding
         /\ e.status = [d.status EXCEPT ![i] = "COMPLETED"]
         /\ e.held = [d.held EXCEPT ![i] = 0]
         /\ e.summary   = Credit(d.summary, d.customer[i], d.outstanding[i])
         /\ e.subledger = Credit(d.subledger, d.customer[i], d.total[i] - d.paid[i])
         /\ e.gl["1201"] = d.gl["1201"] + d.total[i] - d.paid[i]
         /\ e.gl["2201"] = d.gl["2201"] + d.paid[i]
<1>1. /\ e = [d EXCEPT !.status = e.status, !.held = e.held, !.summary = e.summary,
                       !.subledger = e.subledger, !.gl = e.gl]
      /\ e.status = [d.status EXCEPT ![i] = "COMPLETED"]
      /\ e.held = [d.held EXCEPT ![i] = 0]
      /\ e.summary = Credit(d.summary, d.customer[i], d.outstanding[i])
      /\ e.subledger = Credit(d.subledger, d.customer[i], d.total[i] - d.paid[i])
      /\ e.gl = Post(Post(d.gl, "1201", "4101", d.total[i]), "2201", "1201", d.paid[i])
  BY DEF Recognise, Database
<1>2. /\ d.total[i] - d.paid[i] \in Nat /\ d.outstanding[i] \in Nat
      /\ d.customer[i] \in Parties
      /\ d.gl \in [Accounts -> Int] /\ d.total[i] \in Int /\ d.paid[i] \in Int
  BY DEF Database
<1>3. e.summary \in [Customers -> Nat] /\ e.subledger \in [Customers -> Nat]
  BY <1>1, <1>2 DEF Credit, Database, Parties
<1>4. /\ e.gl \in [Accounts -> Int]
      /\ e.gl["1201"] = d.gl["1201"] + d.total[i] - d.paid[i]
      /\ e.gl["2201"] = d.gl["2201"] + d.paid[i]
  BY <1>1, <1>2 DEF Post, Accounts
<1>5. e.status \in [Invoices -> Statuses] /\ e.held \in [Invoices -> Nat]
  BY <1>1 DEF Database, Statuses
<1>6. e \in Database
  BY <1>1, <1>3, <1>4, <1>5 DEF Database
<1>7. /\ SameGoods(d, e) /\ e.items = d.items
      /\ e.customer = d.customer /\ e.dated = d.dated /\ e.total = d.total
      /\ e.paid = d.paid /\ e.outstanding = d.outstanding
  BY <1>1 DEF SameGoods, Database
<1> QED
  BY <1>1, <1>4, <1>6, <1>7

\* recordPaymentTx moves an amount from outstanding to paid, and to the ledgers
\* the invoice's status calls for: 2201 before completion, 1201 after.
LEMMA PayFields ==
  ASSUME NEW d \in Database, NEW i \in Invoices, NEW a \in Nat, CanPay(d, i, a),
         d.subledger = d.summary,
         NEW e, e = Pay(d, i, a)
  PROVE  LET final == d.status[i] = "COMPLETED"
         IN  /\ e \in Database
             /\ SameStock(d, e)
             /\ e.customer = d.customer /\ e.dated = d.dated /\ e.total = d.total
             /\ e.paid = [d.paid EXCEPT ![i] = @ + a]
             /\ e.outstanding = [d.outstanding EXCEPT ![i] = @ - a]
             /\ e.held = IF final THEN d.held ELSE [d.held EXCEPT ![i] = @ + a]
             /\ e.summary = IF final THEN Credit(d.summary, d.customer[i], -a) ELSE d.summary
             /\ e.subledger = e.summary
             /\ e.gl["1201"] = d.gl["1201"] - (IF final THEN a ELSE 0)
             /\ e.gl["2201"] = d.gl["2201"] - (IF final THEN 0 ELSE a)
<1> DEFINE final == d.status[i] = "COMPLETED"
<1>1. /\ e = [d EXCEPT !.paid = e.paid, !.outstanding = e.outstanding, !.held = e.held,
                       !.gl = e.gl, !.summary = e.summary, !.subledger = e.subledger]
      /\ e.paid = [d.paid EXCEPT ![i] = @ + a]
      /\ e.outstanding = [d.outstanding EXCEPT ![i] = @ - a]
      /\ e.summary = IF final THEN Credit(d.summary, d.customer[i], -a) ELSE d.summary
      /\ e.subledger = e.summary
  BY DEF Pay, Database
<1>2. /\ e.gl = Post(d.gl, "CASH", IF final THEN "1201" ELSE "2201", a)
      /\ e.held = IF final THEN d.held ELSE [d.held EXCEPT ![i] = @ + a]
  BY DEF Pay, Database
<1>3. /\ e.gl \in [Accounts -> Int]
      /\ e.gl["1201"] = d.gl["1201"] - (IF final THEN a ELSE 0)
      /\ e.gl["2201"] = d.gl["2201"] - (IF final THEN 0 ELSE a)
  BY <1>2 DEF Database, Post, Accounts
<1>4. e.summary \in [Customers -> Nat] /\ e.subledger \in [Customers -> Nat]
  BY <1>1 DEF Database, Credit, CanPay, Parties
<1>5. /\ e.paid \in [Invoices -> Nat] /\ e.outstanding \in [Invoices -> Nat]
      /\ e.held \in [Invoices -> Nat]
  BY DEF Database, Pay, CanPay
<1>6. e \in Database
  BY <1>1, <1>3, <1>4, <1>5 DEF Database
<1>7. /\ SameStock(d, e)
      /\ e.customer = d.customer /\ e.dated = d.dated /\ e.total = d.total
  BY DEF Pay, SameStock, Database
<1> QED
  BY <1>1, <1>2, <1>3, <1>6, <1>7

-----------------------------------------------------------------------------
(***************************************************************************)
(* What a step on one invoice must do to keep the books                    *)
(***************************************************************************)

\* What invoice i contributes to the reserved and packed stock of p, and to the
\* receivables in all and of customer c.
Reserves(d, i, p) == IF Open(d, i) THEN d.items[i][p] ELSE 0
Packs(d, i, p)    == IF d.status[i] = "READY" THEN d.items[i][p] ELSE 0
Owes(d, i)        == IF d.status[i] = "COMPLETED" THEN d.outstanding[i] ELSE 0
OwesTo(d, i, c)   == IF d.status[i] = "COMPLETED" /\ d.customer[i] = c
                     THEN d.outstanding[i] ELSE 0

\* What one invoice adds to each of the sums is a natural number.
LEMMA ContributionTypes ==
  ASSUME NEW d \in Database, NEW i \in Invoices
  PROVE  /\ \A p \in Products : Reserves(d, i, p) \in Nat /\ Packs(d, i, p) \in Nat
         /\ Owes(d, i) \in Nat
         /\ \A c \in Customers : OwesTo(d, i, c) \in Nat
<1>1. \A p \in Products : d.items[i][p] \in Nat
  BY ConstantsAssumption DEF Database, Quantities
<1>2. d.outstanding[i] \in Nat
  BY DEF Database
<1> QED
  BY <1>1, <1>2 DEF Reserves, Packs, Owes, OwesTo

\* From d to e only invoice i changes, and the counters move with it.
StockMoves(d, e, i) ==
  /\ \A j \in Invoices \ {i} : e.status[j] = d.status[j] /\ e.items[j] = d.items[j]
  /\ \A p \in Products :
       /\ e.available[p] + Reserves(e, i, p) - e.actual[p]
            = d.available[p] + Reserves(d, i, p) - d.actual[p]
       /\ e.packed[p] - Packs(e, i, p) = d.packed[p] - Packs(d, i, p)
       /\ e.layered[p] - e.actual[p] = d.layered[p] - d.actual[p]

\* A step that changes one invoice, and moves the stock counters by as much as
\* its contribution to them changes, keeps stock and documents in agreement.
LEMMA StockStep ==
  ASSUME NEW d \in Database, NEW e \in Database, NEW i \in Invoices,
         StockReconcilesIn(d), StockMoves(d, e, i)
  PROVE  StockReconcilesIn(e)
<1> SUFFICES ASSUME NEW p \in Products
             PROVE  /\ e.available[p] + Reserved(e, p) = e.actual[p]
                    /\ e.packed[p] = Packages(e, p)
                    /\ e.layered[p] = e.actual[p]
  BY DEF StockReconcilesIn
<1>0. \A j \in Invoices \ {i} : e.status[j] = d.status[j] /\ e.items[j] = d.items[j]
  BY DEF StockMoves
<1>1. /\ Reserved(d, p) \in Nat
      /\ Reserved(e, p) = Reserved(d, p) - Reserves(d, i, p) + Reserves(e, i, p)
  BY <1>0, ReservedUpdate DEF Reserves
<1>2. /\ Packages(d, p) \in Nat
      /\ Packages(e, p) = Packages(d, p) - Packs(d, i, p) + Packs(e, i, p)
  BY <1>0, PackagesUpdate DEF Packs
<1>3. /\ d.available[p] + Reserved(d, p) = d.actual[p]
      /\ d.packed[p] = Packages(d, p)
      /\ d.layered[p] = d.actual[p]
  BY DEF StockReconcilesIn
<1>4. /\ d.available[p] \in Nat /\ d.actual[p] \in Nat /\ d.packed[p] \in Nat
      /\ e.available[p] \in Nat /\ e.actual[p] \in Nat /\ e.packed[p] \in Nat
      /\ e.layered[p] \in Nat
  BY DEF Database
<1>5. /\ Reserves(d, i, p) \in Nat /\ Reserves(e, i, p) \in Nat
      /\ Packs(d, i, p) \in Nat /\ Packs(e, i, p) \in Nat
  BY ContributionTypes
<1>6. /\ e.available[p] + Reserves(e, i, p) - e.actual[p]
           = d.available[p] + Reserves(d, i, p) - d.actual[p]
      /\ e.packed[p] - Packs(e, i, p) = d.packed[p] - Packs(d, i, p)
      /\ e.layered[p] - e.actual[p] = d.layered[p] - d.actual[p]
  BY DEF StockMoves
<1>7. e.available[p] + Reserved(e, p) = e.actual[p]
  <2>1. e.available[p] + Reserves(e, i, p) - e.actual[p] = Reserves(d, i, p) - Reserved(d, p)
    BY <1>1, <1>3, <1>4, <1>5, <1>6
  <2> QED
    BY <1>1, <1>4, <1>5, <2>1
<1>8. e.packed[p] = Packages(e, p)
  BY <1>2, <1>3, <1>4, <1>5, <1>6
<1>9. e.layered[p] = e.actual[p]
  BY <1>3, <1>4, <1>6
<1> QED
  BY <1>7, <1>8, <1>9

\* From d to e only invoice i changes, and the ledgers move with it.
MoneyMoves(d, e, i) ==
  /\ \A j \in Invoices \ {i} :
       /\ e.status[j] = d.status[j] /\ e.customer[j] = d.customer[j]
       /\ e.dated[j] = d.dated[j]   /\ e.total[j] = d.total[j]
       /\ e.paid[j] = d.paid[j]     /\ e.outstanding[j] = d.outstanding[j]
       /\ e.held[j] = d.held[j]
  /\ e.gl["1201"] - Owes(e, i) = d.gl["1201"] - Owes(d, i)
  /\ e.gl["2201"] + e.held[i] = d.gl["2201"] + d.held[i]
  /\ \A c \in Customers :
       /\ e.summary[c] - OwesTo(e, i, c) = d.summary[c] - OwesTo(d, i, c)
       /\ e.subledger[c] = e.summary[c]

\* Invoice i is in order by itself.
RowInv(e, i) ==
  /\ e.held[i] = IF Open(e, i) THEN e.paid[i] ELSE 0
  /\ e.paid[i] + e.outstanding[i] = e.total[i]
  /\ e.status[i] = "NONE" => e.total[i] = 0
  /\ GuestTerms(e.customer[i], e.paid[i], e.outstanding[i])
  /\ (e.status[i] = "COMPLETED" /\ e.outstanding[i] > 0)
       => e.customer[i] # Guest /\ e.dated[i]

\* A step that changes one invoice, and moves the ledgers by as much as its
\* contribution to them changes, keeps the books in agreement.
LEMMA MoneyStep ==
  ASSUME NEW d \in Database, NEW e \in Database, NEW i \in Invoices,
         MoneyInv(d), MoneyMoves(d, e, i), RowInv(e, i)
  PROVE  MoneyInv(e)
<1> USE DEF MoneyMoves
<1>0. /\ e.gl["1201"] \in Int /\ d.gl["1201"] \in Int
      /\ e.gl["2201"] \in Int /\ d.gl["2201"] \in Int
      /\ e.held[i] \in Nat /\ d.held[i] \in Nat
  BY DEF Database, Accounts
<1>1. ReceivablesReconcileIn(e)
  <2>1. /\ Owed(d) \in Nat
        /\ Owed(e) = Owed(d) - Owes(d, i) + Owes(e, i)
    BY OwedUpdate DEF Owes
  <2>2. d.gl["1201"] = Owed(d)
    BY DEF MoneyInv, ReceivablesReconcileIn
  <2> QED
    BY <1>0, <2>1, <2>2, ContributionTypes DEF ReceivablesReconcileIn
<1>2. CustomersReconcileIn(e)
  <2> SUFFICES ASSUME NEW c \in Customers
               PROVE  e.summary[c] = OwedBy(e, c) /\ e.subledger[c] = OwedBy(e, c)
    BY DEF CustomersReconcileIn
  <2>1. /\ OwedBy(d, c) \in Nat
        /\ OwedBy(e, c) = OwedBy(d, c) - OwesTo(d, i, c) + OwesTo(e, i, c)
    BY OwedByUpdate DEF OwesTo
  <2>2. d.summary[c] = OwedBy(d, c)
    BY DEF MoneyInv, CustomersReconcileIn
  <2>3. e.summary[c] \in Nat /\ d.summary[c] \in Nat
    BY DEF Database
  <2>4. OwesTo(d, i, c) \in Nat /\ OwesTo(e, i, c) \in Nat
    BY ContributionTypes
  <2>5. /\ e.summary[c] - OwesTo(e, i, c) = d.summary[c] - OwesTo(d, i, c)
        /\ e.subledger[c] = e.summary[c]
    OBVIOUS
  <2> QED
    BY <2>1, <2>2, <2>3, <2>4, <2>5
<1>3. AdvancesReconcileIn(e)
  <2>1. /\ Total(d.held) \in Nat
        /\ Total(e.held) = Total(d.held) - d.held[i] + e.held[i]
    BY HeldUpdate
  <2>2. d.gl["2201"] + Total(d.held) = 0
    BY DEF MoneyInv, AdvancesReconcileIn
  <2>3. e.gl["2201"] + Total(e.held) = 0
    BY <1>0, <2>1, <2>2
  <2>4. \A j \in Invoices : e.held[j] = IF Open(e, j) THEN e.paid[j] ELSE 0
    BY DEF MoneyInv, AdvancesReconcileIn, Open, RowInv
  <2> QED
    BY <2>3, <2>4 DEF AdvancesReconcileIn
<1>4. InvoicesBalanceIn(e)
  BY DEF MoneyInv, InvoicesBalanceIn, RowInv
<1>5. CreditTermsIn(e)
  BY DEF MoneyInv, CreditTermsIn, RowInv
<1> QED
  BY <1>1, <1>2, <1>3, <1>4, <1>5 DEF MoneyInv

\* The subledger agrees with the summary, as functions.
LEMMA SubledgerIsSummary ==
  ASSUME NEW d \in Database, MoneyInv(d)
  PROVE  d.subledger = d.summary
<1>1. \A c \in Customers : d.subledger[c] = d.summary[c]
  BY DEF MoneyInv, CustomersReconcileIn
<1> QED
  BY <1>1 DEF Database

\* In a consistent database the books of each invoice hold.
LEMMA RowFacts ==
  ASSUME NEW d \in Database, MoneyInv(d), NEW i \in Invoices
  PROVE  /\ d.paid[i] \in Nat /\ d.outstanding[i] \in Nat /\ d.total[i] \in Nat
         /\ d.held[i] \in Nat
         /\ d.status[i] \in Statuses /\ d.customer[i] \in Parties
         /\ RowInv(d, i)
  BY DEF Database, MoneyInv, InvoicesBalanceIn, AdvancesReconcileIn, CreditTermsIn, RowInv

-----------------------------------------------------------------------------
(***************************************************************************)
(* Each operator preserves the invariant                                   *)
(***************************************************************************)

\* The books only depend on the amounts, not on the stock.
LEMMA MoneyFrame ==
  ASSUME NEW d, NEW e, SameMoney(d, e), MoneyInv(d)
  PROVE  MoneyInv(e)
  BY DEF SameMoney, MoneyInv, ReceivablesReconcileIn, CustomersReconcileIn, AdvancesReconcileIn,
         InvoicesBalanceIn, CreditTermsIn, Owed, OwedBy, Open

\* The agreement of the stock only depends on the stock and the documents.
LEMMA StockFrame ==
  ASSUME NEW d, NEW e, SameStock(d, e), StockReconcilesIn(d)
  PROVE  StockReconcilesIn(e)
  BY DEF SameStock, StockReconcilesIn, Reserved, Packages, Open

\* releaseReservation preserves the invariant and leaves an invoice without items.
LEMMA ReleaseInv ==
  ASSUME NEW d, Inv(d), NEW i \in Invoices, Open(d, i), CanRelease(d, i),
         NEW e, e = Release(d, i)
  PROVE  Inv(e) /\ Open(e, i) /\ e.items[i] = Nothing
<1>0. d \in Database
  BY DEF Inv
<1>1. /\ d \in Database /\ e \in Database
      /\ SameMoney(d, e)
      /\ e.actual = d.actual /\ e.layered = d.layered
      /\ e.items = [d.items EXCEPT ![i] = Nothing]
      /\ \A p \in Products :
           /\ e.available[p] = d.available[p] + d.items[i][p]
           /\ e.packed[p] = d.packed[p] - (IF d.status[i] = "READY" THEN d.items[i][p] ELSE 0)
  BY <1>0, ReleaseFields
<1>3. MoneyInv(e)
  BY <1>1, MoneyFrame DEF Inv
<1>4. StockReconcilesIn(e)
  <2>1. \A j \in Invoices \ {i} : e.status[j] = d.status[j] /\ e.items[j] = d.items[j]
    BY <1>1 DEF SameMoney, Database
  <2>2. ASSUME NEW p \in Products
        PROVE  /\ e.available[p] + Reserves(e, i, p) - e.actual[p]
                    = d.available[p] + Reserves(d, i, p) - d.actual[p]
               /\ e.packed[p] - Packs(e, i, p) = d.packed[p] - Packs(d, i, p)
               /\ e.layered[p] - e.actual[p] = d.layered[p] - d.actual[p]
    <3>1. /\ Reserves(d, i, p) = d.items[i][p] /\ Reserves(e, i, p) = 0
          /\ Packs(d, i, p) = (IF d.status[i] = "READY" THEN d.items[i][p] ELSE 0)
          /\ Packs(e, i, p) = 0
      BY <1>1 DEF Reserves, Packs, Open, SameMoney, Nothing, Database
    <3>2. /\ d.available[p] \in Nat /\ d.actual[p] \in Nat /\ d.packed[p] \in Nat
          /\ Packs(d, i, p) \in Nat /\ Reserves(d, i, p) \in Nat
      BY <1>1, ContributionTypes DEF Database
    <3> QED
      BY <1>1, <3>1, <3>2
  <2>3. StockMoves(d, e, i)
    BY <2>1, <2>2 DEF StockMoves
  <2> QED
    BY <1>1, <2>3, StockStep DEF Inv
<1> QED
  BY <1>1, <1>3, <1>4 DEF Inv, Open, SameMoney, Database

\* Reserving for, and writing the row of, a new invoice or one whose
\* reservation has just been released.
LEMMA PlaceInv ==
  ASSUME NEW d, Inv(d), NEW i \in Invoices, NEW c \in Parties, NEW q \in Quantities,
         NEW t \in Nat, NEW s \in {"DRAFT", "READY"}, NEW due \in BOOLEAN,
         d.status[i] = "NONE" \/ (Open(d, i) /\ d.items[i] = Nothing),
         CanReserve(d, q), d.paid[i] <= t, GuestTerms(c, d.paid[i], t - d.paid[i]),
         NEW e, e = Write(Reserve(d, q, s), i, c, q, t, s, due)
  PROVE  Inv(e) /\ Open(e, i)
<1> DEFINE m == Reserve(d, q, s)
<1>0. d \in Database
  BY DEF Inv
<1>1. /\ d \in Database /\ m \in Database
      /\ SameMoney(d, m)
      /\ m.actual = d.actual /\ m.layered = d.layered /\ m.items = d.items
      /\ \A p \in Products :
           /\ m.available[p] = d.available[p] - q[p]
           /\ m.packed[p] = d.packed[p] + (IF s = "READY" THEN q[p] ELSE 0)
  BY <1>0, ReserveFields
<1>2. m.paid[i] <= t /\ s \in Statuses /\ e = Write(m, i, c, q, t, s, due)
  BY <1>1 DEF SameMoney, Statuses
<1> HIDE DEF m
<1>3. /\ e \in Database
      /\ SameGoods(m, e) /\ SameLedgers(m, e) /\ e.paid = m.paid
      /\ e.status = [m.status EXCEPT ![i] = s]
      /\ e.customer = [m.customer EXCEPT ![i] = c]
      /\ e.dated = [m.dated EXCEPT ![i] = due]
      /\ e.items = [m.items EXCEPT ![i] = q]
      /\ e.total = [m.total EXCEPT ![i] = t]
      /\ e.outstanding = [m.outstanding EXCEPT ![i] = t - m.paid[i]]
  BY <1>1, <1>2, WriteFields
<1>4. /\ e.actual = d.actual /\ e.layered = d.layered
      /\ e.available = m.available /\ e.packed = m.packed
      /\ e.items = [d.items EXCEPT ![i] = q]
      /\ e.status = [d.status EXCEPT ![i] = s]
      /\ e.customer = [d.customer EXCEPT ![i] = c]
      /\ e.dated = [d.dated EXCEPT ![i] = due]
      /\ e.total = [d.total EXCEPT ![i] = t]
      /\ e.outstanding = [d.outstanding EXCEPT ![i] = t - d.paid[i]]
      /\ e.paid = d.paid /\ e.held = d.held /\ e.gl = d.gl
      /\ e.summary = d.summary /\ e.subledger = d.subledger
  BY <1>1, <1>3 DEF SameMoney, SameGoods, SameLedgers
<1>5. /\ e.status[i] = s /\ e.items[i] = q /\ e.customer[i] = c
      /\ e.total[i] = t /\ e.outstanding[i] = t - d.paid[i]
      /\ d.status[i] # "COMPLETED"
  BY <1>1, <1>4 DEF Database, Open
<1>6. StockReconcilesIn(e)
  <2>1. \A j \in Invoices \ {i} : e.status[j] = d.status[j] /\ e.items[j] = d.items[j]
    BY <1>1, <1>4 DEF Database
  <2>2. ASSUME NEW p \in Products
        PROVE  /\ e.available[p] + Reserves(e, i, p) - e.actual[p]
                    = d.available[p] + Reserves(d, i, p) - d.actual[p]
               /\ e.packed[p] - Packs(e, i, p) = d.packed[p] - Packs(d, i, p)
               /\ e.layered[p] - e.actual[p] = d.layered[p] - d.actual[p]
    <3>1. /\ Reserves(d, i, p) = 0 /\ Reserves(e, i, p) = q[p]
          /\ Packs(d, i, p) = 0 /\ Packs(e, i, p) = (IF s = "READY" THEN q[p] ELSE 0)
      BY <1>5 DEF Reserves, Packs, Open, Nothing
    <3>2. /\ d.available[p] \in Nat /\ d.actual[p] \in Nat /\ d.packed[p] \in Nat
          /\ q[p] \in Nat
      BY <1>1, ConstantsAssumption DEF Database, Quantities
    <3> QED
      BY <1>1, <1>4, <3>1, <3>2
  <2>3. StockMoves(d, e, i)
    BY <2>1, <2>2 DEF StockMoves
  <2> QED
    BY <1>1, <1>3, <2>3, StockStep DEF Inv
<1>7. MoneyInv(e)
  <2>1. \A j \in Invoices \ {i} :
           /\ e.status[j] = d.status[j] /\ e.customer[j] = d.customer[j]
           /\ e.dated[j] = d.dated[j]   /\ e.total[j] = d.total[j]
           /\ e.paid[j] = d.paid[j]     /\ e.outstanding[j] = d.outstanding[j]
           /\ e.held[j] = d.held[j]
    BY <1>1, <1>4 DEF Database
  <2>2. /\ Owes(e, i) = 0 /\ Owes(d, i) = 0
        /\ \A x \in Customers : OwesTo(e, i, x) = 0 /\ OwesTo(d, i, x) = 0
    BY <1>5 DEF Owes, OwesTo
  <2>3. /\ MoneyInv(d) /\ d.subledger = d.summary
        /\ d.paid[i] \in Nat /\ d.held[i] \in Nat /\ d.outstanding[i] \in Nat
        /\ RowInv(d, i)
    BY <1>1, RowFacts, SubledgerIsSummary DEF Inv
  <2>4. RowInv(e, i)
    BY <1>4, <1>5, <2>3 DEF RowInv, Open
  <2>5. MoneyMoves(d, e, i)
    BY <1>4, <2>1, <2>2, <2>3 DEF MoneyMoves
  <2> QED
    BY <1>1, <1>3, <2>3, <2>4, <2>5, MoneyStep
<1> QED
  BY <1>3, <1>5, <1>6, <1>7 DEF Inv, Open

\* recordPaymentTx preserves the invariant, before completion and after.
LEMMA PayInv ==
  ASSUME NEW d, Inv(d), NEW i \in Invoices, NEW a \in Nat, CanPay(d, i, a),
         NEW e, e = Pay(d, i, a)
  PROVE  /\ Inv(e)
         /\ SameStock(d, e) /\ e.status = d.status
         /\ e.paid = [d.paid EXCEPT ![i] = @ + a]
         /\ e.outstanding = [d.outstanding EXCEPT ![i] = @ - a]
         /\ e.customer = d.customer /\ e.total = d.total
<1> DEFINE final == d.status[i] = "COMPLETED"
<1>0. d \in Database /\ d.subledger = d.summary /\ MoneyInv(d)
  BY SubledgerIsSummary DEF Inv
<1>1. /\ e \in Database
      /\ SameStock(d, e)
      /\ e.customer = d.customer /\ e.dated = d.dated /\ e.total = d.total
      /\ e.paid = [d.paid EXCEPT ![i] = @ + a]
      /\ e.outstanding = [d.outstanding EXCEPT ![i] = @ - a]
      /\ e.held = IF final THEN d.held ELSE [d.held EXCEPT ![i] = @ + a]
      /\ e.summary = IF final THEN Credit(d.summary, d.customer[i], -a) ELSE d.summary
      /\ e.subledger = e.summary
      /\ e.gl["1201"] = d.gl["1201"] - (IF final THEN a ELSE 0)
      /\ e.gl["2201"] = d.gl["2201"] - (IF final THEN 0 ELSE a)
  BY <1>0, PayFields
<1>2. StockReconcilesIn(e)
  BY <1>1, StockFrame DEF Inv
<1>3. /\ d.paid[i] \in Nat /\ d.outstanding[i] \in Nat /\ d.total[i] \in Nat
      /\ d.held[i] \in Nat
      /\ d.customer[i] \in Parties /\ RowInv(d, i)
  BY <1>0, RowFacts
<1>4. /\ e.paid[i] = d.paid[i] + a /\ e.outstanding[i] = d.outstanding[i] - a
      /\ e.status[i] = d.status[i] /\ e.customer[i] = d.customer[i]
      /\ e.total[i] = d.total[i] /\ e.dated[i] = d.dated[i]
      /\ e.held[i] = IF final THEN d.held[i] ELSE d.held[i] + a
      /\ Open(e, i) <=> Open(d, i)
      /\ Open(d, i) <=> ~final
      /\ a <= d.outstanding[i]
  BY <1>0, <1>1 DEF Database, SameStock, Open, CanPay
<1>5. RowInv(e, i)
  <2>1. e.held[i] = IF Open(e, i) THEN e.paid[i] ELSE 0
    BY <1>3, <1>4 DEF RowInv
  <2>2. GuestTerms(e.customer[i], e.paid[i], e.outstanding[i])
    BY <1>4 DEF CanPay
  <2>3. e.paid[i] + e.outstanding[i] = e.total[i]
    BY <1>3, <1>4 DEF RowInv
  <2>4. e.status[i] = "NONE" => e.total[i] = 0
    BY <1>3, <1>4 DEF RowInv
  <2>5. (e.status[i] = "COMPLETED" /\ e.outstanding[i] > 0) => e.customer[i] # Guest /\ e.dated[i]
    BY <1>3, <1>4 DEF RowInv
  <2> QED
    BY <2>1, <2>2, <2>3, <2>4, <2>5 DEF RowInv
<1>6. MoneyMoves(d, e, i)
  <2>1. \A j \in Invoices \ {i} :
           /\ e.status[j] = d.status[j] /\ e.customer[j] = d.customer[j]
           /\ e.dated[j] = d.dated[j]   /\ e.total[j] = d.total[j]
           /\ e.paid[j] = d.paid[j]     /\ e.outstanding[j] = d.outstanding[j]
           /\ e.held[j] = d.held[j]
    BY <1>0, <1>1 DEF Database, SameStock
  <2>2. /\ Owes(d, i) = IF final THEN d.outstanding[i] ELSE 0
        /\ Owes(e, i) = IF final THEN d.outstanding[i] - a ELSE 0
    BY <1>4 DEF Owes
  <2>3. d.gl["1201"] \in Int /\ d.gl["2201"] \in Int
    BY <1>0 DEF Database, Accounts
  <2>4. e.gl["1201"] - Owes(e, i) = d.gl["1201"] - Owes(d, i)
    BY <1>1, <1>3, <2>2, <2>3
  <2>5. e.gl["2201"] + e.held[i] = d.gl["2201"] + d.held[i]
    BY <1>1, <1>3, <1>4, <2>3
  <2>6. ASSUME NEW c \in Customers
        PROVE  e.summary[c] - OwesTo(e, i, c) = d.summary[c] - OwesTo(d, i, c)
    <3>1. /\ OwesTo(d, i, c) = IF final /\ d.customer[i] = c THEN d.outstanding[i] ELSE 0
          /\ OwesTo(e, i, c) = IF final /\ d.customer[i] = c THEN d.outstanding[i] - a ELSE 0
      BY <1>4 DEF OwesTo
    <3>2. d.summary[c] \in Nat /\ c # Guest
      BY <1>0, ConstantsAssumption DEF Database
    <3>3. e.summary[c] = IF final /\ d.customer[i] = c THEN d.summary[c] - a ELSE d.summary[c]
      BY <1>0, <1>1, <3>2 DEF Credit, Database
    <3> QED
      BY <1>3, <3>1, <3>2, <3>3
  <2> QED
    BY <1>1, <2>1, <2>4, <2>5, <2>6 DEF MoneyMoves
<1>7. MoneyInv(e)
  BY <1>0, <1>1, <1>5, <1>6, MoneyStep
<1> QED
  BY <1>1, <1>2, <1>7 DEF Inv, SameStock

\* Setting a due date preserves the invariant.
LEMMA DatedInv ==
  ASSUME NEW d, Inv(d), NEW i \in Invoices, NEW due \in BOOLEAN,
         NEW e, e = Dated(d, i, due)
  PROVE  /\ Inv(e)
         /\ SameStock(d, e)
         /\ e.paid = d.paid /\ e.outstanding = d.outstanding
         /\ e.customer = d.customer /\ e.total = d.total
<1>0. d \in Database /\ MoneyInv(d)
  BY DEF Inv
<1>1. /\ e \in Database
      /\ SameStock(d, e) /\ SameLedgers(d, e)
      /\ e.paid = d.paid /\ e.outstanding = d.outstanding
      /\ e.customer = d.customer /\ e.total = d.total
      /\ e.dated = [d.dated EXCEPT ![i] = d.dated[i] \/ due]
  BY <1>0, DatedFields
<1>2. StockReconcilesIn(e)
  BY <1>1, StockFrame DEF Inv
<1>3. /\ ReceivablesReconcileIn(e) /\ CustomersReconcileIn(e)
      /\ AdvancesReconcileIn(e) /\ InvoicesBalanceIn(e)
  BY <1>0, <1>1 DEF MoneyInv, ReceivablesReconcileIn, CustomersReconcileIn, AdvancesReconcileIn,
                    InvoicesBalanceIn, Owed, OwedBy, Open, SameStock, SameLedgers
<1>4. \A j \in Invoices : d.dated[j] => e.dated[j]
  BY <1>0, <1>1 DEF Database
<1>5. CreditTermsIn(e)
  BY <1>0, <1>1, <1>4 DEF MoneyInv, CreditTermsIn, SameStock
<1> QED
  BY <1>1, <1>2, <1>3, <1>5 DEF Inv, MoneyInv

\* Packing and unpacking an invoice preserves the invariant.
LEMMA RepackInv ==
  ASSUME NEW d, Inv(d), NEW i \in Invoices, NEW target \in {"DRAFT", "READY"},
         Open(d, i), d.status[i] # target, CanRepack(d, i, target),
         NEW e, e = Repack(d, i, target)
  PROVE  /\ Inv(e)
         /\ e.items = d.items /\ e.actual = d.actual
<1>0. d \in Database /\ MoneyInv(d)
  BY DEF Inv
<1>1. e \in Database /\ Repacked(d, e, i, target)
  BY <1>0, RepackFields
<1> USE DEF Repacked
<1>2. /\ e.status[i] = target /\ Open(e, i)
      /\ d.status[i] = IF target = "READY" THEN "DRAFT" ELSE "READY"
      /\ \A j \in Invoices \ {i} : e.status[j] = d.status[j]
  BY <1>0, <1>1 DEF Database, Open
<1>3. StockReconcilesIn(e)
  <2>1. ASSUME NEW p \in Products
        PROVE  /\ e.available[p] + Reserves(e, i, p) - e.actual[p]
                    = d.available[p] + Reserves(d, i, p) - d.actual[p]
               /\ e.packed[p] - Packs(e, i, p) = d.packed[p] - Packs(d, i, p)
               /\ e.layered[p] - e.actual[p] = d.layered[p] - d.actual[p]
    <3>1. d.items[i][p] \in Nat /\ d.packed[p] \in Nat
      BY <1>0, ConstantsAssumption DEF Database, Quantities
    <3>2. /\ Reserves(e, i, p) = Reserves(d, i, p)
          /\ Packs(e, i, p) = IF target = "READY" THEN d.items[i][p] ELSE 0
          /\ Packs(d, i, p) = IF target = "READY" THEN 0 ELSE d.items[i][p]
      BY <1>1, <1>2 DEF Reserves, Packs
    <3> QED
      BY <1>1, <3>1, <3>2
  <2>2. StockMoves(d, e, i)
    BY <1>1, <1>2, <2>1 DEF StockMoves
  <2> QED
    BY <1>0, <1>1, <2>2, StockStep DEF Inv
<1>4. MoneyInv(e)
  <2>1. /\ RowInv(d, i) /\ d.subledger = d.summary
    BY <1>0, RowFacts, SubledgerIsSummary
  <2>2. RowInv(e, i)
    BY <1>1, <1>2, <2>1 DEF RowInv, SameLedgers
  <2>3. /\ Owes(e, i) = 0 /\ Owes(d, i) = 0
        /\ \A x \in Customers : OwesTo(e, i, x) = 0 /\ OwesTo(d, i, x) = 0
    BY <1>2 DEF Owes, OwesTo
  <2>4. MoneyMoves(d, e, i)
    BY <1>1, <1>2, <2>1, <2>3 DEF MoneyMoves, SameLedgers
  <2> QED
    BY <1>0, <1>1, <2>2, <2>4, MoneyStep
<1> QED
  BY <1>1, <1>3, <1>4 DEF Inv

\* The money half of completion, whatever happens to the stock.
LEMMA RecogniseMoney ==
  ASSUME NEW d \in Database, MoneyInv(d), NEW i \in Invoices, CanRecognise(d, i),
         NEW e, e = Recognise(d, i)
  PROVE  /\ e \in Database /\ MoneyInv(e)
         /\ SameGoods(d, e) /\ e.items = d.items
         /\ e.customer = d.customer /\ e.total = d.total
         /\ e.paid = d.paid /\ e.outstanding = d.outstanding
         /\ e.status = [d.status EXCEPT ![i] = "COMPLETED"]
<1>1. /\ d.paid[i] \in Nat /\ d.outstanding[i] \in Nat /\ d.total[i] \in Nat
      /\ d.held[i] \in Nat /\ d.customer[i] \in Parties
      /\ RowInv(d, i) /\ d.subledger = d.summary
  BY RowFacts, SubledgerIsSummary
<1>2. d.total[i] - d.paid[i] = d.outstanding[i] /\ d.paid[i] <= d.total[i]
  BY <1>1 DEF RowInv
<1>3. /\ e \in Database
      /\ SameGoods(d, e) /\ e.items = d.items
      /\ e.customer = d.customer /\ e.dated = d.dated /\ e.total = d.total
      /\ e.paid = d.paid /\ e.outstanding = d.outstanding
      /\ e.status = [d.status EXCEPT ![i] = "COMPLETED"]
      /\ e.held = [d.held EXCEPT ![i] = 0]
      /\ e.summary   = Credit(d.summary, d.customer[i], d.outstanding[i])
      /\ e.subledger = Credit(d.subledger, d.customer[i], d.total[i] - d.paid[i])
      /\ e.gl["1201"] = d.gl["1201"] + d.total[i] - d.paid[i]
      /\ e.gl["2201"] = d.gl["2201"] + d.paid[i]
  BY <1>2, RecogniseFields
<1>4. e.subledger = e.summary
  BY <1>1, <1>2, <1>3
<1>5. /\ e.status[i] = "COMPLETED" /\ ~Open(e, i) /\ e.held[i] = 0
      /\ Open(d, i) /\ d.status[i] # "COMPLETED"
      /\ d.held[i] = d.paid[i]
  BY <1>1, <1>3 DEF Database, Open, CanRecognise, RowInv
<1>6. RowInv(e, i)
  BY <1>1, <1>3, <1>5 DEF RowInv, CanRecognise
<1>7. MoneyMoves(d, e, i)
  <2>1. \A j \in Invoices \ {i} :
           /\ e.status[j] = d.status[j] /\ e.customer[j] = d.customer[j]
           /\ e.dated[j] = d.dated[j]   /\ e.total[j] = d.total[j]
           /\ e.paid[j] = d.paid[j]     /\ e.outstanding[j] = d.outstanding[j]
           /\ e.held[j] = d.held[j]
    BY <1>3 DEF Database
  <2>2. Owes(d, i) = 0 /\ Owes(e, i) = d.outstanding[i]
    BY <1>3, <1>5 DEF Owes
  <2>3. d.gl["1201"] \in Int /\ d.gl["2201"] \in Int
    BY DEF Database, Accounts
  <2>4. e.gl["1201"] - Owes(e, i) = d.gl["1201"] - Owes(d, i)
    BY <1>1, <1>2, <1>3, <2>2, <2>3
  <2>5. e.gl["2201"] + e.held[i] = d.gl["2201"] + d.held[i]
    BY <1>1, <1>3, <1>5, <2>3
  <2>6. ASSUME NEW c \in Customers
        PROVE  e.summary[c] - OwesTo(e, i, c) = d.summary[c] - OwesTo(d, i, c)
    <3>1. /\ OwesTo(d, i, c) = 0
          /\ OwesTo(e, i, c) = IF d.customer[i] = c THEN d.outstanding[i] ELSE 0
      BY <1>3, <1>5 DEF OwesTo
    <3>2. d.summary[c] \in Nat /\ c # Guest
      BY ConstantsAssumption DEF Database
    <3>3. e.summary[c] = IF d.customer[i] = c THEN d.summary[c] + d.outstanding[i]
                                              ELSE d.summary[c]
      BY <1>3, <3>2 DEF Credit, Database
    <3> QED
      BY <1>1, <3>1, <3>2, <3>3
  <2> QED
    BY <1>4, <2>1, <2>4, <2>5, <2>6 DEF MoneyMoves
<1>8. MoneyInv(e)
  BY <1>3, <1>6, <1>7, MoneyStep
<1> QED
  BY <1>3, <1>8

\* completeInvoiceTx preserves the invariant.
LEMMA CompleteInv ==
  ASSUME NEW d, Inv(d), NEW i \in Invoices, CanComplete(d, i),
         NEW e, e = Complete(d, i)
  PROVE  /\ Inv(e)
         /\ e.items = d.items /\ e.customer = d.customer /\ e.total = d.total
         /\ e.paid = d.paid /\ e.outstanding = d.outstanding
         /\ e.status = [d.status EXCEPT ![i] = "COMPLETED"]
         /\ \A p \in Products : e.actual[p] = d.actual[p] - d.items[i][p]
<1> DEFINE m == Issue(d, i)
<1>0. d \in Database /\ MoneyInv(d) /\ CanIssue(d, i) /\ CanRecognise(d, i)
  BY DEF Inv, CanComplete
<1>1. /\ m \in Database
      /\ SameMoney(d, m) /\ m.available = d.available /\ m.items = d.items
      /\ \A p \in Products :
           /\ m.actual[p]  = d.actual[p] - d.items[i][p]
           /\ m.layered[p] = d.layered[p] - d.items[i][p]
           /\ m.packed[p]  = d.packed[p]
                               - (IF d.status[i] = "READY" THEN d.items[i][p] ELSE 0)
  BY <1>0, IssueFields
<1>2. e = Recognise(m, i)
  BY DEF Complete
<1> HIDE DEF m
<1>3. MoneyInv(m) /\ CanRecognise(m, i)
  BY <1>0, <1>1, MoneyFrame DEF CanRecognise, SameMoney, Open
<1>4. /\ e \in Database /\ MoneyInv(e)
      /\ SameGoods(m, e) /\ e.items = m.items
      /\ e.customer = m.customer /\ e.total = m.total
      /\ e.paid = m.paid /\ e.outstanding = m.outstanding
      /\ e.status = [m.status EXCEPT ![i] = "COMPLETED"]
  BY <1>1, <1>2, <1>3, RecogniseMoney
<1>5. /\ e.available = d.available /\ e.items = d.items
      /\ e.customer = d.customer /\ e.total = d.total
      /\ e.paid = d.paid /\ e.outstanding = d.outstanding
      /\ e.status = [d.status EXCEPT ![i] = "COMPLETED"]
      /\ e.actual = m.actual /\ e.packed = m.packed /\ e.layered = m.layered
  BY <1>1, <1>4 DEF SameMoney, SameGoods
<1>6. StockReconcilesIn(e)
  <2>1. /\ e.status[i] = "COMPLETED" /\ Open(d, i)
        /\ \A j \in Invoices \ {i} : e.status[j] = d.status[j] /\ e.items[j] = d.items[j]
    BY <1>0, <1>5 DEF Database, CanRecognise
  <2>2. ASSUME NEW p \in Products
        PROVE  /\ e.available[p] + Reserves(e, i, p) - e.actual[p]
                    = d.available[p] + Reserves(d, i, p) - d.actual[p]
               /\ e.packed[p] - Packs(e, i, p) = d.packed[p] - Packs(d, i, p)
               /\ e.layered[p] - e.actual[p] = d.layered[p] - d.actual[p]
    <3>1. /\ d.items[i][p] \in Nat /\ d.packed[p] \in Nat /\ d.actual[p] \in Nat
          /\ d.layered[p] \in Nat /\ d.available[p] \in Nat
      BY <1>0, ConstantsAssumption DEF Database, Quantities
    <3>2. /\ Reserves(e, i, p) = 0 /\ Reserves(d, i, p) = d.items[i][p]
          /\ Packs(e, i, p) = 0
          /\ Packs(d, i, p) = IF d.status[i] = "READY" THEN d.items[i][p] ELSE 0
      BY <2>1 DEF Reserves, Packs, Open
    <3> QED
      BY <1>1, <1>5, <3>1, <3>2
  <2>3. StockMoves(d, e, i)
    BY <2>1, <2>2 DEF StockMoves
  <2> QED
    BY <1>0, <1>4, <2>3, StockStep DEF Inv
<1> QED
  BY <1>1, <1>4, <1>5, <1>6 DEF Inv

\* createCompletedInventoryLoanInvoiceTx preserves the invariant: it recognises
\* the sale of goods that are no longer in stock.
LEMMA LoanInv ==
  ASSUME NEW d, Inv(d), NEW i \in Invoices, NEW c \in Customers, NEW q \in Quantities,
         NEW t \in Nat, NEW due \in BOOLEAN, d.status[i] = "NONE",
         NEW m, m = Write(d, i, c, q, t, "DRAFT", due), CanRecognise(m, i),
         NEW e, e = Recognise(m, i)
  PROVE  /\ Inv(e)
         /\ SameGoods(d, e) /\ e.paid = d.paid
         /\ e.items = [d.items EXCEPT ![i] = q]
         /\ e.status = [d.status EXCEPT ![i] = "COMPLETED"]
         /\ e.customer = [d.customer EXCEPT ![i] = c]
         /\ e.total = [d.total EXCEPT ![i] = t]
         /\ \A j \in Invoices \ {i} : e.outstanding[j] = d.outstanding[j]
<1>0. d \in Database /\ MoneyInv(d)
  BY DEF Inv
<1>1. /\ d.paid[i] \in Nat /\ d.held[i] \in Nat /\ d.outstanding[i] \in Nat
      /\ RowInv(d, i) /\ d.subledger = d.summary
  BY <1>0, RowFacts, SubledgerIsSummary
<1>2. d.paid[i] = 0 /\ d.held[i] = 0 /\ d.paid[i] <= t
  BY <1>1 DEF RowInv, Open
<1>3. c \in Parties /\ "DRAFT" \in Statuses /\ c # Guest
  BY ConstantsAssumption DEF Parties, Statuses
<1>4. /\ m \in Database
      /\ SameGoods(d, m) /\ SameLedgers(d, m) /\ m.paid = d.paid
      /\ m.status = [d.status EXCEPT ![i] = "DRAFT"]
      /\ m.customer = [d.customer EXCEPT ![i] = c]
      /\ m.dated = [d.dated EXCEPT ![i] = due]
      /\ m.items = [d.items EXCEPT ![i] = q]
      /\ m.total = [d.total EXCEPT ![i] = t]
      /\ m.outstanding = [d.outstanding EXCEPT ![i] = t - d.paid[i]]
  BY <1>0, <1>2, <1>3, WriteFields
<1>5. /\ m.status[i] = "DRAFT" /\ m.customer[i] = c /\ m.total[i] = t
      /\ m.outstanding[i] = t /\ m.paid[i] = 0 /\ m.held[i] = 0
  BY <1>0, <1>2, <1>4 DEF Database, SameLedgers
<1>6. MoneyInv(m)
  <2>1. RowInv(m, i)
    BY <1>3, <1>5 DEF RowInv, Open, GuestTerms
  <2>2. /\ Owes(m, i) = 0 /\ Owes(d, i) = 0
        /\ \A x \in Customers : OwesTo(m, i, x) = 0 /\ OwesTo(d, i, x) = 0
    BY <1>5 DEF Owes, OwesTo
  <2>3. MoneyMoves(d, m, i)
    BY <1>0, <1>1, <1>4, <2>2 DEF MoneyMoves, SameLedgers, Database
  <2> QED
    BY <1>0, <1>4, <2>1, <2>3, MoneyStep
<1>7. /\ e \in Database /\ MoneyInv(e)
      /\ SameGoods(m, e) /\ e.items = m.items
      /\ e.customer = m.customer /\ e.total = m.total
      /\ e.paid = m.paid /\ e.outstanding = m.outstanding
      /\ e.status = [m.status EXCEPT ![i] = "COMPLETED"]
  <2>1. m \in Database
    BY <1>4
  <2> QED
    BY <2>1, <1>6, RecogniseMoney
<1>8. /\ SameGoods(d, e)
      /\ e.status = [d.status EXCEPT ![i] = "COMPLETED"]
      /\ e.items = [d.items EXCEPT ![i] = q]
  BY <1>4, <1>7 DEF SameGoods, Database
<1>9. StockReconcilesIn(e)
  <2>1. /\ \A p \in Products : /\ Reserves(e, i, p) = 0 /\ Reserves(d, i, p) = 0
                              /\ Packs(e, i, p) = 0 /\ Packs(d, i, p) = 0
        /\ \A j \in Invoices \ {i} : e.status[j] = d.status[j] /\ e.items[j] = d.items[j]
    BY <1>0, <1>8 DEF Reserves, Packs, Open, Database
  <2>2. StockMoves(d, e, i)
    BY <1>8, <2>1 DEF StockMoves, SameGoods
  <2> QED
    BY <1>0, <1>7, <2>2, StockStep DEF Inv
<1> QED
  BY <1>0, <1>4, <1>7, <1>8, <1>9 DEF Inv, Database

\* cancelInvoice preserves the invariant: with nothing paid no advance is left.
LEMMA CancelInv ==
  ASSUME NEW d, Inv(d), NEW i \in Invoices, Open(d, i), d.paid[i] = 0, CanRelease(d, i),
         NEW e, e = Cancel(d, i)
  PROVE  /\ Inv(e)
         /\ e.actual = d.actual
         /\ e.items = [d.items EXCEPT ![i] = Nothing]
         /\ e.status = [d.status EXCEPT ![i] = "CANCELLED"]
         /\ e.paid = d.paid /\ e.outstanding = d.outstanding
         /\ e.customer = d.customer /\ e.total = d.total
<1> DEFINE m == Release(d, i)
<1>0. d \in Database
  BY DEF Inv
<1>1. /\ m \in Database
      /\ SameMoney(d, m)
      /\ m.actual = d.actual /\ m.layered = d.layered
      /\ m.items = [d.items EXCEPT ![i] = Nothing]
  BY <1>0, ReleaseFields
<1>2. Inv(m) /\ Open(m, i) /\ m.items[i] = Nothing
  BY ReleaseInv
<1>3. e = [m EXCEPT !.status[i] = "CANCELLED"]
  BY DEF Cancel
<1> HIDE DEF m
<1>4. /\ e = [m EXCEPT !.status = e.status]
      /\ e.status = [m.status EXCEPT ![i] = "CANCELLED"]
      /\ SameGoods(m, e) /\ SameLedgers(m, e) /\ e.items = m.items
      /\ e.customer = m.customer /\ e.dated = m.dated /\ e.total = m.total
      /\ e.paid = m.paid /\ e.outstanding = m.outstanding
  BY <1>1, <1>3 DEF Database, SameGoods, SameLedgers
<1>5. e \in Database
  <2>1. e.status \in [Invoices -> Statuses]
    BY <1>1, <1>4 DEF Database, Statuses
  <2> QED
    BY <1>1, <1>4, <2>1 DEF Database
<1>6. /\ e.status[i] = "CANCELLED" /\ ~Open(e, i) /\ m.status[i] # "COMPLETED"
      /\ \A j \in Invoices \ {i} : e.status[j] = m.status[j]
      /\ m.paid[i] = 0
  BY <1>1, <1>2, <1>4 DEF Database, Open, SameMoney
<1>7. StockReconcilesIn(e)
  <2>1. \A p \in Products : /\ Reserves(e, i, p) = 0 /\ Reserves(m, i, p) = 0
                           /\ Packs(e, i, p) = 0 /\ Packs(m, i, p) = 0
    BY <1>2, <1>6 DEF Reserves, Packs, Nothing
  <2>2. StockMoves(m, e, i)
    BY <1>4, <1>6, <2>1 DEF StockMoves, SameGoods
  <2>3. StockReconcilesIn(m)
    BY <1>2 DEF Inv
  <2> QED
    BY <1>1, <1>5, <2>2, <2>3, StockStep
<1>8. MoneyInv(e)
  <2>0. MoneyInv(m)
    BY <1>2 DEF Inv
  <2>1. /\ RowInv(m, i) /\ m.subledger = m.summary
        /\ m.paid[i] \in Nat /\ m.held[i] \in Nat
    BY <1>1, <2>0, RowFacts, SubledgerIsSummary
  <2>2. RowInv(e, i)
    BY <1>2, <1>4, <1>6, <2>1 DEF RowInv, SameLedgers
  <2>3. /\ Owes(e, i) = 0 /\ Owes(m, i) = 0
        /\ \A x \in Customers : OwesTo(e, i, x) = 0 /\ OwesTo(m, i, x) = 0
    BY <1>6 DEF Owes, OwesTo
  <2>4. MoneyMoves(m, e, i)
    BY <1>4, <1>6, <2>1, <2>3 DEF MoneyMoves, SameLedgers
  <2> QED
    BY <1>1, <1>5, <2>0, <2>2, <2>4, MoneyStep
<1>9. Inv(e)
  BY <1>5, <1>7, <1>8 DEF Inv
<1> QED
  BY <1>1, <1>4, <1>9 DEF SameMoney, SameGoods

\* A stock adjustment that keeps the counters natural preserves the invariant.
LEMMA AdjustInv ==
  ASSUME NEW d, Inv(d), NEW p \in Products, NEW n \in Int,
         d.actual[p] + n \in Nat, d.available[p] + n \in Nat, d.layered[p] + n \in Nat,
         NEW e, e = Adjust(d, p, n)
  PROVE  /\ Inv(e) /\ SameMoney(d, e) /\ e.items = d.items
         /\ e.actual = [d.actual EXCEPT ![p] = @ + n]
<1>0. d \in Database /\ StockReconcilesIn(d)
  BY DEF Inv
<1>1. /\ e = [d EXCEPT !.actual = e.actual, !.available = e.available, !.layered = e.layered]
      /\ e.actual = [d.actual EXCEPT ![p] = @ + n]
      /\ e.available = [d.available EXCEPT ![p] = @ + n]
      /\ e.layered = [d.layered EXCEPT ![p] = @ + n]
      /\ SameMoney(d, e) /\ e.items = d.items /\ e.packed = d.packed
  BY <1>0 DEF Adjust, Database, SameMoney
<1>2. /\ e.actual \in [Products -> Nat] /\ e.available \in [Products -> Nat]
      /\ e.layered \in [Products -> Nat]
  BY <1>0, <1>1 DEF Database
<1>3. e \in Database
  BY <1>0, <1>1, <1>2 DEF Database
<1>4. StockReconcilesIn(e)
  <2> SUFFICES ASSUME NEW x \in Products
               PROVE  /\ e.available[x] + Reserved(e, x) = e.actual[x]
                      /\ e.packed[x] = Packages(e, x)
                      /\ e.layered[x] = e.actual[x]
    BY DEF StockReconcilesIn
  <2>1. Reserved(e, x) = Reserved(d, x) /\ Packages(e, x) = Packages(d, x)
    BY <1>1 DEF Reserved, Packages, Open, SameMoney
  <2>2. /\ d.available[x] + Reserved(d, x) = d.actual[x]
        /\ d.packed[x] = Packages(d, x)
        /\ d.layered[x] = d.actual[x]
    BY <1>0 DEF StockReconcilesIn
  <2>3. /\ d.available[x] \in Nat /\ d.actual[x] \in Nat /\ d.layered[x] \in Nat
        /\ d.actual \in [Products -> Nat] /\ d.available \in [Products -> Nat]
        /\ d.layered \in [Products -> Nat]
    BY <1>0 DEF Database
  <2>4. Reserved(d, x) \in Nat
    BY <1>0, ReservedType
  <2> QED
    BY <1>1, <2>1, <2>2, <2>3, <2>4
<1>5. MoneyInv(e)
  BY <1>1, MoneyFrame DEF Inv
<1> QED
  BY <1>1, <1>3, <1>4, <1>5 DEF Inv

\* A list of initial payments preserves the invariant.
LEMMA PayAllInv ==
  ASSUME NEW d, Inv(d), NEW i \in Invoices, NEW a \in Nat, NEW b \in Nat,
         CanPayAll(d, i, a, b),
         NEW e, e = PayAll(d, i, a, b)
  PROVE  Inv(e)
<1>1. CASE a = 0
  BY <1>1 DEF PayAll
<1>2. CASE a > 0
  <2> DEFINE m == Pay(d, i, a)
  <2>1. CanPay(d, i, a)
    BY <1>2 DEF CanPayAll
  <2>2. Inv(m)
    BY <2>1, PayInv
  <2>3. CASE b = 0
    BY <1>2, <2>2, <2>3 DEF PayAll
  <2>4. CASE b > 0
    <3>1. CanPay(m, i, b) /\ e = Pay(m, i, b)
      BY <1>2, <2>4 DEF CanPayAll, PayAll
    <3> HIDE DEF m
    <3> QED
      BY <2>2, <3>1, PayInv
  <2> QED
    BY <2>3, <2>4
<1> QED
  BY <1>1, <1>2

\* changeInvoiceStatusTx preserves the invariant, whichever status it is asked for.
LEMMA ChangeStatusInv ==
  ASSUME NEW d, Inv(d), NEW i \in Invoices, NEW target \in Requested, NEW due \in BOOLEAN,
         CanChangeStatus(d, i, target, due),
         NEW e, e = ChangeStatus(d, i, target, due)
  PROVE  Inv(e)
<1> DEFINE m == Dated(d, i, due)
<1>1. Inv(m) /\ SameStock(d, m)
  BY DatedInv
<1>2. CASE d.status[i] = target
  BY <1>1, <1>2 DEF ChangeStatus
<1>3. CASE d.status[i] # target /\ target = "COMPLETED"
  <2>1. CanComplete(m, i) /\ e = Complete(m, i)
    BY <1>3 DEF CanChangeStatus, ChangeStatus
  <2> HIDE DEF m
  <2> QED
    BY <1>1, <2>1, CompleteInv
<1>4. CASE d.status[i] # target /\ target # "COMPLETED"
  <2>1. /\ target \in {"DRAFT", "READY"} /\ e = Repack(m, i, target)
        /\ Open(d, i) /\ CanRepack(d, i, target)
    BY <1>4 DEF CanChangeStatus, ChangeStatus, Requested, Open
  <2> HIDE DEF m
  <2>2. Open(m, i) /\ m.status[i] # target /\ CanRepack(m, i, target)
    BY <1>1, <1>4, <2>1 DEF SameStock, Open, CanRepack, Covers
  <2> QED
    BY <1>1, <2>1, <2>2, RepackInv
<1> QED
  BY <1>2, <1>3, <1>4

-----------------------------------------------------------------------------
(***************************************************************************)
(* The invariant                                                           *)
(***************************************************************************)

\* Sums over invoices that all contribute nothing are zero.
LEMMA ZeroSums ==
  ASSUME NEW f \in [Invoices -> Nat], \A i \in Invoices : f[i] = 0
  PROVE  Total(f) = 0
  BY TotalZero

\* The invariant holds of an empty database.
LEMMA InitInv == Init => Inv(db)
<1> SUFFICES ASSUME Init PROVE Inv(db)
  OBVIOUS
<1>1. Nothing \in [Products -> Nat] /\ Nothing \in Quantities /\ Guest \in Parties
  BY NothingType DEF Nothing, Parties
<1>2. db \in Database
  BY <1>1 DEF Init, Database, Statuses, Accounts
<1>3. /\ db.actual = Nothing /\ db.available = Nothing
      /\ db.packed = Nothing /\ db.layered = Nothing
      /\ db.items = [i \in Invoices |-> Nothing]
      /\ db.status = [i \in Invoices |-> "NONE"]
      /\ db.customer = [i \in Invoices |-> Guest]
      /\ db.total = [i \in Invoices |-> 0] /\ db.paid = [i \in Invoices |-> 0]
      /\ db.outstanding = [i \in Invoices |-> 0] /\ db.held = [i \in Invoices |-> 0]
      /\ db.summary = [c \in Customers |-> 0] /\ db.subledger = [c \in Customers |-> 0]
      /\ db.gl["1201"] = 0 /\ db.gl["2201"] = 0
  BY DEF Init, Accounts
<1>4. \A i \in Invoices : ~Open(db, i) /\ db.status[i] = "NONE"
  BY <1>3 DEF Open
<1>5. StockReconcilesIn(db)
  <2> SUFFICES ASSUME NEW p \in Products
               PROVE  Reserved(db, p) = 0 /\ Packages(db, p) = 0
    BY <1>3 DEF StockReconcilesIn, Nothing
  <2>1. Reserved(db, p) = 0
    <3> DEFINE f == [i \in Invoices |-> IF Open(db, i) THEN db.items[i][p] ELSE 0]
    <3>1. f \in [Invoices -> Nat] /\ \A i \in Invoices : f[i] = 0
      BY <1>4
    <3> HIDE DEF f
    <3>2. Total(f) = 0
      BY <3>1, ZeroSums
    <3> QED
      BY <3>2 DEF Reserved, f
  <2>2. Packages(db, p) = 0
    <3> DEFINE f == [i \in Invoices |-> IF db.status[i] = "READY" THEN db.items[i][p] ELSE 0]
    <3>1. f \in [Invoices -> Nat] /\ \A i \in Invoices : f[i] = 0
      BY <1>4
    <3> HIDE DEF f
    <3>2. Total(f) = 0
      BY <3>1, ZeroSums
    <3> QED
      BY <3>2 DEF Packages, f
  <2> QED
    BY <2>1, <2>2
<1>6. ReceivablesReconcileIn(db)
  <2> DEFINE f == [i \in Invoices |-> IF db.status[i] = "COMPLETED" THEN db.outstanding[i] ELSE 0]
  <2>1. f \in [Invoices -> Nat] /\ \A i \in Invoices : f[i] = 0
    BY <1>4
  <2> HIDE DEF f
  <2>2. Total(f) = 0
    BY <2>1, ZeroSums
  <2> QED
    BY <1>3, <2>2 DEF ReceivablesReconcileIn, Owed, f
<1>7. CustomersReconcileIn(db)
  <2> SUFFICES ASSUME NEW c \in Customers PROVE OwedBy(db, c) = 0
    BY <1>3 DEF CustomersReconcileIn
  <2> DEFINE f == [i \in Invoices |-> IF db.status[i] = "COMPLETED" /\ db.customer[i] = c
                                      THEN db.outstanding[i] ELSE 0]
  <2>1. f \in [Invoices -> Nat] /\ \A i \in Invoices : f[i] = 0
    BY <1>4
  <2> HIDE DEF f
  <2>2. Total(f) = 0
    BY <2>1, ZeroSums
  <2> QED
    BY <2>2 DEF OwedBy, f
<1>8. AdvancesReconcileIn(db)
  <2>1. db.held \in [Invoices -> Nat] /\ \A i \in Invoices : db.held[i] = 0
    BY <1>3
  <2>2. Total(db.held) = 0
    BY <2>1, ZeroSums
  <2>3. db.gl["2201"] = 0
    BY <1>3 DEF Accounts
  <2>4. \A i \in Invoices : db.held[i] = IF Open(db, i) THEN db.paid[i] ELSE 0
    BY <1>4, <2>1
  <2> QED
    BY <2>2, <2>3, <2>4 DEF AdvancesReconcileIn
<1>9. InvoicesBalanceIn(db) /\ CreditTermsIn(db)
  BY <1>3, <1>4 DEF InvoicesBalanceIn, CreditTermsIn, GuestTerms
<1> QED
  BY <1>2, <1>5, <1>6, <1>7, <1>8, <1>9 DEF Inv, MoneyInv

\* Every operation of the service preserves the invariant.
LEMMA NextInv == Inv(db) /\ [Next]_db => Inv(db')
<1> SUFFICES ASSUME Inv(db), [Next]_db PROVE Inv(db')
  OBVIOUS
<1>0. /\ db \in Database
      /\ \A n \in Amounts : n \in Nat
      /\ \A s \in Requested : Operational(s) \in {"DRAFT", "READY"}
      /\ \A q \in ItemLists : q \in Quantities
      /\ \A i \in Invoices : db.status[i] = "NONE" => db.paid[i] = 0
  <2>1. \A i \in Invoices : /\ db.paid[i] \in Nat /\ db.outstanding[i] \in Nat
                            /\ RowInv(db, i)
    BY RowFacts DEF Inv
  <2> QED
    BY <2>1, ConstantsAssumption DEF Inv, Amounts, Requested, Operational, ItemLists, RowInv
<1>1. ASSUME NEW i \in Invoices, NEW c \in Parties, NEW q \in ItemLists,
             NEW t \in Amounts, NEW a \in Amounts, NEW b \in Amounts,
             NEW s \in Requested, NEW due \in BOOLEAN,
             CreateInvoice(i, c, q, t, a, b, s, due)
      PROVE  Inv(db')
  <2> DEFINE written == Write(Reserve(db, q, Operational(s)), i, c, q, t, Operational(s), due)
             settled == PayAll(written, i, a, b)
  <2>1. /\ db.status[i] = "NONE" /\ db.paid[i] = 0
        /\ CanReserve(db, q) /\ CanPayAll(written, i, a, b)
        /\ s = "COMPLETED" => CanComplete(settled, i)
        /\ db' = IF s = "COMPLETED" THEN Complete(settled, i) ELSE settled
    BY <1>0, <1>1 DEF CreateInvoice
  <2>2. db.paid[i] <= t /\ GuestTerms(c, db.paid[i], t - db.paid[i])
    BY <1>0, <2>1 DEF GuestTerms
  <2>3. Inv(written)
    BY <1>0, <2>1, <2>2, PlaceInv
  <2> HIDE DEF written
  <2>4. Inv(settled)
    BY <1>0, <2>1, <2>3, PayAllInv
  <2> HIDE DEF settled
  <2>5. CASE s = "COMPLETED"
    BY <2>1, <2>4, <2>5, CompleteInv
  <2>6. CASE s # "COMPLETED"
    BY <2>1, <2>4, <2>6
  <2> QED
    BY <2>5, <2>6
<1>2. ASSUME NEW i \in Invoices, NEW c \in Parties, NEW q \in ItemLists,
             NEW t \in Amounts, NEW due \in BOOLEAN,
             ConvertLoan(i, c, q, t, due)
      PROVE  Inv(db')
  <2> DEFINE written == Write(db, i, c, q, t, "DRAFT", due)
  <2>1. /\ db.status[i] = "NONE" /\ c \in Customers
        /\ CanRecognise(written, i) /\ db' = Recognise(written, i)
    BY <1>2 DEF ConvertLoan, Parties
  <2> HIDE DEF written
  <2> QED
    BY <1>0, <2>1, LoanInv DEF written
<1>3. ASSUME NEW i \in Invoices, NEW c \in Parties, NEW q \in ItemLists,
             NEW t \in Amounts, NEW s \in Requested, NEW due \in BOOLEAN,
             UpdateInvoice(i, c, q, t, s, due)
      PROVE  Inv(db')
  <2> DEFINE released == Release(db, i)
             written == Write(Reserve(released, q, Operational(s)), i, c, q, t, Operational(s), due)
  <2>1. /\ Open(db, i) /\ CanRelease(db, i) /\ db.paid[i] <= t
        /\ CanReserve(released, q) /\ GuestTerms(c, db.paid[i], t - db.paid[i])
        /\ s = "COMPLETED" => CanComplete(written, i)
        /\ db' = IF s = "COMPLETED" THEN Complete(written, i) ELSE written
    BY <1>3 DEF UpdateInvoice, Editable
  <2>2. Inv(released) /\ Open(released, i) /\ released.items[i] = Nothing
    BY <2>1, ReleaseInv
  <2>a. SameMoney(db, released)
    BY <1>0, <2>1, ReleaseFields
  <2>3. released.paid = db.paid
    BY <2>a DEF SameMoney
  <2> HIDE DEF released
  <2>4. Inv(written)
    BY <1>0, <2>1, <2>2, <2>3, PlaceInv
  <2> HIDE DEF written
  <2>5. CASE s = "COMPLETED"
    BY <2>1, <2>4, <2>5, CompleteInv
  <2>6. CASE s # "COMPLETED"
    BY <2>1, <2>4, <2>6
  <2> QED
    BY <2>5, <2>6
<1>4. ASSUME NEW i \in Invoices, CompleteInvoice(i) PROVE Inv(db')
  BY <1>4, CompleteInv DEF CompleteInvoice
<1>5. ASSUME NEW i \in Invoices, NEW target \in Requested, NEW due \in BOOLEAN,
             ChangeInvoiceStatus(i, target, due)
      PROVE  Inv(db')
  BY <1>5, ChangeStatusInv DEF ChangeInvoiceStatus
<1>6. ASSUME NEW i \in Invoices, NEW a \in Amounts, ReceivePayment(i, a) PROVE Inv(db')
  BY <1>0, <1>6, PayInv DEF ReceivePayment
<1>7. ASSUME NEW i \in Invoices, NEW a \in Amounts, NEW target \in Requested,
             NEW due \in BOOLEAN, ProcessInvoice(i, a, target, due)
      PROVE  Inv(db')
  <2> DEFINE m == Pay(db, i, a)
  <2>1. /\ CanPay(db, i, a) /\ CanChangeStatus(m, i, target, due)
        /\ db' = ChangeStatus(m, i, target, due)
    BY <1>7 DEF ProcessInvoice
  <2>2. Inv(m)
    BY <1>0, <2>1, PayInv
  <2> HIDE DEF m
  <2> QED
    BY <2>1, <2>2, ChangeStatusInv
<1>8. ASSUME NEW i \in Invoices, CancelInvoice(i) PROVE Inv(db')
  BY <1>8, CancelInv DEF CancelInvoice, Cancellable
<1>9. ASSUME NEW p \in Products, NEW n \in 1 .. MaxStock, AdjustmentIn(p, n) PROVE Inv(db')
  <2>1. /\ db.actual[p] \in Nat /\ db.available[p] \in Nat /\ db.layered[p] \in Nat
        /\ n \in Nat /\ db' = Adjust(db, p, n)
    BY <1>0, <1>9, ConstantsAssumption DEF Database, AdjustmentIn
  <2>2. /\ n \in Int /\ db.actual[p] + n \in Nat
        /\ db.available[p] + n \in Nat /\ db.layered[p] + n \in Nat
    BY <2>1
  <2> QED
    BY <2>1, <2>2, AdjustInv
<1>10. ASSUME NEW p \in Products, NEW n \in 1 .. MaxStock, AdjustmentOut(p, n) PROVE Inv(db')
  <2>1. /\ db.actual[p] \in Nat /\ db.available[p] \in Nat /\ db.layered[p] \in Nat
        /\ n \in Nat /\ db' = Adjust(db, p, -n)
        /\ n <= db.actual[p] /\ n <= db.available[p] /\ n <= db.layered[p]
    BY <1>0, <1>10, ConstantsAssumption DEF Database, AdjustmentOut, CanAdjustOut
  <2>2. /\ -n \in Int /\ db.actual[p] + (-n) \in Nat
        /\ db.available[p] + (-n) \in Nat /\ db.layered[p] + (-n) \in Nat
    BY <2>1
  <2> QED
    BY <2>1, <2>2, AdjustInv
<1>11. CASE UNCHANGED db
  BY <1>11
<1> QED
  BY <1>1, <1>2, <1>3, <1>4, <1>5, <1>6, <1>7, <1>8, <1>9, <1>10, <1>11 DEF Next

\* The inductive invariant: types, stock and books together, since a payment's
\* guard reads the summary and a completion's reads the stock.
IInv == Inv(db)

\* The inductive invariant holds in every reachable state.
LEMMA InvInvariant == Spec => []IInv
<1>1. Init => IInv
  BY InitInv DEF IInv
<1>2. IInv /\ [Next]_db => IInv'
  BY NextInv DEF IInv
<1> QED
  BY <1>1, <1>2, PTL DEF Spec

-----------------------------------------------------------------------------
(***************************************************************************)
(* The theorems                                                            *)
(***************************************************************************)

\* No quantity, balance or summary ever leaves its range: stock counters, FIFO
\* layers and outstanding amounts never go below zero.
THEOREM TypeCorrect == Spec => []TypeOK
<1>1. IInv => TypeOK
  BY DEF IInv, Inv, TypeOK
<1> QED
  BY <1>1, InvInvariant, PTL

\* The counters of inventory_stock agree with the documents for ever.
THEOREM StockAlwaysReconciles == Spec => []StockReconciles
<1>1. IInv => StockReconciles
  BY DEF IInv, Inv, StockReconciles
<1> QED
  BY <1>1, InvInvariant, PTL

\* In a consistent database an open invoice's share of the reservations, and a
\* READY one's of the packages, is within what is recorded of the product.
LEMMA PromiseWithinStock ==
  ASSUME NEW d \in Database, StockReconcilesIn(d), NEW i \in Invoices, NEW p \in Products,
         Open(d, i)
  PROVE  /\ d.items[i][p] \in Nat
         /\ d.items[i][p] <= d.actual[p] /\ d.items[i][p] <= d.layered[p]
         /\ d.status[i] = "READY" => d.items[i][p] <= d.packed[p]
         /\ d.status[i] = "DRAFT" => d.items[i][p] <= d.actual[p] - d.packed[p]
<1>1. /\ d.items[i][p] \in Nat /\ d.actual[p] \in Nat /\ d.available[p] \in Nat
      /\ d.packed[p] \in Nat /\ d.layered[p] \in Nat
  BY ConstantsAssumption DEF Database, Quantities
<1>2. /\ d.available[p] + Reserved(d, p) = d.actual[p]
      /\ d.packed[p] = Packages(d, p)
      /\ d.layered[p] = d.actual[p]
  BY DEF StockReconcilesIn
<1>3. Reserved(d, p) \in Nat /\ d.items[i][p] <= Reserved(d, p)
  BY ReservedUpdate
<1>4. d.status[i] = "READY" => d.items[i][p] <= Packages(d, p)
  BY PackagesUpdate
<1>5. d.status[i] = "DRAFT" => Packages(d, p) + d.items[i][p] <= Reserved(d, p)
  BY PackagesPlusDraft
<1> QED
  BY <1>1, <1>2, <1>3, <1>4, <1>5

\* No open invoice is ever refused completion, release or packing for want of
\* stock, and the CHECK on packed_qty never fails.
THEOREM PromisesStayDeliverable == Spec => []PromisesDeliverable
<1>1. IInv => PromisesDeliverable
  <2> SUFFICES ASSUME Inv(db) PROVE PromisesDeliverable
    BY DEF IInv
  <2>1. db \in Database /\ StockReconcilesIn(db)
    BY DEF Inv
  <2>2. ASSUME NEW i \in Invoices, Open(db, i)
        PROVE  /\ CanIssue(db, i)
               /\ CanRelease(db, i)
               /\ db.status[i] = "DRAFT" => CanRepack(db, i, "READY")
    <3>1. \A p \in Products :
            /\ db.items[i][p] <= db.actual[p] /\ db.items[i][p] <= db.layered[p]
            /\ db.status[i] = "READY" => db.items[i][p] <= db.packed[p]
            /\ db.status[i] = "DRAFT" => db.items[i][p] <= db.actual[p] - db.packed[p]
      BY <2>1, <2>2, PromiseWithinStock
    <3> QED
      BY <3>1 DEF CanIssue, CanRelease, CanRepack, Covers
  <2>3. Covers(db.actual, db.packed)
    <3> SUFFICES ASSUME NEW p \in Products PROVE db.packed[p] <= db.actual[p]
      BY DEF Covers
    <3>1. /\ db.available[p] + Reserved(db, p) = db.actual[p]
          /\ db.packed[p] = Packages(db, p)
          /\ db.available[p] \in Nat /\ db.actual[p] \in Nat /\ db.packed[p] \in Nat
      BY <2>1 DEF StockReconcilesIn, Database
    <3>2. Packages(db, p) <= Reserved(db, p) /\ Reserved(db, p) \in Nat
      BY <2>1, PackagesWithinReserved, ReservedType
    <3> QED
      BY <3>1, <3>2
  <2> QED
    BY <2>2, <2>3 DEF PromisesDeliverable
<1> QED
  BY <1>1, InvInvariant, PTL

\* Account 1201 of the general ledger is always what completed invoices owe.
THEOREM ReceivablesAlwaysReconcile == Spec => []ReceivablesReconcile
<1>1. IInv => ReceivablesReconcile
  BY DEF IInv, Inv, MoneyInv, ReceivablesReconcile
<1> QED
  BY <1>1, InvInvariant, PTL

\* So are, by customer, the summary and the subledger.
THEOREM CustomersAlwaysReconcile == Spec => []CustomersReconcile
<1>1. IInv => CustomersReconcile
  BY DEF IInv, Inv, MoneyInv, CustomersReconcile
<1> QED
  BY <1>1, InvInvariant, PTL

\* Account 2201 is always the payments held for open invoices, and every payment
\* of an open invoice is held.
THEOREM AdvancesAlwaysReconcile == Spec => []AdvancesReconcile
<1>1. IInv => AdvancesReconcile
  BY DEF IInv, Inv, MoneyInv, AdvancesReconcile
<1> QED
  BY <1>1, InvInvariant, PTL

\* Payments and outstanding amount always add up to the invoice total.
THEOREM InvoicesAlwaysBalance == Spec => []InvoicesBalance
<1>1. IInv => InvoicesBalance
  BY DEF IInv, Inv, MoneyInv, InvoicesBalance
<1> QED
  BY <1>1, InvInvariant, PTL

\* No guest ever owes part of an invoice, and no debt is without a due date.
THEOREM CreditTermsHold == Spec => []CreditTerms
<1>1. IInv => CreditTerms
  BY DEF IInv, Inv, MoneyInv, CreditTerms
<1> QED
  BY <1>1, InvInvariant, PTL

\* The guard on the customer summary refuses no payment of an outstanding amount.
THEOREM PaymentsAlwaysAccepted == Spec => []PaymentsAccepted
<1>1. IInv => PaymentsAccepted
  <2> SUFFICES ASSUME Inv(db), NEW i \in Invoices,
                      db.status[i] = "COMPLETED", db.outstanding[i] > 0
               PROVE  CanPay(db, i, db.outstanding[i])
    BY DEF IInv, PaymentsAccepted
  <2> DEFINE c == db.customer[i]
             a == db.outstanding[i]
  <2>1. db \in Database /\ a \in Nat /\ db.paid[i] \in Nat /\ c \in Parties
    BY DEF Inv, Database
  <2>2. c # Guest => a <= db.summary[c]
    <3> SUFFICES ASSUME c \in Customers PROVE a <= db.summary[c]
      BY <2>1 DEF Parties
    <3>1. db.summary[c] = OwedBy(db, c)
      BY DEF Inv, MoneyInv, CustomersReconcileIn
    <3>2. a <= OwedBy(db, c)
      BY <2>1, OwedByUpdate
    <3> QED
      BY <3>1, <3>2
  <2>3. GuestTerms(c, db.paid[i] + a, a - a)
    BY <2>1 DEF GuestTerms
  <2>4. a > 0 /\ a <= a
    BY <2>1
  <2> QED
    BY <2>2, <2>3, <2>4 DEF CanPay
<1> QED
  BY <1>1, InvInvariant, PTL

-----------------------------------------------------------------------------
(***************************************************************************)
(* Two statements about the steps of the sales invoice service, for every  *)
(* set of invoices, customers and products and every bound: a final        *)
(* document stays as it is, and the service with its counter of available  *)
(* goods implements the abstract stock promises, which has no counter.     *)
(*                                                                         *)
(* Both follow from one relation, Touches(d, e, i): going from database d  *)
(* to e, a transaction worked on invoice i alone.  Every ...Tx operator    *)
(* satisfies it and it composes, so every service method does; the stock   *)
(* adjustments, which work on no invoice, are told apart.                  *)
(***************************************************************************)

\* Invoice j reads the same in both databases.
Kept(d, e, j) ==
  /\ e.status[j]   = d.status[j]
  /\ e.customer[j] = d.customer[j]
  /\ e.items[j]    = d.items[j]
  /\ e.total[j]    = d.total[j]
  /\ e.paid[j]     = d.paid[j]
  /\ e.outstanding[j] = d.outstanding[j]

Final(d, j) == d.status[j] \in {"COMPLETED", "CANCELLED"}

\* What FinalDocumentsFrozen asks of one invoice.
Frozen(d, e, j) ==
  /\ e.paid[j] >= d.paid[j]
  /\ Final(d, j) => /\ e.status[j]   = d.status[j]
                    /\ e.customer[j] = d.customer[j]
                    /\ e.items[j]    = d.items[j]
                    /\ e.total[j]    = d.total[j]
                    /\ e.outstanding[j] <= d.outstanding[j]

\* The goods are where they were, or have left for an invoice completed by this.
Delivers(d, e, i) ==
  \/ e.actual = d.actual
  \/ /\ e.status[i] = "COMPLETED"
     /\ \A p \in Products : e.actual[p] <= d.actual[p]

Touches(d, e, i) ==
  /\ \A j \in Invoices \ {i} : Kept(d, e, j)
  /\ Frozen(d, e, i)
  /\ Delivers(d, e, i)

-----------------------------------------------------------------------------
(***************************************************************************)
(* The relation holds of every operator and composes                       *)
(***************************************************************************)

\* An operator that leaves the rows and the physical stock alone.
LEMMA TouchesNothing ==
  ASSUME NEW d \in Database, NEW e \in Database, NEW i \in Invoices,
         e.status = d.status, e.customer = d.customer, e.items = d.items,
         e.total = d.total, e.paid = d.paid, e.outstanding = d.outstanding,
         e.actual = d.actual
  PROVE  Touches(d, e, i)
<1>1. d.paid[i] \in Nat /\ d.outstanding[i] \in Nat
  BY DEF Database
<1> QED
  BY <1>1 DEF Touches, Kept, Frozen, Delivers

\* The operators one service method applies one after the other touch, together,
\* the one invoice each of them touches.
LEMMA TouchesCompose ==
  ASSUME NEW d \in Database, NEW m \in Database, NEW e \in Database, NEW i \in Invoices,
         Touches(d, m, i), Touches(m, e, i)
  PROVE  Touches(d, e, i)
<1>1. /\ d.paid[i] \in Nat /\ d.outstanding[i] \in Nat
      /\ m.paid[i] \in Nat /\ m.outstanding[i] \in Nat
      /\ e.paid[i] \in Nat /\ e.outstanding[i] \in Nat
  BY DEF Database
<1>2. \A j \in Invoices \ {i} : Kept(d, e, j)
  BY DEF Touches, Kept
<1>3. Frozen(d, m, i) /\ Frozen(m, e, i)
  BY DEF Touches
<1>4. Frozen(d, e, i)
  BY <1>1, <1>3 DEF Frozen, Final
<1>5. m.status[i] = "COMPLETED" => e.status[i] = "COMPLETED"
  BY <1>3 DEF Frozen, Final
<1>6. \A p \in Products : /\ d.actual[p] \in Nat /\ m.actual[p] \in Nat
                          /\ e.actual[p] \in Nat
  BY DEF Database
<1>7. Delivers(d, e, i)
  <2>1. Delivers(d, m, i) /\ Delivers(m, e, i)
    BY DEF Touches
  <2>2. CASE e.actual = m.actual
    BY <1>5, <2>1, <2>2 DEF Delivers
  <2>3. CASE /\ e.status[i] = "COMPLETED"
             /\ \A p \in Products : e.actual[p] <= m.actual[p]
    <3>1. \A p \in Products : m.actual[p] <= d.actual[p]
      BY <1>6, <2>1 DEF Delivers
    <3> QED
      BY <1>6, <2>3, <3>1 DEF Delivers
  <2> QED
    BY <2>1, <2>2, <2>3 DEF Delivers
<1> QED
  BY <1>2, <1>4, <1>7 DEF Touches

\* Placing an invoice - reserve, then the row - touches that invoice, which is
\* not a final one, and keeps what was paid on it.
LEMMA PlaceTouches ==
  ASSUME NEW d \in Database, NEW i \in Invoices, NEW c \in Parties, NEW q \in Quantities,
         NEW t \in Nat, NEW s \in {"DRAFT", "READY"}, NEW due \in BOOLEAN,
         ~Final(d, i), CanReserve(d, q), d.paid[i] <= t,
         NEW e, e = Write(Reserve(d, q, s), i, c, q, t, s, due)
  PROVE  e \in Database /\ Touches(d, e, i)
<1> DEFINE m == Reserve(d, q, s)
<1>1. /\ m \in Database /\ SameMoney(d, m)
      /\ m.actual = d.actual /\ m.items = d.items
  BY ReserveFields
<1>2. m.paid[i] <= t /\ s \in Statuses /\ e = Write(m, i, c, q, t, s, due)
  BY <1>1 DEF SameMoney, Statuses
<1> HIDE DEF m
<1>3. /\ e \in Database
      /\ SameGoods(m, e) /\ SameLedgers(m, e) /\ e.paid = m.paid
      /\ e.status = [m.status EXCEPT ![i] = s]
      /\ e.customer = [m.customer EXCEPT ![i] = c]
      /\ e.dated = [m.dated EXCEPT ![i] = due]
      /\ e.items = [m.items EXCEPT ![i] = q]
      /\ e.total = [m.total EXCEPT ![i] = t]
      /\ e.outstanding = [m.outstanding EXCEPT ![i] = t - m.paid[i]]
  BY <1>1, <1>2, WriteFields
<1>4. Touches(d, e, i)
  <2>1. \A j \in Invoices \ {i} : Kept(d, e, j)
    BY <1>1, <1>3 DEF SameMoney, Kept, Database
  <2>2. e.paid = d.paid /\ d.paid[i] \in Nat /\ e.actual = d.actual
    BY <1>1, <1>3 DEF SameMoney, SameGoods, Database
  <2> QED
    BY <2>1, <2>2 DEF Touches, Frozen, Delivers
<1> QED
  BY <1>3, <1>4

\* releaseReservation touches an open invoice.
LEMMA ReleaseTouches ==
  ASSUME NEW d \in Database, NEW i \in Invoices, Open(d, i), CanRelease(d, i),
         NEW e, e = Release(d, i)
  PROVE  e \in Database /\ Touches(d, e, i) /\ e.status = d.status /\ e.paid = d.paid
<1>1. /\ e \in Database /\ SameMoney(d, e) /\ e.actual = d.actual
      /\ e.items = [d.items EXCEPT ![i] = Nothing]
  BY ReleaseFields
<1>2. \A j \in Invoices \ {i} : Kept(d, e, j)
  BY <1>1 DEF SameMoney, Kept, Database
<1>3. e.paid[i] >= d.paid[i] /\ ~Final(d, i)
  BY <1>1 DEF SameMoney, Database, Final, Open
<1> QED
  BY <1>1, <1>2, <1>3 DEF Touches, Frozen, Delivers, SameMoney

\* recordPaymentTx raises what was paid and lowers what is outstanding.
LEMMA PayTouches ==
  ASSUME NEW d, Inv(d), NEW i \in Invoices, NEW a \in Nat, CanPay(d, i, a),
         NEW e, e = Pay(d, i, a)
  PROVE  Inv(e) /\ Touches(d, e, i) /\ e.status = d.status
<1>1. d \in Database
  BY DEF Inv
<1>2. /\ Inv(e) /\ SameStock(d, e)
      /\ e.customer = d.customer /\ e.total = d.total
      /\ e.paid = [d.paid EXCEPT ![i] = @ + a]
      /\ e.outstanding = [d.outstanding EXCEPT ![i] = @ - a]
  BY PayInv
<1>3. \A j \in Invoices \ {i} : Kept(d, e, j)
  BY <1>1, <1>2 DEF SameStock, Kept, Database
<1>4. e.paid[i] >= d.paid[i] /\ e.outstanding[i] <= d.outstanding[i]
  BY <1>1, <1>2 DEF Database
<1> QED
  BY <1>2, <1>3, <1>4 DEF Touches, Frozen, Delivers, SameStock

\* A list of initial payments touches the invoice they are for.
LEMMA PayAllTouches ==
  ASSUME NEW d, Inv(d), NEW i \in Invoices, NEW a \in Nat, NEW b \in Nat,
         CanPayAll(d, i, a, b),
         NEW e, e = PayAll(d, i, a, b)
  PROVE  Inv(e) /\ Touches(d, e, i)
<1>0. d \in Database
  BY DEF Inv
<1>1. CASE a = 0
  BY <1>0, <1>1, TouchesNothing DEF PayAll
<1>2. CASE a > 0
  <2> DEFINE m == Pay(d, i, a)
  <2>1. CanPay(d, i, a)
    BY <1>2 DEF CanPayAll
  <2>2. Inv(m) /\ Touches(d, m, i)
    BY <2>1, PayTouches
  <2>3. CASE b = 0
    BY <1>2, <2>2, <2>3 DEF PayAll
  <2>4. CASE b > 0
    <3>1. CanPay(m, i, b) /\ e = Pay(m, i, b)
      BY <1>2, <2>4 DEF CanPayAll, PayAll
    <3> HIDE DEF m
    <3>2. Inv(e) /\ Touches(m, e, i)
      BY <2>2, <3>1, PayTouches
    <3>3. m \in Database /\ e \in Database
      BY <2>2, <3>2 DEF Inv
    <3> QED
      BY <1>0, <2>2, <3>2, <3>3, TouchesCompose
  <2> QED
    BY <2>3, <2>4
<1> QED
  BY <1>1, <1>2

\* Completion lowers the physical stock and touches the invoice it completes.
LEMMA CompleteTouches ==
  ASSUME NEW d, Inv(d), NEW i \in Invoices, CanComplete(d, i),
         NEW e, e = Complete(d, i)
  PROVE  Inv(e) /\ Touches(d, e, i)
<1>1. /\ Inv(e)
      /\ e.items = d.items /\ e.customer = d.customer /\ e.total = d.total
      /\ e.paid = d.paid /\ e.outstanding = d.outstanding
      /\ e.status = [d.status EXCEPT ![i] = "COMPLETED"]
      /\ \A p \in Products : e.actual[p] = d.actual[p] - d.items[i][p]
  BY CompleteInv
<1>2. d \in Database /\ ~Final(d, i)
  BY DEF Inv, CanComplete, CanRecognise, Open, Final
<1>3. \A p \in Products : d.items[i][p] \in Nat /\ d.actual[p] \in Nat
  BY <1>2, ConstantsAssumption DEF Database, Quantities
<1>4. /\ \A j \in Invoices \ {i} : Kept(d, e, j)
      /\ e.paid[i] >= d.paid[i]
      /\ e.status[i] = "COMPLETED"
  BY <1>1, <1>2 DEF Kept, Database
<1>5. \A p \in Products : e.actual[p] <= d.actual[p]
  BY <1>1, <1>3
<1> QED
  BY <1>1, <1>2, <1>4, <1>5 DEF Touches, Frozen, Delivers

\* changeInvoiceStatusTx touches the invoice whose status it changes.
LEMMA ChangeStatusTouches ==
  ASSUME NEW d, Inv(d), NEW i \in Invoices, NEW target \in Requested, NEW due \in BOOLEAN,
         CanChangeStatus(d, i, target, due),
         NEW e, e = ChangeStatus(d, i, target, due)
  PROVE  Touches(d, e, i)
<1> DEFINE m == Dated(d, i, due)
<1>1. /\ Inv(m) /\ SameStock(d, m)
      /\ m.paid = d.paid /\ m.outstanding = d.outstanding
      /\ m.customer = d.customer /\ m.total = d.total
  BY DatedInv
<1>2. d \in Database /\ m \in Database
  BY <1>1 DEF Inv
<1>3. Touches(d, m, i)
  BY <1>1, <1>2, TouchesNothing DEF SameStock
<1>4. CASE d.status[i] = target
  BY <1>3, <1>4 DEF ChangeStatus
<1>5. CASE d.status[i] # target /\ target = "COMPLETED"
  <2>1. CanComplete(m, i) /\ e = Complete(m, i)
    BY <1>5 DEF CanChangeStatus, ChangeStatus
  <2> HIDE DEF m
  <2>2. Touches(m, e, i) /\ e \in Database
    BY <1>1, <2>1, CompleteTouches DEF Inv
  <2> QED
    BY <1>2, <1>3, <2>2, TouchesCompose
<1>6. CASE d.status[i] # target /\ target # "COMPLETED"
  <2>1. /\ target \in {"DRAFT", "READY"} /\ e = Repack(m, i, target)
        /\ Open(d, i) /\ CanRepack(d, i, target)
    BY <1>6 DEF CanChangeStatus, ChangeStatus, Requested, Open
  <2> HIDE DEF m
  <2>2. Open(m, i) /\ CanRepack(m, i, target)
    BY <1>1, <2>1 DEF SameStock, Open, CanRepack, Covers
  <2>3. e \in Database /\ Repacked(m, e, i, target)
    BY <1>2, <2>1, <2>2, RepackFields
  <2>4. Touches(m, e, i)
    <3>1. /\ e.status = [m.status EXCEPT ![i] = target]
          /\ e.customer = m.customer /\ e.items = m.items /\ e.total = m.total
          /\ e.paid = m.paid /\ e.outstanding = m.outstanding /\ e.actual = m.actual
      BY <2>3 DEF Repacked
    <3>2. \A j \in Invoices \ {i} : Kept(m, e, j)
      BY <1>2, <3>1 DEF Kept, Database
    <3>3. e.paid[i] >= m.paid[i] /\ ~Final(m, i)
      BY <1>2, <2>2, <3>1 DEF Database, Final, Open
    <3> QED
      BY <3>1, <3>2, <3>3 DEF Touches, Frozen, Delivers
  <2> QED
    BY <1>2, <1>3, <2>3, <2>4, TouchesCompose
<1> QED
  BY <1>4, <1>5, <1>6

-----------------------------------------------------------------------------
(***************************************************************************)
(* Every operation                                                         *)
(***************************************************************************)

\* What a step of the service can be: work on one invoice, or an adjustment that
\* brings goods in, or takes out goods, and leaves every row as it is.
Adjusts(d, e) ==
  /\ \A j \in Invoices : Kept(d, e, j)
  /\ \/ \A p \in Products : d.actual[p] <= e.actual[p]
     \/ \A p \in Products : e.actual[p] <= d.actual[p]

\* A stock adjustment leaves every invoice as it is.
LEMMA AdjustAdjusts ==
  ASSUME NEW d, Inv(d), NEW p \in Products, NEW n \in Int,
         d.actual[p] + n \in Nat, d.available[p] + n \in Nat, d.layered[p] + n \in Nat,
         NEW e, e = Adjust(d, p, n)
  PROVE  Adjusts(d, e)
<1>1. SameMoney(d, e) /\ e.items = d.items /\ e.actual = [d.actual EXCEPT ![p] = @ + n]
  BY AdjustInv
<1>2. d \in Database
  BY DEF Inv
<1>3. \A j \in Invoices : Kept(d, e, j)
  BY <1>1 DEF SameMoney, Kept
<1>4. n >= 0 \/ n <= 0
  OBVIOUS
<1>5. \A x \in Products : d.actual[x] \in Nat
  BY <1>2 DEF Database
<1>6. \A x \in Products : e.actual[x] = IF x = p THEN d.actual[x] + n ELSE d.actual[x]
  BY <1>1, <1>2 DEF Database
<1> QED
  BY <1>3, <1>4, <1>5, <1>6 DEF Adjusts

\* Every operation of the service works on one invoice or is an adjustment.
LEMMA StepShape ==
  ASSUME Inv(db), Next
  PROVE  \/ \E i \in Invoices : Touches(db, db', i)
         \/ Adjusts(db, db')
<1>0. /\ db \in Database /\ Inv(db') /\ db' \in Database
      /\ \A n \in Amounts : n \in Nat
      /\ \A s \in Requested : Operational(s) \in {"DRAFT", "READY"}
      /\ \A q \in ItemLists : q \in Quantities
      /\ \A i \in Invoices : db.status[i] = "NONE" => db.paid[i] = 0
  <2>1. \A i \in Invoices : /\ db.paid[i] \in Nat /\ db.outstanding[i] \in Nat
                            /\ RowInv(db, i)
    BY RowFacts DEF Inv
  <2>2. Inv(db')
    BY NextInv
  <2> QED
    BY <2>1, <2>2, ConstantsAssumption
    DEF Inv, Amounts, Requested, Operational, ItemLists, RowInv
<1>1. ASSUME NEW i \in Invoices, NEW c \in Parties, NEW q \in ItemLists,
             NEW t \in Amounts, NEW a \in Amounts, NEW b \in Amounts,
             NEW s \in Requested, NEW due \in BOOLEAN,
             CreateInvoice(i, c, q, t, a, b, s, due)
      PROVE  Touches(db, db', i)
  <2> DEFINE written == Write(Reserve(db, q, Operational(s)), i, c, q, t, Operational(s), due)
             settled == PayAll(written, i, a, b)
  <2>1. /\ db.status[i] = "NONE" /\ db.paid[i] = 0
        /\ CanReserve(db, q) /\ CanPayAll(written, i, a, b)
        /\ s = "COMPLETED" => CanComplete(settled, i)
        /\ db' = IF s = "COMPLETED" THEN Complete(settled, i) ELSE settled
    BY <1>0, <1>1 DEF CreateInvoice
  <2>2. db.paid[i] <= t /\ GuestTerms(c, db.paid[i], t - db.paid[i]) /\ ~Final(db, i)
    BY <1>0, <2>1 DEF GuestTerms, Final
  <2>3. Inv(written)
    BY <1>0, <2>1, <2>2, PlaceInv
  <2>4. written \in Database /\ Touches(db, written, i)
    BY <1>0, <2>1, <2>2, PlaceTouches
  <2> HIDE DEF written
  <2>5. Inv(settled) /\ Touches(written, settled, i)
    BY <1>0, <2>1, <2>3, PayAllTouches
  <2> HIDE DEF settled
  <2>6. Touches(settled, db', i)
    <3>1. CASE s = "COMPLETED"
      BY <2>1, <2>5, <3>1, CompleteTouches
    <3>2. CASE s # "COMPLETED"
      <4>1. db' = settled /\ settled \in Database
        BY <2>1, <2>5, <3>2 DEF Inv
      <4> QED
        BY <4>1, TouchesNothing
    <3> QED
      BY <3>1, <3>2
  <2>7. settled \in Database /\ Touches(db, settled, i)
    BY <1>0, <2>4, <2>5, TouchesCompose DEF Inv
  <2> QED
    BY <1>0, <2>6, <2>7, TouchesCompose
<1>2. ASSUME NEW i \in Invoices, NEW c \in Parties, NEW q \in ItemLists,
             NEW t \in Amounts, NEW due \in BOOLEAN,
             ConvertLoan(i, c, q, t, due)
      PROVE  Touches(db, db', i)
  <2> DEFINE written == Write(db, i, c, q, t, "DRAFT", due)
  <2>1. /\ db.status[i] = "NONE" /\ c \in Customers
        /\ CanRecognise(written, i) /\ db' = Recognise(written, i)
    BY <1>2 DEF ConvertLoan, Parties
  <2> HIDE DEF written
  <2>2. /\ SameGoods(db, db') /\ db'.paid = db.paid
        /\ db'.items = [db.items EXCEPT ![i] = q]
        /\ db'.status = [db.status EXCEPT ![i] = "COMPLETED"]
        /\ db'.customer = [db.customer EXCEPT ![i] = c]
        /\ db'.total = [db.total EXCEPT ![i] = t]
        /\ \A j \in Invoices \ {i} : db'.outstanding[j] = db.outstanding[j]
    BY <1>0, <2>1, LoanInv DEF written
  <2>3. \A j \in Invoices \ {i} : Kept(db, db', j)
    BY <1>0, <2>2 DEF Kept, Database
  <2>4. db'.paid[i] >= db.paid[i] /\ ~Final(db, i)
    BY <1>0, <2>1, <2>2 DEF Final, Database
  <2> QED
    BY <2>2, <2>3, <2>4 DEF Touches, Frozen, Delivers, SameGoods
<1>3. ASSUME NEW i \in Invoices, NEW c \in Parties, NEW q \in ItemLists,
             NEW t \in Amounts, NEW s \in Requested, NEW due \in BOOLEAN,
             UpdateInvoice(i, c, q, t, s, due)
      PROVE  Touches(db, db', i)
  <2> DEFINE released == Release(db, i)
             written == Write(Reserve(released, q, Operational(s)), i, c, q, t, Operational(s), due)
  <2>1. /\ Open(db, i) /\ CanRelease(db, i) /\ db.paid[i] <= t
        /\ CanReserve(released, q) /\ GuestTerms(c, db.paid[i], t - db.paid[i])
        /\ s = "COMPLETED" => CanComplete(written, i)
        /\ db' = IF s = "COMPLETED" THEN Complete(written, i) ELSE written
    BY <1>3 DEF UpdateInvoice, Editable
  <2>2. Inv(released) /\ Open(released, i) /\ released.items[i] = Nothing
    BY <2>1, ReleaseInv
  <2>3. /\ released \in Database /\ Touches(db, released, i)
        /\ released.paid = db.paid /\ ~Final(released, i)
    BY <1>0, <2>1, <2>2, ReleaseTouches DEF Open, Final
  <2> HIDE DEF released
  <2>4. Inv(written)
    BY <1>0, <2>1, <2>2, <2>3, PlaceInv
  <2>5. written \in Database /\ Touches(released, written, i)
    BY <1>0, <2>1, <2>3, PlaceTouches
  <2> HIDE DEF written
  <2>6. Touches(db, written, i)
    BY <1>0, <2>3, <2>5, TouchesCompose
  <2>7. CASE s = "COMPLETED"
    <3>1. Touches(written, db', i)
      BY <2>1, <2>4, <2>7, CompleteTouches
    <3> QED
      BY <1>0, <2>5, <2>6, <3>1, TouchesCompose
  <2>8. CASE s # "COMPLETED"
    BY <2>1, <2>6, <2>8
  <2> QED
    BY <2>7, <2>8
<1>4. ASSUME NEW i \in Invoices, CompleteInvoice(i) PROVE Touches(db, db', i)
  BY <1>4, CompleteTouches DEF CompleteInvoice
<1>5. ASSUME NEW i \in Invoices, NEW target \in Requested, NEW due \in BOOLEAN,
             ChangeInvoiceStatus(i, target, due)
      PROVE  Touches(db, db', i)
  BY <1>5, ChangeStatusTouches DEF ChangeInvoiceStatus
<1>6. ASSUME NEW i \in Invoices, NEW a \in Amounts, ReceivePayment(i, a)
      PROVE  Touches(db, db', i)
  BY <1>0, <1>6, PayTouches DEF ReceivePayment
<1>7. ASSUME NEW i \in Invoices, NEW a \in Amounts, NEW target \in Requested,
             NEW due \in BOOLEAN, ProcessInvoice(i, a, target, due)
      PROVE  Touches(db, db', i)
  <2> DEFINE m == Pay(db, i, a)
  <2>1. /\ CanPay(db, i, a) /\ CanChangeStatus(m, i, target, due)
        /\ db' = ChangeStatus(m, i, target, due)
    BY <1>7 DEF ProcessInvoice
  <2>2. Inv(m) /\ Touches(db, m, i)
    BY <1>0, <2>1, PayTouches
  <2> HIDE DEF m
  <2>3. m \in Database /\ Touches(m, db', i)
    BY <2>1, <2>2, ChangeStatusTouches DEF Inv
  <2> QED
    BY <1>0, <2>2, <2>3, TouchesCompose
<1>8. ASSUME NEW i \in Invoices, CancelInvoice(i) PROVE Touches(db, db', i)
  <2>1. /\ db'.actual = db.actual
        /\ db'.items = [db.items EXCEPT ![i] = Nothing]
        /\ db'.status = [db.status EXCEPT ![i] = "CANCELLED"]
        /\ db'.paid = db.paid /\ db'.outstanding = db.outstanding
        /\ db'.customer = db.customer /\ db'.total = db.total
    BY <1>8, CancelInv DEF CancelInvoice, Cancellable
  <2>2. \A j \in Invoices \ {i} : Kept(db, db', j)
    BY <1>0, <2>1 DEF Kept, Database
  <2>3. db'.paid[i] >= db.paid[i] /\ ~Final(db, i)
    BY <1>0, <1>8, <2>1 DEF CancelInvoice, Cancellable, Open, Final, Database
  <2> QED
    BY <2>1, <2>2, <2>3 DEF Touches, Frozen, Delivers
<1>9. ASSUME NEW p \in Products, NEW n \in 1 .. MaxStock, AdjustmentIn(p, n)
      PROVE  Adjusts(db, db')
  <2>1. /\ db.actual[p] \in Nat /\ db.available[p] \in Nat /\ db.layered[p] \in Nat
        /\ n \in Nat /\ db' = Adjust(db, p, n)
    BY <1>0, <1>9, ConstantsAssumption DEF Database, AdjustmentIn
  <2>2. /\ n \in Int /\ db.actual[p] + n \in Nat
        /\ db.available[p] + n \in Nat /\ db.layered[p] + n \in Nat
    BY <2>1
  <2> QED
    BY <2>1, <2>2, AdjustAdjusts
<1>10. ASSUME NEW p \in Products, NEW n \in 1 .. MaxStock, AdjustmentOut(p, n)
       PROVE  Adjusts(db, db')
  <2>1. /\ db.actual[p] \in Nat /\ db.available[p] \in Nat /\ db.layered[p] \in Nat
        /\ n \in Nat /\ db' = Adjust(db, p, -n)
        /\ n <= db.actual[p] /\ n <= db.available[p] /\ n <= db.layered[p]
    BY <1>0, <1>10, ConstantsAssumption DEF Database, AdjustmentOut, CanAdjustOut
  <2>2. /\ -n \in Int /\ db.actual[p] + (-n) \in Nat
        /\ db.available[p] + (-n) \in Nat /\ db.layered[p] + (-n) \in Nat
    BY <2>1
  <2> QED
    BY <2>1, <2>2, AdjustAdjusts
<1> QED
  BY <1>1, <1>2, <1>3, <1>4, <1>5, <1>6, <1>7, <1>8, <1>9, <1>10 DEF Next

-----------------------------------------------------------------------------
(***************************************************************************)
(* The theorems                                                            *)
(***************************************************************************)

\* A row that reads the same is frozen.
LEMMA KeptFrozen ==
  ASSUME NEW d \in Database, NEW e, NEW j \in Invoices, Kept(d, e, j)
  PROVE  Frozen(d, e, j)
<1>1. d.paid[j] \in Nat /\ d.outstanding[j] \in Nat
  BY DEF Database
<1> QED
  BY <1>1 DEF Kept, Frozen

\* No operation of the service - no edit, status change, payment or stock
\* adjustment - ever changes the party, items or total of a completed or
\* cancelled invoice, raises what it owes, or lowers what was paid on any invoice.
THEOREM FinalDocumentsStayFrozen == Spec => FinalDocumentsFrozen
<1>1. IInv /\ [Next]_db => [\A i \in Invoices : Frozen(db, db', i)]_db
  <2> SUFFICES ASSUME Inv(db), [Next]_db, NEW j \in Invoices, db' # db
               PROVE  Frozen(db, db', j)
    BY DEF IInv
  <2>1. db \in Database
    BY DEF Inv
  <2>2. \/ \E i \in Invoices : Touches(db, db', i)
        \/ Adjusts(db, db')
    BY StepShape
  <2>3. ASSUME NEW i \in Invoices, Touches(db, db', i) PROVE Frozen(db, db', j)
    BY <2>1, <2>3, KeptFrozen DEF Touches
  <2>4. CASE Adjusts(db, db')
    BY <2>1, <2>4, KeptFrozen DEF Adjusts
  <2> QED
    BY <2>2, <2>3, <2>4
<1>2. [\A i \in Invoices : Frozen(db, db', i)]_db
        <=> [\A i \in Invoices :
               /\ db'.paid[i] >= db.paid[i]
               /\ db.status[i] \in {"COMPLETED", "CANCELLED"} =>
                    /\ db'.status[i]   = db.status[i]
                    /\ db'.customer[i] = db.customer[i]
                    /\ db'.items[i]    = db.items[i]
                    /\ db'.total[i]    = db.total[i]
                    /\ db'.outstanding[i] <= db.outstanding[i]]_db
  BY DEF Frozen, Final
<1> QED
  BY <1>1, <1>2, InvInvariant, PTL DEF Spec, FinalDocumentsFrozen

-----------------------------------------------------------------------------
\* What the service promises of a product is what the open invoices reserve.
LEMMA PromisesAreReserved ==
  ASSUME NEW p \in Products
  PROVE  Abstract!Promises(p, Promised) = Reserved(db, p)
<1>1. [i \in Invoices |-> Promised[i][p]]
        = [i \in Invoices |-> IF Open(db, i) THEN db.items[i][p] ELSE 0]
  BY DEF Promised, Nothing
<1>2. \A S : Abstract!Cardinality(S) = Cardinality(S)
  BY DEF Abstract!Cardinality, Cardinality
<1> QED
  BY <1>1, <1>2 DEF Abstract!Promises, Abstract!Total, Abstract!UnitsOf, Total, UnitsOf, Reserved

\* A consistent database covers the promises made: the counter of available goods
\* is what is left of the physical stock, and it is not negative.
LEMMA PromisesAreCovered ==
  ASSUME Inv(db)
  PROVE  /\ Abstract!Covered(db.actual, Promised)
         /\ db.actual \in Abstract!Goods
         /\ Promised \in [Invoices -> Abstract!Goods]
<1>1. db \in Database /\ StockReconcilesIn(db)
  BY DEF Inv
<1>2. ASSUME NEW p \in Products
      PROVE  Abstract!Promises(p, Promised) <= db.actual[p]
  <2>1. /\ db.available[p] + Reserved(db, p) = db.actual[p]
        /\ db.available[p] \in Nat /\ db.actual[p] \in Nat
    BY <1>1 DEF StockReconcilesIn, Database
  <2>2. Reserved(db, p) \in Nat
    BY <1>1, ReservedType
  <2> QED
    BY <2>1, <2>2, PromisesAreReserved
<1>3. db.actual \in [Products -> Nat] /\ db.items \in [Invoices -> Quantities]
  BY <1>1 DEF Database
<1>4. \A q \in Quantities : q \in [Products -> Nat]
  BY ConstantsAssumption DEF Quantities
<1>5. Nothing \in [Products -> Nat]
  BY DEF Nothing
<1>6. Promised \in [Invoices -> [Products -> Nat]]
  BY <1>3, <1>4, <1>5 DEF Promised
<1> QED
  BY <1>2, <1>3, <1>6 DEF Abstract!Covered, Abstract!Goods

\* Work on one invoice changes the promise to that invoice alone.
LEMMA OnePromise ==
  ASSUME Inv(db), Inv(db'), NEW i \in Invoices, Touches(db, db', i)
  PROVE  Promised' = [Promised EXCEPT ![i] = Promised'[i]]
<1>1. \A j \in Invoices \ {i} : /\ db'.status[j] = db.status[j]
                                /\ db'.items[j] = db.items[j]
  BY DEF Touches, Kept
<1>2. \A j \in Invoices \ {i} : Promised'[j] = Promised[j]
  BY <1>1 DEF Promised, Open
<1>3. Promised \in [Invoices -> Abstract!Goods] /\ Promised' \in [Invoices -> Abstract!Goods]
  <2>1. Inv(db) => Promised \in [Invoices -> Abstract!Goods]
    BY PromisesAreCovered
  <2>2. (Inv(db) => Promised \in [Invoices -> Abstract!Goods])'
    BY PromisesAreCovered, PTL
  <2> QED
    BY <2>1, <2>2
<1> QED
  BY <1>2, <1>3

\* The empty database makes no promise and every step of the service is a step of
\* the abstract stock promises: createInvoice, updateInvoice and cancelInvoice make,
\* change or withdraw the promise to one document, completion delivers it, and the
\* stock adjustments receive and withdraw goods, all promises staying covered.
THEOREM StockPromisesImplemented == Spec => ImplementsStockPromises
<1>1. Init => Abstract!Init
  <2> SUFFICES ASSUME Init PROVE Abstract!Init
    OBVIOUS
  <2>1. /\ db.actual = Nothing
        /\ db.status = [i \in Invoices |-> "NONE"]
    BY DEF Init
  <2>2. Promised = [i \in Invoices |-> Nothing]
    BY <2>1 DEF Promised, Open
  <2> QED
    BY <2>1, <2>2 DEF Abstract!Init, Nothing
<1>2. ASSUME Inv(db), Inv(db'), Next
      PROVE  Abstract!Next \/ UNCHANGED <<db.actual, Promised>>
  <2>1. /\ db \in Database /\ db' \in Database
    BY <1>2 DEF Inv
  <2>2. /\ Abstract!Covered(db'.actual, Promised')
        /\ db'.actual \in Abstract!Goods
        /\ Promised' \in [Invoices -> Abstract!Goods]
    <3>1. Inv(db) => /\ Abstract!Covered(db.actual, Promised)
                     /\ db.actual \in Abstract!Goods
                     /\ Promised \in [Invoices -> Abstract!Goods]
      BY PromisesAreCovered
    <3>2. (Inv(db) => /\ Abstract!Covered(db.actual, Promised)
                      /\ db.actual \in Abstract!Goods
                      /\ Promised \in [Invoices -> Abstract!Goods])'
      BY PromisesAreCovered, PTL
    <3> QED
      BY <1>2, <3>2 DEF Abstract!Covered, Abstract!Goods
  <2>3. ASSUME NEW i \in Invoices, Touches(db, db', i)
        PROVE  Abstract!Promise(i) \/ Abstract!Deliver(i)
    <3>1. Promised' = [Promised EXCEPT ![i] = Promised'[i]]
      BY <1>2, <2>3, OnePromise
    <3>2. CASE db'.actual = db.actual
      BY <2>2, <3>1, <3>2 DEF Abstract!Promise
    <3>3. CASE /\ db'.status[i] = "COMPLETED"
               /\ \A p \in Products : db'.actual[p] <= db.actual[p]
      <4>1. Promised'[i] = [p \in Products |-> 0]
        BY <3>3 DEF Promised, Open, Nothing
      <4> QED
        BY <2>2, <3>1, <3>3, <4>1 DEF Abstract!Deliver
    <3> QED
      BY <2>3, <3>2, <3>3 DEF Touches, Delivers
  <2>4. ASSUME Adjusts(db, db') PROVE Abstract!Receive \/ Abstract!Withdraw
    <3>1. Promised' = Promised
      BY <2>4 DEF Adjusts, Kept, Promised, Open
    <3> QED
      BY <2>2, <2>4, <3>1 DEF Adjusts, Abstract!Receive, Abstract!Withdraw
  <2> QED
    BY <1>2, <2>3, <2>4, StepShape DEF Abstract!Next
<1>3. IInv /\ IInv' /\ [Next]_db => [Abstract!Next]_<<db.actual, Promised>>
  BY <1>2 DEF IInv, Promised, Open
<1> QED
  BY <1>1, <1>3, InvInvariant, PTL DEF Spec, ImplementsStockPromises, Abstract!Spec
=============================================================================
