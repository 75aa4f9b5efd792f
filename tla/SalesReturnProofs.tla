-------------------------- MODULE SalesReturnProofs --------------------------
(***************************************************************************)
(* Theorems about the returns of one invoice, for every set of returns,     *)
(* every allocation of the sale and every number of requests at once.       *)
(*                                                                          *)
(* A return that is being completed is a promise that its transaction keeps *)
(* or drops as a whole: what it took of the layers and what it has still to *)
(* take is what it returns.  The draft row is there as the transaction read *)
(* it, or the transaction holds the invoice, so that nobody claims what it  *)
(* is about to.  A layer has room for what the return found in it, as long  *)
(* as whoever could fill it meanwhile waits for the numbers of the day.     *)
(***************************************************************************)
EXTENDS SalesReturn, TallyTheorems

Claim(row)  == IF row.status = "NONE" THEN 0 ELSE row.qty
Claims(ret) == Total([r \in Returns |-> Claim(ret[r])])

PutBack(row)   == IF row.status = "COMPLETED" THEN row.qty ELSE 0
AllPutBack(ret) == Total([r \in Returns |-> PutBack(ret[r])])

Exists(r) == db.ret[r].status # "NONE"

\* A completion at layer t.layer: what lies ahead is untouched, and what it took
\* and what remains is what the return is of.
Walks(t) ==
  /\ t.row.status = "DRAFT"
  /\ Total(t.taken) + t.remaining = t.row.qty
  /\ \A k \in 1 .. Layers : k >= t.layer => t.taken[k] = 0
  /\ t.step = "NUMBER" => t.layer = 1
  /\ t.step = "TAKE"   => t.layer <= Layers /\ t.take <= t.remaining
  /\ t.step = "SETTLE" => t.remaining = 0

WalkInv == \A r \in Returns : Running(r) => Walks(tx[r])

\* The one transaction that holds the invoice may claim what it is about to; the
\* others complete the draft that is there.
Claiming(r) ==
  IF tx[r].invoiceHeld
  THEN /\ db.ret[r].status = "NONE"
       /\ Claims(db.ret) + tx[r].row.qty <= Sold
       /\ \A s \in Returns : Running(s) /\ tx[s].invoiceHeld => s = r
  ELSE db.ret[r] = tx[r].row

ClaimInv ==
  /\ Claims(db.ret) <= Sold
  /\ \A r \in Returns : Running(r) => Claiming(r)

GoodsInv == db.stock = AllPutBack(db.ret) /\ Total(db.restored) = db.stock

\* One request at a time: what the transaction read of the invoice is still so.
MoneyInv ==
  OneByOne =>
    /\ \A r, s \in Returns : Running(r) /\ Running(s) => r = s
    /\ \A r \in Returns : Running(r) => tx[r].outstanding = db.outstanding
    /\ db.receivable = db.outstanding + db.replacement
    /\ db.customer => db.summary = db.receivable
    /\ db.outstanding >= 0

\* One request at a time: nothing was given back while anything is outstanding.
SplitInv ==
  OneByOne =>
    /\ ValueSplit
    /\ db.outstanding > 0 => db.credited + db.refunded = 0

\* Of the transactions of one day, one at a time is past the day's numbers.
DayInv ==
  \A r, s \in Returns :
    /\ Running(r) /\ tx[r].step # "NUMBER"
    /\ Running(s) /\ tx[s].step # "NUMBER"
    /\ tx[r].row.day = tx[s].row.day
    => r = s

OneDay == OneByOne \/ \A r, s \in Returns : Exists(r) /\ Exists(s) => db.ret[r].day = db.ret[s].day

\* Every other return there is waits for the numbers that r has.
Timely(r) == OneByOne \/ \A s \in Returns \ {r} : Exists(s) => db.ret[s].day = tx[r].row.day

\* What r took, and what it is about to take, the layers have room for.
HasRoom(r) ==
  /\ \A k \in 1 .. Layers : db.restored[k] + tx[r].taken[k] <= Allocation[k]
  /\ tx[r].step = "TAKE" => db.restored[tx[r].layer] + tx[r].take <= Allocation[tx[r].layer]

RoomInv ==
  /\ OneDay => \A k \in 1 .. Layers : db.restored[k] <= Allocation[k]
  /\ \A r \in Returns : Running(r) /\ Timely(r) => HasRoom(r)

Inv == TypeOK /\ WalkInv /\ ClaimInv /\ GoodsInv /\ MoneyInv /\ SplitInv /\ DayInv /\ RoomInv

-----------------------------------------------------------------------------
(***************************************************************************)
(* Sums and types                                                          *)
(***************************************************************************)

\* What the constants are, and the sum of no goods.
LEMMA Sums ==
  /\ IsFiniteSet(1 .. Layers) /\ IsFiniteSet(Returns)
  /\ NoGoods \in Restored /\ Total(NoGoods) = 0
  /\ Sold \in Nat /\ InvoiceTotal \in Nat \ {0}
<1>1. IsFiniteSet(1 .. Layers) /\ Allocation \in [1 .. Layers -> Nat]
  <2>1. 1 \in Int /\ Layers \in Int
    BY SalesReturnAssumption
  <2>2. IsFiniteSet(1 .. Layers)
    BY <2>1, FS_Interval
  <2> QED
    BY <2>2, SalesReturnAssumption
<1>2. Sold \in Nat
  BY <1>1, TotalType DEF Sold
<1>3. NoGoods \in [1 .. Layers -> Nat] /\ \A k \in 1 .. Layers : NoGoods[k] = 0
  BY DEF NoGoods
<1>4. Total(NoGoods) = 0
  BY <1>3, TotalZero
<1> QED
  BY <1>1, <1>2, <1>3, <1>4, SalesReturnAssumption DEF Restored, InvoiceTotal

\* What is claimed and what was put back follow the one row that changes.
LEMMA ClaimsFollow ==
  ASSUME NEW ret \in [Returns -> ReturnRows], NEW r \in Returns, NEW row \in ReturnRows
  PROVE  /\ Claims([ret EXCEPT ![r] = row]) = Claims(ret) - Claim(ret[r]) + Claim(row)
         /\ AllPutBack([ret EXCEPT ![r] = row]) = AllPutBack(ret) - PutBack(ret[r]) + PutBack(row)
         /\ Claims(ret) \in Nat /\ AllPutBack(ret) \in Nat
<1> DEFINE new == [ret EXCEPT ![r] = row]
           c == [q \in Returns |-> Claim(ret[q])]
           d == [q \in Returns |-> Claim(new[q])]
           p == [q \in Returns |-> PutBack(ret[q])]
           b == [q \in Returns |-> PutBack(new[q])]
<1>1. /\ new \in [Returns -> ReturnRows] /\ new[r] = row
      /\ \A q \in Returns \ {r} : new[q] = ret[q]
  OBVIOUS
<1>2. \A w \in ReturnRows : Claim(w) \in Nat /\ PutBack(w) \in Nat
  BY Sums DEF Claim, PutBack, ReturnRows
<1> HIDE DEF new
<1>3. /\ c \in [Returns -> Nat] /\ d \in [Returns -> Nat] /\ p \in [Returns -> Nat] /\ b \in [Returns -> Nat]
      /\ c[r] = Claim(ret[r]) /\ d[r] = Claim(row) /\ p[r] = PutBack(ret[r]) /\ b[r] = PutBack(row)
  BY <1>1, <1>2
<1>4. (\A q \in Returns \ {r} : d[q] = c[q]) /\ (\A q \in Returns \ {r} : b[q] = p[q])
  BY <1>1
<1>5. /\ Claims(ret) = Total(c) /\ Claims(new) = Total(d)
      /\ AllPutBack(ret) = Total(p) /\ AllPutBack(new) = Total(b)
  BY DEF Claims, AllPutBack
<1> HIDE DEF c, d, p, b
<1>6. IsFiniteSet(Returns)
  BY Sums
<1>7. Total(d) = Total(c) - c[r] + d[r]
  BY <1>3, <1>4, <1>6, TotalUpdate
<1>8. Total(b) = Total(p) - p[r] + b[r]
  BY <1>3, <1>4, <1>6, TotalUpdate
<1>9. Total(c) \in Nat /\ Total(p) \in Nat
  BY <1>3, Sums, TotalType
<1> QED
  BY <1>3, <1>5, <1>7, <1>8, <1>9 DEF new

\* What was put back is part of what is claimed.
LEMMA PutBackClaimed ==
  ASSUME NEW ret \in [Returns -> ReturnRows], NEW r \in Returns, NEW row \in ReturnRows
  PROVE  /\ AllPutBack([ret EXCEPT ![r] = row]) <= Claims([ret EXCEPT ![r] = row])
         /\ Claims([ret EXCEPT ![r] = row]) \in Nat
<1> DEFINE new == [ret EXCEPT ![r] = row]
           p == [q \in Returns |-> PutBack(new[q])]
           c == [q \in Returns |-> Claim(new[q])]
<1>1. new \in [Returns -> ReturnRows]
  OBVIOUS
<1>2. \A w \in ReturnRows : Claim(w) \in Nat /\ PutBack(w) \in Nat /\ PutBack(w) <= Claim(w)
  BY Sums DEF Claim, PutBack, ReturnRows
<1> HIDE DEF new
<1>3. p \in [Returns -> Nat] /\ c \in [Returns -> Nat] /\ \A q \in Returns : p[q] <= c[q]
  BY <1>1, <1>2
<1> HIDE DEF p, c
<1>4. Total(p) <= Total(c) /\ Total(c) \in Nat
  BY <1>3, Sums, TotalMonotone, TotalType
<1> QED
  BY <1>4 DEF AllPutBack, Claims, new, p, c

\* More of the same goods is worth no less.
LEMMA Dearer ==
  ASSUME NEW m \in Nat, NEW n \in Nat, NEW price \in Nat, m <= n
  PROVE  m * price <= n * price
<1>1. n * price = m * price + (n - m) * price
  OBVIOUS
<1>2. (n - m) * price >= 0
  OBVIOUS
<1>3. m * price \in Int /\ (n - m) * price \in Int
  OBVIOUS
<1> QED
  BY <1>1, <1>2, <1>3

\* What is returned is what the return rows claim.
LEMMA ReturnedIsClaims == Returned = Claims(db.ret)
BY DEF Returned, Claims, Claim

\* The types of what the proofs read.
LEMMA Types ==
  ASSUME TypeOK
  PROVE  /\ db.customer \in BOOLEAN /\ db.outstanding \in Int /\ db.summary \in Int
         /\ db.receivable \in Int /\ db.replacement \in Nat /\ db.stock \in Nat
         /\ db.refunded \in Nat /\ db.credited \in Nat /\ db.paid \in Nat
         /\ db.restored \in [1 .. Layers -> Nat] /\ db.ret \in [Returns -> ReturnRows]
         /\ tx \in [Returns -> {Idle} \cup Busy]
         /\ \A r \in Returns : db.ret[r].qty \in 0 .. Sold /\ db.ret[r] \in ReturnRows
         /\ slots \in Nat \ {0}
<1>1. /\ db.customer \in BOOLEAN /\ db.outstanding \in Int /\ db.summary \in Int
      /\ db.receivable \in Int /\ db.replacement \in Nat /\ db.stock \in Nat
      /\ db.refunded \in Nat /\ db.credited \in Nat /\ db.paid \in Nat
      /\ db.restored \in Restored /\ db.ret \in [Returns -> ReturnRows]
  BY DEF TypeOK, Database
<1>2. \A row \in ReturnRows : row.qty \in 0 .. Sold
  BY DEF ReturnRows
<1>3. tx \in [Returns -> {Idle} \cup Busy] /\ slots \in Nat \ {0}
  BY SalesReturnAssumption DEF TypeOK
<1> QED
  BY <1>1, <1>2, <1>3 DEF Restored

\* What a running transaction holds has its type.
LEMMA RunningTypes ==
  ASSUME TypeOK, NEW r \in Returns, Running(r)
  PROVE  /\ tx[r] \in Busy /\ tx[r].row \in ReturnRows /\ tx[r].row.qty \in Nat
         /\ tx[r].invoiceHeld \in BOOLEAN /\ tx[r].outstanding \in Int
         /\ tx[r].layer \in 1 .. Layers + 1 /\ tx[r].remaining \in Nat /\ tx[r].take \in Nat
         /\ tx[r].taken \in [1 .. Layers -> Nat]
<1>1. tx[r] \in Busy
  BY DEF TypeOK, Running, Idle
<1> QED
  BY <1>1, Sums DEF Busy, ReturnRows, Restored

\* A transaction that starts where few may overlap starts alone.
LEMMA AloneIfOne ==
  ASSUME TypeOK, SlotFree, OneByOne
  PROVE  \A r \in Returns : ~Running(r)
<1> DEFINE busy == {r \in Returns : Running(r)}
<1>1. IsFiniteSet(busy)
  BY Sums, FS_Subset
<1>2. Cardinality(busy) \in Nat /\ Cardinality(busy) < 1
  BY <1>1, FS_CardinalityType DEF SlotFree, OneByOne
<1>3. busy = {}
  BY <1>1, <1>2, FS_EmptySet
<1> QED
  BY <1>3

-----------------------------------------------------------------------------
(***************************************************************************)
(* A step of one transaction                                               *)
(***************************************************************************)

\* The transaction of r goes on, at a place it may be at, and nothing else changes.
Goes(r, t) ==
  /\ t \in Busy /\ Walks(t)
  /\ tx' = [tx EXCEPT ![r] = t] /\ UNCHANGED <<db, slots>>

\* A transaction that goes on keeps what it knows; it has the numbers if it passes
\* them; and what it takes there is room for.
LEMMA GoesOn ==
  ASSUME Inv, NEW r \in Returns, Running(r), NEW t, Goes(r, t),
         t.row = tx[r].row, t.invoiceHeld = tx[r].invoiceHeld, t.outstanding = tx[r].outstanding,
         t.step = "NUMBER" \/ tx[r].step # "NUMBER" \/ NumberFree(r),
         Timely(r) => HasRoom(r)'
  PROVE  Inv'
<1>1. TypeOK' /\ TypeOK
  BY DEF Inv, TypeOK, Goes
<1>2. /\ tx'[r] = t /\ (\A s \in Returns \ {r} : tx'[s] = tx[s]) /\ db' = db /\ slots' = slots
      /\ t.step # "IDLE"
  BY Types, <1>1 DEF Goes, Busy
<1>3. \A s \in Returns : (Running(s)' <=> Running(s)) /\ tx'[s].row = tx[s].row
        /\ tx'[s].invoiceHeld = tx[s].invoiceHeld /\ tx'[s].outstanding = tx[s].outstanding
  BY <1>2 DEF Running
<1>4. WalkInv'
  BY <1>2, <1>3 DEF Inv, WalkInv, Goes, Walks, Running
<1>5. ClaimInv'
  BY <1>2, <1>3 DEF Inv, ClaimInv, Claiming
<1>6. GoodsInv'
  BY <1>2 DEF Inv, GoodsInv
<1>7. MoneyInv' /\ SplitInv'
  BY <1>2, <1>3 DEF Inv, MoneyInv, SplitInv, ValueSplit, OneByOne
<1>8. DayInv'
  <2> SUFFICES ASSUME NEW q \in Returns, NEW s \in Returns,
                      Running(q)', tx'[q].step # "NUMBER", Running(s)', tx'[s].step # "NUMBER",
                      tx'[q].row.day = tx'[s].row.day, q # s
               PROVE  FALSE
    BY DEF DayInv
  <2>1. Running(q) /\ Running(s) /\ tx[q].row.day = tx[s].row.day
    BY <1>3
  <2>2. CASE q # r /\ s # r
    BY <1>2, <2>1, <2>2 DEF Inv, DayInv
  <2>3. CASE q = r
    BY <1>2, <2>1, <2>3 DEF Inv, DayInv, NumberFree
  <2>4. CASE s = r
    BY <1>2, <2>1, <2>4 DEF Inv, DayInv, NumberFree
  <2> QED
    BY <2>2, <2>3, <2>4
<1>9. RoomInv'
  <2>1. \A s \in Returns : Timely(s)' => Timely(s)
    BY <1>2, <1>3 DEF Timely, OneByOne, Exists
  <2>2. OneDay' <=> OneDay
    BY <1>2 DEF OneDay, OneByOne, Exists
  <2>3. \A s \in Returns \ {r} : HasRoom(s) => HasRoom(s)'
    BY <1>2 DEF HasRoom
  <2> QED
    BY <1>2, <1>3, <2>1, <2>2, <2>3 DEF Inv, RoomInv
<1> QED
  BY <1>1, <1>4, <1>5, <1>6, <1>7, <1>8, <1>9 DEF Inv

\* A number taken keeps the invariant.
LEMMA TakeNumberKeeps ==
  ASSUME Inv, NEW r \in Returns, TakeNumber(r), UNCHANGED slots
  PROVE  Inv'
<1> DEFINE t == [tx[r] EXCEPT !.step = "LOOK"]
<1>1. Running(r) /\ TypeOK /\ Walks(tx[r])
  BY DEF TakeNumber, Running, Inv, WalkInv
<1>2. tx[r] \in Busy /\ tx[r].step = "NUMBER" /\ NumberFree(r)
  BY <1>1, RunningTypes DEF TakeNumber
<1>3. /\ t \in Busy /\ t.row = tx[r].row /\ t.invoiceHeld = tx[r].invoiceHeld
      /\ t.outstanding = tx[r].outstanding /\ t.layer = tx[r].layer /\ t.remaining = tx[r].remaining
      /\ t.taken = tx[r].taken /\ t.take = tx[r].take /\ t.step = "LOOK"
  BY <1>2 DEF Busy
<1>4. tx' = [tx EXCEPT ![r] = t] /\ UNCHANGED <<db, slots>>
  BY DEF TakeNumber
<1> HIDE DEF t
<1>5. Goes(r, t)
  BY <1>1, <1>3, <1>4 DEF Goes, Walks
<1>6. tx'[r] = t /\ db' = db
  BY <1>1, <1>4, Types
<1>7. Timely(r) => HasRoom(r)'
  BY <1>1, <1>3, <1>6 DEF Inv, RoomInv, HasRoom
<1> QED
  BY <1>1, <1>2, <1>3, <1>5, <1>7, GoesOn

\* What is found of a layer is what there is room for.
LEMMA LookAtLayerKeeps ==
  ASSUME Inv, NEW r \in Returns, LookAtLayer(r), UNCHANGED slots
  PROVE  Inv'
<1> DEFINE take == Smaller(tx[r].remaining, Capacity(tx[r].layer))
           t == IF take > 0 THEN [tx[r] EXCEPT !.step = "TAKE", !.take = take]
                            ELSE [tx[r] EXCEPT !.layer = @ + 1]
<1>1. Running(r) /\ TypeOK /\ Walks(tx[r])
  BY DEF LookAtLayer, Running, Inv, WalkInv
<1>2. /\ tx[r] \in Busy /\ tx[r].step = "LOOK" /\ tx[r].remaining \in Nat /\ tx[r].layer \in 1 .. Layers
      /\ Layers \in Nat /\ tx[r].taken \in [1 .. Layers -> Nat]
  BY <1>1, RunningTypes, SalesReturnAssumption DEF LookAtLayer
<1>3. /\ take \in Nat /\ take <= tx[r].remaining
      /\ take > 0 => db.restored[tx[r].layer] + take <= Allocation[tx[r].layer]
  <2>1. db.restored[tx[r].layer] \in Nat /\ Allocation[tx[r].layer] \in Nat
    BY <1>1, <1>2, Types, SalesReturnAssumption
  <2>2. /\ Capacity(tx[r].layer) \in Nat
        /\ Capacity(tx[r].layer) > 0
             => Capacity(tx[r].layer) = Allocation[tx[r].layer] - db.restored[tx[r].layer]
    BY <2>1 DEF Capacity, Larger
  <2> QED
    BY <1>2, <2>1, <2>2 DEF Smaller
<1>4. /\ tx' = [tx EXCEPT ![r] = t] /\ UNCHANGED <<db, slots>>
  BY DEF LookAtLayer
<1> HIDE DEF take
<1>5. /\ t \in Busy /\ t.row = tx[r].row /\ t.invoiceHeld = tx[r].invoiceHeld
      /\ t.outstanding = tx[r].outstanding /\ t.remaining = tx[r].remaining /\ t.taken = tx[r].taken
      /\ \/ take > 0 /\ t.step = "TAKE" /\ t.layer = tx[r].layer /\ t.take = take
         \/ t.step = "LOOK" /\ t.layer = tx[r].layer + 1
  <2>1. CASE take > 0
    <3>1. t = [tx[r] EXCEPT !.step = "TAKE", !.take = take]
      BY <2>1
    <3> HIDE DEF t
    <3> QED
      BY <1>2, <1>3, <2>1, <3>1 DEF Busy
  <2>2. CASE ~(take > 0)
    <3>1. t = [tx[r] EXCEPT !.layer = @ + 1]
      BY <2>2
    <3> HIDE DEF t
    <3>2. tx[r].layer + 1 \in 1 .. Layers + 1
      BY <1>2
    <3> QED
      BY <1>2, <3>1, <3>2 DEF Busy
  <2> QED
    BY <2>1, <2>2
<1> HIDE DEF t
<1>6. Walks(t)
  <2>1. \A k \in 1 .. Layers : k >= t.layer => k >= tx[r].layer
    BY <1>2, <1>5
  <2>2. \A k \in 1 .. Layers : k >= t.layer => t.taken[k] = 0
    BY <1>1, <1>5, <2>1 DEF Walks
  <2>3. t.step # "NUMBER" /\ t.step # "SETTLE"
    BY <1>5
  <2>4. t.step = "TAKE" => t.layer <= Layers /\ t.take <= t.remaining
    BY <1>2, <1>3, <1>5
  <2> QED
    BY <1>1, <1>5, <2>2, <2>3, <2>4 DEF Walks
<1>7. Goes(r, t)
  BY <1>4, <1>5, <1>6 DEF Goes
<1>8. tx'[r] = t /\ db' = db
  BY <1>1, <1>4, Types
<1>9. Timely(r) => HasRoom(r)'
  BY <1>1, <1>3, <1>5, <1>8 DEF Inv, RoomInv, HasRoom
<1> QED
  BY <1>1, <1>2, <1>5, <1>7, <1>9, GoesOn

\* What is taken is off what remains.
LEMMA TakeLayerKeeps ==
  ASSUME Inv, NEW r \in Returns, TakeLayer(r), UNCHANGED slots
  PROVE  Inv'
<1> DEFINE k == tx[r].layer
           n == tx[r].take
           some == [tx[r].taken EXCEPT ![k] = n]
           t == [tx[r] EXCEPT !.step = "LOOK", !.layer = @ + 1, !.take = 0,
                              !.remaining = @ - n, !.taken = some]
<1>1. Running(r) /\ TypeOK /\ Walks(tx[r])
  BY DEF TakeLayer, Running, Inv, WalkInv
<1>2. /\ tx[r] \in Busy /\ tx[r].step = "TAKE" /\ tx[r].remaining \in Nat /\ k \in 1 .. Layers
      /\ Layers \in Nat /\ tx[r].taken \in [1 .. Layers -> Nat] /\ n \in Nat /\ n <= tx[r].remaining
      /\ tx[r].taken[k] = 0 /\ tx[r].row.qty \in Nat
  BY <1>1, RunningTypes, SalesReturnAssumption DEF TakeLayer, Walks
<1>3. tx' = [tx EXCEPT ![r] = t] /\ UNCHANGED <<db, slots>>
  BY <1>2 DEF TakeLayer, Busy
<1>4. /\ some \in [1 .. Layers -> Nat] /\ some[k] = n /\ (\A j \in 1 .. Layers \ {k} : some[j] = tx[r].taken[j])
  BY <1>2
<1>5. Total(some) = Total(tx[r].taken) + n /\ Total(tx[r].taken) \in Nat
  <2> DEFINE old == tx[r].taken
  <2>1. old \in [1 .. Layers -> Nat] /\ k \in 1 .. Layers /\ n \in Nat /\ old[k] = 0
    BY <1>2
  <2> HIDE DEF old, k, n
  <2>2. Total([old EXCEPT ![k] = n]) = Total(old) - old[k] + n /\ Total(old) \in Nat
    BY <2>1, Sums, TotalReplaced
  <2> QED
    BY <2>1, <2>2 DEF old
<1> HIDE DEF some
<1>6. /\ t \in Busy /\ t.row = tx[r].row /\ t.invoiceHeld = tx[r].invoiceHeld
      /\ t.outstanding = tx[r].outstanding /\ t.remaining = tx[r].remaining - n /\ t.taken = some
      /\ t.step = "LOOK" /\ t.layer = k + 1
  <2>1. k + 1 \in 1 .. Layers + 1 /\ tx[r].remaining - n \in Nat
    <3>1. k \in 1 .. Layers /\ Layers \in Nat /\ n \in Nat /\ tx[r].remaining \in Nat /\ n <= tx[r].remaining
      BY <1>2
    <3> HIDE DEF k, n
    <3> QED
      BY <3>1
  <2>2. some \in Restored
    BY <1>4 DEF Restored
  <2> DEFINE next == k + 1
             left == tx[r].remaining - n
  <2>3. t = [tx[r] EXCEPT !.step = "LOOK", !.layer = next, !.take = 0, !.remaining = left, !.taken = some]
    OBVIOUS
  <2>4. next \in 1 .. Layers + 1 /\ left \in Nat /\ next = k + 1 /\ left = tx[r].remaining - n
    BY <2>1
  <2> HIDE DEF t, next, left
  <2>5. t \in Busy
    BY <1>2, <2>2, <2>3, <2>4 DEF Busy
  <2> QED
    BY <1>2, <2>3, <2>4, <2>5 DEF Busy
<1> HIDE DEF t
<1>7. Walks(t)
  <2>1. Total(t.taken) + t.remaining = t.row.qty
    BY <1>1, <1>2, <1>5, <1>6 DEF Walks
  <2>2. ASSUME NEW j \in 1 .. Layers, j >= t.layer PROVE t.taken[j] = 0
    <3>1. j \in 1 .. Layers \ {k} /\ j >= k
      BY <1>2, <1>6, <2>2
    <3> QED
      BY <1>1, <1>4, <1>6, <3>1 DEF Walks
  <2> QED
    BY <1>1, <1>6, <2>1, <2>2 DEF Walks
<1>8. Goes(r, t)
  BY <1>3, <1>6, <1>7 DEF Goes
<1>9. tx'[r] = t /\ db' = db
  BY <1>1, <1>3, Types
<1>10. Timely(r) => HasRoom(r)'
  <2> SUFFICES ASSUME Timely(r), NEW j \in 1 .. Layers
               PROVE  db.restored[j] + some[j] <= Allocation[j]
    BY <1>6, <1>9 DEF HasRoom
  <2>1. HasRoom(r)
    BY <1>1 DEF Inv, RoomInv
  <2> QED
    BY <1>2, <1>4, <2>1 DEF HasRoom
<1> QED
  BY <1>1, <1>2, <1>6, <1>8, <1>10, GoesOn

\* The end of the walk over the layers keeps the invariant.
LEMMA FinishLayersKeeps ==
  ASSUME Inv, NEW r \in Returns, FinishLayers(r), UNCHANGED slots
  PROVE  Inv'
<1> DEFINE t == [tx[r] EXCEPT !.step = "SETTLE"]
<1>1. Running(r) /\ TypeOK /\ Walks(tx[r])
  BY DEF FinishLayers, Running, Inv, WalkInv
<1>2. tx[r] \in Busy /\ tx[r].step = "LOOK" /\ tx[r].remaining = 0
  BY <1>1, RunningTypes DEF FinishLayers
<1>3. /\ t \in Busy /\ t.row = tx[r].row /\ t.invoiceHeld = tx[r].invoiceHeld
      /\ t.outstanding = tx[r].outstanding /\ t.layer = tx[r].layer /\ t.remaining = tx[r].remaining
      /\ t.taken = tx[r].taken /\ t.step = "SETTLE"
  BY <1>2 DEF Busy
<1>4. tx' = [tx EXCEPT ![r] = t] /\ UNCHANGED <<db, slots>>
  BY DEF FinishLayers
<1> HIDE DEF t
<1>5. Goes(r, t)
  BY <1>1, <1>2, <1>3, <1>4 DEF Goes, Walks
<1>6. tx'[r] = t /\ db' = db
  BY <1>1, <1>4, Types
<1>7. Timely(r) => HasRoom(r)'
  BY <1>1, <1>3, <1>6 DEF Inv, RoomInv, HasRoom
<1> QED
  BY <1>1, <1>2, <1>3, <1>5, <1>7, GoesOn

-----------------------------------------------------------------------------
(***************************************************************************)
(* A transaction that starts or ends without a trace                       *)
(***************************************************************************)

\* A completion starts: with the invoice held and a claim it may make, or from a draft.
LEMMA BeginKeeps ==
  ASSUME Inv, NEW r \in Returns, NEW row \in ReturnRows, NEW held \in BOOLEAN,
         Begin(r, row, held), UNCHANGED slots, row.status = "DRAFT",
         IF held THEN InvoiceFree /\ db.ret[r].status = "NONE" /\ Claims(db.ret) + row.qty <= Sold
                 ELSE db.ret[r] = row
  PROVE  Inv'
<1> DEFINE t == [step |-> "NUMBER", row |-> row, invoiceHeld |-> held,
                 outstanding |-> db.outstanding, layer |-> 1,
                 remaining |-> row.qty, take |-> 0, taken |-> NoGoods]
<1>1. TypeOK /\ ~Running(r) /\ SlotFree /\ tx' = [tx EXCEPT ![r] = t] /\ UNCHANGED <<db, slots>>
  BY DEF Inv, Begin
<1>2. t \in Busy
  <2>1. row.qty \in Nat /\ 1 \in 1 .. Layers + 1 /\ db.outstanding \in Int /\ NoGoods \in Restored
    BY <1>1, Types, Sums, SalesReturnAssumption DEF ReturnRows
  <2> QED
    BY <2>1 DEF Busy
<1>3. /\ tx'[r] = t /\ (\A s \in Returns \ {r} : tx'[s] = tx[s]) /\ db' = db /\ slots' = slots
      /\ t.row = row /\ t.invoiceHeld = held /\ t.outstanding = db.outstanding /\ t.layer = 1
      /\ t.remaining = row.qty /\ t.taken = NoGoods /\ t.step = "NUMBER"
  BY <1>1, Types
<1>4. TypeOK'
  BY <1>1, <1>2 DEF TypeOK
<1> HIDE DEF t
<1>5. \A s \in Returns : (Running(s)' <=> s = r \/ Running(s)) /\ (s # r => tx'[s] = tx[s])
  BY <1>3 DEF Running
<1>6. \A k \in 1 .. Layers : t.taken[k] = 0
  BY <1>3 DEF NoGoods
<1>7. WalkInv'
  <2>1. Walks(t)
    BY <1>3, <1>6, Sums DEF Walks, ReturnRows
  <2> QED
    BY <1>3, <1>5, <2>1 DEF Inv, WalkInv, Walks
<1>8. ClaimInv'
  <2>1. ASSUME NEW s \in Returns, Running(s)' PROVE Claiming(s)'
    <3>1. CASE s = r
      BY <1>3, <1>5, <3>1 DEF Claiming, InvoiceFree
    <3>2. CASE s # r
      <4>1. Running(s) /\ Claiming(s) /\ tx'[s] = tx[s]
        BY <1>5, <2>1, <3>2 DEF Inv, ClaimInv
      <4>2. tx[s].invoiceHeld => ~held
        BY <4>1 DEF InvoiceFree
      <4> QED
        BY <1>3, <1>5, <4>1, <4>2 DEF Claiming
    <3> QED
      BY <3>1, <3>2
  <2> QED
    BY <1>3, <2>1 DEF Inv, ClaimInv
<1>9. GoodsInv'
  BY <1>3 DEF Inv, GoodsInv
<1>10. MoneyInv'
  <2> SUFFICES ASSUME OneByOne PROVE MoneyInv'
    BY <1>3 DEF MoneyInv, OneByOne
  <2>1. \A s \in Returns : ~Running(s)
    BY <1>1, AloneIfOne
  <2> QED
    BY <1>3, <1>5, <2>1 DEF Inv, MoneyInv
<1>11. DayInv'
  BY <1>3, <1>5 DEF Inv, DayInv
<1>12. RoomInv'
  <2>1. OneDay' <=> OneDay
    BY <1>3 DEF OneDay, OneByOne, Exists
  <2>2. ASSUME NEW s \in Returns, Running(s)', Timely(s)' PROVE HasRoom(s)'
    <3>1. CASE s # r
      <4>1. Timely(s) /\ Running(s)
        BY <1>3, <1>5, <2>2, <3>1 DEF Timely, OneByOne, Exists
      <4> QED
        BY <1>3, <1>5, <3>1, <4>1 DEF Inv, RoomInv, HasRoom
    <3>2. CASE s = r
      <4>1. OneDay
        BY <1>3, <2>2, <3>2 DEF Timely, OneDay, OneByOne, Exists
      <4>2. \A k \in 1 .. Layers : db.restored[k] \in Nat
        BY <1>1, Types
      <4>3. \A k \in 1 .. Layers : db.restored[k] <= Allocation[k] /\ db.restored[k] + 0 = db.restored[k]
        BY <4>1, <4>2 DEF Inv, RoomInv
      <4> QED
        BY <1>3, <1>6, <3>2, <4>3 DEF HasRoom
    <3> QED
      BY <3>1, <3>2
  <2> QED
    BY <1>3, <2>1, <2>2 DEF Inv, RoomInv
<1>13. SplitInv'
  BY <1>3 DEF Inv, SplitInv, ValueSplit, OneByOne
<1> QED
  BY <1>4, <1>7, <1>8, <1>9, <1>10, <1>11, <1>12, <1>13 DEF Inv

\* A return created to be completed at once enters with what it read.
LEMMA CreateCompletedKeeps ==
  ASSUME Inv, NEW r \in Returns, NEW n \in 1 .. Sold, NEW resolution \in {"REFUND", "REPLACEMENT"},
         NEW day \in Days, CreateCompleted(r, n, resolution, day), UNCHANGED slots
  PROVE  Inv'
<1> DEFINE row == [status |-> "DRAFT", qty |-> n, resolution |-> resolution, day |-> day]
<1>1. row \in ReturnRows /\ row.status = "DRAFT" /\ row.qty = n
  BY Sums DEF ReturnRows
<1>2. Begin(r, row, TRUE) /\ InvoiceFree /\ db.ret[r].status = "NONE" /\ Claims(db.ret) + n <= Sold
  BY ReturnedIsClaims DEF CreateCompleted, Returnable
<1> HIDE DEF row
<1> QED
  BY <1>1, <1>2, BeginKeeps

\* A draft completed enters with the row it locked.
LEMMA CompleteKeeps ==
  ASSUME Inv, NEW r \in Returns, Complete(r), UNCHANGED slots
  PROVE  Inv'
<1>1. db.ret[r] \in ReturnRows /\ db.ret[r].status = "DRAFT" /\ Begin(r, db.ret[r], FALSE)
  BY Types DEF Complete, CanComplete, Inv
<1> QED
  BY <1>1, BeginKeeps

\* Nothing is left of a transaction that rolls back.
LEMMA RollbackKeeps ==
  ASSUME Inv, NEW r \in Returns, Rollback(r), UNCHANGED slots
  PROVE  Inv'
<1>1. TypeOK /\ tx' = [tx EXCEPT ![r] = Idle] /\ UNCHANGED <<db, slots>>
  BY DEF Inv, Rollback
<1>2. TypeOK' /\ db' = db /\ slots' = slots
  BY <1>1 DEF TypeOK
<1>3. \A s \in Returns : Running(s)' => Running(s) /\ tx'[s] = tx[s]
  BY <1>1, Types DEF Running, Idle
<1>4. WalkInv'
  BY <1>3 DEF Inv, WalkInv, Walks
<1>5. ClaimInv'
  BY <1>2, <1>3 DEF Inv, ClaimInv, Claiming
<1>6. GoodsInv' /\ MoneyInv' /\ SplitInv'
  BY <1>2, <1>3 DEF Inv, GoodsInv, MoneyInv, SplitInv, ValueSplit, OneByOne
<1>7. DayInv'
  BY <1>3 DEF Inv, DayInv
<1>8. RoomInv'
  <2>1. (OneDay' <=> OneDay)
    BY <1>2 DEF OneDay, OneByOne, Exists
  <2>2. \A s \in Returns : Running(s)' /\ Timely(s)' => Timely(s)
    BY <1>2, <1>3 DEF Timely, OneByOne, Exists
  <2> QED
    BY <1>2, <1>3, <2>1, <2>2 DEF Inv, RoomInv, HasRoom
<1> QED
  BY <1>2, <1>4, <1>5, <1>6, <1>7, <1>8 DEF Inv

-----------------------------------------------------------------------------
(***************************************************************************)
(* Payments and drafts                                                     *)
(***************************************************************************)

\* A payment takes the same off the invoice, the summary and the account; nobody
\* else is at it if requests come one by one.
LEMMA ReceivePaymentKeeps ==
  ASSUME Inv, NEW a \in 1 .. InvoiceTotal, ReceivePayment(a), UNCHANGED slots
  PROVE  Inv'
<1> DEFINE paid == db.paid + a
           outstanding == db.outstanding - a
           summary == IF db.customer THEN db.summary - a ELSE db.summary
           receivable == db.receivable - a
<1>1. TypeOK /\ SlotFree /\ a \in Nat /\ a <= db.outstanding /\ tx' = tx /\ slots' = slots
  BY Sums DEF Inv, ReceivePayment, CanPay
<1>2. paid \in Nat /\ outstanding \in Int /\ summary \in Int /\ receivable \in Int
  BY <1>1, Types
<1>3. db' = [db EXCEPT !.paid = paid, !.outstanding = outstanding, !.summary = summary,
                       !.receivable = receivable]
  BY DEF ReceivePayment
<1>4. outstanding = db.outstanding - a /\ summary = (IF db.customer THEN db.summary - a ELSE db.summary)
      /\ receivable = db.receivable - a /\ paid = db.paid + a
  OBVIOUS
<1> HIDE DEF paid, outstanding, summary, receivable
<1>5. TypeOK'
  <2>1. db \in Database
    BY <1>1 DEF TypeOK
  <2>2. db' \in Database
    <3> DEFINE A == [Returns -> ReturnRows]
    <3>1. Database = [customer : BOOLEAN, paid : Nat, outstanding : Int, summary : Int,
                      receivable : Int, replacement : Nat, refunded : Nat, credited : Nat,
                      restored : Restored, stock : Nat, ret : A]
      BY DEF Database
    <3> HIDE DEF A
    <3> QED
      BY <1>2, <1>3, <2>1, <3>1
  <2> QED
    BY <1>1, <2>2 DEF TypeOK
<1>6. /\ db'.ret = db.ret /\ db'.restored = db.restored /\ db'.stock = db.stock
      /\ db'.customer = db.customer /\ db'.replacement = db.replacement
      /\ db'.outstanding = outstanding /\ db'.summary = summary /\ db'.receivable = receivable
      /\ db'.paid = paid /\ db'.credited = db.credited /\ db'.refunded = db.refunded
  BY <1>1, <1>3 DEF TypeOK, Database
<1>7. \A s \in Returns : (Running(s)' <=> Running(s)) /\ tx'[s] = tx[s]
  BY <1>1 DEF Running
<1>8. WalkInv' /\ DayInv'
  BY <1>7 DEF Inv, WalkInv, Walks, DayInv
<1>9. ClaimInv' /\ GoodsInv'
  BY <1>6, <1>7 DEF Inv, ClaimInv, Claiming, GoodsInv
<1>10. MoneyInv'
  <2> SUFFICES ASSUME OneByOne PROVE MoneyInv'
    BY <1>1 DEF MoneyInv, OneByOne
  <2>1. \A s \in Returns : ~Running(s)
    BY <1>1, AloneIfOne
  <2>2. /\ db.outstanding \in Int /\ db.receivable \in Int /\ db.replacement \in Nat /\ db.summary \in Int
        /\ db.receivable = db.outstanding + db.replacement /\ (db.customer => db.summary = db.receivable)
    BY <1>1, Types DEF Inv, MoneyInv
  <2>3. /\ receivable = outstanding + db.replacement /\ outstanding >= 0
        /\ (db.customer => summary = receivable)
    BY <1>1, <1>4, <2>2
  <2> QED
    BY <1>6, <1>7, <2>1, <2>3 DEF MoneyInv
<1>11. SplitInv'
  <2> SUFFICES ASSUME OneByOne PROVE SplitInv'
    BY <1>1 DEF SplitInv, OneByOne
  <2> DEFINE worth == db.stock * Price
  <2>1. /\ worth = (InvoiceTotal - db.paid - db.outstanding) + db.credited + db.refunded
        /\ db.credited + db.refunded <= db.paid + DocDiscount
        /\ db.outstanding > 0 => db.credited + db.refunded = 0
    BY DEF Inv, SplitInv, ValueSplit
  <2>2. /\ db.stock \in Nat /\ Price \in Nat /\ DocDiscount \in Nat /\ InvoiceTotal \in Nat
        /\ db.paid \in Nat /\ db.outstanding \in Int /\ db.credited \in Nat /\ db.refunded \in Nat
    BY <1>1, Types, Sums, SalesReturnAssumption
  <2>3. worth \in Int
    BY <2>2
  <2> HIDE DEF worth
  <2>4. /\ worth = (InvoiceTotal - paid - outstanding) + db.credited + db.refunded
        /\ db.credited + db.refunded <= paid + DocDiscount
        /\ outstanding > 0 => db.credited + db.refunded = 0
    BY <1>1, <1>4, <2>1, <2>2, <2>3
  <2> QED
    BY <1>6, <2>4 DEF SplitInv, ValueSplit, worth
<1>12. RoomInv'
  <2>1. (OneDay' <=> OneDay) /\ \A s \in Returns : Timely(s)' <=> Timely(s)
    BY <1>1, <1>6, <1>7 DEF OneDay, OneByOne, Exists, Timely
  <2> QED
    BY <1>6, <1>7, <2>1 DEF Inv, RoomInv, HasRoom
<1> QED
  BY <1>5, <1>8, <1>9, <1>10, <1>11, <1>12 DEF Inv

\* A new draft claims what nobody else does.
LEMMA CreateDraftKeeps ==
  ASSUME Inv, NEW r \in Returns, NEW n \in 1 .. Sold, NEW resolution \in {"REFUND", "REPLACEMENT"},
         NEW day \in Days, CreateDraft(r, n, resolution, day), UNCHANGED slots
  PROVE  Inv'
<1> DEFINE row == [status |-> "DRAFT", qty |-> n, resolution |-> resolution, day |-> day]
           ret == [db.ret EXCEPT ![r] = row]
<1>1. row \in ReturnRows /\ row.status = "DRAFT" /\ row.qty = n /\ n \in Nat
  BY Sums DEF ReturnRows
<1>2. /\ TypeOK /\ InvoiceFree /\ db.ret[r].status = "NONE" /\ ~Running(r) /\ Claims(db.ret) + n <= Sold
      /\ tx' = tx /\ slots' = slots /\ db' = [db EXCEPT !.ret = ret]
  BY ReturnedIsClaims DEF Inv, CreateDraft, Returnable
<1> HIDE DEF row
<1>3. ret \in [Returns -> ReturnRows] /\ ret[r] = row /\ \A s \in Returns \ {r} : ret[s] = db.ret[s]
  BY <1>1, <1>2, Types
<1>4. Claims(ret) = Claims(db.ret) + n /\ AllPutBack(ret) = AllPutBack(db.ret)
  <2>1. /\ Claims(ret) = Claims(db.ret) - Claim(db.ret[r]) + Claim(row)
        /\ AllPutBack(ret) = AllPutBack(db.ret) - PutBack(db.ret[r]) + PutBack(row)
        /\ Claims(db.ret) \in Nat /\ AllPutBack(db.ret) \in Nat
    BY <1>1, <1>2, Types, ClaimsFollow
  <2>2. Claim(db.ret[r]) = 0 /\ Claim(row) = n /\ PutBack(db.ret[r]) = 0 /\ PutBack(row) = 0
    BY <1>1, <1>2 DEF Claim, PutBack
  <2> QED
    BY <1>1, <2>1, <2>2
<1> HIDE DEF ret
<1>5. TypeOK'
  <2>1. db' \in Database
    <3> DEFINE A == [Returns -> ReturnRows]
    <3>1. Database = [customer : BOOLEAN, paid : Nat, outstanding : Int, summary : Int,
                      receivable : Int, replacement : Nat, refunded : Nat, credited : Nat,
                      restored : Restored, stock : Nat, ret : A]
      BY DEF Database
    <3>2. ret \in A /\ db \in Database
      BY <1>2, <1>3 DEF TypeOK
    <3> HIDE DEF A
    <3> QED
      BY <1>2, <3>1, <3>2
  <2> QED
    BY <1>2, <2>1 DEF TypeOK
<1>6. /\ db'.ret = ret /\ db'.restored = db.restored /\ db'.stock = db.stock
      /\ db'.customer = db.customer /\ db'.replacement = db.replacement
      /\ db'.outstanding = db.outstanding /\ db'.summary = db.summary
      /\ db'.receivable = db.receivable /\ db'.paid = db.paid
      /\ db'.credited = db.credited /\ db'.refunded = db.refunded
  BY <1>2 DEF TypeOK, Database
<1>7. \A s \in Returns : (Running(s)' <=> Running(s)) /\ tx'[s] = tx[s] /\ (Running(s) => s # r)
  BY <1>2 DEF Running
<1>8. WalkInv' /\ DayInv'
  BY <1>7 DEF Inv, WalkInv, Walks, DayInv
<1>9. ClaimInv'
  BY <1>2, <1>3, <1>4, <1>6, <1>7 DEF Inv, ClaimInv, Claiming, InvoiceFree
<1>10. GoodsInv'
  BY <1>4, <1>6 DEF Inv, GoodsInv
<1>11. MoneyInv' /\ SplitInv'
  BY <1>2, <1>6, <1>7 DEF Inv, MoneyInv, SplitInv, ValueSplit, OneByOne
<1>12. RoomInv'
  <2>1. \A s \in Returns : Exists(s) => Exists(s)' /\ db'.ret[s].day = db.ret[s].day
    BY <1>2, <1>3, <1>6 DEF Exists
  <2>2. OneDay' => OneDay
    BY <1>2, <2>1 DEF OneDay, OneByOne
  <2>3. \A s \in Returns : Timely(s)' => Timely(s)
    BY <1>2, <1>7, <2>1 DEF Timely, OneByOne
  <2> QED
    BY <1>6, <1>7, <2>2, <2>3 DEF Inv, RoomInv, HasRoom
<1> QED
  BY <1>5, <1>8, <1>9, <1>10, <1>11, <1>12 DEF Inv

-----------------------------------------------------------------------------
(***************************************************************************)
(* Settlement                                                              *)
(***************************************************************************)

\* The value of a return splits into what is offset, what is credited and the rest.
LEMMA Split ==
  ASSUME TypeOK, NEW r \in Returns, Running(r),
         NEW total \in 0 .. MaxReplacement, NEW pays \in 0 .. MaxReplacement,
         ValidReplacement(r, total, pays)
  PROVE  /\ Offset(r) \in Nat /\ Credit(r, total) \in Nat
         /\ Value(r) - Offset(r) - Credit(r, total) \in Nat
         /\ total - Credit(r, total) - pays \in Nat
         /\ tx[r].outstanding >= 0 => tx[r].outstanding - Offset(r) >= 0
<1> DEFINE v == Value(r)
           o == Offset(r)
           c == Credit(r, total)
           u == tx[r].outstanding
<1>1. v \in Nat /\ u \in Int /\ total \in Nat /\ pays \in Nat
  <2>1. tx[r].row.qty \in Nat /\ u \in Int /\ Price \in Nat /\ MaxReplacement \in Nat
    BY RunningTypes, SalesReturnAssumption
  <2> QED
    BY <2>1 DEF Value
<1>2. o = Smaller(v, Larger(0, u))
  BY DEF Offset
<1>3. /\ c = (IF tx[r].row.resolution = "REFUND" THEN 0 ELSE Smaller(v - o, total))
      /\ IF tx[r].row.resolution = "REFUND" THEN total = 0 /\ pays = 0 ELSE pays <= total - c
  BY DEF Credit, ValidReplacement
<1> HIDE DEF v, o, c, u
<1>4. o \in Nat /\ o <= v /\ (u >= 0 => u - o >= 0)
  BY <1>1, <1>2 DEF Smaller, Larger
<1>5. c \in Nat /\ c <= v - o /\ c <= total
  BY <1>1, <1>3, <1>4 DEF Smaller
<1>6. v - o - c \in Nat /\ total - c - pays \in Nat
  BY <1>1, <1>3, <1>4, <1>5
<1> QED
  BY <1>4, <1>5, <1>6 DEF v, o, c, u

\* The return of r as it is after completion.
Done(r) == [tx[r].row EXCEPT !.status = "COMPLETED"]

\* What a settlement leaves, and who it leaves alone.
LEMMA SettleEffect ==
  ASSUME Inv, NEW r \in Returns,
         NEW total \in 0 .. MaxReplacement, NEW pays \in 0 .. MaxReplacement,
         Settle(r, total, pays), UNCHANGED slots
  PROVE  /\ TypeOK' /\ slots' = slots /\ Running(r) /\ tx[r].step = "SETTLE"
         /\ db'.ret = [db.ret EXCEPT ![r] = Done(r)] /\ Done(r) \in ReturnRows
         /\ db'.restored = [k \in 1 .. Layers |-> db.restored[k] + tx[r].taken[k]]
         /\ db'.stock = db.stock + tx[r].row.qty
         /\ db'.customer = db.customer
         /\ db'.outstanding = tx[r].outstanding - Offset(r)
         /\ db'.summary = IF db.customer
                          THEN db.summary - Offset(r) + (total - Credit(r, total) - pays)
                          ELSE db.summary
         /\ db'.receivable = db.receivable - Offset(r) - Credit(r, total) + (total - pays)
         /\ db'.replacement = db.replacement + (total - Credit(r, total) - pays)
         /\ db'.refunded = db.refunded + (Value(r) - Offset(r) - Credit(r, total))
         /\ db'.credited = db.credited + Credit(r, total) /\ db'.paid = db.paid
         /\ \A s \in Returns : (Running(s)' <=> Running(s) /\ s # r) /\ (s # r => tx'[s] = tx[s])
<1> DEFINE o == Offset(r)
           c == Credit(r, total)
           outstanding == tx[r].outstanding - o
           summary == IF db.customer THEN db.summary - o + (total - c - pays) ELSE db.summary
           receivable == db.receivable - o - c + (total - pays)
           replacement == db.replacement + (total - c - pays)
           refunded == db.refunded + (Value(r) - o - c)
           credited == db.credited + c
           restored == [k \in 1 .. Layers |-> db.restored[k] + tx[r].taken[k]]
           stock == db.stock + tx[r].row.qty
           ret == [db.ret EXCEPT ![r] = Done(r)]
<1>1. TypeOK /\ Running(r) /\ tx[r].step = "SETTLE" /\ ValidReplacement(r, total, pays)
  BY DEF Inv, Settle, Running
<1>2. Done(r) \in ReturnRows
  BY <1>1, RunningTypes DEF Done, ReturnRows
<1>3. /\ db' = [db EXCEPT !.outstanding = outstanding, !.summary = summary,
                          !.receivable = receivable, !.replacement = replacement,
                          !.refunded = refunded, !.credited = credited,
                          !.restored = restored, !.stock = stock, !.ret = ret]
      /\ tx' = [tx EXCEPT ![r] = Idle]
  BY <1>1, Types DEF Settle, Done, TypeOK, Database
<1>4. /\ outstanding \in Int /\ summary \in Int /\ receivable \in Int /\ replacement \in Nat
      /\ refunded \in Nat /\ credited \in Nat /\ stock \in Nat
  <2>1. /\ o \in Nat /\ c \in Nat /\ Value(r) - o - c \in Nat /\ total - c - pays \in Nat
        /\ total \in Int /\ pays \in Int /\ tx[r].outstanding \in Int /\ tx[r].row.qty \in Nat
    BY <1>1, Split, RunningTypes, SalesReturnAssumption
  <2>2. /\ db.outstanding \in Int /\ db.summary \in Int /\ db.receivable \in Int
        /\ db.replacement \in Nat /\ db.refunded \in Nat /\ db.credited \in Nat /\ db.stock \in Nat
    BY <1>1, Types
  <2> HIDE DEF o, c
  <2>3. total - pays \in Int /\ total - c - pays \in Int
    BY <2>1
  <2>4. outstanding \in Int /\ summary \in Int /\ receivable \in Int
    BY <2>1, <2>2, <2>3
  <2>5. replacement \in Nat /\ credited \in Nat /\ stock \in Nat
    BY <2>1, <2>2
  <2>6. refunded \in Nat
    <3> DEFINE rest == Value(r) - o - c
    <3>1. rest \in Nat /\ db.refunded \in Nat
      BY <2>1, <2>2
    <3> HIDE DEF rest
    <3>2. db.refunded + rest \in Nat
      BY <3>1
    <3> QED
      BY <3>2 DEF rest
  <2> QED
    BY <2>4, <2>5, <2>6
<1>5. restored \in Restored
  <2> DEFINE K == 1 .. Layers
             f == db.restored
             g == tx[r].taken
  <2>1. f \in [K -> Nat] /\ g \in [K -> Nat] /\ restored = [k \in K |-> f[k] + g[k]]
    BY <1>1, Types, RunningTypes
  <2> HIDE DEF K, f, g, restored
  <2>2. restored \in [K -> Nat]
    BY <2>1
  <2> QED
    BY <2>2 DEF K, Restored
<1>6. ret \in [Returns -> ReturnRows]
  BY <1>1, <1>2, Types
<1>7. db \in Database
  BY <1>1 DEF TypeOK
<1> HIDE DEF outstanding, summary, receivable, replacement, refunded, credited, restored, stock, ret
<1>8. db' \in Database
  <2> DEFINE A == [Returns -> ReturnRows]
  <2>1. Database = [customer : BOOLEAN, paid : Nat, outstanding : Int, summary : Int,
                    receivable : Int, replacement : Nat, refunded : Nat, credited : Nat,
                    restored : Restored, stock : Nat, ret : A]
    BY DEF Database
  <2>2. ret \in A
    BY <1>6
  <2> HIDE DEF A
  <2> QED
    BY <1>3, <1>4, <1>5, <1>7, <2>1, <2>2
<1>9. TypeOK'
  BY <1>1, <1>3, <1>8 DEF TypeOK
<1>10. /\ db'.outstanding = outstanding /\ db'.summary = summary /\ db'.receivable = receivable
       /\ db'.replacement = replacement /\ db'.restored = restored /\ db'.stock = stock
       /\ db'.ret = ret /\ db'.customer = db.customer
       /\ db'.refunded = refunded /\ db'.credited = credited /\ db'.paid = db.paid
  BY <1>3, <1>7 DEF Database
<1>11. \A s \in Returns : (Running(s)' <=> Running(s) /\ s # r) /\ (s # r => tx'[s] = tx[s])
  BY <1>1, <1>3, Types DEF Running, Idle
<1> QED
  BY <1>1, <1>2, <1>9, <1>10, <1>11
     DEF outstanding, summary, receivable, replacement, refunded, credited, restored, stock, ret

\* A settlement splits what the return is worth, and restores the goods of its walk.
LEMMA SettleKeeps ==
  ASSUME Inv, NEW r \in Returns,
         NEW total \in 0 .. MaxReplacement, NEW pays \in 0 .. MaxReplacement,
         Settle(r, total, pays), UNCHANGED slots
  PROVE  Inv'
<1> DEFINE qty == tx[r].row.qty
           o == Offset(r)
           c == Credit(r, total)
<1>1. /\ TypeOK /\ TypeOK' /\ slots' = slots /\ Running(r) /\ tx[r].step = "SETTLE"
      /\ \A s \in Returns : (Running(s)' <=> Running(s) /\ s # r) /\ (s # r => tx'[s] = tx[s])
  BY SettleEffect DEF Inv
<1>2. /\ db'.ret = [db.ret EXCEPT ![r] = Done(r)] /\ Done(r) \in ReturnRows
      /\ db.ret \in [Returns -> ReturnRows]
  BY <1>1, SettleEffect, Types
<1>3. /\ Done(r).status = "COMPLETED" /\ Done(r).qty = qty /\ Done(r).day = tx[r].row.day
      /\ qty \in Nat /\ tx[r].row.status = "DRAFT" /\ Walks(tx[r])
  BY <1>1, RunningTypes DEF Done, ReturnRows, Inv, WalkInv, Walks
<1>4. db'.ret[r] = Done(r) /\ \A s \in Returns \ {r} : db'.ret[s] = db.ret[s]
  BY <1>2
<1>5. tx[r].invoiceHeld \/ InvoiceFree
  BY DEF Settle
<1>6. Claiming(r)
  BY <1>1 DEF Inv, ClaimInv
<1>7. /\ Claims(db'.ret) = Claims(db.ret) - Claim(db.ret[r]) + qty
      /\ AllPutBack(db'.ret) = AllPutBack(db.ret) + qty /\ Claims(db.ret) \in Nat
  <2>1. /\ Claims(db'.ret) = Claims(db.ret) - Claim(db.ret[r]) + Claim(Done(r))
        /\ AllPutBack(db'.ret) = AllPutBack(db.ret) - PutBack(db.ret[r]) + PutBack(Done(r))
        /\ Claims(db.ret) \in Nat /\ AllPutBack(db.ret) \in Nat
    BY <1>2, ClaimsFollow
  <2>2. Claim(Done(r)) = qty /\ PutBack(Done(r)) = qty /\ PutBack(db.ret[r]) = 0
    BY <1>3, <1>6 DEF Claim, PutBack, Claiming
  <2> QED
    BY <1>3, <2>1, <2>2
<1>8. WalkInv'
  BY <1>1 DEF Inv, WalkInv, Walks
<1>9. ClaimInv'
  <2>1. Claims(db'.ret) <= Sold
    <3>1. CASE tx[r].invoiceHeld
      BY <1>3, <1>6, <1>7, <3>1 DEF Claiming, Claim
    <3>2. CASE ~tx[r].invoiceHeld
      BY <1>3, <1>6, <1>7, <3>2 DEF Claiming, Claim, Inv, ClaimInv
    <3> QED
      BY <3>1, <3>2
  <2>2. ASSUME NEW s \in Returns, Running(s)' PROVE Claiming(s)'
    <3>1. Running(s) /\ s # r /\ tx'[s] = tx[s] /\ db'.ret[s] = db.ret[s]
      BY <1>1, <1>4, <2>2
    <3>2. Claiming(s)
      BY <3>1 DEF Inv, ClaimInv
    <3>3. ~tx[s].invoiceHeld
      BY <1>1, <1>5, <1>6, <3>1 DEF Claiming, InvoiceFree
    <3> QED
      BY <3>1, <3>2, <3>3 DEF Claiming
  <2> QED
    BY <2>1, <2>2 DEF ClaimInv
<1>10. GoodsInv'
  <2>1. Total(tx[r].taken) = qty
    <3>1. Total(tx[r].taken) \in Nat
      BY <1>1, RunningTypes, Sums, TotalType
    <3> QED
      BY <1>1, <1>3, <3>1 DEF Walks
  <2>2. Total(db'.restored) = Total(db.restored) + Total(tx[r].taken)
    <3> DEFINE f == db.restored
               g == tx[r].taken
    <3>1. f \in [1 .. Layers -> Nat] /\ g \in [1 .. Layers -> Nat]
      BY <1>1, Types, RunningTypes
    <3>2. db'.restored = [k \in 1 .. Layers |-> f[k] + g[k]]
      BY SettleEffect
    <3> HIDE DEF f, g
    <3>3. Total([k \in 1 .. Layers |-> f[k] + g[k]]) = Total(f) + Total(g)
      BY <3>1, Sums, TotalSum
    <3> QED
      BY <3>2, <3>3 DEF f, g
  <2>3. db'.stock = db.stock + qty
    BY SettleEffect
  <2> QED
    BY <1>7, <2>1, <2>2, <2>3 DEF Inv, GoodsInv
<1>11. MoneyInv'
  <2> SUFFICES ASSUME OneByOne PROVE MoneyInv'
    BY <1>1 DEF MoneyInv, OneByOne
  <2>1. /\ tx[r].outstanding = db.outstanding /\ db.receivable = db.outstanding + db.replacement
        /\ (db.customer => db.summary = db.receivable) /\ db.outstanding >= 0
        /\ \A s \in Returns : Running(s) => s = r
    BY <1>1 DEF Inv, MoneyInv
  <2>2. /\ o \in Nat /\ c \in Nat /\ total \in Int /\ pays \in Int
        /\ tx[r].outstanding >= 0 => tx[r].outstanding - o >= 0
    BY <1>1, Split, SalesReturnAssumption DEF Settle
  <2>3. db.outstanding \in Int /\ db.summary \in Int /\ db.receivable \in Int /\ db.replacement \in Nat
    BY <1>1, Types
  <2>4. /\ db'.outstanding = tx[r].outstanding - o
        /\ db'.receivable = db.receivable - o - c + (total - pays)
        /\ db'.replacement = db.replacement + (total - c - pays)
        /\ db'.summary = (IF db.customer THEN db.summary - o + (total - c - pays) ELSE db.summary)
        /\ db'.customer = db.customer
    BY SettleEffect
  <2> HIDE DEF o, c
  <2>5. /\ db'.outstanding >= 0 /\ db'.receivable = db'.outstanding + db'.replacement
        /\ db'.customer => db'.summary = db'.receivable
    BY <2>1, <2>2, <2>3, <2>4
  <2>6. \A s \in Returns : ~Running(s)'
    BY <1>1, <2>1
  <2> QED
    BY <2>5, <2>6 DEF MoneyInv
<1>16. AllPutBack(db'.ret) <= Claims(db'.ret) /\ Claims(db'.ret) \in Nat
  BY <1>2, PutBackClaimed
<1>17. SplitInv'
  <2> SUFFICES ASSUME OneByOne PROVE SplitInv'
    BY <1>1 DEF SplitInv, OneByOne
  <2> DEFINE v == Value(r)
             worth == db.stock * Price
             worth1 == db'.stock * Price
  <2>1. /\ tx[r].outstanding = db.outstanding /\ db.outstanding >= 0
        /\ worth = (InvoiceTotal - db.paid - db.outstanding) + db.credited + db.refunded
        /\ db.outstanding > 0 => db.credited + db.refunded = 0
    BY <1>1 DEF Inv, MoneyInv, SplitInv, ValueSplit
  <2>2. /\ db.stock \in Nat /\ db'.stock \in Nat /\ db'.stock = db.stock + qty
        /\ Price \in Nat /\ DocDiscount \in Nat /\ InvoiceTotal = Sold * Price - DocDiscount
        /\ db.paid \in Nat /\ db.outstanding \in Int /\ db.credited \in Nat /\ db.refunded \in Nat
        /\ db'.credited \in Nat /\ db'.refunded \in Nat /\ Sold \in Nat
    BY <1>1, <1>3, Types, SettleEffect, Sums, SalesReturnAssumption DEF InvoiceTotal, TypeOK, Database
  <2>3. v \in Nat /\ worth \in Nat /\ worth1 = worth + v /\ Sold * Price \in Nat
    BY <1>3, <2>2 DEF Value
  <2>4. worth1 <= Sold * Price
    <3>1. db'.stock <= Sold
      <4>1. db'.stock = AllPutBack(db'.ret) /\ Claims(db'.ret) <= Sold
        BY <1>9, <1>10 DEF ClaimInv, GoodsInv
      <4> QED
        BY <1>16, <2>2, <4>1
    <3> QED
      BY <2>2, <3>1, Dearer
  <2>5. o \in Nat /\ c \in Nat /\ v - o - c \in Nat /\ total \in Nat
    BY <1>1, Split, SalesReturnAssumption DEF Settle
  <2>6. db.outstanding - o > 0 => v - o = 0 /\ c = 0
    <3>1. o = Smaller(v, Larger(0, db.outstanding))
      BY <2>1 DEF Offset
    <3>2. c = (IF tx[r].row.resolution = "REFUND" THEN 0 ELSE Smaller(v - o, total))
      BY DEF Credit
    <3> HIDE DEF v, o, c
    <3> QED
      BY <2>2, <2>3, <2>5, <3>1, <3>2 DEF Smaller, Larger
  <2>7. /\ db'.outstanding = db.outstanding - o /\ db'.paid = db.paid
        /\ db'.refunded = db.refunded + (v - o - c) /\ db'.credited = db.credited + c
    BY <2>1, SettleEffect
  <2> DEFINE whole == Sold * Price
  <2>8. whole \in Nat /\ InvoiceTotal = whole - DocDiscount /\ worth1 <= whole
    BY <2>2, <2>3, <2>4
  <2> HIDE DEF v, o, c, worth, worth1, whole
  <2>9. /\ InvoiceTotal \in Int /\ db.outstanding \in Int /\ db.paid \in Int
        /\ db.credited \in Int /\ db.refunded \in Int
    BY <2>2, <2>8
  <2>10. worth1 = (InvoiceTotal - db'.paid - db'.outstanding) + db'.credited + db'.refunded
    <3> DEFINE refund == v - o - c
    <3>1. refund \in Nat /\ v = o + c + refund
      BY <2>3, <2>5
    <3> HIDE DEF refund
    <3>2. db'.refunded = db.refunded + refund
      BY <2>7 DEF refund
    <3>3. worth1 = worth + o + c + refund
      BY <2>3, <2>5, <3>1
    <3> QED
      BY <2>1, <2>5, <2>7, <2>9, <3>1, <3>2, <3>3
  <2>11. ASSUME db'.outstanding > 0 PROVE db'.credited + db'.refunded = 0
    <3>1. c = 0 /\ v - o - c = 0
      BY <2>3, <2>5, <2>6, <2>7, <2>11
    <3>2. db.outstanding > 0
      BY <2>5, <2>7, <2>9, <2>11
    <3>3. db'.refunded = db.refunded /\ db'.credited = db.credited
      BY <2>2, <2>7, <3>1
    <3> QED
      BY <2>1, <3>2, <3>3
  <2>12. db'.credited + db'.refunded <= db'.paid + DocDiscount
    <3>1. db'.outstanding \in Int /\ db'.outstanding >= 0
      BY <1>1, <1>11, <2>5, <2>7, <2>9 DEF MoneyInv, OneByOne
    <3>2. CASE db'.outstanding > 0
      BY <2>2, <2>7, <2>11, <3>2
    <3>3. CASE db'.outstanding = 0
      <4> DEFINE given == db'.credited + db'.refunded
      <4>1. given \in Int /\ worth1 \in Int /\ db'.paid \in Int /\ DocDiscount \in Int
        BY <2>2, <2>3, <2>7
      <4>2. worth1 = (InvoiceTotal - db'.paid) + given
        BY <2>2, <2>7, <2>9, <2>10, <3>3
      <4> HIDE DEF given
      <4>3. given <= db'.paid + DocDiscount
        BY <2>8, <4>1, <4>2
      <4> QED
        BY <4>3 DEF given
    <3> QED
      BY <3>1, <3>2, <3>3
  <2> QED
    BY <2>10, <2>11, <2>12 DEF SplitInv, ValueSplit, worth1
<1>12. DayInv'
  BY <1>1 DEF Inv, DayInv
<1>13. /\ \A k \in 1 .. Layers : db'.restored[k] = db.restored[k] + tx[r].taken[k]
       /\ \A k \in 1 .. Layers : db'.restored[k] \in Nat
  <2>1. db'.restored = [k \in 1 .. Layers |-> db.restored[k] + tx[r].taken[k]]
    BY SettleEffect
  <2>2. db'.restored \in [1 .. Layers -> Nat]
    BY <1>1, Types DEF TypeOK, Database, Restored
  <2> QED
    BY <2>1, <2>2
<1>14. Timely(r) => \A k \in 1 .. Layers : db'.restored[k] <= Allocation[k]
  BY <1>1, <1>13 DEF Inv, RoomInv, HasRoom
<1>15. RoomInv'
  <2>1. ASSUME OneDay' PROVE Timely(r)
    BY <1>1, <1>3, <1>4, <2>1 DEF OneDay, OneByOne, Timely, Exists
  <2>2. ASSUME NEW s \in Returns, Running(s)', Timely(s)' PROVE HasRoom(s)'
    <3>1. Running(s) /\ s # r /\ tx'[s] = tx[s] /\ ~OneByOne
      BY <1>1, <2>2 DEF Inv, MoneyInv
    <3>2. \A q \in Returns \ {s} : Exists(q)' => db'.ret[q].day = tx[s].row.day
      BY <1>1, <2>2, <3>1 DEF Timely, OneByOne
    <3>3. tx[r].row.day = tx[s].row.day
      BY <1>3, <1>4, <3>1, <3>2 DEF Exists
    <3>4. tx[s].step = "NUMBER"
      BY <1>1, <3>1, <3>3 DEF Inv, DayInv
    <3>5. Timely(r)
      <4> SUFFICES ASSUME NEW q \in Returns \ {r}, Exists(q) PROVE db.ret[q].day = tx[r].row.day
        BY DEF Timely
      <4>1. CASE q = s
        BY <3>1, <3>3, <4>1 DEF Inv, ClaimInv, Claiming, Exists
      <4>2. CASE q # s
        BY <1>4, <3>2, <3>3, <4>2 DEF Exists
      <4> QED
        BY <4>1, <4>2
    <3>6. Walks(tx[s]) /\ tx[s].layer = 1
      BY <3>1, <3>4 DEF Inv, WalkInv, Walks
    <3>7. \A k \in 1 .. Layers : tx[s].taken[k] = 0
      BY <3>6 DEF Walks
    <3>8. \A k \in 1 .. Layers : db'.restored[k] + 0 <= Allocation[k]
      BY <1>13, <1>14, <3>5
    <3> QED
      BY <3>1, <3>4, <3>7, <3>8 DEF HasRoom
  <2> QED
    BY <1>14, <2>1, <2>2 DEF RoomInv
<1> QED
  BY <1>1, <1>8, <1>9, <1>10, <1>11, <1>12, <1>15, <1>17 DEF Inv

-----------------------------------------------------------------------------
(***************************************************************************)
(* The theorems                                                            *)
(***************************************************************************)

\* The invariant holds at the start.
LEMMA InitInv ==
  ASSUME Init
  PROVE  Inv
<1>1. PICK customer \in BOOLEAN, paid \in 0 .. InvoiceTotal, someday \in Days :
        LET owed == InvoiceTotal - paid
        IN  /\ db = [customer |-> customer, paid |-> paid, outstanding |-> owed,
                     summary |-> owed, receivable |-> owed, replacement |-> 0,
                     refunded |-> 0, credited |-> 0, restored |-> NoGoods, stock |-> 0,
                     ret |-> [r \in Returns |-> [status |-> "NONE", qty |-> 0,
                                                 resolution |-> "REFUND", day |-> someday]]]
            /\ tx = [r \in Returns |-> Idle]
  BY DEF Init
<1> DEFINE owed == InvoiceTotal - paid
           none == [status |-> "NONE", qty |-> 0, resolution |-> "REFUND", day |-> someday]
<1>2. owed \in Int /\ owed >= 0 /\ paid \in Nat
  BY Sums
<1>3. none \in ReturnRows /\ none.status = "NONE"
  BY Sums DEF ReturnRows
<1>4. /\ db = [customer |-> customer, paid |-> paid, outstanding |-> owed,
               summary |-> owed, receivable |-> owed, replacement |-> 0,
               refunded |-> 0, credited |-> 0, restored |-> NoGoods, stock |-> 0,
               ret |-> [r \in Returns |-> none]]
      /\ tx = [r \in Returns |-> Idle]
  BY <1>1
<1> HIDE DEF owed, none
<1>5. \A r \in Returns : ~Running(r)
  BY <1>4 DEF Running, Idle
<1>6. TypeOK
  <2>1. db \in Database
    BY <1>2, <1>3, <1>4, Sums DEF Database
  <2>2. slots \in 1 .. Slots
    BY DEF Init
  <2> QED
    BY <1>4, <2>1, <2>2 DEF TypeOK
<1>7. Claims(db.ret) = 0 /\ AllPutBack(db.ret) = 0
  <2> DEFINE f == [r \in Returns |-> Claim(db.ret[r])]
             g == [r \in Returns |-> PutBack(db.ret[r])]
  <2>1. \A r \in Returns : db.ret[r] = none
    BY <1>4
  <2>2. Claim(none) = 0 /\ PutBack(none) = 0
    BY <1>3 DEF Claim, PutBack
  <2>3. f \in [Returns -> Nat] /\ g \in [Returns -> Nat] /\ (\A r \in Returns : f[r] = 0) /\ (\A r \in Returns : g[r] = 0)
    BY <2>1, <2>2
  <2> HIDE DEF f, g
  <2>4. Total(f) = 0 /\ Total(g) = 0
    BY <2>3, TotalZero
  <2> QED
    BY <2>4 DEF f, g, Claims, AllPutBack
<1>8. WalkInv /\ DayInv
  BY <1>5 DEF WalkInv, DayInv
<1>9. ClaimInv
  BY <1>5, <1>7, Sums DEF ClaimInv
<1>10. GoodsInv
  BY <1>4, <1>7, Sums DEF GoodsInv
<1>11. MoneyInv /\ SplitInv
  <2>1. /\ db.stock * Price = 0 /\ db.credited = 0 /\ db.refunded = 0
        /\ db.paid \in Nat /\ DocDiscount \in Nat /\ db.outstanding = InvoiceTotal - db.paid
        /\ InvoiceTotal \in Nat
    BY <1>2, <1>4, Sums, SalesReturnAssumption DEF owed
  <2>2. ValueSplit
    BY <2>1 DEF ValueSplit
  <2> QED
    BY <1>2, <1>4, <1>5, <2>1, <2>2 DEF MoneyInv, SplitInv
<1>12. RoomInv
  <2>1. \A k \in 1 .. Layers : db.restored[k] = 0 /\ Allocation[k] \in Nat
    BY <1>4, SalesReturnAssumption DEF NoGoods
  <2> QED
    BY <1>5, <2>1 DEF RoomInv
<1> QED
  BY <1>6, <1>8, <1>9, <1>10, <1>11, <1>12 DEF Inv

\* No step disturbs the invariant.
LEMMA StepInv ==
  ASSUME Inv, [Next /\ UNCHANGED slots]_vars
  PROVE  Inv'
<1>1. CASE UNCHANGED vars
  <2>1. db' = db /\ tx' = tx /\ slots' = slots
    BY <1>1 DEF vars
  <2> QED
    BY <2>1 DEF Inv, TypeOK, WalkInv, ClaimInv, GoodsInv, MoneyInv, SplitInv, ValueSplit,
         DayInv, RoomInv, Running, Walks,
         Claiming, OneByOne, OneDay, Exists, Timely, HasRoom
<1>2. ASSUME NEW a \in 1 .. InvoiceTotal, ReceivePayment(a), UNCHANGED slots PROVE Inv'
  BY <1>2, ReceivePaymentKeeps
<1>3. ASSUME NEW r \in Returns, NEW n \in 1 .. Sold, NEW resolution \in {"REFUND", "REPLACEMENT"},
             NEW day \in Days, UNCHANGED slots,
             CreateDraft(r, n, resolution, day) \/ CreateCompleted(r, n, resolution, day)
      PROVE  Inv'
  BY <1>3, CreateDraftKeeps, CreateCompletedKeeps
<1>4. ASSUME NEW r \in Returns, UNCHANGED slots,
             \/ Complete(r) \/ TakeNumber(r) \/ LookAtLayer(r) \/ TakeLayer(r)
             \/ FinishLayers(r) \/ Rollback(r)
      PROVE  Inv'
  BY <1>4, CompleteKeeps, TakeNumberKeeps, LookAtLayerKeeps, TakeLayerKeeps, FinishLayersKeeps, RollbackKeeps
<1>5. ASSUME NEW r \in Returns, NEW total \in 0 .. MaxReplacement, NEW pays \in 0 .. MaxReplacement,
             UNCHANGED slots, Settle(r, total, pays)
      PROVE  Inv'
  BY <1>5, SettleKeeps
<1> QED
  BY <1>1, <1>2, <1>3, <1>4, <1>5 DEF Next

\* The strengthening the theorems follow from, for every number of returns,
\* every allocation and every number of requests at once.
THEOREM ReturnInvariant == Spec => []Inv
<1>1. Init => Inv
  BY InitInv
<1>2. Inv /\ [Next /\ UNCHANGED slots]_vars => Inv'
  BY StepInv
<1> QED
  BY <1>1, <1>2, PTL DEF Spec

\* Returns, drafts included, never claim more than was sold, however their
\* creation and completion overlap.
THEOREM ReturnsStayWithinSold == Spec => []ReturnsWithinSold
<1>1. Inv => ReturnsWithinSold
  BY ReturnedIsClaims DEF Inv, ClaimInv, ReturnsWithinSold
<1> QED
  BY <1>1, ReturnInvariant, PTL

\* What completed returns say came back is what is in stock and in the FIFO
\* layers, however completions overlap, fail and are retried.
THEOREM GoodsAreRestoredOnce == Spec => []GoodsRestoredOnce
<1>1. Inv => GoodsRestoredOnce
  BY DEF Inv, GoodsInv, GoodsRestoredOnce, AllPutBack, PutBack
<1> QED
  BY <1>1, ReturnInvariant, PTL

\* Rows keep their types, and what is receivable is one amount in the invoice, the
\* summary and account 1201 after requests that came one by one.
THEOREM SettlementsReconcile == Spec => []SettlementReconciles
<1>1. Inv => SettlementReconciles
  BY DEF Inv, MoneyInv, SplitInv, SettlementReconciles
<1> QED
  BY <1>1, ReturnInvariant, PTL

\* No layer gets back more than the sale took of it, if the returns come one by one
\* or bear one date: the lock on the numbers of the day stands in for one on the layer.
THEOREM SameDayStaysWithinAllocation == Spec => []SameDayWithinAllocation
<1>1. Inv => SameDayWithinAllocation
  BY DEF Inv, RoomInv, OneDay, SameDayWithinAllocation
<1> QED
  BY <1>1, ReturnInvariant, PTL
=============================================================================
