--------------------------- MODULE DocumentProofs ---------------------------
(***************************************************************************)
(* Theorems about stock adjustments and stock opname, about opening         *)
(* balances, and about the sales form, for all values of their constants.   *)
(*                                                                          *)
(* Of a stock document little need be known: whatever was read of it, and   *)
(* however old that is, a posting is checked against the stock as it is.    *)
(* The invariant of StockDocuments is about the stock alone, and about how  *)
(* often a count was posted.                                                *)
(***************************************************************************)
EXTENDS StockDocuments, OpeningBalance, SalesForm, FiniteSetTheorems, TLAPS

-----------------------------------------------------------------------------
(***************************************************************************)
(* Posting                                                                 *)
(***************************************************************************)

\* Physical stock is bounded, and divided into what is available, drafted and packed.
Covered(s) == s.available + s.drafted + s.packed = s.actual /\ s.actual <= MaxStock

StockSound == stock \in [Products -> StockRows] /\ \A p \in Products : Covered(stock[p])

\* Signed quantities of some products.
Movement(lines) == DOMAIN lines \subseteq Products /\ \A p \in DOMAIN lines : lines[p] \in Int

\* A posting that was checked leaves physical and available stock natural, and what
\* is drafted and packed as it was.
LEMMA PostingSound ==
  ASSUME StockSound, NEW lines, Movement(lines), CanPost(lines) \/ ~Worthwhile(lines),
         stock' = Posted(lines)
  PROVE  /\ StockSound'
         /\ \A p \in DOMAIN lines : /\ stock'[p].actual = stock[p].actual + lines[p]
                                    /\ stock'[p].packed = stock[p].packed
<1> USE StockDocumentsAssumption
<1>1. ASSUME NEW p \in Products, p \in DOMAIN lines
      PROVE  /\ stock'[p] \in StockRows /\ Covered(stock'[p])
             /\ stock'[p].actual = stock[p].actual + lines[p]
             /\ stock'[p].packed = stock[p].packed
  <2>1. stock[p] \in StockRows /\ Covered(stock[p]) /\ lines[p] \in Int
    BY <1>1 DEF StockSound, Movement
  <2>2. /\ stock[p].actual + lines[p] \in 0 .. MaxStock
        /\ lines[p] < 0 => stock[p].available + lines[p] >= 0
    BY <1>1, <2>1 DEF CanPost, Worthwhile, StockRows, Covered
  <2>3. stock'[p] = [stock[p] EXCEPT !.actual    = @ + lines[p],
                                     !.available = @ + lines[p]]
    BY <1>1 DEF Posted
  <2>4. /\ stock'[p].actual = stock[p].actual + lines[p]
        /\ stock'[p].available = stock[p].available + lines[p]
        /\ stock'[p].packed = stock[p].packed
        /\ stock'[p].drafted = stock[p].drafted
    BY <2>1, <2>3 DEF StockRows
  <2>5. stock'[p].available \in Nat
    BY <2>1, <2>2, <2>4 DEF StockRows, Covered
  <2>6. stock'[p] \in StockRows
    <3>1. stock[p].actual + lines[p] \in Nat /\ stock[p].available + lines[p] \in Nat
      BY <2>1, <2>2, <2>4, <2>5 DEF StockRows
    <3>2. QED BY <2>1, <2>3, <3>1 DEF StockRows
  <2>7. QED BY <2>1, <2>2, <2>4, <2>6 DEF StockRows, Covered
<1>2. ASSUME NEW p \in Products, p \notin DOMAIN lines
      PROVE  stock'[p] \in StockRows /\ Covered(stock'[p])
  <2>1. stock'[p] = stock[p] BY <1>2 DEF Posted
  <2>2. QED BY <2>1, <1>2 DEF StockSound
<1>3. stock' = [p \in Products |-> stock'[p]] BY DEF Posted
<1>4. DOMAIN lines \subseteq Products BY DEF Movement
<1>5. QED BY <1>1, <1>2, <1>3, <1>4 DEF StockSound

\* Adjustment lines are signed quantities.
LEMMA ChangesMove == \A lines \in Changes : Movement(lines)
BY StockDocumentsAssumption DEF Changes, Movement

\* A row of an opname whose snapshot holds is that of the products it counts, and its
\* variance turns the physical stock into what was counted and what is packed.
LEMMA VarianceMoves ==
  ASSUME StockSound, NEW row \in OpnameRows, SnapshotHolds(row)
  PROVE  /\ Movement(Variance(row))
         /\ DOMAIN Variance(row) = DOMAIN row.counted
         /\ DOMAIN row.counted \subseteq Products
         /\ \A p \in DOMAIN row.counted :
              /\ row.counted[p] \in 0 .. MaxStock
              /\ stock[p].actual + Variance(row)[p] = row.counted[p] + stock[p].packed
<1> USE StockDocumentsAssumption
<1>1. PICK S \in SUBSET Products : row.counted \in [S -> 0 .. MaxStock]
  BY DEF OpnameRows, Counts
<1>2. DOMAIN Variance(row) = S /\ DOMAIN row.counted = S BY <1>1 DEF Variance
<1>3. ASSUME NEW p \in S
      PROVE  /\ row.counted[p] \in 0 .. MaxStock
             /\ Variance(row)[p] = row.counted[p] + stock[p].packed - stock[p].actual
             /\ stock[p].packed \in Nat /\ stock[p].actual \in Nat
  <2>1. row.system[p] = stock[p].actual /\ row.packed[p] = stock[p].packed
    BY <1>1, <1>3 DEF SnapshotHolds, Actual, Packed
  <2>2. stock[p] \in StockRows BY <1>3 DEF StockSound
  <2>3. Variance(row)[p] = row.counted[p] + row.packed[p] - row.system[p]
    BY <1>1, <1>3 DEF Variance
  <2>4. QED BY <1>1, <1>3, <2>1, <2>2, <2>3 DEF StockRows
<1>4. QED BY <1>2, <1>3 DEF Movement

-----------------------------------------------------------------------------
(***************************************************************************)
(* Type correctness, the promises, and one posting for each count          *)
(***************************************************************************)

\* The inductive invariant.
StockInv ==
  /\ StockSound
  /\ adjustment \in [Adjustments -> AdjustmentRows]
  /\ opname \in [Opnames -> OpnameRows]
  /\ tx \in [Workers -> {Idle} \cup Busy]
  /\ OpnamePostedOnce

\* What a snapshot reads is a count.
LEMMA SnapshotsCount ==
  ASSUME StockSound, NEW S \in SUBSET Products
  PROVE  Actual(S) \in Counts /\ Packed(S) \in Counts
<1> USE StockDocumentsAssumption
<1>1. \A p \in S : stock[p].actual \in 0 .. MaxStock /\ stock[p].packed \in 0 .. MaxStock
  BY DEF StockSound, StockRows, Covered
<1>2. Actual(S) \in [S -> 0 .. MaxStock] /\ Packed(S) \in [S -> 0 .. MaxStock]
  BY <1>1 DEF Actual, Packed
<1>3. QED BY <1>2 DEF Counts

\* Nothing is counted in the beginning.
LEMMA UncountedRow == Uncounted \in OpnameRows
<1> USE StockDocumentsAssumption
<1>1. NoCount \in [{} -> 0 .. MaxStock] BY DEF NoCount
<1>2. NoCount \in Counts BY <1>1 DEF Counts
<1>3. QED BY <1>2 DEF Uncounted, OpnameRows, Statuses

\* The invariant of stock documents holds at the start.
LEMMA StockInit == Init => StockInv
<1> SUFFICES ASSUME Init PROVE StockInv OBVIOUS
<1> USE StockDocumentsAssumption
<1>1. StockSound BY DEF Init, StockSound, StockRows, Covered
<1>2. adjustment \in [Adjustments -> AdjustmentRows]
  BY DEF Init, AdjustmentRows, Statuses, Changes
<1>3. opname \in [Opnames -> OpnameRows] BY UncountedRow DEF Init
<1>4. OpnamePostedOnce BY DEF Init, OpnamePostedOnce, Uncounted
<1>5. QED BY <1>1, <1>2, <1>3, <1>4 DEF Init, StockInv

\* What a running transaction has read.
LEMMA BusyRows ==
  ASSUME StockInv, NEW w \in Workers
  PROVE  /\ tx[w].step = "ADJUSTMENT" => tx[w].doc \in Adjustments /\ tx[w].row \in AdjustmentRows
         /\ tx[w].step \in {"OPNAME", "COUNT"} => tx[w].doc \in Opnames /\ tx[w].row \in OpnameRows
BY DEF StockInv, Busy, Idle

\* Approving a count whose snapshot holds.
LEMMA ApprovalSound ==
  ASSUME StockInv, NEW o \in Opnames, NEW row \in OpnameRows, CanApprove(o, row),
         stock' = Posted(Variance(row))
  PROVE  /\ StockSound'
         /\ opname[o].posted + PostedBy(row) \in {0, 1}
         /\ \A p \in DOMAIN row.counted : stock'[p].actual = row.counted[p] + stock'[p].packed
<1>1. StockSound /\ SnapshotHolds(row) BY DEF StockInv, CanApprove
<1>2. CanPost(Variance(row)) \/ ~Worthwhile(Variance(row)) BY DEF CanApprove
<1>3. /\ Movement(Variance(row))
      /\ DOMAIN Variance(row) = DOMAIN row.counted
      /\ DOMAIN row.counted \subseteq Products
      /\ \A p \in DOMAIN row.counted :
           stock[p].actual + Variance(row)[p] = row.counted[p] + stock[p].packed
  BY <1>1, VarianceMoves
<1>4. /\ StockSound'
      /\ \A p \in DOMAIN Variance(row) : /\ stock'[p].actual = stock[p].actual + Variance(row)[p]
                                         /\ stock'[p].packed = stock[p].packed
  BY <1>1, <1>2, <1>3, PostingSound
<1>5. opname[o].posted + PostedBy(row) \in {0, 1}
  <2>1. opname[o].posted \in {0, 1}
    BY DEF StockInv, OpnamePostedOnce, OpnameRows
  <2>2. Worthwhile(Variance(row)) => opname[o].posted = 0 BY DEF CanApprove, Unposted
  <2>3. QED BY <2>1, <2>2 DEF PostedBy
<1>6. QED BY <1>3, <1>4, <1>5

-----------------------------------------------------------------------------
(***************************************************************************)
(* Every step                                                              *)
(***************************************************************************)

\* A step on the adjustments posts lines that are checked, or nothing.
LEMMA AdjustmentSteps ==
  ASSUME StockInv,
         \/ \E a \in Adjustments, lines \in Changes, approve \in BOOLEAN :
               CreateAdjustment(a, lines, approve)
         \/ \E w \in Workers : \/ \E a \in Adjustments : ReadAdjustment(w, a)
                               \/ ApproveAdjustment(w)
                               \/ \E lines \in Changes, approve \in BOOLEAN :
                                     EditAdjustment(w, lines, approve)
                               \/ CancelAdjustment(w)
  PROVE  StockInv' /\ opname' = opname
<1> USE StockDocumentsAssumption
<1>0. StockSound /\ adjustment \in [Adjustments -> AdjustmentRows]
      /\ tx \in [Workers -> {Idle} \cup Busy]
  BY DEF StockInv
<1>a. ASSUME StockSound', adjustment' \in [Adjustments -> AdjustmentRows],
             tx' \in [Workers -> {Idle} \cup Busy], opname' = opname
      PROVE  StockInv' /\ opname' = opname
  BY <1>a DEF StockInv, OpnamePostedOnce
<1>b. ASSUME stock' = stock PROVE StockSound'
  BY <1>0, <1>b DEF StockSound
<1>c. ASSUME NEW lines \in Changes, CanPost(lines), stock' = Posted(lines)
      PROVE  StockSound'
  BY <1>0, <1>c, ChangesMove, PostingSound
<1>1. ASSUME NEW a \in Adjustments, NEW lines \in Changes, NEW approve \in BOOLEAN,
             CreateAdjustment(a, lines, approve)
      PROVE  StockInv' /\ opname' = opname
  <2>1. StockSound'
    BY <1>1, <1>b, <1>c DEF CreateAdjustment
  <2>2. adjustment' \in [Adjustments -> AdjustmentRows]
    BY <1>0, <1>1 DEF CreateAdjustment, AdjustmentRows, Statuses
  <2>3. QED BY <1>0, <1>1, <1>a, <2>1, <2>2 DEF CreateAdjustment
<1>2. ASSUME NEW w \in Workers, NEW a \in Adjustments, ReadAdjustment(w, a)
      PROVE  StockInv' /\ opname' = opname
  <2>1. [step |-> "ADJUSTMENT", doc |-> a, row |-> adjustment[a]] \in Busy
    BY <1>0, <1>2 DEF Busy
  <2>2. QED BY <1>0, <1>2, <1>a, <1>b, <2>1 DEF ReadAdjustment
<1>3. ASSUME NEW w \in Workers, ApproveAdjustment(w)
      PROVE  StockInv' /\ opname' = opname
  <2>1. tx[w].doc \in Adjustments /\ tx[w].row \in AdjustmentRows
    BY <1>3, BusyRows DEF ApproveAdjustment
  <2>2. StockSound'
    BY <1>3, <1>c, <2>1 DEF ApproveAdjustment, AdjustmentRows
  <2>3. adjustment' \in [Adjustments -> AdjustmentRows]
    BY <1>0, <1>3, <2>1 DEF ApproveAdjustment, AdjustmentRows, Statuses
  <2>4. QED BY <1>0, <1>3, <1>a, <2>2, <2>3 DEF ApproveAdjustment
<1>4. ASSUME NEW w \in Workers, NEW lines \in Changes, NEW approve \in BOOLEAN,
             EditAdjustment(w, lines, approve)
      PROVE  StockInv' /\ opname' = opname
  <2> DEFINE a   == tx[w].doc
             row == [adjustment[a] EXCEPT !.lines  = lines,
                                          !.rev    = @ + 1,
                                          !.status = IF approve THEN "APPROVED" ELSE @,
                                          !.posted = IF approve THEN @ + 1 ELSE @]
  <2>1. a \in Adjustments BY <1>4, BusyRows DEF EditAdjustment
  <2>2. StockSound' BY <1>4, <1>b, <1>c DEF EditAdjustment
  <2>3. adjustment' \in [Adjustments -> AdjustmentRows]
    <3>1. row \in AdjustmentRows
      <4>1. adjustment[a] \in AdjustmentRows /\ adjustment[a].rev < MaxEdits
        BY <1>0, <1>4, <2>1 DEF EditAdjustment
      <4> HIDE DEF a
      <4>2. adjustment[a].rev + 1 \in 0 .. MaxEdits BY <4>1 DEF AdjustmentRows
      <4>3. (IF approve THEN adjustment[a].posted + 1 ELSE adjustment[a].posted) \in Nat
        BY <4>1 DEF AdjustmentRows
      <4>4. QED BY <4>1, <4>2, <4>3 DEF AdjustmentRows, Statuses
    <3>2. adjustment' = [adjustment EXCEPT ![a] = row]
      BY <1>4 DEF EditAdjustment
    <3> HIDE DEF row, a
    <3>3. QED BY <1>0, <2>1, <3>1, <3>2
  <2>4. QED BY <1>0, <1>4, <1>a, <2>2, <2>3 DEF EditAdjustment
<1>5. ASSUME NEW w \in Workers, CancelAdjustment(w)
      PROVE  StockInv' /\ opname' = opname
  <2>1. tx[w].doc \in Adjustments BY <1>5, BusyRows DEF CancelAdjustment
  <2>2. adjustment' \in [Adjustments -> AdjustmentRows]
    BY <1>0, <1>5, <2>1 DEF CancelAdjustment, AdjustmentRows, Statuses
  <2>3. QED BY <1>0, <1>5, <1>a, <1>b, <2>2 DEF CancelAdjustment
<1>6. QED BY <1>1, <1>2, <1>3, <1>4, <1>5

\* What saving a count approves, and what is left of it.
LEMMA SavedCount ==
  ASSUME StockInv, NEW w \in Workers, NEW S \in Listings, NEW counted \in [S -> 0 .. MaxStock],
         NEW approve \in BOOLEAN, SaveOpname(w, counted, approve)
  PROVE  /\ StockInv'
         /\ tx[w].doc \in Opnames
         /\ opname'[tx[w].doc].counted = counted
         /\ opname'[tx[w].doc].posted > opname[tx[w].doc].posted =>
              \A p \in DOMAIN counted : stock'[p].actual = counted[p] + stock'[p].packed
<1> USE StockDocumentsAssumption
<1> DEFINE o   == tx[w].doc
           new == opname[o].status = "NONE"
           row == [opname[o] EXCEPT !.status  = IF new THEN "DRAFT" ELSE @,
                                    !.rev     = IF new THEN 0 ELSE @ + 1,
                                    !.counted = counted,
                                    !.system  = tx[w].row.system,
                                    !.packed  = tx[w].row.packed]
           kept == IF approve THEN [row EXCEPT !.status = "APPROVED",
                                               !.posted = @ + PostedBy(row)]
                              ELSE row
<1>1. o \in Opnames /\ tx[w].row \in OpnameRows BY BusyRows DEF SaveOpname
<1>2. opname[o] \in OpnameRows /\ opname \in [Opnames -> OpnameRows] /\ StockSound
  BY <1>1 DEF StockInv
<1>3. counted \in Counts BY DEF Listings, Counts
<1>4. /\ new \/ opname[o].rev < MaxEdits
      /\ approve => CanApprove(o, row)
      /\ stock' = IF approve THEN Posted(Variance(row)) ELSE stock
      /\ opname' = [opname EXCEPT ![o] = kept]
      /\ tx' = [tx EXCEPT ![w] = Idle] /\ adjustment' = adjustment
  BY DEF SaveOpname
<1>5. row \in OpnameRows /\ row.posted = opname[o].posted /\ row.counted = counted
  <2>1. (IF new THEN 0 ELSE opname[o].rev + 1) \in 0 .. MaxEdits
    BY <1>2, <1>4 DEF OpnameRows
  <2>2. QED BY <1>1, <1>2, <1>3, <2>1 DEF OpnameRows, Statuses
<1>6. approve => /\ StockSound'
                 /\ opname[o].posted + PostedBy(row) \in {0, 1}
                 /\ \A p \in DOMAIN counted : stock'[p].actual = counted[p] + stock'[p].packed
  <2>1. ASSUME approve
        PROVE  /\ StockSound'
               /\ opname[o].posted + PostedBy(row) \in {0, 1}
               /\ \A p \in DOMAIN row.counted : stock'[p].actual = row.counted[p] + stock'[p].packed
    <3>1. CanApprove(o, row) /\ stock' = Posted(Variance(row)) BY <1>4, <2>1
    <3> HIDE DEF row, o
    <3>2. QED BY <1>1, <1>5, <3>1, ApprovalSound
  <2>2. QED BY <2>1, <1>5
<1>7. ~approve => StockSound' BY <1>2, <1>4 DEF StockSound
<1>8. /\ kept \in OpnameRows /\ kept.counted = counted
      /\ kept.posted <= 1
      /\ ~approve => kept.posted = opname[o].posted
  <2>1. opname[o].posted <= 1 /\ opname[o].posted \in Nat
    BY <1>1, <1>2 DEF StockInv, OpnamePostedOnce, OpnameRows
  <2>2. CASE ~approve
    <3> HIDE DEF row
    <3>1. QED BY <1>5, <2>1, <2>2
  <2>3. CASE approve
    <3> HIDE DEF row
    <3>1. kept = [row EXCEPT !.status = "APPROVED", !.posted = @ + PostedBy(row)] BY <2>3
    <3>2. row.posted + PostedBy(row) \in {0, 1} BY <1>5, <1>6, <2>3
    <3>3. row.posted + PostedBy(row) \in Nat /\ row.posted + PostedBy(row) <= 1 BY <3>2
    <3>4. kept.posted = row.posted + PostedBy(row) /\ kept.counted = row.counted
      BY <1>5, <3>1 DEF OpnameRows
    <3>5. kept \in OpnameRows BY <1>5, <3>1, <3>3 DEF OpnameRows, Statuses
    <3>6. QED BY <1>5, <2>3, <3>3, <3>4, <3>5
  <2>4. QED BY <2>2, <2>3
<1> HIDE DEF kept, row, new, o
<1>9. opname' \in [Opnames -> OpnameRows] /\ opname'[o] = kept BY <1>1, <1>2, <1>4, <1>8
<1>10. OpnamePostedOnce'
  BY <1>1, <1>2, <1>4, <1>8, <1>9 DEF StockInv, OpnamePostedOnce
<1>11. StockInv'
  BY <1>4, <1>6, <1>7, <1>9, <1>10 DEF StockInv
<1>12. kept.posted > opname[o].posted => approve
  BY <1>8, <1>1, <1>2 DEF OpnameRows
<1>13. QED BY <1>1, <1>6, <1>8, <1>9, <1>11, <1>12 DEF o

\* Approval of the details that were read.
LEMMA ApprovedCount ==
  ASSUME StockInv, NEW w \in Workers, ApproveOpname(w)
  PROVE  /\ StockInv'
         /\ \A p \in DOMAIN tx[w].row.counted :
              stock'[p].actual = tx[w].row.counted[p] + stock'[p].packed
<1> DEFINE o == tx[w].doc  row == tx[w].row
<1>1. o \in Opnames /\ row \in OpnameRows BY BusyRows DEF ApproveOpname
<1>2. CanApprove(o, row) /\ stock' = Posted(Variance(row)) BY DEF ApproveOpname
<1>3. /\ StockSound'
      /\ opname[o].posted + PostedBy(row) \in {0, 1}
      /\ \A p \in DOMAIN row.counted : stock'[p].actual = row.counted[p] + stock'[p].packed
  <2> HIDE DEF o, row
  <2>1. QED BY <1>1, <1>2, ApprovalSound
<1>4. opname' = [opname EXCEPT ![o].status = "APPROVED", ![o].posted = @ + PostedBy(row)]
  BY DEF ApproveOpname
<1>5. opname \in [Opnames -> OpnameRows] BY DEF StockInv
<1>6. opname' \in [Opnames -> OpnameRows] /\ OpnamePostedOnce'
  <2> HIDE DEF o, row
  <2>1. opname' = [opname EXCEPT ![o] = [opname[o] EXCEPT !.status = "APPROVED",
                                                          !.posted = @ + PostedBy(row)]]
    BY <1>4
  <2>2. /\ [opname[o] EXCEPT !.status = "APPROVED", !.posted = @ + PostedBy(row)] \in OpnameRows
        /\ [opname[o] EXCEPT !.status = "APPROVED", !.posted = @ + PostedBy(row)].posted <= 1
    <3>1. opname[o] \in OpnameRows BY <1>1, <1>5
    <3>2. opname[o].posted + PostedBy(row) \in Nat /\ opname[o].posted + PostedBy(row) <= 1
      BY <1>3
    <3>3. QED BY <3>1, <3>2 DEF OpnameRows, Statuses
  <2>3. QED BY <1>1, <1>5, <2>1, <2>2 DEF StockInv, OpnamePostedOnce
<1>7. QED BY <1>3, <1>6 DEF ApproveOpname, StockInv

\* Reading, refreshing, cancelling and giving up post nothing.
LEMMA QuietSteps ==
  ASSUME StockInv, NEW w \in Workers,
         \/ \E o \in Opnames : ReadOpname(w, o) \/ \E S \in Listings : ReadStock(w, o, S)
         \/ RefreshOpname(w) \/ CancelOpname(w) \/ Rollback(w)
  PROVE  StockInv' /\ \A o \in Opnames : opname'[o].posted = opname[o].posted
<1> USE StockDocumentsAssumption
<1>0. StockSound /\ opname \in [Opnames -> OpnameRows] /\ tx \in [Workers -> {Idle} \cup Busy]
  BY DEF StockInv
<1>a. ASSUME stock' = stock, adjustment' = adjustment, opname' \in [Opnames -> OpnameRows],
             \A o \in Opnames : opname'[o].posted = opname[o].posted,
             tx' \in [Workers -> {Idle} \cup Busy]
      PROVE  StockInv'
  BY <1>a DEF StockInv, StockSound, OpnamePostedOnce
<1>1. ASSUME NEW o \in Opnames, ReadOpname(w, o)
      PROVE  StockInv' /\ opname' = opname
  <2>1. [step |-> "OPNAME", doc |-> o, row |-> opname[o]] \in Busy BY <1>0 DEF Busy
  <2>2. QED BY <1>0, <1>1, <1>a, <2>1 DEF ReadOpname
<1>2. ASSUME NEW o \in Opnames, NEW S \in Listings, ReadStock(w, o, S)
      PROVE  StockInv' /\ opname' = opname
  <2> DEFINE row == [Uncounted EXCEPT !.counted = [p \in S |-> 0],
                                      !.system  = Actual(S), !.packed  = Packed(S)]
  <2>1. S \in SUBSET Products BY DEF Listings
  <2>2. [p \in S |-> 0] \in Counts
    <3>1. [p \in S |-> 0] \in [S -> 0 .. MaxStock] OBVIOUS
    <3>2. QED BY <2>1, <3>1 DEF Counts
  <2>3. row \in OpnameRows
    BY <1>0, <2>1, <2>2, SnapshotsCount, UncountedRow DEF OpnameRows
  <2>4. [step |-> "COUNT", doc |-> o, row |-> row] \in Busy BY <2>3 DEF Busy
  <2>5. tx' = [tx EXCEPT ![w] = [step |-> "COUNT", doc |-> o, row |-> row]]
    BY <1>2 DEF ReadStock
  <2> HIDE DEF row
  <2>6. QED BY <1>0, <1>2, <1>a, <2>4, <2>5 DEF ReadStock
<1>3. ASSUME RefreshOpname(w)
      PROVE  StockInv' /\ \A o \in Opnames : opname'[o].posted = opname[o].posted
  <2> DEFINE o == tx[w].doc  S == DOMAIN tx[w].row.counted
  <2>1. o \in Opnames /\ tx[w].row \in OpnameRows BY <1>3, BusyRows DEF RefreshOpname
  <2>2. S \in SUBSET Products BY <2>1 DEF OpnameRows, Counts
  <2>3. Actual(S) \in Counts /\ Packed(S) \in Counts BY <1>0, <2>2, SnapshotsCount
  <2>4. opname' = [opname EXCEPT ![o].system = Actual(S), ![o].packed = Packed(S)]
    BY <1>3 DEF RefreshOpname
  <2> HIDE DEF o, S
  <2>5. /\ opname' \in [Opnames -> OpnameRows]
        /\ \A x \in Opnames : opname'[x].posted = opname[x].posted
    BY <1>0, <2>1, <2>3, <2>4 DEF OpnameRows
  <2>6. QED BY <1>0, <1>3, <1>a, <2>5 DEF RefreshOpname
<1>4. ASSUME CancelOpname(w)
      PROVE  StockInv' /\ \A o \in Opnames : opname'[o].posted = opname[o].posted
  <2>1. tx[w].doc \in Opnames BY <1>4, BusyRows DEF CancelOpname
  <2>2. /\ opname' \in [Opnames -> OpnameRows]
        /\ \A x \in Opnames : opname'[x].posted = opname[x].posted
    BY <1>0, <1>4, <2>1 DEF CancelOpname, OpnameRows, Statuses
  <2>3. QED BY <1>0, <1>4, <1>a, <2>2 DEF CancelOpname
<1>5. ASSUME Rollback(w) PROVE StockInv' /\ opname' = opname
  BY <1>0, <1>5, <1>a DEF Rollback
<1>6. QED BY <1>1, <1>2, <1>3, <1>4, <1>5

\* What else moves stock keeps it sound.
LEMMA OtherSteps ==
  ASSUME StockInv,
         \E p \in Products : Purchase(p) \/ Reserve(p) \/ Release(p) \/ Pack(p) \/ Deliver(p)
  PROVE  StockInv' /\ opname' = opname
<1> USE StockDocumentsAssumption
<1>1. PICK p \in Products : Purchase(p) \/ Reserve(p) \/ Release(p) \/ Pack(p) \/ Deliver(p)
  OBVIOUS
<1>2. stock \in [Products -> StockRows] /\ \A q \in Products : Covered(stock[q])
  BY DEF StockInv, StockSound
<1>3. /\ stock' = [stock EXCEPT ![p] = stock'[p]]
      /\ stock'[p] \in StockRows /\ Covered(stock'[p])
  BY <1>1, <1>2 DEF Purchase, Reserve, Release, Pack, Deliver, StockRows, Covered
<1>4. StockSound' BY <1>2, <1>3 DEF StockSound
<1>5. UNCHANGED <<adjustment, opname, tx>>
  BY <1>1 DEF Purchase, Reserve, Release, Pack, Deliver
<1>6. QED BY <1>4, <1>5 DEF StockInv, OpnamePostedOnce

\* No step of adjustments and counts disturbs it.
LEMMA StockNext == StockInv /\ [Next]_vars => StockInv'
<1> SUFFICES ASSUME StockInv, [Next]_vars PROVE StockInv' OBVIOUS
<1>1. CASE UNCHANGED vars
  BY <1>1 DEF vars, StockInv, StockSound, OpnamePostedOnce
<1>2. CASE Next
  BY <1>2, AdjustmentSteps, SavedCount, ApprovedCount, QuietSteps, OtherSteps DEF Next
<1>3. QED BY <1>1, <1>2

\* The inductive invariant of stock documents.
LEMMA StockInvariant == Spec => []StockInv
BY StockInit, StockNext, PTL DEF Spec

\* No adjustment, count, reservation or delivery takes a stock below zero or below what
\* is promised, in whatever order requests read and post.
THEOREM StockAlwaysCovers == Spec => []StockCoversPromises
<1>1. StockInv => StockCoversPromises
  BY DEF StockInv, StockSound, Covered, StockCoversPromises, TypeOK
<1>2. QED BY <1>1, StockInvariant, PTL

\* A count is posted once, whatever races its approvals run.
THEOREM CountsPostedOnce == Spec => []OpnamePostedOnce
<1>1. StockInv => OpnamePostedOnce BY DEF StockInv
<1>2. QED BY <1>1, StockInvariant, PTL

\* A posting leaves the goods that were counted and those in packages.
THEOREM CountsLeaveCount == Spec => OpnameLeavesCount
<1> DEFINE Counted(w) == IF tx[w].step = "OPNAME" THEN tx[w].row.counted
                                                  ELSE opname'[tx[w].doc].counted
<1>1. ASSUME StockInv, [Next]_vars, NEW w \in Workers, tx[w].step \in {"OPNAME", "COUNT"},
             opname'[tx[w].doc].posted > opname[tx[w].doc].posted, tx'[w] = Idle
      PROVE  \A p \in DOMAIN Counted(w) : stock'[p].actual = Counted(w)[p] + stock'[p].packed
  <2>0. tx[w].doc \in Opnames /\ opname[tx[w].doc].posted \in Nat
    BY <1>1, BusyRows DEF StockInv, OpnameRows
  <2>a. ~ (opname'[tx[w].doc].posted = opname[tx[w].doc].posted) BY <1>1, <2>0
  <2>1. CASE UNCHANGED vars BY <2>1, <2>a DEF vars
  <2>2. CASE Next
    <3>1. CASE \/ \E a \in Adjustments, lines \in Changes, approve \in BOOLEAN :
                     CreateAdjustment(a, lines, approve)
               \/ \E v \in Workers : \/ \E a \in Adjustments : ReadAdjustment(v, a)
                                     \/ ApproveAdjustment(v)
                                     \/ \E lines \in Changes, approve \in BOOLEAN :
                                           EditAdjustment(v, lines, approve)
                                     \/ CancelAdjustment(v)
      BY <1>1, <3>1, <2>a, AdjustmentSteps
    <3>2. CASE \E v \in Workers :
                 \/ \E o \in Opnames : ReadOpname(v, o) \/ \E S \in Listings : ReadStock(v, o, S)
                 \/ RefreshOpname(v) \/ CancelOpname(v) \/ Rollback(v)
      BY <1>1, <3>2, <2>0, <2>a, QuietSteps
    <3>3. CASE \E p \in Products : Purchase(p) \/ Reserve(p) \/ Release(p) \/ Pack(p) \/ Deliver(p)
      BY <1>1, <3>3, <2>a, OtherSteps
    <3>4. ASSUME NEW v \in Workers, NEW approve \in BOOLEAN, NEW S \in Listings,
                 NEW counted \in [S -> 0 .. MaxStock], SaveOpname(v, counted, approve)
          PROVE  \A p \in DOMAIN Counted(w) : stock'[p].actual = Counted(w)[p] + stock'[p].packed
      <4>1. v = w
        BY <1>1, <3>4 DEF SaveOpname, StockInv, Idle
      <4>2. tx[w].step = "COUNT" BY <3>4, <4>1 DEF SaveOpname
      <4>3. Counted(w) = counted BY <1>1, <3>4, <4>1, <4>2, SavedCount
      <4>4. \A p \in DOMAIN counted : stock'[p].actual = counted[p] + stock'[p].packed
        BY <1>1, <3>4, <4>1, SavedCount
      <4>5. QED BY <4>3, <4>4
    <3>5. ASSUME NEW v \in Workers, ApproveOpname(v)
          PROVE  \A p \in DOMAIN Counted(w) : stock'[p].actual = Counted(w)[p] + stock'[p].packed
      <4>1. v = w
        BY <1>1, <3>5 DEF ApproveOpname, StockInv, Idle
      <4>2. QED BY <1>1, <3>5, <4>1, ApprovedCount DEF ApproveOpname
    <3>6. QED BY <2>2, <3>1, <3>2, <3>3, <3>4, <3>5 DEF Next
  <2>3. QED BY <1>1, <2>1, <2>2
<1>2. StockInv /\ [Next]_vars =>
        [\A w \in Workers :
           (/\ tx[w].step \in {"OPNAME", "COUNT"}
            /\ opname'[tx[w].doc].posted > opname[tx[w].doc].posted) =>
             LET counted == IF tx[w].step = "OPNAME" THEN tx[w].row.counted
                                                     ELSE opname'[tx[w].doc].counted
             IN  tx'[w] = Idle =>
                   \A p \in DOMAIN counted : stock'[p].actual = counted[p] + stock'[p].packed]_vars
  BY <1>1
<1>3. QED BY <1>2, StockInvariant, PTL DEF Spec, OpnameLeavesCount

-----------------------------------------------------------------------------
(***************************************************************************)
(* The sales form                                                          *)
(***************************************************************************)

FormSpec == FormInit /\ [][FormNext]_formVars

LineRows == [side : {"none", "SI", "SO"}, product : BOOLEAN, quantity : Nat,
             link : Orders \cup {NoOrder}, review : {"none", "doubt", "done"}, readFor : Anyone, carried : BOOLEAN]

\* A row x of a form for customer c whose invoice is made of order o.
FitsForm(x, o, c) ==
  /\ x \in LineRows
  /\ x.side = "SO" => o = NoOrder /\ x.link = NoOrder
  /\ x.side = "SI" => x.link \in {NoOrder, o}
  /\ x.review # "none" => (x.readFor = c \/ x.carried) /\ o = NoOrder

RowsFit(rows, o, c) == rows \in [Keys -> LineRows] /\ \A k \in Keys : FitsForm(rows[k], o, c)

\* The inductive invariant: only the answer for the present customer is listened to,
\* and the panel's is timely only for the customer and the form it was asked for.
FormInv ==
  /\ RowsFit(line, source, customer)
  /\ customer \in Anyone /\ source \in Orders \cup {NoOrder}
  /\ panel \in [busy : BOOLEAN, timely : BOOLEAN, asked : Anyone]
  /\ failed \in BOOLEAN
  /\ stage = "loading" => customer = Guest /\ source = NoOrder
  /\ requests \subseteq {customer}
  /\ stage # "closed" /\ ~failed /\ requests = {} => products = customer
  /\ panel.timely => panel.asked = customer /\ ~Disabled(stage, source)

\* The lines of an order are goods of the invoice that is made of it.
LEMMA OrderLinesFit ==
  ASSUME NEW o \in Orders \cup {NoOrder}, NEW rows \in LinesOf(o)
  PROVE  \A c : RowsFit(rows, o, c)
<1> DEFINE goods(q) == [Blank EXCEPT !.side = "SI", !.product = TRUE, !.quantity = q, !.link = o]
<1>0. PICK n \in {m \in {1, 2} : m <= MaxLines} :
        \E b \in [1 .. n -> Amounts] :
          rows = [k \in Keys |-> IF k <= Cardinality(DOMAIN b) THEN goods(b[k]) ELSE Blank]
  BY DEF LinesOf
<1>1. PICK b \in [1 .. n -> Amounts] :
        rows = [k \in Keys |-> IF k <= Cardinality(DOMAIN b) THEN goods(b[k]) ELSE Blank]
  BY <1>0
<1>2. Cardinality(DOMAIN b) = n
  <2>1. n \in Int /\ n >= 1 OBVIOUS
  <2>2. Cardinality(1 .. n) = n BY <2>1, FS_Interval
  <2>3. QED BY <2>2
<1>3. ASSUME NEW k \in Keys PROVE \A c : FitsForm(rows[k], o, c)
  <2>1. CASE k <= n
    <3>1. b[k] \in Nat BY <2>1 DEF Keys, Amounts
    <3>2. rows[k] = goods(b[k]) BY <1>1, <1>2, <2>1
    <3>3. QED BY <3>1, <3>2 DEF Anyone, Blank, FitsForm, LineRows
  <2>2. CASE ~(k <= n)
    <3>1. rows[k] = Blank BY <1>1, <1>2, <2>2
    <3>2. QED BY <3>1 DEF Anyone, Blank, FitsForm, LineRows
  <2>3. QED BY <2>1, <2>2
<1>4. rows = [k \in Keys |-> rows[k]] BY <1>1
<1>5. QED BY <1>3, <1>4 DEF RowsFit, FitsForm

\* An empty form fits every order.
LEMMA BlankFits == \A o, c : FitsForm(Blank, o, c)
BY DEF Anyone, Blank, FitsForm, LineRows

\* Replacing one row by one that fits.
LEMMA RowReplaced ==
  ASSUME NEW o, NEW c, NEW rows, RowsFit(rows, o, c), NEW k \in Keys, NEW x, FitsForm(x, o, c)
  PROVE  RowsFit([rows EXCEPT ![k] = x], o, c)
BY DEF RowsFit, FitsForm

\* What a clerk changes of a row: its product, its quantity, and the doubt about it.
LEMMA RowEdited ==
  ASSUME NEW o, NEW c, RowsFit(line, o, c), NEW k \in Keys, NEW p \in BOOLEAN, NEW q \in Nat
  PROVE  /\ RowsFit(EditSalesLine(k, [line[k] EXCEPT !.quantity = q]), o, c)
         /\ RowsFit(EditSalesLine(k, [line[k] EXCEPT !.product = p]), o, c)
<1>1. FitsForm(line[k], o, c) BY DEF RowsFit
<1>2. ASSUME NEW x, FitsForm(x, o, c) PROVE RowsFit(EditSalesLine(k, x), o, c)
  <2> DEFINE y == [x EXCEPT !.review = IF @ = "doubt" /\ x # line[k] THEN "done" ELSE @]
  <2>1. FitsForm(y, o, c) BY <1>2 DEF FitsForm, LineRows
  <2>2. EditSalesLine(k, x) = [line EXCEPT ![k] = y] BY DEF EditSalesLine
  <2> HIDE DEF y
  <2>3. RowsFit([line EXCEPT ![k] = y], o, c) BY <2>1, RowReplaced
  <2>4. QED BY <2>2, <2>3
<1>3. FitsForm([line[k] EXCEPT !.quantity = q], o, c) /\ FitsForm([line[k] EXCEPT !.product = p], o, c)
  BY <1>1 DEF FitsForm, LineRows
<1>4. QED BY <1>2, <1>3

\* The invariant of the form holds at the start.
LEMMA FormInitInv == FormInit => FormInv
<1> SUFFICES ASSUME FormInit PROVE FormInv OBVIOUS
<1>1. RowsFit(line, source, customer)
  <2>1. \A k \in Keys : FitsForm(line[k], source, customer) /\ line[k] \in LineRows
    BY BlankFits DEF FormInit, FitsForm
  <2>2. QED BY <2>1 DEF FormInit, RowsFit
<1>2. QED BY <1>1 DEF FormInit, FormInv, IdlePanel, Anyone

\* What a change of customer, source and stage does to the rest of the form.
LEMMA TurnKeeps ==
  ASSUME FormInv, NEW c \in Anyone, NEW o \in Orders \cup {NoOrder}, NEW st, st # "loading",
         stage # "closed", Turn(c, o, st), failed' = failed, products' = products, RowsFit(line', o, c)
  PROVE  FormInv'
<1>1. /\ customer' = c /\ source' = o /\ stage' = st
      /\ requests' = IF c = customer THEN requests ELSE {c}
      /\ panel' = IF c # customer \/ Disabled(st, o) # Disabled(stage, source)
                    THEN [panel EXCEPT !.timely = FALSE] ELSE panel
  BY DEF Turn, Listened
<1>2. panel' \in [busy : BOOLEAN, timely : BOOLEAN, asked : Anyone] BY <1>1 DEF FormInv
<1>3. panel'.timely => panel'.asked = c /\ ~Disabled(st, o)
  BY <1>1 DEF FormInv
<1>4. requests' \subseteq {c} /\ (~failed /\ requests' = {} => products = c)
  BY <1>1 DEF FormInv
<1>5. QED BY <1>1, <1>2, <1>3, <1>4 DEF FormInv, Disabled

\* An edit of the rows alone.
LEMMA EditingKeeps ==
  ASSUME FormInv, Editing, RowsFit(line', source, customer)
  PROVE  FormInv'
BY DEF FormInv, Editing, Disabled

\* No step of the form disturbs its invariant.
LEMMA FormNextInv == FormInv /\ [FormNext]_formVars => FormInv'
<1> SUFFICES ASSUME FormInv, [FormNext]_formVars PROVE FormInv' OBVIOUS
<1> USE SalesFormAssumption
<1>0. /\ RowsFit(line, source, customer) /\ customer \in Anyone /\ source \in Orders \cup {NoOrder}
      /\ \A k \in Keys : FitsForm(line[k], source, customer)
  BY DEF FormInv, RowsFit
<1>a. Used \subseteq Keys /\ FirstBlank \subseteq Keys BY DEF Used, FirstBlank
<1>1. CASE UNCHANGED formVars BY <1>1 DEF formVars, FormInv, RowsFit, FitsForm, Disabled
<1>2. ASSUME NEW ok \in BOOLEAN, AnswerLists(ok) PROVE FormInv'
  BY <1>2 DEF AnswerLists, FormInv, RowsFit, FitsForm, Disabled
<1>3. ASSUME NEW ok \in BOOLEAN, Hydrate(ok) PROVE FormInv'
  <2>1. CASE ok
    <3>1. PICK o \in Orders \cup {NoOrder}, c \in Anyone :
            Turn(c, o, "ready") /\ line' \in LinesOf(o)
      BY <1>3, <2>1 DEF Hydrate
    <3>2. RowsFit(line', o, c) BY <3>1, OrderLinesFit
    <3>3. QED BY <1>3, <3>1, <3>2, TurnKeeps DEF Hydrate
  <2>2. CASE ~ok
    <3>1. Turn(customer, source, "ready") /\ line' = line BY <1>3, <2>2 DEF Hydrate
    <3>2. QED BY <1>0, <1>3, <3>1, TurnKeeps DEF Hydrate
  <2>3. QED BY <2>1, <2>2
<1>4. ASSUME NEW ok \in BOOLEAN, AnswerMessage(ok) PROVE FormInv'
  <2>1. RowsFit(line', source, customer)
    <3>1. CASE line' = line BY <1>0, <3>1
    <3>2. CASE line' # line
      <4>1. PICK doubt \in BOOLEAN, product \in BOOLEAN, q \in 0 .. MaxQuantity :
              AppendImportedLines(ImportedLine(product, q, doubt)) /\ Timely
        BY <1>4, <3>2 DEF AnswerMessage
      <4>2. source = NoOrder /\ panel.asked = customer
        BY <4>1 DEF Timely, FormInv, Disabled
      <4> DEFINE x == ImportedLine(product, q, doubt)
      <4>3. FitsForm(x, source, customer)
        <5>1. x.side = "SI" /\ x.link = NoOrder /\ x.readFor = customer
          BY <4>2 DEF ImportedLine, Blank
        <5>2. x \in LineRows
          <6>1. q \in Nat /\ panel.asked \in Anyone BY <1>0, <4>2
          <6>2. ASSUME NEW r \in {"doubt", "done"}
                PROVE  [Blank EXCEPT !.side = "SI", !.product = product, !.quantity = q,
                                     !.review = r, !.readFor = panel.asked] \in LineRows
            BY <6>1 DEF Blank, LineRows
          <6> DEFINE r == IF doubt THEN "doubt" ELSE "done"
          <6>3. r \in {"doubt", "done"} OBVIOUS
          <6>4. x = [Blank EXCEPT !.side = "SI", !.product = product, !.quantity = q,
                                  !.review = r, !.readFor = panel.asked]
            BY DEF ImportedLine
          <6> HIDE DEF r, x
          <6>5. QED BY <6>2, <6>3, <6>4
        <5> HIDE DEF x
        <5>3. QED BY <4>2, <5>1, <5>2 DEF FitsForm
      <4>4. PICK k \in FirstBlank : line' = [line EXCEPT ![k] = x]
        BY <4>1 DEF AppendImportedLines
      <4> HIDE DEF x
      <4>5. QED BY <1>0, <1>a, <4>3, <4>4, RowReplaced
    <3>3. QED BY <3>1, <3>2
  <2>2. QED BY <1>4, <2>1 DEF AnswerMessage, FormInv, IdlePanel, Anyone, Disabled
<1>5. ASSUME NEW ok \in BOOLEAN, AnswerSave(ok) PROVE FormInv'
  <2>1. CASE ok
    <3>1. /\ stage' = "closed" /\ customer' = Guest /\ source' = NoOrder
          /\ line' = [k \in Keys |-> Blank] /\ requests' = {} /\ panel' = IdlePanel
          /\ failed' = failed
      BY <1>5, <2>1 DEF AnswerSave
    <3>2. RowsFit(line', NoOrder, Guest) BY <3>1, BlankFits DEF RowsFit, FitsForm
    <3>3. QED BY <3>1, <3>2 DEF FormInv, IdlePanel, Anyone
  <2>2. CASE ~ok
    <3>1. Turn(customer, source, "ready") /\ line' = line BY <1>5, <2>2 DEF AnswerSave
    <3>2. QED BY <1>0, <1>5, <3>1, TurnKeeps DEF AnswerSave
  <2>3. QED BY <2>1, <2>2
<1>6. ASSUME NEW c \in Anyone, NEW ok \in BOOLEAN, AnswerProducts(c, ok) PROVE FormInv'
  BY <1>6 DEF AnswerProducts, FormInv, RowsFit, FitsForm, Disabled
<1>7. ASSUME NEW c \in Anyone, ChangeCustomer(c) PROVE FormInv'
  <2>1. /\ stage # "closed" /\ stage # "loading"
        /\ line' = [k \in Keys |-> [line[k] EXCEPT !.carried = line[k].review # "none" /\ line[k].readFor # c]]
    BY <1>7 DEF ChangeCustomer, Open
  <2>2. \A k \in Keys : FitsForm([line[k] EXCEPT !.carried = line[k].review # "none" /\ line[k].readFor # c], source, c)
    BY <1>0 DEF FitsForm, LineRows
  <2>3. RowsFit(line', source, c) BY <2>1, <2>2 DEF RowsFit, FitsForm
  <2>4. QED BY <1>0, <1>7, <2>1, <2>3, TurnKeeps DEF ChangeCustomer
<1>8. ASSUME NEW o \in Orders \cup {NoOrder}, LoadOrder(o) PROVE FormInv'
  <2>1. stage # "closed" /\ stage # "loading" BY <1>8 DEF LoadOrder, Open
  <2>2. CASE o = NoOrder
    <3>1. line' = Unlinked /\ Turn(customer, o, stage) BY <1>8, <2>2 DEF LoadOrder
    <3>2. \A k \in Keys : FitsForm([line[k] EXCEPT !.link = NoOrder], o, customer)
      BY <1>0, <2>2 DEF FitsForm, LineRows
    <3>3. RowsFit(line', o, customer) BY <3>1, <3>2 DEF Unlinked, RowsFit, FitsForm
    <3>4. QED BY <1>0, <1>8, <2>1, <3>1, <3>3, TurnKeeps DEF LoadOrder
  <2>3. CASE o # NoOrder
    <3>1. line' \in LinesOf(o) /\ Turn(Buyer[o], o, stage) /\ Buyer[o] \in Anyone
      BY <1>8, <2>3 DEF LoadOrder, Load, Anyone
    <3>2. RowsFit(line', o, Buyer[o]) BY <3>1, OrderLinesFit
    <3>3. QED BY <1>8, <2>1, <3>1, <3>2, TurnKeeps DEF LoadOrder
  <2>4. QED BY <2>2, <2>3
<1>9. ASSUME NEW side \in {"SI", "SO"}, AddFormLine(side) PROVE FormInv'
  <2> DEFINE x == [Blank EXCEPT !.side = side, !.product = TRUE]
  <2>1. side = "SO" => source = NoOrder
    BY <1>9 DEF AddFormLine, Sides, OrderSide
  <2>2. FitsForm(x, source, customer) BY <2>1 DEF FitsForm, LineRows, Blank, Anyone
  <2>3. PICK k \in FirstBlank : line' = [line EXCEPT ![k] = x] BY <1>9 DEF AddFormLine
  <2> HIDE DEF x
  <2>4. RowsFit(line', source, customer) BY <1>0, <1>a, <2>2, <2>3, RowReplaced
  <2>5. QED BY <1>9, <2>4, EditingKeeps DEF AddFormLine
<1>10. ASSUME NEW k \in Used, NEW q \in Amounts, UpdateLine(k, q) PROVE FormInv'
  <2>1. q \in Nat BY DEF Amounts
  <2>2. RowsFit(line', source, customer) BY <1>0, <1>a, <1>10, <2>1, RowEdited DEF UpdateLine
  <2>3. QED BY <1>10, <2>2, EditingKeeps DEF UpdateLine
<1>11. ASSUME NEW k \in Used, SelectProduct(k) PROVE FormInv'
  <2>1. RowsFit(line', source, customer) BY <1>0, <1>a, <1>11, RowEdited DEF SelectProduct
  <2>2. QED BY <1>11, <2>1, EditingKeeps DEF SelectProduct
<1>12. ASSUME NEW k \in Used, RemoveLine(k) PROVE FormInv'
  <2>1. RowsFit(line', source, customer) BY <1>0, <1>a, <1>12, BlankFits, RowReplaced DEF RemoveLine
  <2>2. QED BY <1>12, <2>1, EditingKeeps DEF RemoveLine
<1>13. ASSUME NEW k \in Used, MoveToOrder(k) PROVE FormInv'
  <2>1. FitsForm([line[k] EXCEPT !.side = "SO"], source, customer)
    BY <1>0, <1>a, <1>13 DEF MoveToOrder, FitsForm, LineRows
  <2>2. line' = [line EXCEPT ![k] = [line[k] EXCEPT !.side = "SO"]] BY <1>13 DEF MoveToOrder
  <2>3. RowsFit(line', source, customer) BY <1>0, <1>a, <2>1, <2>2, RowReplaced
  <2>4. QED BY <1>13, <2>3, EditingKeeps DEF MoveToOrder
<1>14. ASSUME NEW k \in Used, MoveToInvoice(k) PROVE FormInv'
  <2>1. FitsForm([line[k] EXCEPT !.side = "SI"], source, customer)
    BY <1>0, <1>a, <1>14 DEF MoveToInvoice, FitsForm, LineRows
  <2>2. line' = [line EXCEPT ![k] = [line[k] EXCEPT !.side = "SI"]] BY <1>14 DEF MoveToInvoice
  <2>3. RowsFit(line', source, customer) BY <1>0, <1>a, <2>1, <2>2, RowReplaced
  <2>4. QED BY <1>14, <2>3, EditingKeeps DEF MoveToInvoice
<1>15. ASSUME NEW k \in Used, NEW q \in Amounts, ApplySplitLine(k, q) PROVE FormInv'
  <2>1. /\ q \in Nat /\ line[k].quantity - q \in Nat
        /\ FitsForm(line[k], source, customer)
    BY <1>0, <1>a, <1>15 DEF ApplySplitLine, Amounts, FitsForm, LineRows
  <2>2. RowsFit(SplitInvoiceLine(k, q), source, customer)
    BY <1>0, <1>a, <2>1, RowEdited DEF SplitInvoiceLine
  <2>3. source = NoOrder => FitsForm(SplitOrderLine(k, q), source, customer)
    BY <2>1 DEF SplitOrderLine, FitsForm, LineRows
  <2>4. RowsFit(line', source, customer)
    <3>1. CASE source = NoOrder
      <4>1. PICK j \in FirstBlank : line' = [SplitInvoiceLine(k, q) EXCEPT ![j] = SplitOrderLine(k, q)]
        BY <1>15, <3>1 DEF ApplySplitLine
      <4>2. QED BY <1>a, <2>2, <2>3, <3>1, <4>1, RowReplaced
    <3>2. CASE source # NoOrder BY <1>15, <2>2, <3>2 DEF ApplySplitLine
    <3>3. QED BY <3>1, <3>2
  <2>5. QED BY <1>15, <2>4, EditingKeeps DEF ApplySplitLine
<1>16. CASE StartSplitting
  BY <1>16 DEF StartSplitting, FormInv, RowsFit, FitsForm, Disabled
<1>17. CASE SendMessage
  BY <1>17 DEF SendMessage, FormInv, RowsFit, FitsForm, Disabled
<1>18. CASE Save
  <2>1. stage # "closed" /\ line' = line BY <1>18 DEF Save
  <2>2. QED BY <1>0, <1>18, <2>1, TurnKeeps DEF Save
<1>19. QED
  BY <1>1, <1>2, <1>3, <1>4, <1>5, <1>6, <1>7, <1>8, <1>9, <1>10, <1>11, <1>12, <1>13,
     <1>14, <1>15, <1>16, <1>17, <1>18
     DEF FormNext, FillForm, EditPanel, EditRow, InsertCustomerHistory

\* The inductive invariant of the sales form.
LEMMA FormInvariant == FormSpec => []FormInv
BY FormInitInv, FormNextInv, PTL DEF FormSpec

\* The form shows the prices of its customer once nothing is awaited, and the rows of
\* a message stand in the form of the customer they were read for, unless the clerk has changed
\* the customer over them, in whatever order answers come.
THEOREM AnswersStayInTime == FormSpec => []AnswersInTime
<1>1. FormInv => AnswersInTime
  <2> SUFFICES ASSUME FormInv PROVE AnswersInTime OBVIOUS
  <2>1. \A k \in Keys : FitsForm(line[k], source, customer) BY DEF FormInv, RowsFit
  <2>2. \A k \in ImportedRows : (line[k].readFor = customer \/ line[k].carried) /\ source = NoOrder
    BY <2>1 DEF ImportedRows, Used, FitsForm
  <2>3. QED BY <2>2 DEF FormInv, AnswersInTime, Open
<1>2. QED BY <1>1, FormInvariant, PTL

\* Goods that an order holds are not ordered again, for any number of lines and orders.
THEOREM NothingIsOrderedTwice == FormSpec => []NothingOrderedTwice
<1>1. FormInv => NothingOrderedTwice
  <2> SUFFICES ASSUME FormInv PROVE NothingOrderedTwice OBVIOUS
  <2>1. \A k \in Keys : FitsForm(line[k], source, customer) BY DEF FormInv, RowsFit
  <2>2. QED BY <2>1 DEF NothingOrderedTwice, On, Used, FitsForm
<1>2. QED BY <1>1, FormInvariant, PTL

-----------------------------------------------------------------------------
(***************************************************************************)
(* Opening balances                                                        *)
(***************************************************************************)

OpeningSpec == OpeningInit /\ [][OpeningNext]_openingVars

DocRows == [status : {"NONE", "DRAFT", "COMPLETED"}, by : Drafters, lines : Lines,
            posted : SUBSET Goods]

\* What a clerk may be doing; h is what the clerk has locked.
JobFits(j) ==
  \E h :
    \/ j = [op |-> "none", held |-> h]
    \/ \E p \in Parties : j = [op |-> "party", held |-> h, party |-> p]
    \/ \E d \in Drafts \cup {NoDraft}, u \in Drafters, ls \in Lines :
         j = [op |-> "save", held |-> h, draft |-> d, by |-> u, lines |-> ls]
    \/ \E d \in Drafts, ls \in Lines : j = [op |-> "complete", held |-> h, draft |-> d, lines |-> ls]
    \/ \E g \in Goods : j = [op |-> "receive", held |-> h, goods |-> g]

OpenedParties == {p \in Parties : opened[p] = 1}
OpenedGoods   == {g \in Goods : moved[g] # <<>> /\ Head(moved[g]) # NoDraft}

\* The inductive invariant: what was not completed has posted nothing.
OpeningInv ==
  /\ opened \in [Parties -> {0, 1}]
  /\ doc \in [Drafts -> DocRows]
  /\ moved \in [Goods -> Seq(Drafts \cup {NoDraft})]
  /\ equity \in Int
  /\ job = [c \in Clerks |-> job[c]] /\ \A c \in Clerks : JobFits(job[c])
  /\ \A d \in Drafts : doc[d].status # "COMPLETED" => doc[d].posted = {}
  /\ IsFiniteSet(OpenedParties) /\ IsFiniteSet(OpenedGoods)
  /\ OpenedOnce

\* A list of lines names as many goods as it has lines.
LEMMA LinesDiffer ==
  ASSUME NEW ls \in Lines
  PROVE  /\ ls \in Seq(Goods) /\ Range(ls) \subseteq Goods
         /\ IsFiniteSet(Range(ls)) /\ Cardinality(Range(ls)) = Len(ls)
         /\ \A g \in Range(ls) : \E k \in DOMAIN ls : ls[k] = g
<1>1. ls \in LineLists /\ Cardinality(Range(ls)) = Len(ls) BY DEF Lines
<1>2. CASE ls = <<>>
  <2>1. Range(ls) = {} BY <1>2 DEF Range
  <2>2. QED BY <1>1, <1>2, <2>1, FS_EmptySet
<1>3. ASSUME NEW g \in Goods, ls = <<g>>
      PROVE  ls \in Seq(Goods) /\ Range(ls) = {g} /\ DOMAIN ls = {1} /\ ls[1] = g
  BY <1>3 DEF Range
<1>4. ASSUME NEW g \in Goods, NEW h \in Goods, ls = <<g, h>>
      PROVE  ls \in Seq(Goods) /\ Range(ls) = {g} \cup {h} /\ DOMAIN ls = {1, 2} /\ ls[1] = g /\ ls[2] = h
  BY <1>4 DEF Range
<1>5. ASSUME NEW g PROVE IsFiniteSet({g}) BY FS_Singleton
<1>6. ASSUME NEW g, NEW h PROVE IsFiniteSet({g} \cup {h}) BY <1>5, FS_Union
<1>7. ls \in Seq(Goods) /\ Range(ls) \subseteq Goods /\ IsFiniteSet(Range(ls))
  <2>1. CASE \E g \in Goods : ls = <<g>> BY <1>3, <1>5, <2>1
  <2>2. CASE \E g, h \in Goods : ls = <<g, h>>
    <3>1. PICK g \in Goods, h \in Goods : ls = <<g, h>> BY <2>2
    <3>2. Range(ls) = {g} \cup {h} /\ ls \in Seq(Goods) BY <1>4, <3>1
    <3>3. QED BY <1>6, <3>2
  <2>3. QED BY <1>1, <1>2, <2>1, <2>2 DEF LineLists
<1>8. \A g \in Range(ls) : \E k \in DOMAIN ls : ls[k] = g BY DEF Range
<1>9. QED BY <1>1, <1>7, <1>8

\* A form without lines is a form.
LEMMA NoLines == <<>> \in Lines
<1>1. Range(<<>>) = {} BY DEF Range
<1>2. Cardinality(Range(<<>>)) = 0 BY <1>1, FS_EmptySet
<1>3. QED BY <1>2 DEF Lines, LineLists

\* The invariant of opening balances holds at the start.
LEMMA OpeningStarts == OpeningInit => OpeningInv
<1> SUFFICES ASSUME OpeningInit PROVE OpeningInv OBVIOUS
<1>1. opened \in [Parties -> {0, 1}] /\ equity = 0 BY DEF OpeningInit
<1>2. moved = [g \in Goods |-> <<>>] /\ moved \in [Goods -> Seq(Drafts \cup {NoDraft})]
  BY DEF OpeningInit
<1>3. /\ doc \in [Drafts -> DocRows]
      /\ \A d \in Drafts : doc[d].posted = {}
  BY NoLines DEF OpeningInit, DocRows
<1>4. JobFits(NoJob) BY DEF NoJob, JobFits
<1>5. OpenedParties = {} /\ OpenedGoods = {}
  BY <1>2 DEF OpeningInit, OpenedParties, OpenedGoods
<1>6. Cardinality({}) = 0 /\ IsFiniteSet({}) BY FS_EmptySet
<1>7. OpenedOnce
  <2>1. equity = Cardinality(OpenedParties) + Cardinality(OpenedGoods) BY <1>1, <1>5, <1>6
  <2>2. \A p \in Parties : opened[p] <= 1 BY <1>1
  <2>3. \A g \in Goods : moved[g] = <<>> /\ DOMAIN moved[g] = {} BY <1>2
  <2>4. QED BY <1>3, <2>1, <2>2, <2>3 DEF OpenedOnce, OpenedParties, OpenedGoods
<1>8. job = [c \in Clerks |-> job[c]] /\ \A c \in Clerks : JobFits(job[c])
  BY <1>4 DEF OpeningInit
<1>9. IsFiniteSet(OpenedParties) /\ IsFiniteSet(OpenedGoods) BY <1>5, <1>6
<1>10. QED BY <1>1, <1>2, <1>3, <1>7, <1>8, <1>9 DEF OpeningInv

\* Taking up a job, giving it up and waiting for locks change nothing else.
LEMMA JobsChange ==
  ASSUME OpeningInv, NEW c \in Clerks, NEW j, JobFits(j), job' = [job EXCEPT ![c] = j],
         UNCHANGED <<opened, doc, moved, equity>>
  PROVE  OpeningInv'
<1>1. job' = [d \in Clerks |-> job'[d]] /\ \A d \in Clerks : JobFits(job'[d])
  BY DEF OpeningInv
<1>2. QED BY <1>1 DEF OpeningInv, OpenedParties, OpenedGoods, OpenedOnce

\* What a clerk begins.
LEMMA JobsBegin ==
  ASSUME OpeningInv, NEW c \in Clerks,
         \/ \E p \in Parties : BeginParty(c, p)
         \/ \E u \in Drafters, ls \in Lines : BeginSave(c, u, ls)
         \/ \E d \in Drafts : BeginComplete(c, d)
         \/ \E g \in Goods : BeginReceive(c, g)
         \/ Obtain(c) \/ Fail(c)
  PROVE  OpeningInv'
<1>a. ASSUME NEW j, JobFits(j), Take(c, j) PROVE OpeningInv'
  BY <1>a, JobsChange DEF Take
<1>1. ASSUME NEW p \in Parties, BeginParty(c, p) PROVE OpeningInv'
  <2>1. JobFits([op |-> "party", held |-> {}, party |-> p]) BY DEF JobFits
  <2>2. QED BY <1>1, <1>a, <2>1 DEF BeginParty
<1>2. ASSUME NEW u \in Drafters, NEW ls \in Lines, BeginSave(c, u, ls) PROVE OpeningInv'
  <2>1. PICK d \in Drafts \cup {NoDraft} :
          Take(c, [op |-> "save", held |-> {}, draft |-> d, by |-> u, lines |-> ls])
    BY <1>2 DEF BeginSave
  <2>2. JobFits([op |-> "save", held |-> {}, draft |-> d, by |-> u, lines |-> ls]) BY DEF JobFits
  <2>3. QED BY <1>a, <2>1, <2>2
<1>3. ASSUME NEW d \in Drafts, BeginComplete(c, d) PROVE OpeningInv'
  <2>1. JobFits([op |-> "complete", held |-> {}, draft |-> d, lines |-> <<>>])
    BY NoLines DEF JobFits
  <2>2. QED BY <1>3, <1>a, <2>1 DEF BeginComplete
<1>4. ASSUME NEW g \in Goods, BeginReceive(c, g) PROVE OpeningInv'
  <2>1. JobFits([op |-> "receive", held |-> {}, goods |-> g]) BY DEF JobFits
  <2>2. QED BY <1>4, <1>a, <2>1 DEF BeginReceive
<1>5. CASE Obtain(c)
  <2> DEFINE lock == NextLock(LocksOf(job[c]), job[c].held)
             got  == [job[c] EXCEPT !.held = @ \cup {lock}]
             read == got.op = "complete" /\ lock = Row(got.draft)
  <2>1. job' = [job EXCEPT ![c] = IF read THEN [got EXCEPT !.lines = doc[got.draft].lines] ELSE got]
        /\ UNCHANGED <<opened, doc, moved, equity>>
    BY <1>5 DEF Obtain
  <2>2. JobFits(job[c]) /\ doc \in [Drafts -> DocRows] BY DEF OpeningInv
  <2>3. JobFits(got) /\ (got.op = "complete" => JobFits([got EXCEPT !.lines = doc[got.draft].lines]))
    <3>0. got = [job[c] EXCEPT !.held = @ \cup {lock}] OBVIOUS
    <3> HIDE DEF got, lock
    <3>1. PICK h :
            \/ job[c] = [op |-> "none", held |-> h]
            \/ \E p \in Parties : job[c] = [op |-> "party", held |-> h, party |-> p]
            \/ \E d \in Drafts \cup {NoDraft}, u \in Drafters, ls \in Lines :
                 job[c] = [op |-> "save", held |-> h, draft |-> d, by |-> u, lines |-> ls]
            \/ \E d \in Drafts, ls \in Lines :
                 job[c] = [op |-> "complete", held |-> h, draft |-> d, lines |-> ls]
            \/ \E g \in Goods : job[c] = [op |-> "receive", held |-> h, goods |-> g]
      BY <2>2 DEF JobFits
    <3> DEFINE k == h \cup {lock}
    <3>2. CASE job[c] = [op |-> "none", held |-> h]
      <4>1. [job[c] EXCEPT !.held = k] = [op |-> "none", held |-> k] BY <3>2
      <4>2. job[c].held = h BY <3>2
      <4>3. got = [op |-> "none", held |-> k] BY <3>0, <4>1, <4>2
      <4>4. QED BY <4>3 DEF JobFits
    <3>3. ASSUME NEW p \in Parties, job[c] = [op |-> "party", held |-> h, party |-> p]
          PROVE  JobFits(got) /\ got.op # "complete"
      <4>1. got = [op |-> "party", held |-> k, party |-> p] BY <3>0, <3>3
      <4>2. QED BY <4>1 DEF JobFits
    <3>4. ASSUME NEW d \in Drafts \cup {NoDraft}, NEW u \in Drafters, NEW ls \in Lines,
                 job[c] = [op |-> "save", held |-> h, draft |-> d, by |-> u, lines |-> ls]
          PROVE  JobFits(got) /\ got.op # "complete"
      <4>1. got = [op |-> "save", held |-> k, draft |-> d, by |-> u, lines |-> ls] BY <3>0, <3>4
      <4>2. QED BY <4>1 DEF JobFits
    <3>5. ASSUME NEW d \in Drafts, NEW ls \in Lines,
                 job[c] = [op |-> "complete", held |-> h, draft |-> d, lines |-> ls]
          PROVE  JobFits(got) /\ JobFits([got EXCEPT !.lines = doc[got.draft].lines])
      <4>1. got = [op |-> "complete", held |-> k, draft |-> d, lines |-> ls] BY <3>0, <3>5
      <4>2. doc[d].lines \in Lines BY <2>2 DEF DocRows
      <4>3. [got EXCEPT !.lines = doc[got.draft].lines]
              = [op |-> "complete", held |-> k, draft |-> d, lines |-> doc[d].lines]
        <5>1. got.draft = d BY <4>1
        <5>2. \A new : [got EXCEPT !.lines = new]
                         = [op |-> "complete", held |-> k, draft |-> d, lines |-> new]
          BY <4>1
        <5>3. QED BY <5>1, <5>2
      <4>4. \A new \in Lines : JobFits([op |-> "complete", held |-> k, draft |-> d, lines |-> new])
        BY DEF JobFits
      <4>5. QED BY <4>1, <4>2, <4>3, <4>4
    <3>6. ASSUME NEW g \in Goods, job[c] = [op |-> "receive", held |-> h, goods |-> g]
          PROVE  JobFits(got) /\ got.op # "complete"
      <4>1. got = [op |-> "receive", held |-> k, goods |-> g] BY <3>0, <3>6
      <4>2. QED BY <4>1 DEF JobFits
    <3>7. QED BY <3>1, <3>2, <3>3, <3>4, <3>5, <3>6
  <2> HIDE DEF got, lock
  <2>4. JobFits(IF read THEN [got EXCEPT !.lines = doc[got.draft].lines] ELSE got)
    BY <2>3
  <2>5. QED BY <2>1, <2>4, JobsChange
<1>6. CASE Fail(c)
  <2>1. JobFits(NoJob) BY DEF NoJob, JobFits
  <2>2. QED BY <1>6, <2>1, JobsChange DEF Fail
<1>7. QED BY <1>1, <1>2, <1>3, <1>4, <1>5, <1>6

\* What a clerk knows of the job that ends.
LEMMA JobKnown ==
  ASSUME NEW j, JobFits(j)
  PROVE  /\ j.op = "party" => j.party \in Parties
         /\ j.op = "save" => j.draft \in Drafts \cup {NoDraft} /\ j.by \in Drafters /\ j.lines \in Lines
         /\ j.op = "complete" => j.draft \in Drafts /\ j.lines \in Lines
         /\ j.op = "receive" => j.goods \in Goods
BY DEF JobFits

\* One opening more for a party that had none.
LEMMA PartyOpens ==
  ASSUME OpeningInv, NEW p \in Parties, opened[p] = 0,
         opened' = [opened EXCEPT ![p] = @ + 1], equity' = equity + 1, UNCHANGED <<doc, moved>>
  PROVE  /\ opened' \in [Parties -> {0, 1}] /\ equity' \in Int
         /\ IsFiniteSet(OpenedParties') /\ OpenedOnce'
<1>1. opened \in [Parties -> {0, 1}] /\ equity \in Int BY DEF OpeningInv
<1>2. opened' \in [Parties -> {0, 1}] BY <1>1
<1>3. OpenedParties' = OpenedParties \cup {p} /\ p \notin OpenedParties
  BY <1>1 DEF OpenedParties
<1>4. IsFiniteSet(OpenedParties) BY DEF OpeningInv
<1>5. IsFiniteSet(OpenedParties') /\ Cardinality(OpenedParties') = Cardinality(OpenedParties) + 1
  BY <1>3, <1>4, FS_AddElement
<1>6. equity = Cardinality(OpenedParties) + Cardinality(OpenedGoods)
  BY DEF OpeningInv, OpenedOnce, OpenedParties, OpenedGoods
<1>7. OpenedGoods' = OpenedGoods BY DEF OpenedGoods
<1>8. Cardinality(OpenedParties) \in Nat /\ Cardinality(OpenedGoods) \in Nat
  BY <1>4, FS_CardinalityType DEF OpeningInv
<1>9. equity' = Cardinality(OpenedParties') + Cardinality(OpenedGoods')
  BY <1>5, <1>6, <1>7, <1>8
<1>10. \A q \in Parties : opened'[q] <= 1 BY <1>2
<1>11. OpenedOnce' BY <1>9, <1>10 DEF OpeningInv, OpenedOnce, OpenedParties, OpenedGoods
<1>12. QED BY <1>1, <1>2, <1>5, <1>11

\* The goods of a draft, none of which had moved.
LEMMA GoodsOpen ==
  ASSUME OpeningInv, NEW d \in Drafts, NEW ls \in Lines, doc[d].status = "DRAFT",
         \A k \in DOMAIN ls : moved[ls[k]] = <<>>,
         doc' = [doc EXCEPT ![d].status = "COMPLETED", ![d].posted = Range(ls)],
         moved' = [g \in Goods |-> IF g \in Range(ls) THEN Append(moved[g], d) ELSE moved[g]],
         equity' = equity + Len(ls), opened' = opened
  PROVE  /\ doc' \in [Drafts -> DocRows]
         /\ moved' \in [Goods -> Seq(Drafts \cup {NoDraft})]
         /\ equity' \in Int
         /\ \A x \in Drafts : doc'[x].status # "COMPLETED" => doc'[x].posted = {}
         /\ IsFiniteSet(OpenedGoods') /\ OpenedOnce'
<1> USE OpeningAssumption
<1>1. /\ doc \in [Drafts -> DocRows] /\ moved \in [Goods -> Seq(Drafts \cup {NoDraft})]
      /\ equity \in Int /\ IsFiniteSet(OpenedGoods) /\ IsFiniteSet(OpenedParties)
      /\ \A x \in Drafts : doc[x].status # "COMPLETED" => doc[x].posted = {}
      /\ doc[d].posted = {}
  BY DEF OpeningInv
<1>2. /\ Range(ls) \subseteq Goods /\ IsFiniteSet(Range(ls)) /\ Cardinality(Range(ls)) = Len(ls)
      /\ \A g \in Range(ls) : moved[g] = <<>>
      /\ Len(ls) \in Nat
  BY LinesDiffer
<1>3. /\ doc' \in [Drafts -> DocRows] /\ doc'[d].posted = Range(ls) /\ doc'[d].status = "COMPLETED"
      /\ \A x \in Drafts \ {d} : doc'[x] = doc[x]
  BY <1>1, <1>2 DEF DocRows
<1>4. /\ \A g \in Range(ls) : /\ moved'[g] \in Seq(Drafts \cup {NoDraft})
                              /\ moved'[g] # <<>> /\ Head(moved'[g]) = d
                              /\ DOMAIN moved'[g] = {1}
      /\ \A g \in Goods \ Range(ls) : moved'[g] = moved[g]
  <2> DEFINE first == Append(<<>>, d)
  <2>1. /\ first \in Seq(Drafts \cup {NoDraft}) /\ Len(first) = 1 /\ first[1] = d
        /\ DOMAIN first = 1 .. 1
    <3>1. <<>> \in Seq(Drafts \cup {NoDraft}) /\ d \in Drafts \cup {NoDraft} OBVIOUS
    <3>2. QED BY <3>1
  <2>2. first # <<>> /\ Head(first) = d /\ DOMAIN first = {1} BY <2>1
  <2>3. \A g \in Range(ls) : moved'[g] = first BY <1>2
  <2> HIDE DEF first
  <2>4. ASSUME NEW g \in Range(ls)
        PROVE  /\ moved'[g] \in Seq(Drafts \cup {NoDraft})
               /\ moved'[g] # <<>> /\ Head(moved'[g]) = d
               /\ DOMAIN moved'[g] = {1}
    <3>1. moved'[g] = first BY <2>3
    <3>2. QED BY <2>1, <2>2, <3>1
  <2>5. \A g \in Goods \ Range(ls) : moved'[g] = moved[g] OBVIOUS
  <2>6. QED BY <2>4, <2>5
<1>5. moved' \in [Goods -> Seq(Drafts \cup {NoDraft})]
  <2>1. \A g \in Goods : moved'[g] \in Seq(Drafts \cup {NoDraft})
    BY <1>1, <1>4
  <2>2. QED BY <2>1
<1>6. OpenedGoods' = OpenedGoods \cup Range(ls) /\ OpenedGoods \cap Range(ls) = {}
  <2>1. \A g \in Range(ls) : moved'[g] # <<>> /\ Head(moved'[g]) # NoDraft BY <1>4
  <2>3. \A g \in Range(ls) : g \notin OpenedGoods BY <1>2 DEF OpenedGoods
  <2>2. QED BY <1>2, <1>4, <2>1, <2>3 DEF OpenedGoods
<1>7. /\ IsFiniteSet(OpenedGoods')
      /\ Cardinality(OpenedGoods') = Cardinality(OpenedGoods) + Cardinality(Range(ls))
  <2>1. /\ IsFiniteSet(OpenedGoods \cup Range(ls))
        /\ Cardinality(OpenedGoods \cup Range(ls))
             = Cardinality(OpenedGoods) + Cardinality(Range(ls))
                 - Cardinality(OpenedGoods \cap Range(ls))
    BY <1>1, <1>2, FS_Union
  <2>2. Cardinality(OpenedGoods \cap Range(ls)) = 0 BY <1>6, FS_EmptySet
  <2>3. Cardinality(OpenedGoods) \in Nat /\ Cardinality(Range(ls)) \in Nat
    BY <1>1, <1>2, FS_CardinalityType
  <2>4. QED BY <1>6, <2>1, <2>2, <2>3
<1>8. equity = Cardinality(OpenedParties) + Cardinality(OpenedGoods)
  BY DEF OpeningInv, OpenedOnce, OpenedParties, OpenedGoods
<1>9. OpenedParties' = OpenedParties BY DEF OpenedParties
<1>10. Cardinality(OpenedParties) \in Nat /\ Cardinality(OpenedGoods) \in Nat
  BY <1>1, FS_CardinalityType
<1>11. equity' = Cardinality(OpenedParties') + Cardinality(OpenedGoods')
  BY <1>2, <1>7, <1>8, <1>9, <1>10
<1>12. \A g \in Goods : \A k \in DOMAIN moved'[g] : moved'[g][k] # NoDraft => k = 1
  <2>1. ASSUME NEW g \in Range(ls), NEW k \in DOMAIN moved'[g] PROVE k = 1
    BY <1>4, <2>1
  <2>2. ASSUME NEW g \in Goods \ Range(ls), NEW k \in DOMAIN moved'[g], moved'[g][k] # NoDraft
        PROVE  k = 1
    <3>1. moved'[g] = moved[g] BY <1>4
    <3>2. QED BY <2>2, <3>1 DEF OpeningInv, OpenedOnce
  <2>3. QED BY <2>1, <2>2
<1>13. ASSUME NEW x \in Drafts, NEW g \in Goods
       PROVE  g \in doc'[x].posted <=> (moved'[g] # <<>> /\ Head(moved'[g]) = x)
  <2>0. g \in doc[x].posted <=> (moved[g] # <<>> /\ Head(moved[g]) = x)
    BY DEF OpeningInv, OpenedOnce
  <2>1. CASE g \in Range(ls)
    <3>1. moved'[g] # <<>> /\ Head(moved'[g]) = d /\ moved[g] = <<>> BY <1>2, <1>4, <2>1
    <3>2. QED BY <1>3, <2>0, <2>1, <3>1
  <2>2. CASE g \notin Range(ls)
    BY <1>1, <1>3, <1>4, <2>0, <2>2
  <2>3. QED BY <2>1, <2>2
<1>14. \A x \in Drafts : doc'[x].status # "COMPLETED" => doc'[x].posted = {}
  BY <1>1, <1>3
<1>15. OpenedOnce'
  BY <1>11, <1>12, <1>13 DEF OpeningInv, OpenedOnce, OpenedParties, OpenedGoods
<1>16. QED BY <1>1, <1>2, <1>3, <1>5, <1>7, <1>14, <1>15

\* Goods that come in another way.
LEMMA GoodsCome ==
  ASSUME OpeningInv, NEW g \in Goods, moved' = [moved EXCEPT ![g] = Append(@, NoDraft)],
         UNCHANGED <<opened, doc, equity>>
  PROVE  /\ moved' \in [Goods -> Seq(Drafts \cup {NoDraft})]
         /\ IsFiniteSet(OpenedGoods') /\ OpenedOnce'
<1> USE OpeningAssumption
<1>1. moved \in [Goods -> Seq(Drafts \cup {NoDraft})] BY DEF OpeningInv
<1>2. moved'[g] = Append(moved[g], NoDraft) /\ moved[g] \in Seq(Drafts \cup {NoDraft})
      /\ \A h \in Goods \ {g} : moved'[h] = moved[h]
  BY <1>1
<1>3. /\ moved'[g] # <<>>
      /\ Head(moved'[g]) = IF moved[g] = <<>> THEN NoDraft ELSE Head(moved[g])
      /\ \A k \in DOMAIN moved'[g] :
           moved'[g][k] # NoDraft => k \in DOMAIN moved[g] /\ moved'[g][k] = moved[g][k]
  BY <1>2
<1>4. moved' \in [Goods -> Seq(Drafts \cup {NoDraft})] BY <1>1
<1>5. OpenedGoods' = OpenedGoods BY <1>2, <1>3 DEF OpenedGoods
<1>6. \A h \in Goods : \A k \in DOMAIN moved'[h] : moved'[h][k] # NoDraft => k = 1
  BY <1>2, <1>3 DEF OpeningInv, OpenedOnce
<1>7. ASSUME NEW d \in Drafts, NEW h \in Goods
      PROVE  h \in doc'[d].posted <=> (moved'[h] # <<>> /\ Head(moved'[h]) = d)
  <2>1. h \in doc[d].posted <=> (moved[h] # <<>> /\ Head(moved[h]) = d)
    BY DEF OpeningInv, OpenedOnce
  <2>2. d # NoDraft OBVIOUS
  <2>3. QED BY <1>2, <1>3, <2>1, <2>2
<1>8. equity' = Cardinality(OpenedParties') + Cardinality(OpenedGoods')
  <2>1. equity = Cardinality(OpenedParties) + Cardinality(OpenedGoods)
    BY DEF OpeningInv, OpenedOnce, OpenedParties, OpenedGoods
  <2>2. OpenedParties' = OpenedParties BY DEF OpenedParties
  <2>3. QED BY <1>5, <2>1, <2>2
<1>9. OpenedOnce'
  BY <1>6, <1>7, <1>8 DEF OpeningInv, OpenedOnce, OpenedParties, OpenedGoods
<1>10. QED BY <1>4, <1>5, <1>9 DEF OpeningInv

\* A clerk that ends books what it has checked in the same step.
LEMMA JobsEnd ==
  ASSUME OpeningInv, NEW c \in Clerks, End(c)
  PROVE  OpeningInv'
<1> DEFINE j == job[c]
<1>1. JobFits(j) /\ CanEnd(j) BY DEF OpeningInv, End
<1>2. job' = [d \in Clerks |-> job'[d]] /\ \A d \in Clerks : JobFits(job'[d])
  <2>1. JobFits(NoJob) BY DEF NoJob, JobFits
  <2>2. job' = [job EXCEPT ![c] = NoJob] BY DEF End
  <2>3. QED BY <2>1, <2>2 DEF OpeningInv
<1> HIDE DEF j
<1>3. CASE j.op = "party" /\ OpenParty(j)
  <2>1. j.party \in Parties /\ opened[j.party] = 0
    BY <1>1, <1>3, JobKnown DEF CanEnd, CanOpen
  <2>2. /\ opened' \in [Parties -> {0, 1}] /\ equity' \in Int
        /\ IsFiniteSet(OpenedParties') /\ OpenedOnce'
    BY <1>3, <2>1, PartyOpens DEF OpenParty
  <2>3. OpenedGoods' = OpenedGoods BY <1>3 DEF OpenParty, OpenedGoods
  <2>4. QED BY <1>2, <1>3, <2>2, <2>3 DEF OpeningInv, OpenParty
<1>4. CASE j.op = "save" /\ SaveLines(j)
  <2>1. j.draft \in Drafts \cup {NoDraft} /\ j.by \in Drafters /\ j.lines \in Lines
    BY <1>1, <1>4, JobKnown
  <2>2. PICK d \in Drafts :
          doc' = [doc EXCEPT ![d].lines = j.lines, ![d].by = j.by,
                             ![d].status = IF @ = "NONE" THEN "DRAFT" ELSE @]
    BY <1>4 DEF SaveLines
  <2>3. doc \in [Drafts -> DocRows] BY DEF OpeningInv
  <2>4. /\ doc' \in [Drafts -> DocRows]
        /\ \A x \in Drafts : doc'[x].posted = doc[x].posted
                             /\ (doc'[x].status # "COMPLETED" => doc[x].status # "COMPLETED")
    BY <2>1, <2>2, <2>3 DEF DocRows
  <2>5. UNCHANGED <<opened, moved, equity>> BY <1>4 DEF SaveLines
  <2>6. OpenedOnce' /\ OpenedParties' = OpenedParties /\ OpenedGoods' = OpenedGoods
    BY <2>4, <2>5 DEF OpeningInv, OpenedOnce, OpenedParties, OpenedGoods
  <2>7. QED BY <1>2, <2>4, <2>5, <2>6 DEF OpeningInv
<1>5. CASE j.op = "complete" /\ PostGoods(j)
  <2>1. /\ j.draft \in Drafts /\ j.lines \in Lines /\ doc[j.draft].status = "DRAFT"
        /\ \A k \in DOMAIN j.lines : moved[j.lines[k]] = <<>>
    BY <1>1, <1>5, JobKnown DEF CanEnd, MayPost
  <2>2. /\ doc' \in [Drafts -> DocRows]
        /\ moved' \in [Goods -> Seq(Drafts \cup {NoDraft})]
        /\ equity' \in Int
        /\ \A x \in Drafts : doc'[x].status # "COMPLETED" => doc'[x].posted = {}
        /\ IsFiniteSet(OpenedGoods') /\ OpenedOnce'
    BY <1>5, <2>1, GoodsOpen DEF PostGoods
  <2>3. OpenedParties' = OpenedParties /\ opened' = opened BY <1>5 DEF PostGoods, OpenedParties
  <2>4. QED BY <1>2, <2>2, <2>3 DEF OpeningInv
<1>6. CASE j.op = "receive" /\ ReceiveGoods(j)
  <2>1. j.goods \in Goods BY <1>1, <1>6, JobKnown
  <2>2. /\ moved' \in [Goods -> Seq(Drafts \cup {NoDraft})]
        /\ IsFiniteSet(OpenedGoods') /\ OpenedOnce'
    BY <1>6, <2>1, GoodsCome DEF ReceiveGoods
  <2>3. OpenedParties' = OpenedParties /\ UNCHANGED <<opened, doc, equity>>
    BY <1>6 DEF ReceiveGoods, OpenedParties
  <2>4. QED BY <1>2, <2>2, <2>3 DEF OpeningInv
<1>7. QED BY <1>3, <1>4, <1>5, <1>6 DEF End, j

\* No step of opening balances disturbs the invariant.
LEMMA OpeningKept == OpeningInv /\ [OpeningNext]_openingVars => OpeningInv'
<1> SUFFICES ASSUME OpeningInv, [OpeningNext]_openingVars PROVE OpeningInv' OBVIOUS
<1>1. CASE UNCHANGED openingVars
  BY <1>1 DEF openingVars, OpeningInv, OpenedParties, OpenedGoods, OpenedOnce
<1>2. CASE OpeningNext BY <1>2, JobsBegin, JobsEnd DEF OpeningNext
<1>3. QED BY <1>1, <1>2

\* The books are opened once, for any parties, goods, drafts and clerks, and the equity
\* account has an entry for each opening.
THEOREM BooksOpenedOnce == OpeningSpec => []OpenedOnce
<1>1. OpeningInv => OpenedOnce BY DEF OpeningInv
<1>2. QED BY <1>1, OpeningStarts, OpeningKept, PTL DEF OpeningSpec
=============================================================================
