---------------------------- MODULE StockDocuments ----------------------------
(***************************************************************************)
(* Stock adjustments and stock opname, on a stock that sales and purchases  *)
(* move meanwhile.                                                          *)
(*                                                                          *)
(* Every operation on an existing document begins with an unlocked read of  *)
(* its row that must find it in DRAFT.  Whatever it then reads or writes of *)
(* the stock it does under the locks of lockInventoryStock, held to the     *)
(* end, so that the rest of the transaction is one step, its commit, which  *)
(* does not look at the status again.  What an opname compares the count    *)
(* with is read without lock, a step of its own.                            *)
(*                                                                          *)
(* Left out: costs, and the FIFO layers, whose total changes with the       *)
(* actual quantity (see SalesInvoice); two edits of a document whose        *)
(* statements overlap.                                                      *)
(***************************************************************************)
EXTENDS Integers

CONSTANTS Adjustments,
          Opnames,
          Products,
          Workers,    \* connections that run a transaction each
          MaxQty,     \* bound on the quantity of an adjustment line
          MaxStock,   \* bound on stock and on a counted quantity
          MaxEdits    \* bound on the edits of a document

ASSUME StockDocumentsAssumption ==
  MaxQty \in Nat /\ MaxStock \in Nat /\ MaxEdits \in Nat

VARIABLES stock, adjustment, opname, tx

vars == <<stock, adjustment, opname, tx>>

Statuses == {"NONE", "DRAFT", "APPROVED", "CANCELLED"}

\* inventory_stock; drafted is what DRAFT invoices reserve of it, packed what
\* READY ones do.
StockRows == [actual : Nat, available : Nat, packed : Nat, drafted : Nat]

\* Signed quantities: IN is positive, OUT negative.
Changes == [Products -> -MaxQty .. MaxQty]

\* The products some document lists.
Listings == SUBSET Products \ {{}}

Counts == UNION {[S -> 0 .. MaxStock] : S \in SUBSET Products}

\* rev counts how often the details were replaced; posted how many times the
\* document is the origin of movements.
AdjustmentRows == [status : Statuses, rev : 0 .. MaxEdits, lines : Changes, posted : Nat]

OpnameRows == [status : Statuses, rev : 0 .. MaxEdits, counted : Counts,
               system : Counts, packed : Counts, posted : Nat]

NoCount == [p \in {} |-> 0]

\* An opname before it is saved.
Uncounted == [status |-> "NONE", rev |-> 0, posted |-> 0, counted |-> NoCount,
              system |-> NoCount, packed |-> NoCount]

Idle == [step |-> "IDLE"]

\* A transaction that has read its document, or the stock for a new count.
Busy == [step : {"ADJUSTMENT"}, doc : Adjustments, row : AdjustmentRows]
          \cup [step : {"OPNAME", "COUNT"}, doc : Opnames, row : OpnameRows]

Running(w) == tx[w].step # "IDLE"

-----------------------------------------------------------------------------
(***************************************************************************)
(* Posting                                                                 *)
(***************************************************************************)

\* postAdjustment takes OUT only what is there and promised to nobody.
CanPost(lines) ==
  \A p \in DOMAIN lines : /\ stock[p].actual + lines[p] \in 0 .. MaxStock
                          /\ lines[p] < 0 => stock[p].available + lines[p] >= 0

Posted_Physical(lines) ==
  [p \in Products |-> IF p \in DOMAIN lines
                      THEN [stock[p] EXCEPT !.actual = @ + lines[p]] ELSE stock[p]]

Posted(lines) ==
  [p \in Products |-> IF p \in DOMAIN lines
                      THEN [stock[p] EXCEPT !.actual    = @ + lines[p],
                                            !.available = @ + lines[p]]
                      ELSE stock[p]]

Worthwhile(lines) == \E p \in DOMAIN lines : lines[p] # 0

-----------------------------------------------------------------------------
(***************************************************************************)
(* Adjustments                                                             *)
(***************************************************************************)

CreateAdjustment(a, lines, approve) ==
  /\ adjustment[a].status = "NONE"
  /\ Worthwhile(lines)
  /\ approve => CanPost(lines)
  /\ adjustment' = [adjustment EXCEPT ![a] =
                      [status |-> IF approve THEN "APPROVED" ELSE "DRAFT", rev |-> 0,
                       lines |-> lines, posted |-> IF approve THEN 1 ELSE 0]]
  /\ stock' = IF approve THEN Posted(lines) ELSE stock
  /\ UNCHANGED <<opname, tx>>

\* The read that update, approve and cancel begin with.
ReadAdjustment(w, a) ==
  /\ ~Running(w)
  /\ adjustment[a].status = "DRAFT"
  /\ tx' = [tx EXCEPT ![w] = [step |-> "ADJUSTMENT", doc |-> a, row |-> adjustment[a]]]
  /\ UNCHANGED <<stock, adjustment, opname>>

\* postAdjustment: the update of each detail fails if it was replaced since.
ApproveAdjustment(w) ==
  LET a    == tx[w].doc
      seen == tx[w].row
  IN  /\ tx[w].step = "ADJUSTMENT"
      /\ adjustment[a].rev = seen.rev
      /\ CanPost(seen.lines)
      /\ stock' = Posted(seen.lines)
      /\ adjustment' = [adjustment EXCEPT ![a].status = "APPROVED", ![a].posted = @ + 1]
      /\ tx' = [tx EXCEPT ![w] = Idle]
      /\ UNCHANGED opname

\* updateAdjustment locks the row by writing it; when it approves as well, what
\* postAdjustment reads is that row, and must be a DRAFT still.
EditAdjustment(w, lines, approve) ==
  LET a == tx[w].doc
  IN  /\ tx[w].step = "ADJUSTMENT"
      /\ adjustment[a].rev < MaxEdits
      /\ Worthwhile(lines)
      /\ approve => adjustment[a].status = "DRAFT" /\ CanPost(lines)
      /\ stock' = IF approve THEN Posted(lines) ELSE stock
      /\ adjustment' = [adjustment EXCEPT
                          ![a].lines  = lines,
                          ![a].rev    = @ + 1,
                          ![a].status = IF approve THEN "APPROVED" ELSE @,
                          ![a].posted = IF approve THEN @ + 1 ELSE @]
      /\ tx' = [tx EXCEPT ![w] = Idle]
      /\ UNCHANGED opname

CancelAdjustment(w) ==
  /\ tx[w].step = "ADJUSTMENT"
  /\ adjustment' = [adjustment EXCEPT ![tx[w].doc].status = "CANCELLED"]
  /\ tx' = [tx EXCEPT ![w] = Idle]
  /\ UNCHANGED <<stock, opname>>

-----------------------------------------------------------------------------
(***************************************************************************)
(* Opname                                                                  *)
(***************************************************************************)

Actual(S) == [p \in S |-> stock[p].actual]
Packed(S) == [p \in S |-> stock[p].packed]

SnapshotHolds_ActualOnly(row) == Actual(DOMAIN row.counted) = row.system

SnapshotHolds(row) ==
  /\ Actual(DOMAIN row.counted) = row.system
  /\ Packed(DOMAIN row.counted) = row.packed

\* What was counted excludes the packages, which stand apart.
Variance(row) ==
  [p \in DOMAIN row.counted |-> row.counted[p] + row.packed[p] - row.system[p]]

\* An adjustment refers to the opname it is made for, and no two to the same.
Unposted(o) == opname[o].posted = 0

\* approveOpnameInTransaction for a row of opname o.
CanApprove(o, row) ==
  /\ SnapshotHolds(row)
  /\ Worthwhile(Variance(row)) => Unposted(o) /\ CanPost(Variance(row))

PostedBy(row) == IF Worthwhile(Variance(row)) THEN 1 ELSE 0

\* validateOpnameProducts for the products S of opname o: in no other draft.
Countable(o, S) ==
  \A x \in Opnames \ {o} : opname[x].status = "DRAFT" => DOMAIN opname[x].counted \cap S = {}

ReadOpname(w, o) ==
  /\ ~Running(w)
  /\ opname[o].status = "DRAFT"
  /\ tx' = [tx EXCEPT ![w] = [step |-> "OPNAME", doc |-> o, row |-> opname[o]]]
  /\ UNCHANGED <<stock, adjustment, opname>>

\* The stock that a new count of products S is compared with.
ReadStock(w, o, S) ==
  /\ \/ tx[w].step = "OPNAME" /\ tx[w].doc = o
     \/ /\ ~Running(w) /\ opname[o].status = "NONE"
        /\ \A v \in Workers : Running(v) => tx[v].doc # o
  /\ Countable(o, S)
  /\ tx' = [tx EXCEPT ![w] = [step |-> "COUNT", doc |-> o,
                              row |-> [Uncounted EXCEPT !.counted = [p \in S |-> 0],
                                                        !.system  = Actual(S),
                                                        !.packed  = Packed(S)]]]
  /\ UNCHANGED <<stock, adjustment, opname>>

\* createOpname and updateOpname; the approval, if asked for, finds the row that
\* was just written, and a DRAFT.
SaveOpname(w, counted, approve) ==
  LET o   == tx[w].doc
      new == opname[o].status = "NONE"
      row == [opname[o] EXCEPT !.status  = IF new THEN "DRAFT" ELSE @,
                               !.rev     = IF new THEN 0 ELSE @ + 1,
                               !.counted = counted,
                               !.system  = tx[w].row.system,
                               !.packed  = tx[w].row.packed]
  IN  /\ tx[w].step = "COUNT"
      /\ DOMAIN counted = DOMAIN tx[w].row.system
      /\ new \/ opname[o].rev < MaxEdits
      /\ approve => row.status = "DRAFT" /\ CanApprove(o, row)
      /\ stock' = IF approve THEN Posted(Variance(row)) ELSE stock
      /\ opname' = [opname EXCEPT ![o] =
                      IF approve THEN [row EXCEPT !.status = "APPROVED",
                                                  !.posted = @ + PostedBy(row)]
                                 ELSE row]
      /\ tx' = [tx EXCEPT ![w] = Idle]
      /\ UNCHANGED adjustment

\* approveOpname works on the details it has read.
ApproveOpname(w) ==
  LET o   == tx[w].doc
      row == tx[w].row
  IN  /\ tx[w].step = "OPNAME"
      /\ CanApprove(o, row)
      /\ stock' = Posted(Variance(row))
      /\ opname' = [opname EXCEPT ![o].status = "APPROVED", ![o].posted = @ + PostedBy(row)]
      /\ tx' = [tx EXCEPT ![w] = Idle]
      /\ UNCHANGED adjustment

\* refreshOpnameSnapshots fails on details replaced since they were read.
RefreshOpname(w) ==
  LET o == tx[w].doc
      S == DOMAIN tx[w].row.counted
  IN  /\ tx[w].step = "OPNAME"
      /\ opname[o].rev = tx[w].row.rev
      /\ opname' = [opname EXCEPT ![o].system = Actual(S), ![o].packed = Packed(S)]
      /\ tx' = [tx EXCEPT ![w] = Idle]
      /\ UNCHANGED <<stock, adjustment>>

CancelOpname(w) ==
  /\ tx[w].step = "OPNAME"
  /\ opname' = [opname EXCEPT ![tx[w].doc].status = "CANCELLED"]
  /\ tx' = [tx EXCEPT ![w] = Idle]
  /\ UNCHANGED <<stock, adjustment>>

Rollback(w) ==
  /\ Running(w)
  /\ tx' = [tx EXCEPT ![w] = Idle]
  /\ UNCHANGED <<stock, adjustment, opname>>

-----------------------------------------------------------------------------
(***************************************************************************)
(* What else moves the stock                                               *)
(***************************************************************************)

Purchase(p) ==
  /\ stock[p].actual < MaxStock
  /\ stock' = [stock EXCEPT ![p].actual = @ + 1, ![p].available = @ + 1]
  /\ UNCHANGED <<adjustment, opname, tx>>

Reserve(p) ==
  /\ stock[p].available > 0
  /\ stock' = [stock EXCEPT ![p].available = @ - 1, ![p].drafted = @ + 1]
  /\ UNCHANGED <<adjustment, opname, tx>>

Release(p) ==
  /\ stock[p].drafted > 0
  /\ stock' = [stock EXCEPT ![p].available = @ + 1, ![p].drafted = @ - 1]
  /\ UNCHANGED <<adjustment, opname, tx>>

Pack(p) ==
  /\ stock[p].drafted > 0 /\ stock[p].actual > stock[p].packed
  /\ stock' = [stock EXCEPT ![p].drafted = @ - 1, ![p].packed = @ + 1]
  /\ UNCHANGED <<adjustment, opname, tx>>

Deliver(p) ==
  /\ stock[p].packed > 0 /\ stock[p].actual > 0
  /\ stock' = [stock EXCEPT ![p].packed = @ - 1, ![p].actual = @ - 1]
  /\ UNCHANGED <<adjustment, opname, tx>>

-----------------------------------------------------------------------------

Init ==
  /\ stock = [p \in Products |-> [actual |-> 0, available |-> 0, packed |-> 0, drafted |-> 0]]
  /\ adjustment = [a \in Adjustments |-> [status |-> "NONE", rev |-> 0, posted |-> 0,
                                          lines |-> [p \in Products |-> 0]]]
  /\ opname = [o \in Opnames |-> Uncounted]
  /\ tx = [w \in Workers |-> Idle]

Next ==
  \/ \E a \in Adjustments, lines \in Changes, approve \in BOOLEAN :
        CreateAdjustment(a, lines, approve)
  \/ \E w \in Workers : \/ \E a \in Adjustments : ReadAdjustment(w, a)
                        \/ ApproveAdjustment(w)
                        \/ \E lines \in Changes, approve \in BOOLEAN :
                              EditAdjustment(w, lines, approve)
                        \/ CancelAdjustment(w)
  \/ \E w \in Workers, o \in Opnames :
        ReadOpname(w, o) \/ \E S \in Listings : ReadStock(w, o, S)
  \/ \E w \in Workers, approve \in BOOLEAN :
        \E S \in Listings : \E counted \in [S -> 0 .. MaxStock] : SaveOpname(w, counted, approve)
  \/ \E w \in Workers : \/ ApproveOpname(w) \/ RefreshOpname(w)
                        \/ CancelOpname(w)  \/ Rollback(w)
  \/ \E p \in Products : Purchase(p) \/ Reserve(p) \/ Release(p) \/ Pack(p) \/ Deliver(p)

Spec == Init /\ [][Next]_vars

-----------------------------------------------------------------------------
(***************************************************************************)
(* Properties                                                              *)
(***************************************************************************)

\* Rows have their types; in particular no adjustment or count takes
\* available or physical stock below zero.
TypeOK ==
  /\ stock \in [Products -> StockRows]
  /\ adjustment \in [Adjustments -> AdjustmentRows]
  /\ opname \in [Opnames -> OpnameRows]
  /\ tx \in [Workers -> {Idle} \cup Busy]

\* Adjustments and counts, whatever races they run, move the physical and the
\* available quantity together: what invoices reserve, packed or not, is there.
StockCoversPromises ==
  /\ TypeOK
  /\ \A p \in Products :
       stock[p].available + stock[p].drafted + stock[p].packed = stock[p].actual

\* The variance of a count is posted once, even if two requests approve it and
\* the stock has come back to the snapshot in between: what makes it so is that
\* no two adjustments may refer to one opname.
OpnamePostedOnce == \A o \in Opnames : opname[o].posted <= 1

\* When a variance is posted, the goods on record are those that were counted and
\* those in packages at that moment, whatever moved between count and approval.
OpnameLeavesCount ==
  [][\A w \in Workers :
       (/\ tx[w].step \in {"OPNAME", "COUNT"}
        /\ opname'[tx[w].doc].posted > opname[tx[w].doc].posted) =>
         LET counted == IF tx[w].step = "OPNAME" THEN tx[w].row.counted
                                                 ELSE opname'[tx[w].doc].counted
         IN  tx'[w] = Idle =>
               \A p \in DOMAIN counted : stock'[p].actual = counted[p] + stock'[p].packed]_vars

\* "Hanya Stock Adjustment DRAFT yang dapat disetujui.": an approved adjustment is
\* not approved a second time.
AdjustmentPostedOnce == \A a \in Adjustments : adjustment[a].posted <= 1
=============================================================================
