---------------------------- MODULE MCPurchasing ----------------------------
(***************************************************************************)
(* Small instances of PurchaseReturn, and so of Purchasing, for TLC.  A     *)
(* behaviour either buys, with requests that overlap, or starts from        *)
(* invoices that were completed and returns what was bought: the parts the  *)
(* two share are the rows of the invoices, which returning finds in every   *)
(* state that completing them one at a time leaves them in.                 *)
(***************************************************************************)
EXTENDS PurchaseReturn, TLC

VARIABLE half  \* the half of the system a behaviour exercises

\* A unit, and one more free of charge, for a total of two.
MCGoods == {[bought |-> 1, bonus |-> 1, total |-> 2]}

\* Every invoice of supplier s completed, and paid for in part or not at all.
Bought(s, how) ==
  LET row == [i \in Invoices |->
                Row([supplier |-> s, order |-> NoOrder], how[i], how[i].goods)]
  IN  [NothingBought(s) EXCEPT
         !.inv        = row,
         !.received   = [i \in Invoices |-> row[i].bought + row[i].bonus],
         !.receipts   = [i \in Invoices |-> 1],
         !.accrued    = [i \in Invoices |-> row[i].total],
         !.payable    = Total([i \in Invoices |-> row[i].outstanding]),
         !.summary[s] = Total([i \in Invoices |-> row[i].outstanding])]

Completions == [Invoices -> {c \in Contents : c.status = "COMPLETED"}]

MCInit ==
  /\ \/ half = "buying" /\ Init
     \/ /\ half = "returning"
        /\ \E s \in Suppliers, how \in Completions : db = Bought(s, how)
        /\ tx = [w \in Workers |-> Idle]
        /\ raced = {}
  /\ ReturnInit

Buying == half = "buying" /\ Next /\ UNCHANGED returnVars

Returning ==
  /\ half = "returning"
  /\ \/ ReturnNext
     \/ (\E i \in Invoices, a \in Amounts : AddPayment(i, a)) /\ UNCHANGED returnVars

MCNext == (Buying \/ Returning) /\ UNCHANGED half

MCSpec == MCInit /\ [][MCNext]_<<allVars, half>>

Symmetry == Permutations(Suppliers) \cup Permutations(Invoices) \cup Permutations(Workers)
              \cup Permutations(Returns)
=============================================================================
