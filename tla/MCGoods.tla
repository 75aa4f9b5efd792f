------------------------------ MODULE MCGoods ------------------------------
(***************************************************************************)
(* Small instances of InventoryLoan, and so of StockGoods and FifoLayers,   *)
(* and of FinanceAccounts for TLC.  The two share no state: focus, which    *)
(* never changes, chooses the one that moves.                               *)
(***************************************************************************)
EXTENDS InventoryLoan, FinanceAccounts

VARIABLE focus

MCInit == LoanInit /\ FinanceInit /\ focus \in {"loans", "finance"}

MCNext ==
  /\ UNCHANGED focus
  /\ \/ focus = "loans"   /\ LoanNext    /\ UNCHANGED financeVars
     \/ focus = "finance" /\ FinanceNext /\ UNCHANGED loanVars

MCSpec == MCInit /\ [][MCNext]_<<loanVars, financeVars, focus>> /\ FinanceFairness
=============================================================================
