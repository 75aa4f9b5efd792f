--------------------------- MODULE MCStockDocuments ---------------------------
(***************************************************************************)
(* Small instances of StockDocuments, OpeningBalance and SalesForm for TLC. *)
(* They share no state: focus, which never changes, chooses the one that    *)
(* moves.                                                                   *)
(***************************************************************************)
EXTENDS StockDocuments, OpeningBalance, SalesForm, TLC

CONSTANTS c1, ord1

MCBuyer == ord1 :> c1

VARIABLE focus

\* What does not move starts in one state only.
MCInit ==
  /\ focus \in {"stock", "opening", "form"}
  /\ Init /\ OpeningInit /\ FormInit
  /\ focus # "form" => document = [kind |-> "SI", edited |-> FALSE]

MCNext ==
  /\ UNCHANGED focus
  /\ \/ focus = "stock"   /\ UNCHANGED <<openingVars, formVars>> /\ Next
     \/ focus = "opening" /\ UNCHANGED <<vars, formVars>>        /\ OpeningNext
     \/ focus = "form"    /\ UNCHANGED <<vars, openingVars>>     /\ FormNext

\* What a document that is no DRAFT lists is not read again, and tells no states apart.
Listed(rows) ==
  [x \in DOMAIN rows |-> IF rows[x].status = "DRAFT" THEN rows[x]
                         ELSE [status |-> rows[x].status, rev |-> rows[x].rev,
                               posted |-> rows[x].posted]]

\* The part of a state that moves tells it from the others.
MCView ==
  <<focus, CASE focus = "stock"   -> <<stock, Listed(adjustment), Listed(opname), tx>>
             [] focus = "opening" -> openingVars
             [] focus = "form"    -> formVars>>

MCSpec == MCInit /\ [][MCNext]_<<vars, openingVars, formVars, focus>>

Symmetry == Permutations(Adjustments) \cup Permutations(Opnames) \cup Permutations(Workers)
=============================================================================
