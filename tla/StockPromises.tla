--------------------------- MODULE StockPromises ---------------------------
(***************************************************************************)
(* What the stock counters promise to the documents, abstractly.  There is *)
(* a physical stock and, for each document, what was promised to it.       *)
(* Goods may be promised, or leave without a promise, only while all the   *)
(* promises together stay covered by the physical stock; delivering a      *)
(* promise needs no further condition.  There is no counter of available   *)
(* goods here: an implementation that keeps one must keep it equal to the  *)
(* physical stock less the promises.                                       *)
(***************************************************************************)
EXTENDS Integers, FiniteSets, Tally

CONSTANTS Documents, Products

VARIABLES physical,   \* physical[p], the goods in the warehouse
          promised    \* promised[i][p], the goods reserved for document i

Goods == [Products -> Nat]

\* The promises made on product p, all documents together.
Promises(p, prom) == Total([i \in Documents |-> prom[i][p]])

Covered(phys, prom) == \A p \in Products : Promises(p, prom) <= phys[p]

Init == /\ physical = [p \in Products |-> 0]
        /\ promised = [i \in Documents |-> [p \in Products |-> 0]]

\* Goods come in.
Receive ==
  /\ physical' \in Goods
  /\ \A p \in Products : physical[p] <= physical'[p]
  /\ UNCHANGED promised

\* Goods nobody was promised go out.
Withdraw ==
  /\ physical' \in Goods
  /\ \A p \in Products : physical'[p] <= physical[p]
  /\ UNCHANGED promised
  /\ Covered(physical', promised)

\* The promise to document i is made, changed or withdrawn.
Promise(i) ==
  /\ promised'[i] \in Goods
  /\ promised' = [promised EXCEPT ![i] = promised'[i]]
  /\ UNCHANGED physical
  /\ Covered(physical, promised')

\* Goods leave for document i and settle its promise; the others stay covered.
Deliver(i) ==
  /\ physical' \in Goods
  /\ \A p \in Products : physical'[p] <= physical[p]
  /\ promised' = [promised EXCEPT ![i] = [p \in Products |-> 0]]
  /\ Covered(physical', promised')

Next ==
  \/ Receive
  \/ Withdraw
  \/ \E i \in Documents : Promise(i) \/ Deliver(i)

Spec == Init /\ [][Next]_<<physical, promised>>
=============================================================================
