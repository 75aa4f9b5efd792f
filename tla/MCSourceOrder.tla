---------------------------- MODULE MCSourceOrder ----------------------------
(***************************************************************************)
(* Small instances of SourceOrder for TLC.  focus, which never changes,     *)
(* says what requests may ask for: goods and bonus of one product, by whose *)
(* stock the transactions on invoices exclude each other, or a piece of     *)
(* each of several products and for several parties, where they overlap.    *)
(***************************************************************************)
EXTENDS SourceOrder, TLC

VARIABLE focus

Focuses == {[parties |-> {p}, lines |-> {l}] : p \in Parties, l \in Lines}
             \cup {[parties |-> Parties, lines |-> Lines]}

MCRequests ==
  {r \in Requests : \A l \in Lines :
     IF focus.lines = {l} THEN TRUE
     ELSE r[l].bonus = 0 /\ r[l].qty <= IF l \in focus.lines THEN 1 ELSE 0}

MCInit == Init /\ focus \in Focuses /\ \A o \in Orders : order[o].party \in focus.parties

MCNext == NextOf(focus.parties, MCRequests) /\ UNCHANGED focus

MCSpec == MCInit /\ [][MCNext]_<<vars, focus>>

Symmetry == Permutations(Orders) \cup Permutations(Invoices)
              \cup Permutations(Parties) \cup Permutations(Lines)
              \cup Permutations(Workers)
=============================================================================
