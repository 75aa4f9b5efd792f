---------------------------- MODULE MCSalesReturn ----------------------------
(* Small instances of SalesReturn for TLC. *)
EXTENDS SalesReturn, TLC

\* Three units were sold: the last layer gave two, an older one the first.
MCAllocation == <<2, 1>>

Symmetry == Permutations(Returns) \cup Permutations(Days)
=============================================================================
