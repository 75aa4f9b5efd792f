------------------------------- MODULE Tally -------------------------------
(***************************************************************************)
(* The sum of a function with natural values, as the number of units the   *)
(* function counts.  It is written without recursion so that facts about   *)
(* it follow from facts about the cardinality of finite sets.              *)
(***************************************************************************)
EXTENDS Integers, FiniteSets

\* One pair <<x, k>> for each of the f[x] units that x contributes.
UnitsOf(f) == UNION {{x} \X (1 .. f[x]) : x \in DOMAIN f}

\* The sum of f[x] over the (finite) domain of f.
Total(f) == Cardinality(UnitsOf(f))
=============================================================================
