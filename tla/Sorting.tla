------------------------------- MODULE Sorting --------------------------------
(***************************************************************************)
(* What sorted() and numpy.argsort give: the elements of a finite set in   *)
(* the strict total order R, a set of pairs. An element's place is told by *)
(* counting, so that proofs can be made about it.                          *)
(***************************************************************************)
EXTENDS Integers, FiniteSets

Place(S, R, i) == Cardinality({j \in S : j = i \/ <<j, i>> \in R})
Arranged(S, R) == [k \in 1..Cardinality(S) |-> CHOOSE i \in S : Place(S, R, i) = k]
\* Numbers in their order.
Ascending(S) == Arranged(S, {pair \in S \X S : pair[1] < pair[2]})
================================================================================
