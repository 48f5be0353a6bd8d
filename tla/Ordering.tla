------------------------------ MODULE Ordering ------------------------------
(***************************************************************************)
(* Finite sets in order, as the loops and sorts of the nodes meet them.    *)
(***************************************************************************)
EXTENDS Naturals, Sequences, FiniteSets

\* A finite set as a sequence, in the order of a relation on it.
InOrder(S, R) ==
  [k \in 1 .. Cardinality(S) |->
     CHOOSE x \in S : Cardinality({y \in S : <<y, x>> \in R}) = k - 1]

\* The elements of a sequence at some of its positions.
Pick(s, positions) ==
  LET order == InOrder(positions, {p \in positions \X positions : p[1] < p[2]})
  IN  [k \in 1 .. Cardinality(positions) |-> s[order[k]]]
=============================================================================
