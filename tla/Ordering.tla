------------------------------ MODULE Ordering ------------------------------
(***************************************************************************)
(* The elements of a finite set in an order, which is a set of pairs.  An   *)
(* element has its place by its rank, the number of elements before it.     *)
(***************************************************************************)
EXTENDS Naturals, Sequences, FiniteSets

\* R orders S: what comes before an element comes before all behind it.
Orders(R, S) ==
  /\ \A x \in S : <<x, x>> \notin R
  /\ \A x, y \in S : x # y => <<x, y>> \in R \/ <<y, x>> \in R
  /\ \A x, y, z \in S : <<x, y>> \in R /\ <<y, z>> \in R => <<x, z>> \in R

Below(R, S, x) == {y \in S : <<y, x>> \in R}

\* S as a sequence, in the order of R
Arranged(R, S) ==
  [k \in 1..Cardinality(S) |->
     CHOOSE x \in S : Cardinality(Below(R, S, x)) = k - 1]

=============================================================================
