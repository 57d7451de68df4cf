------------------------------- MODULE MCTrash -------------------------------
(***************************************************************************)
(* Trash for TLC: the programs are interchangeable.                         *)
(***************************************************************************)
EXTENDS Trash, TLC

\* rand(): every second number is the same modulo 2.
Numbers == [k \in 0..MaxCalls |-> k]

ProgramSymmetry == Permutations(Programs)

=============================================================================
