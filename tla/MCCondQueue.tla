----------------------------- MODULE MCCondQueue -----------------------------
(***************************************************************************)
(* CondQueue for TLC: the heap's addresses are interchangeable.             *)
(***************************************************************************)
EXTENDS CondQueue, TLC

MsgSymmetry == Permutations(Msg)

=============================================================================
