----------------------------- MODULE MCShmQueue -----------------------------
(***************************************************************************)
(* ShmQueue for TLC: the contents of messages are interchangeable.          *)
(***************************************************************************)
EXTENDS ShmQueue, TLC

MsgSymmetry == Permutations(Msg)

=============================================================================
