---------------------------- MODULE MCSupervisor ----------------------------
(***************************************************************************)
(* Supervisor for TLC: process numbers are interchangeable.                 *)
(***************************************************************************)
EXTENDS Supervisor, TLC

PidSymmetry == Permutations(Pid)

=============================================================================
