---------------------------- MODULE MCRecordFile ----------------------------
(***************************************************************************)
(* RecordFile for TLC: the processes are interchangeable.                   *)
(***************************************************************************)
EXTENDS RecordFile, TLC

ClientSymmetry == Permutations(Clients)

=============================================================================
