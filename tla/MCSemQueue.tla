----------------------------- MODULE MCSemQueue ------------------------------
(* SemQueue for TLC.                                                         *)
EXTENDS SemQueue

=============================================================================
