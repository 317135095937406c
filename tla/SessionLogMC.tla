---------------------------- MODULE SessionLogMC ----------------------------
(* Finite instances of SessionLog.                                           *)
EXTENDS SessionLog, TLC

=============================================================================
