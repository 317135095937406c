------------------------- MODULE ScheduleRuntimeMC -------------------------
(* Finite instances of ScheduleRuntime.  Sessions are interchangeable where   *)
(* none exists at the start.                                                  *)
EXTENDS ScheduleRuntime, TLC

SessionSymmetry == Permutations(Session)

=============================================================================
