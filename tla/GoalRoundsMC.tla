---------------------------- MODULE GoalRoundsMC ----------------------------
(* Small instances of GoalRounds.                                            *)
EXTENDS GoalRounds
=============================================================================
