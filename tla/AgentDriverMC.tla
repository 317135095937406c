--------------------------- MODULE AgentDriverMC ---------------------------
(* Finite instances of AgentDriver.                                          *)
EXTENDS AgentDriver, TLC

=============================================================================
