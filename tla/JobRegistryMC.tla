--------------------------- MODULE JobRegistryMC ---------------------------
(* Finite instances of JobRegistry.                                          *)
EXTENDS JobRegistry, TLC

=============================================================================
