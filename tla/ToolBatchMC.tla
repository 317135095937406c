---------------------------- MODULE ToolBatchMC ----------------------------
(* Finite instances of ToolBatch; the configurations set the sizes.          *)
EXTENDS ToolBatch

=============================================================================
