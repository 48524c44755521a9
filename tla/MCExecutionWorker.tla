--------------------------- MODULE MCExecutionWorker ---------------------------
(***************************************************************************)
(* The instance of ExecutionWorker for TLC.                                *)
(***************************************************************************)
EXTENDS ExecutionWorker
=============================================================================
