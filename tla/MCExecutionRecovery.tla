------------------------ MODULE MCExecutionRecovery ------------------------
(* Model-checking instance of ExecutionRecovery. *)
EXTENDS ExecutionRecovery

CONSTANTS e1, e2
=============================================================================
