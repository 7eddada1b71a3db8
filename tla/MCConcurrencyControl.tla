----------------------- MODULE MCConcurrencyControl -----------------------
(* A model-checking instance of ConcurrencyControl. *)
EXTENDS ConcurrencyControl, TLC

CONSTANTS c1, c2, c3, c4, e1, e2, e3

\* e1 and e2 are production executions, e3 is an evaluation: two queues.
MCModeOf == (e1 :> "webhook") @@ (e2 :> "trigger") @@ (e3 :> "evaluation")
=============================================================================
