-------------------------- MODULE MCScalingService --------------------------
(* Model-checking instances of ScalingService. *)
EXTENDS ScalingService

CONSTANTS w1, w2, e1, e2
=============================================================================
