-------------------------- MODULE MCMultiMainSetup --------------------------
(* Model-checking instance of MultiMainSetup. *)
EXTENDS MultiMainSetup

CONSTANTS h1, h2
=============================================================================
