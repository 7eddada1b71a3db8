---------------------------- MODULE MCTaskBroker ----------------------------
(* Model-checking instances of TaskBroker. *)
EXTENDS TaskBroker

CONSTANTS r1, r2, l1, q1, q2

RequestSymmetry == Permutations(Request)
=============================================================================
