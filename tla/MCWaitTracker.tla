--------------------------- MODULE MCWaitTracker ---------------------------
(* Model-checking instances of WaitTracker. *)
EXTENDS WaitTracker, TLC

CONSTANTS m1, m2, p, c1

\* A parent with one sub-workflow.
MCOneChild == (p :> None) @@ (c1 :> p)

\* Bounds on the waits.
MCChildTwice == [e \in Execution |-> IF e = c1 THEN 2 ELSE 1]
MCOnce == [e \in Execution |-> 1]
=============================================================================
