------------------------- MODULE MCActiveExecutions -------------------------
(* Model-checking instances of ActiveExecutions. *)
EXTENDS ActiveExecutions, TLC

CONSTANTS c1, c2, c3, e1, e2, e3

\* Production executions share one queue; a manual execution is never throttled.
\* Evaluation executions are unlimited.
MCModeOf == [e \in Execution |-> IF e = e3 THEN "manual" ELSE "webhook"]

\* -1 and below mean unlimited.
MCUnlimited == -1

CallSymmetry == Permutations(Call)
=============================================================================
