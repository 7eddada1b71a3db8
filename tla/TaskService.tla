---------------------------- MODULE TaskService ----------------------------
(***************************************************************************)
(* What the task runners promise to a node that asks for a piece of code   *)
(* to be run: every request gets at most one answer, its code is run at    *)
(* most once, a result is the result of a finished run, and a request that *)
(* has expired is never run.                                               *)
(*                                                                         *)
(* A request is answered with an error, or canceled, whether or not its    *)
(* code was or still is being run: the service does not promise to undo,   *)
(* or even to prevent, the work of a task that has failed for its caller.  *)
(*                                                                         *)
(* One step may move several requests, as the loss of a runner does.       *)
(***************************************************************************)
CONSTANT Request

VARIABLES reply,   \* per request, the answer its caller has got
          work     \* per request, what has become of its code

serviceVars == <<reply, work>>

Answers == {"done", "error", "canceled", "expired"}

ServiceInit ==
  /\ reply = [q \in Request |-> "unasked"]
  /\ work = [q \in Request |-> "none"]

\* A service that shuts down answers at once that the request has expired.
Asks(q) ==
  /\ reply[q] = "unasked" /\ reply'[q] \in {"asked", "expired"}
  /\ work'[q] = work[q]

Begins(q) ==
  /\ work[q] = "none" /\ work'[q] = "running"
  /\ reply[q] \notin {"unasked", "expired"}
  /\ reply'[q] = reply[q]

\* The run has come to an end, or is lost with its runner.
Ends(q) ==
  /\ work[q] = "running" /\ work'[q] = "finished"
  /\ reply'[q] = reply[q]

Answered(q) ==
  /\ reply[q] = "asked" /\ reply'[q] \in Answers
  /\ reply'[q] = "done" => work[q] = "finished"
  /\ reply'[q] = "expired" => work[q] = "none"
  /\ work'[q] = work[q]

Rests(q) == reply'[q] = reply[q] /\ work'[q] = work[q]

ServiceNext ==
  \A q \in Request : Asks(q) \/ Begins(q) \/ Ends(q) \/ Answered(q) \/ Rests(q)

ServiceSpec == ServiceInit /\ [][ServiceNext]_serviceVars
=============================================================================
