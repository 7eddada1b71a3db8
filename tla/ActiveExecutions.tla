-------------------------- MODULE ActiveExecutions --------------------------
(***************************************************************************)
(* The life of executions in one main process in regular mode: what        *)
(* WorkflowRunner, ActiveExecutions, ExecutionService and the execution    *)
(* lifecycle hooks do to the execution row in the database, to the map of  *)
(* active executions and to the capacity of ConcurrencyControl.            *)
(*                                                                         *)
(* A call is one invocation of WorkflowRunner.run, for a new execution or  *)
(* for an existing one.  A step is what the event loop runs between two    *)
(* awaits: a database statement is a step of its own, so every await is a  *)
(* point where another call, a stop request or a crash can come first.     *)
(*                                                                         *)
(* One entry of the map is made per call, so the entry is named by its     *)
(* call; its fields are the functions status, workflow and post.           *)
(***************************************************************************)
EXTENDS ConcurrencyControl

CONSTANTS MayWait,      \* whether workflows have nodes that put them to wait
          Stoppable,    \* bound: the executions somebody may ask to stop
          MaxRestarts   \* bound on crashes and restarts of the process

ASSUME BoundAssumption ==
  MayWait \in BOOLEAN /\ Stoppable \subseteq Execution /\ MaxRestarts \in Nat

VARIABLES
  db,         \* per execution, the status column of its row, "absent" without one
  phase,      \* per call, where WorkflowRunner.run and the workflow have got to
  existing,   \* per call, whether run() was given the id of an existing execution
  active,     \* ActiveExecutions.activeExecutions: per execution, the entry's call
  status,     \* per entry, IExecutingWorkflowData.status
  workflow,   \* per entry, the call whose workflow is attached to it
  post,       \* per entry, whether its postExecutePromise is settled
  outcome,    \* per call, the status its workflow will end with
  attached,   \* per call, whether run() attached its workflow and awaits its end
  cancel,     \* per call, whether its workflow was canceled and has saved that
  timer,      \* per call, whether the timer of its workflow timeout is set
  stop,       \* per execution, the progress of a stop request
  boot,       \* executions found enqueued at startup and not yet run again
  shutdown,   \* "no", "waiting" for active executions, "done"
  restarts,
  startup,    \* how far the start of the process has got
  unfinished  \* the executions its recovery has taken for unfinished

startVars == <<startup, unfinished>>
lifeVars == <<db, phase, existing, active, status, workflow, post, outcome, attached,
              cancel, timer, stop, boot, shutdown, restarts, startVars>>
vars == <<controlVars, lifeVars>>

Init ==
  /\ ControlInit
  /\ active = [e \in Execution |-> None]
  /\ status = [c \in Call |-> "running"]
  /\ workflow = [c \in Call |-> None]
  /\ post = [c \in Call |-> "pending"]
  /\ outcome = [c \in Call |-> "none"]
  /\ attached = [c \in Call |-> FALSE]
  /\ cancel = [c \in Call |-> "no"]
  /\ timer = [c \in Call |-> FALSE]
  /\ db = [e \in Execution |-> "absent"]
  /\ phase = [c \in Call |-> "idle"]
  /\ existing = [c \in Call |-> FALSE]
  /\ stop = [e \in Execution |-> "none"]
  /\ boot = {}
  /\ shutdown = "no"
  /\ restarts = 0
  /\ startup = "up"
  /\ unfinished = {}

\* The statuses of an execution that may be stopped.
StoppableStatus == {"new", "unknown", "waiting", "running"}

\* The workflow of the call runs, or has run and its promise is not resolved yet.
Executing == {"executing", "saving", "saved"}

\* What the run loop may end with: all nodes done, a failure, the time run out.
Ending == {"success", "error", "canceled"}

Goto(c, p) == phase' = [phase EXCEPT ![c] = p]
Write(e, s) == db' = [db EXCEPT ![e] = s]

-----------------------------------------------------------------------------
(* Mutants: plausible mistakes in the operations below.  None is part of the *)
(* specification; each stands in for one operation to show that a property  *)
(* would notice the mistake.                                                *)

\* The row is updated without the condition on its status.
MutantClaimAnyStatus(c) ==
  /\ phase[c] = "reserving" /\ reservation[c] = "acquired"
  /\ existing[c]
  /\ Write(target[c], "running")
  /\ Goto(c, "claimed")
  /\ UNCHANGED <<controlVars, existing, active, status, workflow, post, outcome,
                 attached, cancel, timer, stop, boot, shutdown, restarts, startVars>>

\* The settled entry of a finished run stays in the map.
MutantSettleKeepsEntry(k) ==
  /\ post' = [post EXCEPT ![k] = "settled"]
  /\ Release(k)
  /\ UNCHANGED <<active, workflow>>

\* The settled entry leaves the map, but its reservation is not released.
MutantSettleKeepsCapacity(k) ==
  /\ post' = [post EXCEPT ![k] = "settled"]
  /\ active' = [active EXCEPT ![target[k]] = None]
  /\ UNCHANGED <<controlVars, workflow>>

\* The run ends without a final status.
MutantEndLoopNoStatus(c, s) ==
  /\ phase[c] = "executing"
  /\ s \in Ending
  /\ Goto(c, IF cancel[c] = "no" THEN "saving" ELSE "saved")
  /\ UNCHANGED <<controlVars, db, existing, active, status, workflow, post, outcome,
                 attached, cancel, timer, stop, boot, shutdown, restarts, startVars>>

\* A stopped execution leaves the queue, and the capacity it took is lost.
MutantStopLosesCapacity(e) ==
  /\ stop[e] = "read"
  /\ Has(e)
  /\ LET t == QueueTypeOf(e) IN
       \E i \in DOMAIN queue[t] :
         /\ IsFirstFor(e, t, i)
         /\ queue' = [queue EXCEPT ![t] = Without(@, i)]
         /\ reservation' = [reservation EXCEPT ![queue[t][i]] = "dropped"]
  /\ stop' = [stop EXCEPT ![e] = "acted"]
  /\ UNCHANGED <<isEnabled, capacity, target, db, phase, existing, active, status,
                 workflow, post, outcome, attached, cancel, timer, boot, shutdown,
                 restarts, startVars>>

-----------------------------------------------------------------------------
(* WorkflowRunner.run: ActiveExecutions.add *)

\* executionPersistence.create: the row of a new execution.
Create(c, e) ==
  /\ shutdown = "no"
  /\ phase[c] = "idle" /\ db[e] = "absent"
  /\ Write(e, "new")
  /\ Goto(c, "adding")
  /\ target' = [target EXCEPT ![c] = e]
  /\ UNCHANGED <<isEnabled, capacity, queue, reservation, existing, active, status,
                 workflow, post, outcome, attached, cancel, timer, stop, boot, shutdown,
                 restarts, startVars>>

\* run() for an existing execution, by a webhook, a form, a timer or a parent
\* that has read the row as waiting.
CallExisting(c, e) ==
  /\ phase[c] = "idle"
  /\ Goto(c, "adding")
  /\ existing' = [existing EXCEPT ![c] = TRUE]
  /\ target' = [target EXCEPT ![c] = e]
  /\ UNCHANGED <<isEnabled, capacity, queue, reservation, db, active, status, workflow,
                 post, outcome, attached, cancel, timer, stop, shutdown, restarts,
                 startVars>>

Resume(c, e) ==
  /\ shutdown = "no"
  /\ db[e] = "waiting"
  /\ CallExisting(c, e)
  /\ UNCHANGED boot

\* Start.runEnqueuedExecutions, for an execution it found in the status "new".
RunEnqueued(c, e) ==
  /\ shutdown = "no"
  /\ e \in boot
  /\ CallExisting(c, e)
  /\ boot' = boot \ {e}

\* capacityReservation.reserve
ReserveCapacity(c) ==
  /\ phase[c] = "adding"
  /\ Reserve(c)
  /\ Goto(c, "reserving")
  /\ UNCHANGED <<db, existing, active, status, workflow, post, outcome, attached,
                 cancel, timer, stop, boot, shutdown, restarts, startVars>>

\* setRunning for a new execution, whatever its status is by now.
ClaimNew(c) ==
  /\ phase[c] = "reserving" /\ reservation[c] = "acquired"
  /\ ~existing[c]
  /\ Write(target[c], "running")
  /\ Goto(c, "claimed")
  /\ UNCHANGED <<controlVars, existing, active, status, workflow, post, outcome,
                 attached, cancel, timer, stop, boot, shutdown, restarts, startVars>>

\* updateExistingExecution with requireStatus "waiting": of all the calls that
\* try to resume an execution, one claims it.
ClaimExisting(c) ==
  /\ phase[c] = "reserving" /\ reservation[c] = "acquired"
  /\ existing[c]
  /\ db[target[c]] = "waiting"
  /\ Write(target[c], "running")
  /\ Goto(c, "claimed")
  /\ UNCHANGED <<controlVars, existing, active, status, workflow, post, outcome,
                 attached, cancel, timer, stop, boot, shutdown, restarts, startVars>>

\* ExecutionAlreadyResumingError: the reservation is released and add() throws.
RejectExisting(c) ==
  /\ phase[c] = "reserving" /\ reservation[c] = "acquired"
  /\ existing[c]
  /\ db[target[c]] # "waiting"
  /\ Release(c)
  /\ Goto(c, "rejected")
  /\ UNCHANGED <<db, existing, active, status, workflow, post, outcome, attached,
                 cancel, timer, stop, boot, shutdown, restarts, startVars>>

\* The database fails, the reservation is released, and add() throws.
AddFails(c) ==
  /\ phase[c] = "reserving" /\ reservation[c] = "acquired"
  /\ Release(c)
  /\ Goto(c, "ended")
  /\ UNCHANGED <<db, existing, active, status, workflow, post, outcome, attached,
                 cancel, timer, stop, boot, shutdown, restarts, startVars>>

\* The entry of the call replaces the entry the execution had while it waited.
Register(c) ==
  /\ phase[c] = "claimed"
  /\ active' = [active EXCEPT ![target[c]] = c]
  /\ Goto(c, "registered")
  /\ UNCHANGED <<controlVars, db, existing, status, workflow, post, outcome, attached,
                 cancel, timer, stop, boot, shutdown, restarts, startVars>>

-----------------------------------------------------------------------------
(* ActiveExecutions: entries *)

\* The postExecutePromise of entry k settles: its reservation is released, and
\* the entry of its execution leaves the map unless the entry k is waiting.
Settle(k) ==
  \/ /\ post[k] = "settled"
     /\ UNCHANGED <<controlVars, active, workflow, post>>
  \/ /\ post[k] = "pending"
     /\ post' = [post EXCEPT ![k] = "settled"]
     /\ Release(k)
     /\ \/ /\ status[k] = "waiting"
           /\ workflow' = [workflow EXCEPT ![k] = None]
           /\ UNCHANGED active
        \/ /\ status[k] # "waiting"
           /\ active' = [active EXCEPT ![target[k]] = None]
           /\ UNCHANGED workflow

\* finalizeExecution: settles the entry the execution has in the map by now.
FinalizeEntry(e) ==
  \/ /\ active[e] = None
     /\ UNCHANGED <<controlVars, active, workflow, post>>
  \/ /\ active[e] # None
     /\ Settle(active[e])

\* Canceling a workflow that has not ended (PCancelable).
RequestCancel(c) ==
  cancel' = [cancel EXCEPT ![c] = IF @ = "no" THEN "requested" ELSE @]

\* stopExecution: a waiting entry is dropped, any other is canceled and settled.
StopEntry(e) ==
  \/ /\ active[e] = None
     /\ UNCHANGED <<controlVars, active, workflow, post, cancel>>
  \/ /\ active[e] # None
     /\ status[active[e]] = "waiting"
     /\ active' = [active EXCEPT ![e] = None]
     /\ UNCHANGED <<controlVars, workflow, post, cancel>>
  \/ /\ active[e] # None
     /\ status[active[e]] # "waiting"
     /\ LET w == workflow[active[e]] IN
          IF w # None /\ phase[w] \in Executing THEN RequestCancel(w) ELSE UNCHANGED cancel
     /\ Settle(active[e])

-----------------------------------------------------------------------------
(* WorkflowRunner.run: from the registered entry to the running workflow *)

\* The credentials check fails: the hooks save the failed run, which is then
\* finalized as a run that has ended is.
CheckFails(c) ==
  /\ phase[c] = "registered"
  /\ Write(target[c], "error")
  /\ attached' = [attached EXCEPT ![c] = TRUE]
  /\ Goto(c, "saved")
  /\ UNCHANGED <<controlVars, existing, active, status, workflow, post, outcome, cancel,
                 timer, stop, boot, shutdown, restarts, startVars>>

\* attachResponsePromise: throws when a stop request has removed the entry.
AttachResponseFails(c) ==
  /\ phase[c] = "registered"
  /\ active[target[c]] = None
  /\ Goto(c, "ended")
  /\ UNCHANGED <<controlVars, db, existing, active, status, workflow, post, outcome,
                 attached, cancel, timer, stop, boot, shutdown, restarts, startVars>>

\* Something fails after the registration and outside of every try: a hook of the
\* failed run, or in runMainProcess the static data, the workflow, its additional
\* data or setRunning itself.  run() throws, and nobody finalizes the execution.
PrepareFails(c) ==
  /\ phase[c] = "registered"
  /\ Goto(c, "abandoned")
  /\ UNCHANGED <<controlVars, db, existing, active, status, workflow, post, outcome,
                 attached, cancel, timer, stop, boot, shutdown, restarts, startVars>>

\* runMainProcess: setRunning, whatever the status is by now.
SetRunning(c) ==
  /\ phase[c] = "registered"
  /\ Write(target[c], "running")
  /\ Goto(c, "starting")
  /\ UNCHANGED <<controlVars, existing, active, status, workflow, post, outcome,
                 attached, cancel, timer, stop, boot, shutdown, restarts, startVars>>

\* The workflow starts, and then attachWorkflowExecution looks for the entry:
\* without one it throws, and nobody awaits the running workflow.
StartWorkflow(c) ==
  /\ phase[c] = "starting"
  /\ Goto(c, "executing")
  /\ LET k == active[target[c]] IN
       \/ /\ k # None
          /\ workflow' = [workflow EXCEPT ![k] = c]
          /\ attached' = [attached EXCEPT ![c] = TRUE]
          /\ timer' = [timer EXCEPT ![c] = TRUE]
       \/ /\ k = None
          /\ UNCHANGED <<workflow, attached, timer>>
  /\ UNCHANGED <<controlVars, db, existing, active, status, post, outcome, cancel,
                 stop, boot, shutdown, restarts, startVars>>

-----------------------------------------------------------------------------
(* The running workflow and its hooks *)

\* A node calls putExecutionToWait; setStatus throws when there is no entry, and
\* the node fails: the run ends with the error, or goes on (continueOnFail) and
\* ends in the wait.
PutToWait(c) ==
  /\ MayWait
  /\ phase[c] = "executing" /\ outcome[c] = "none"
  /\ LET k == active[target[c]] IN
       \/ /\ k # None
          /\ status' = [status EXCEPT ![k] = "waiting"]
          /\ outcome' = [outcome EXCEPT ![c] = "waiting"]
       \/ /\ k = None
          /\ \E s \in {"error", "waiting"} : outcome' = [outcome EXCEPT ![c] = s]
          /\ UNCHANGED status
  /\ UNCHANGED <<controlVars, db, phase, existing, active, workflow, post, attached,
                 cancel, timer, stop, boot, shutdown, restarts, startVars>>

\* saveExecutionProgress, after a node: requireNotFinished, requireNotCanceled.
SaveProgress(c) ==
  /\ phase[c] = "executing"
  /\ db[target[c]] \notin {"success", "canceled"}
  /\ Write(target[c], "running")
  /\ UNCHANGED <<controlVars, phase, existing, active, status, workflow, post, outcome,
                 attached, cancel, timer, stop, boot, shutdown, restarts, startVars>>

\* The run loop ends, and processSuccessExecution determines the final status: that
\* of the wait when nothing else has happened since, that of a failure, or "canceled"
\* when the loop has seen the workflow's time run out.  A canceled run does not run
\* the hooks again.
EndLoop(c, s) ==
  /\ phase[c] = "executing" /\ s \in Ending
  /\ \/ /\ cancel[c] = "no"
        /\ outcome' = [outcome EXCEPT ![c] = IF s = "success" /\ @ # "none" THEN @ ELSE s]
        /\ Goto(c, "saving")
     \/ /\ cancel[c] # "no"
        /\ outcome' = [outcome EXCEPT ![c] = "canceled"]
        /\ Goto(c, "saved")
  /\ UNCHANGED <<controlVars, db, existing, active, status, workflow, post, attached,
                 cancel, timer, stop, boot, shutdown, restarts, startVars>>

\* workflowExecuteAfter: hookFunctionsSave writes the final status of the run.
SaveRun(c) ==
  /\ phase[c] = "saving"
  /\ Write(target[c], outcome[c])
  /\ Goto(c, "saved")
  /\ UNCHANGED <<controlVars, existing, active, status, workflow, post, outcome,
                 attached, cancel, timer, stop, boot, shutdown, restarts, startVars>>

\* onCancel runs workflowExecuteAfter on its own, beside the run.
SaveCanceled(c) ==
  /\ cancel[c] = "requested"
  /\ cancel' = [cancel EXCEPT ![c] = "written"]
  /\ Write(target[c], "canceled")
  /\ UNCHANGED <<controlVars, phase, existing, active, status, workflow, post, outcome,
                 attached, timer, stop, boot, shutdown, restarts, startVars>>

\* The promise of the workflow resolves: run() finalizes the execution, unless
\* attaching had failed and nobody awaits it.
Finalize(c) ==
  /\ phase[c] = "saved"
  /\ Goto(c, "ended")
  /\ timer' = [timer EXCEPT ![c] = FALSE]
  /\ \/ attached[c] /\ FinalizeEntry(target[c])
     \/ ~attached[c] /\ UNCHANGED <<controlVars, active, workflow, post>>
  /\ UNCHANGED <<db, existing, status, outcome, attached, cancel, stop, boot, shutdown,
                 restarts, startVars>>

\* The timer of the workflow timeout, set when the workflow is attached.
Timeout(c) ==
  /\ timer[c]
  /\ timer' = [timer EXCEPT ![c] = FALSE]
  /\ StopEntry(target[c])
  /\ UNCHANGED <<db, phase, existing, status, outcome, attached, stop, boot, shutdown,
                 restarts, startVars>>

\* runMainProcess cannot start the workflow: processError finalizes the entry
\* first, and the hooks save the failed run after it.
StartFails(c) ==
  /\ phase[c] = "starting"
  /\ Goto(c, "failing")
  /\ FinalizeEntry(target[c])
  /\ UNCHANGED <<db, existing, status, outcome, attached, cancel, timer, stop, boot,
                 shutdown, restarts, startVars>>

SaveFailure(c) ==
  /\ phase[c] = "failing"
  /\ Write(target[c], "error")
  /\ Goto(c, "ended")
  /\ UNCHANGED <<controlVars, existing, active, status, workflow, post, outcome,
                 attached, cancel, timer, stop, boot, shutdown, restarts, startVars>>

-----------------------------------------------------------------------------
(* ExecutionService.stop in regular mode *)

\* The row is read, and the request goes on when its status is stoppable.
StopRead(e) ==
  /\ e \in Stoppable
  /\ stop[e] = "none"
  /\ db[e] \in StoppableStatus
  /\ stop' = [stop EXCEPT ![e] = "read"]
  /\ UNCHANGED <<controlVars, db, phase, existing, active, status, workflow, post,
                 outcome, attached, cancel, timer, boot, shutdown, restarts, startVars>>

\* A throttled execution is taken out of the queue.
StopThrottled(e) ==
  /\ stop[e] = "read"
  /\ Has(e)
  /\ Remove(e)
  /\ stop' = [stop EXCEPT ![e] = "acted"]
  /\ UNCHANGED <<db, phase, existing, active, status, workflow, post, outcome,
                 attached, cancel, timer, boot, shutdown, restarts, startVars>>

StopActive(e) ==
  /\ stop[e] = "read"
  /\ ~Has(e)
  /\ StopEntry(e)
  /\ stop' = [stop EXCEPT ![e] = "acted"]
  /\ UNCHANGED <<db, phase, existing, status, outcome, attached, timer, boot, shutdown,
                 restarts, startVars>>

\* stopBeforeRun or stopDuringRun, whatever the status is by now.
StopWrite(e) ==
  /\ stop[e] = "acted"
  /\ Write(e, "canceled")
  /\ stop' = [stop EXCEPT ![e] = "done"]
  /\ UNCHANGED <<controlVars, phase, existing, active, status, workflow, post, outcome,
                 attached, cancel, timer, boot, shutdown, restarts, startVars>>

-----------------------------------------------------------------------------
(* ActiveExecutions.shutdown, and the end and restart of the process *)

\* Disables concurrency control and forgets waiting entries.  cancelAll is only
\* used by the execute-batch command; without it removeAll has nothing to do.
ShutdownBegin ==
  /\ shutdown = "no"
  /\ shutdown' = "waiting"
  /\ Disable
  /\ active' = [e \in Execution |->
                  IF active[e] # None /\ status[active[e]] = "waiting" THEN None ELSE active[e]]
  /\ UNCHANGED <<db, phase, existing, status, workflow, post, outcome, attached, cancel,
                 timer, stop, boot, restarts, startVars>>

\* The loop that polls the map finds it empty.
ShutdownEnd ==
  /\ shutdown = "waiting"
  /\ \A e \in Execution : active[e] = None
  /\ shutdown' = "done"
  /\ UNCHANGED <<controlVars, db, phase, existing, active, status, workflow, post,
                 outcome, attached, cancel, timer, stop, boot, restarts, startVars>>

\* The process ends, by its shutdown or by a crash at any point, and starts
\* again.  The server and the wait tracker are at work from the first step on.
Restart ==
  /\ restarts < MaxRestarts
  /\ restarts' = restarts + 1
  /\ ControlRestart
  /\ active' = [e \in Execution |-> None]
  /\ status' = [c \in Call |-> "running"]
  /\ workflow' = [c \in Call |-> None]
  /\ post' = [c \in Call |-> "pending"]
  /\ outcome' = [c \in Call |-> "none"]
  /\ attached' = [c \in Call |-> FALSE]
  /\ cancel' = [c \in Call |-> "no"]
  /\ timer' = [c \in Call |-> FALSE]
  /\ phase' = [c \in Call |-> IF phase[c] = "idle" THEN "idle" ELSE "gone"]
  /\ existing' = [c \in Call |-> FALSE]
  /\ stop' = [e \in Execution |-> IF stop[e] = "none" THEN "none" ELSE "done"]
  /\ boot' = {}
  /\ shutdown' = "no"
  /\ startup' = "starting" /\ unfinished' = {}
  /\ UNCHANGED db

-----------------------------------------------------------------------------
(* The start of the process, with the recovery mode "simple"; the extensive *)
(* mode is in ExecutionRecovery.                                            *)

\* MessageEventBus.initialize: the executions that the rows say are running, and
\* any others of which the log has not got the end.
FindUnfinished ==
  /\ startup = "starting" /\ startup' = "marking"
  /\ \E logged \in SUBSET {e \in Execution : db[e] \notin {"absent", "new"}} :
       unfinished' = logged \cup {e \in Execution : db[e] \in {"running", "unknown"}}
  /\ UNCHANGED <<controlVars, db, phase, existing, active, status, workflow, post,
                 outcome, attached, cancel, timer, stop, boot, shutdown, restarts>>

\* markAsCrashed, whatever the statuses are by now.
MarkAsCrashed ==
  /\ startup = "marking" /\ startup' = "marked"
  /\ db' = [e \in Execution |-> IF e \in unfinished THEN "crashed" ELSE db[e]]
  /\ UNCHANGED <<controlVars, phase, existing, active, status, workflow, post, outcome,
                 attached, cancel, timer, stop, boot, shutdown, restarts, unfinished>>

\* runEnqueuedExecutions looks for the status "new".
FindEnqueued ==
  /\ startup = "marked" /\ startup' = "up"
  /\ boot' = {e \in Execution : db[e] = "new"}
  /\ UNCHANGED <<controlVars, db, phase, existing, active, status, workflow, post,
                 outcome, attached, cancel, timer, stop, shutdown, restarts, unfinished>>

StartStep == FindUnfinished \/ MarkAsCrashed \/ FindEnqueued

-----------------------------------------------------------------------------
\* What brings a call to its end.
Progress(c) ==
  \/ ReserveCapacity(c) \/ ClaimNew(c) \/ ClaimExisting(c) \/ RejectExisting(c)
  \/ AddFails(c) \/ Register(c) \/ CheckFails(c) \/ AttachResponseFails(c)
  \/ PrepareFails(c) \/ SetRunning(c)
  \/ StartWorkflow(c) \/ StartFails(c) \/ SaveFailure(c)
  \/ \E s \in Ending : EndLoop(c, s)
  \/ SaveRun(c) \/ SaveCanceled(c) \/ Finalize(c)

Step(c) == Progress(c) \/ PutToWait(c) \/ SaveProgress(c) \/ Timeout(c)

StopStep(e) == StopRead(e) \/ StopThrottled(e) \/ StopActive(e) \/ StopWrite(e)

Begin(c, e) == Create(c, e) \/ Resume(c, e) \/ RunEnqueued(c, e)

Next ==
  \/ \E c \in Call, e \in Execution : Begin(c, e)
  \/ \E c \in Call : shutdown # "done" /\ Step(c)
  \/ \E e \in Execution : shutdown # "done" /\ StopStep(e)
  \/ shutdown # "done" /\ StartStep
  \/ ShutdownBegin \/ ShutdownEnd \/ Restart

Spec == Init /\ [][Next]_vars

\* Every await is answered and every workflow ends; the event loop gets round to
\* everything that is ready.  Nobody has to stop an execution, nor the process.
Fairness ==
  /\ \A c \in Call : WF_vars(shutdown # "done" /\ Progress(c))
  /\ WF_vars(ShutdownEnd)

FairSpec == Spec /\ Fairness

-----------------------------------------------------------------------------
(* Properties *)

ExecutionStatus == {"absent", "new", "unknown", "running", "waiting", "success", "error",
                    "canceled", "crashed"}
Phase == {"idle", "adding", "reserving", "claimed", "registered", "starting", "executing",
          "saving", "saved", "failing", "abandoned", "ended", "rejected", "gone"}
Outcome == {"none", "success", "error", "waiting", "canceled"}

\* The variables have their types, and a call under way has a target.
TypeOK ==
  /\ ControlTypeOK
  /\ db \in [Execution -> ExecutionStatus]
  /\ phase \in [Call -> Phase]
  /\ existing \in [Call -> BOOLEAN]
  /\ active \in [Execution -> Call \cup {None}]
  /\ status \in [Call -> {"running", "waiting"}]
  /\ workflow \in [Call -> Call \cup {None}]
  /\ post \in [Call -> {"pending", "settled"}]
  /\ outcome \in [Call -> Outcome]
  /\ attached \in [Call -> BOOLEAN]
  /\ cancel \in [Call -> {"no", "requested", "written"}]
  /\ timer \in [Call -> BOOLEAN]
  /\ stop \in [Execution -> {"none", "read", "acted", "done"}]
  /\ boot \in SUBSET Execution
  /\ shutdown \in {"no", "waiting", "done"}
  /\ restarts \in 0..MaxRestarts
  /\ startup \in {"up", "starting", "marking", "marked"}
  /\ unfinished \in SUBSET Execution
  /\ \A c \in Call : phase[c] \notin {"idle", "gone"} => target[c] # None

\* What this module does to capacity is what ConcurrencyControl allows, whoever
\* reserves, is stopped, is rejected, ends or is lost in a restart; so what is
\* proved of ConcurrencyControl holds of the executions of a process.
UsesCapacityProperly == ControlInit /\ [][ControlNext]_controlVars

\* Of all the calls for an execution, new or resuming, at most one runs its
\* workflow: "Only one child will successfully resume the parent due to the atomic
\* status check in ActiveExecutions.add()", in spite of the many writes of the
\* status that check nothing.
Running(c) == phase[c] \in {"executing", "saving"}

OneRunPerExecution ==
  \A c, d \in Call :
    /\ c # d
    /\ target[c] # None /\ target[c] = target[d]
    => ~(Running(c) /\ Running(d))

\* The call may write the row of its execution without a condition.
UnderWay(c) ==
  \/ phase[c] \in {"claimed", "registered", "starting", "executing", "saving", "failing"}
  \/ phase[c] = "reserving" /\ ~existing[c]

\* The final status of a run is not lost: a late setRunning, a progress save or a
\* resumption never takes an execution out of a final status.  A cancellation does:
\* a stop request that had read the row before, or onCancel.  So does the recovery
\* at startup, for an execution it has taken for unfinished; and what it has marked
\* while it ran in this very process goes on to write its row.
FinishedStaysFinished ==
  [][\A e \in Execution :
       db[e] \in {"success", "error", "crashed"} /\ db'[e] \notin {db[e], "canceled"}
         => /\ e \in unfinished
            /\ \/ startup = "marking" /\ db'[e] = "crashed"
               \/ db[e] = "crashed" /\ \E c \in Call : target[c] = e /\ UnderWay(c)]_vars

\* An entry that is not waiting has a promise that can still settle, so that its run
\* or a stop request takes it out of the map: no entry is there for good, unless it
\* waits.
EntryCanLeave ==
  \A e \in Execution :
    LET k == active[e] IN
      k # None => /\ target[k] = e
                  /\ status[k] # "waiting" => post[k] = "pending"

\* A run that holds capacity gives it back, unless it was abandoned between its
\* registration and the start of its workflow.
RunReleases ==
  \A c \in Call :
    reservation[c] = "acquired"
      ~> (reservation[c] # "acquired" \/ phase[c] = "abandoned" \/ shutdown = "done")

\* "Remove waiting and new executions to not block shutdown": the shutdown ends
\* once the workflows that still run have ended, unless the entry of an abandoned
\* run is in the map.
ShutdownEnds ==
  shutdown = "waiting"
    ~> \/ shutdown = "done"
       \/ \E e \in Execution : active[e] # None /\ phase[active[e]] = "abandoned"

\* "If so, start running any such executions": an execution found enqueued at
\* startup is not turned away.
EnqueuedIsRunAgain ==
  \A c \in Call : phase[c] = "rejected" => db[target[c]] # "new"
=============================================================================
