------------------------- MODULE ExecutionRecovery -------------------------
(***************************************************************************)
(* What a main process in regular mode makes of the executions an earlier  *)
(* process left behind: MessageEventBus.initialize, the event log and the  *)
(* thread that writes it, and ExecutionRecoveryService.                    *)
(*                                                                         *)
(* The main thread posts commands to the writer thread and does not wait   *)
(* for them: what the writer has not done when the process ends is lost.   *)
(* Of a log file the model keeps, per execution, the last message of that  *)
(* execution: it alone decides whether the reader finds the execution      *)
(* unfinished, and whether it finds messages of nodes.  Only the current   *)
(* file and the one before are ever read.                                  *)
(*                                                                         *)
(* The wait tracker and the HTTP server run before the event bus is        *)
(* initialized: executions are started, resumed and stopped while the      *)
(* recovery is under way; their events are logged only when the process is *)
(* up.  Stops of runs of this process go through ActiveExecutions and are  *)
(* left to that module.                                                    *)
(*                                                                         *)
(* Executions are saved when they end, their messages are confirmed either *)
(* all (log streaming) or never (no license for it), and one command       *)
(* appends all messages that are sent again.                               *)
(*                                                                         *)
(* A mutant stands before the operation it stands in for and is not part   *)
(* of the specification: it is a plausible mistake that a property notices.*)
(***************************************************************************)
EXTENDS Naturals, Sequences

CONSTANTS Execution,
          Waiter,         \* the executions with a node that waits
          Poison,         \* the executions whose data may kill who reads it
          Stoppable,      \* bound: the executions a user may stop
          RecoveryModes,  \* the values of crashRecoveryMode
          Resends,        \* whether messages in the log may be unconfirmed
          MaxInbox,       \* bound on the commands under way to the writer
          MaxCrashes,     \* bound on the crashes other than by reading data
          None

ASSUME RecoveryAssumption ==
  /\ Waiter \subseteq Execution /\ Poison \subseteq Execution
  /\ Waiter \cap Poison = {} /\ Stoppable \subseteq Execution
  /\ RecoveryModes \subseteq {"simple", "extensive"} /\ RecoveryModes # {}
  /\ Resends \subseteq BOOLEAN /\ Resends # {}
  /\ MaxInbox \in Nat /\ MaxCrashes \in Nat
  /\ None \notin Execution

LastMessage == {"none", "started", "node", "ended"}
Log == [Execution -> LastMessage]
CommandName == {"appendMessageToLog", "startLogging", "startRecoveryProcess",
                "endRecoveryProcess"}

VARIABLES
  \* the database
  status,    \* per execution, the status of its row, "absent" without one
  waitTill,  \* per execution, whether its row has a time or an event to wait for
  \* the files
  current,   \* the log file that is written
  previous,  \* the log file before it
  recoveryInProgress,  \* whether the flag file exists
  \* the process
  inbox,     \* the commands the writer thread has not handled
  phase,     \* how far MessageEventBus.initialize has got
  found,     \* what it has read of the log
  unfinished,\* unfinishedExecutionIds that are still to be recovered
  amend,     \* the execution that is being recovered, its next step, its waitTill
  path,      \* whether the unfinished executions were marked or recovered
  run,       \* per execution, where its run in this process has got to
  stops,     \* the executions whose rows a stop has read and not yet written
  crashes,
  \* history
  crossed,   \* the executions this process started, resumed or stopped before it
             \* was up, or stopped after it had resumed them
  survivors  \* those that were waiting when it started, and were left alone since

rowVars == <<status, waitTill>>
fileVars == <<current, previous, recoveryInProgress>>
recoveryVars == <<phase, found, unfinished, amend, path>>
historyVars == <<crossed, survivors>>
vars == <<rowVars, fileVars, inbox, recoveryVars, run, stops, crashes, historyVars>>

EmptyLog == [e \in Execution |-> "none"]
Idle == [id |-> None, step |-> "idle", wait |-> FALSE]

Init ==
  /\ status = [e \in Execution |-> "absent"]
  /\ waitTill = [e \in Execution |-> FALSE]
  /\ current = EmptyLog /\ previous = EmptyLog
  /\ recoveryInProgress = FALSE
  /\ inbox = <<>>
  /\ phase = "down"
  /\ found = EmptyLog
  /\ unfinished = {}
  /\ amend = Idle
  /\ path = "none"
  /\ run = [e \in Execution |-> "none"]
  /\ stops = {}
  /\ crashes = 0
  /\ crossed = {} /\ survivors = {}

Finished == {"success", "canceled"}

-----------------------------------------------------------------------------
(* The log and its writer *)

\* The messages of one log, and after them those of another.
Then(log1, log2) ==
  [e \in Execution |-> IF log2[e] = "none" THEN log1[e] ELSE log2[e]]

Message(e, m) == [EmptyLog EXCEPT ![e] = m]

Command(name, log) == [command |-> name, log |-> log]
Append1(log) == Command("appendMessageToLog", log)

Post(commands) == inbox' = inbox \o commands

\* renameAndCreateLogs
Rotate == previous' = current /\ current' = EmptyLog

\* The writer handles the next command.
Handle ==
  /\ inbox # <<>>
  /\ inbox' = Tail(inbox)
  /\ LET name == Head(inbox).command IN
     \/ /\ name = "appendMessageToLog"
        /\ current' = Then(current, Head(inbox).log)
        /\ UNCHANGED <<previous, recoveryInProgress>>
     \/ /\ name = "startLogging" /\ Rotate
        /\ UNCHANGED recoveryInProgress
     \/ /\ name \in {"startRecoveryProcess", "endRecoveryProcess"}
        /\ recoveryInProgress' = (name = "startRecoveryProcess")
        /\ UNCHANGED <<current, previous>>
  /\ UNCHANGED <<rowVars, recoveryVars, run, stops, crashes, historyVars>>

\* The file has reached its maximal size; the writer looks once it has started.
CheckFileSize ==
  /\ phase \notin {"down", "starting"} /\ current # EmptyLog
  /\ \A i \in DOMAIN inbox : inbox[i].command # "startLogging"
  /\ Rotate
  /\ UNCHANGED <<rowVars, recoveryInProgress, inbox, recoveryVars, run, stops, crashes,
                 historyVars>>

-----------------------------------------------------------------------------
(* Runs *)

\* A run's event is logged if LogStreamingEventRelay listens.
Event(e, m) ==
  IF phase = "up"
  THEN Len(inbox) < MaxInbox /\ Post(<<Append1(Message(e, m))>>)
  ELSE UNCHANGED inbox

Runs(e, state) == run' = [run EXCEPT ![e] = state]

\* What this process does to an execution before it is up may cross the recovery.
Crosses(e) == crossed' = IF phase = "up" THEN crossed ELSE crossed \cup {e}

\* A new execution: the server takes webhooks before the event bus is initialized.
SetRunning(e) ==
  /\ phase # "down" /\ status[e] = "absent"
  /\ status' = [status EXCEPT ![e] = "running"]
  /\ Runs(e, "begun")
  /\ Crosses(e)
  /\ UNCHANGED <<waitTill, fileVars, inbox, recoveryVars, stops, crashes, survivors>>

\* n8n.workflow.started
WorkflowExecuteBefore(e) ==
  /\ run[e] = "begun"
  /\ Runs(e, "started")
  /\ Event(e, "started")
  /\ UNCHANGED <<rowVars, fileVars, recoveryVars, stops, crashes, historyVars>>

\* n8n.node.started or n8n.node.finished
NodeExecute(e) ==
  /\ run[e] = "started"
  /\ Runs(e, "node")
  /\ Event(e, "node")
  /\ UNCHANGED <<rowVars, fileVars, recoveryVars, stops, crashes, historyVars>>

\* n8n.workflow.success or n8n.workflow.failed, before the run is saved.
WorkflowExecuteAfter(e) ==
  /\ run[e] \in {"started", "node"}
  /\ Runs(e, "ended")
  /\ Event(e, "ended")
  /\ UNCHANGED <<rowVars, fileVars, recoveryVars, stops, crashes, historyVars>>

\* hookFunctionsSave: "success" stands for every final status of a run.
Save(e) ==
  /\ run[e] = "ended"
  /\ status' = [status EXCEPT ![e] = "success"]
  /\ Runs(e, "none")
  /\ UNCHANGED <<waitTill, fileVars, inbox, recoveryVars, stops, crashes, historyVars>>

\* A run that ends in a wait is saved, and no event says so.
Suspend(e) ==
  /\ run[e] = "node" /\ e \in Waiter
  /\ status' = [status EXCEPT ![e] = "waiting"]
  /\ waitTill' = [waitTill EXCEPT ![e] = TRUE]
  /\ Runs(e, "none")
  /\ UNCHANGED <<fileVars, inbox, recoveryVars, stops, crashes, historyVars>>

\* The wait tracker resumes an execution, in any phase of the process; a run
\* that is resumed does not log that it starts.  Bound: an execution that the
\* recovery made waiting again while it runs is not resumed a second time.
Resume(e) ==
  /\ phase # "down" /\ status[e] = "waiting" /\ run[e] = "none"
  /\ status' = [status EXCEPT ![e] = "running"]
  /\ waitTill' = [waitTill EXCEPT ![e] = FALSE]
  /\ Runs(e, "started")
  /\ Crosses(e)
  /\ survivors' = survivors \ {e}
  /\ UNCHANGED <<fileVars, inbox, recoveryVars, stops, crashes>>

\* A user stops an execution that waits, or that an earlier process left running:
\* stop() reads its row and finds it stoppable.
ReadStoppable(e) ==
  /\ e \in Stoppable /\ phase # "down"
  /\ status[e] \in {"waiting", "running"} /\ run[e] = "none"
  /\ stops' = stops \cup {e}
  /\ UNCHANGED <<rowVars, fileVars, inbox, recoveryVars, run, crashes, historyVars>>

\* The row is written, whatever has happened to it since it was read; no event of
\* the workflow says so.
StopDuringRun(e) ==
  /\ e \in stops /\ stops' = stops \ {e}
  /\ status' = [status EXCEPT ![e] = "canceled"]
  /\ waitTill' = [waitTill EXCEPT ![e] = FALSE]
  /\ survivors' = survivors \ {e}
  /\ crossed' = IF phase = "up" /\ run[e] = "none" THEN crossed ELSE crossed \cup {e}
  /\ UNCHANGED <<fileVars, inbox, recoveryVars, run, crashes>>

-----------------------------------------------------------------------------
(* MessageEventBus.initialize *)

\* The process starts, and its wait tracker with it.
Start ==
  /\ phase = "down"
  /\ phase' = "starting"
  /\ crossed' = {}
  /\ survivors' = {e \in Execution : status[e] = "waiting"}
  /\ UNCHANGED <<rowVars, fileVars, inbox, found, unfinished, amend, path, run, stops,
                 crashes>>

\* getUnsentAndUnfinishedExecutions, startLogging, and the unsent messages of
\* both files are sent again.
ReadLog ==
  /\ phase = "starting"
  /\ phase' = "reading"
  /\ found' = Then(previous, current)
  /\ \E unsent \in Resends :
       Post(<<Command("startLogging", EmptyLog)>>
            \o (IF unsent THEN <<Append1(found')>> ELSE <<>>))
  /\ UNCHANGED <<rowVars, fileVars, unfinished, amend, path, run, stops, crashes,
                 historyVars>>

\* (A mutant of Unfinished, not part of the specification: the log alone tells.)
MutantLogOnly == {e \in Execution : found[e] \in {"started", "node"}}

\* The executions the log or the database says have not finished.
Unfinished ==
  {e \in Execution : found[e] \in {"started", "node"} \/ status[e] = "running"}

\* (A mutant of MarkOnly, not part of the specification: nobody looks at the flag.)
MutantRetry(mode) == mode = "simple"

\* isRecoveryProcessRunning: the last recovery did not end.
MarkOnly(mode) == recoveryInProgress \/ mode = "simple"

\* The query for unfinished executions, and what is done about them.  The flag
\* does not change between the query and the look at the flag.
FindUnfinished ==
  /\ phase = "reading"
  /\ unfinished' = Unfinished
  /\ IF Unfinished = {}
     THEN phase' = "up" /\ path' = "none" /\ UNCHANGED inbox
     ELSE \E mode \in RecoveryModes :
            IF MarkOnly(mode)
            THEN phase' = "marking" /\ path' = "marked" /\ UNCHANGED inbox
            ELSE /\ phase' = "recovering" /\ path' = "recovered"
                 /\ Post(<<Command("startRecoveryProcess", EmptyLog)>>)
  /\ UNCHANGED <<rowVars, fileVars, found, amend, run, stops, crashes, historyVars>>

Up == /\ phase' = "up"
      /\ Post(<<Command("endRecoveryProcess", EmptyLog)>>)

\* (A mutant of MarkAsCrashed, not part of the specification: the ids are kept.)
MutantKeepsIds ==
  /\ phase = "marking" /\ Up
  /\ status' = [e \in Execution |-> IF e \in unfinished THEN "crashed" ELSE status[e]]
  /\ UNCHANGED <<waitTill, fileVars, found, unfinished, amend, path, run, stops, crashes,
                 historyVars>>

\* markAsCrashed of all of them, whatever their status.
MarkAsCrashed ==
  /\ phase = "marking" /\ Up
  /\ status' = [e \in Execution |-> IF e \in unfinished THEN "crashed" ELSE status[e]]
  /\ unfinished' = {}
  /\ UNCHANGED <<waitTill, fileVars, found, amend, path, run, stops, crashes,
                 historyVars>>

EndRecovery ==
  /\ phase = "recovering" /\ unfinished = {} /\ Up
  /\ UNCHANGED <<rowVars, fileVars, found, unfinished, amend, path, run, stops, crashes,
                 historyVars>>

-----------------------------------------------------------------------------
(* ExecutionRecoveryService.recoverFromLogs *)

Recovering(e) == phase = "recovering" /\ e \in unfinished /\ amend = Idle

Amends(e, step, wait) == amend' = [id |-> e, step |-> step, wait |-> wait]

\* amendWithoutLogs: the row is marked, and then read.
AmendWithoutLogs(e) ==
  /\ Recovering(e) /\ found[e] \notin {"started", "node"}
  /\ status' = [status EXCEPT ![e] = "crashed"]
  /\ Amends(e, "read", FALSE)
  /\ UNCHANGED <<waitTill, fileVars, inbox, phase, found, unfinished, path, run, stops,
                 crashes, historyVars>>

ReadMarked(e) ==
  /\ amend.id = e /\ amend.step = "read"
  /\ Amends(e, "update", waitTill[e])
  /\ UNCHANGED <<rowVars, fileVars, inbox, phase, found, unfinished, path, run, stops,
                 crashes, historyVars>>

\* (A mutant of Passed, not part of the specification: finished executions are
\* not filtered out.)
MutantNotFiltered(e) == found[e] = "started"

\* amend returns null: there are no messages of nodes, or the execution has
\* finished.
Passed(e) == found[e] = "started" \/ (found[e] = "node" /\ status[e] \in Finished)

PassOver(e) ==
  /\ Recovering(e) /\ Passed(e)
  /\ unfinished' = unfinished \ {e}
  /\ UNCHANGED <<rowVars, fileVars, inbox, phase, found, amend, path, run, stops, crashes,
                 historyVars>>

\* amend: the row is read.
AmendFromLogs(e) ==
  /\ Recovering(e) /\ found[e] = "node" /\ ~Passed(e)
  /\ Amends(e, "update", waitTill[e])
  /\ UNCHANGED <<rowVars, fileVars, inbox, phase, found, unfinished, path, run, stops,
                 crashes, historyVars>>

\* The row is written, whatever has happened to it since it was read.
UpdateExecution(e) ==
  /\ amend.id = e /\ amend.step = "update"
  /\ status' = [status EXCEPT ![e] = "crashed"]
  /\ waitTill' = [waitTill EXCEPT ![e] = amend.wait]
  /\ amend' = [amend EXCEPT !.step = "save"]
  /\ UNCHANGED <<fileVars, inbox, phase, found, unfinished, path, run, stops, crashes,
                 historyVars>>

\* (A mutant of FinalStatus, not part of the specification.)
MutantCrashed(wait) == "crashed"

\* determineFinalExecutionStatus of an execution that was amended.
FinalStatus(wait) == IF wait THEN "waiting" ELSE "crashed"

\* runHooks: the hooks save the execution once more.  Nobody listens yet to the
\* event that the workflow has ended.
RunHooks(e) ==
  /\ amend.id = e /\ amend.step = "save"
  /\ status' = [status EXCEPT ![e] = FinalStatus(amend.wait)]
  /\ waitTill' = [waitTill EXCEPT ![e] = amend.wait \/ @]
  /\ amend' = Idle
  /\ unfinished' = unfinished \ {e}
  /\ UNCHANGED <<fileVars, inbox, phase, found, path, run, stops, crashes, historyVars>>

-----------------------------------------------------------------------------
(* The end of the process *)

ProcessEnds ==
  /\ phase' = "down"
  /\ run' = [e \in Execution |-> "none"]
  /\ inbox' = <<>>
  /\ unfinished' = {} /\ amend' = Idle /\ found' = EmptyLog /\ path' = "none"
  /\ stops' = {}
  /\ UNCHANGED <<rowVars, fileVars, historyVars>>

\* A crash, or a shutdown.
Crash ==
  /\ phase # "down" /\ crashes < MaxCrashes
  /\ crashes' = crashes + 1
  /\ ProcessEnds

\* The data of an execution takes up the memory of the process that reads it.
\* Bound: by then the writer has written the flag.
DieOfData(e) ==
  /\ e \in Poison
  /\ (Recovering(e) /\ found[e] = "node") \/ (amend.id = e /\ amend.step = "read")
  /\ inbox = <<>>
  /\ ProcessEnds
  /\ UNCHANGED crashes

-----------------------------------------------------------------------------
(* Specification *)

Initialize ==
  \/ Start \/ ReadLog \/ FindUnfinished \/ MarkAsCrashed \/ EndRecovery
  \/ \E e \in Execution :
       \/ AmendWithoutLogs(e) \/ ReadMarked(e) \/ PassOver(e) \/ AmendFromLogs(e)
       \/ UpdateExecution(e) \/ RunHooks(e)

Runner(e) ==
  \/ SetRunning(e) \/ WorkflowExecuteBefore(e) \/ NodeExecute(e)
  \/ WorkflowExecuteAfter(e) \/ Save(e) \/ Suspend(e) \/ Resume(e)
  \/ ReadStoppable(e) \/ StopDuringRun(e)

Next ==
  \/ Initialize \/ Handle \/ CheckFileSize \/ Crash
  \/ \E e \in Execution : Runner(e) \/ DieOfData(e)

Spec == Init /\ [][Next]_vars

\* The process is started again when it has ended, and its main thread goes on;
\* nothing is assumed of its writer thread.
Fairness == WF_vars(Initialize)

FairSpec == Spec /\ Fairness

-----------------------------------------------------------------------------
(* Properties *)

\* Every variable has its type; only a recovery under way has ids left, and the
\* execution it is at is one of them.
TypeOK ==
  /\ status \in [Execution -> {"absent", "running", "waiting", "crashed"} \cup Finished]
  /\ waitTill \in [Execution -> BOOLEAN]
  /\ {current, previous, found} \subseteq Log
  /\ recoveryInProgress \in BOOLEAN
  /\ inbox \in Seq([command : CommandName, log : Log])
  /\ phase \in {"down", "starting", "reading", "marking", "recovering", "up"}
  /\ unfinished \subseteq Execution
  /\ amend \in [id : Execution \cup {None}, step : {"idle", "read", "update", "save"},
                wait : BOOLEAN]
  /\ path \in {"none", "marked", "recovered"}
  /\ run \in [Execution -> {"none", "begun", "started", "node", "ended"}]
  /\ crashes \in 0..MaxCrashes
  /\ stops \subseteq Execution
  /\ crossed \subseteq Execution /\ survivors \subseteq Execution
  /\ unfinished # {} => phase \in {"marking", "recovering"}
  /\ amend # Idle => amend.id \in unfinished /\ phase = "recovering"

\* When the process is up, no execution of an earlier process is left running,
\* whatever is missing from the log, except one of which the log holds the start
\* and nothing else: amend returns null for it.
NothingLeftRunning ==
  \A e \in Execution :
    phase = "up" /\ status[e] = "running" /\ run[e] = "none" => found[e] = "started"

\* An execution that was waiting when the process started is still waiting when
\* it is up, unless it was resumed or the unfinished executions were only marked:
\* its run has no last event, so the recovery takes it for one that crashed.
WaitSurvives ==
  phase = "up" /\ path # "marked" => \A e \in survivors : status[e] = "waiting"

\* An execution that has finished stays so, though its last event may be missing
\* from the log, with three exceptions: the log leaves it unfinished and the
\* unfinished executions are only marked; it was started, resumed or stopped while
\* the process started, so that what the recovery does crosses it; and a stop that
\* found it unfinished still cancels it.
FinishedIsFinal ==
  [][\A e \in Execution :
       status[e] \in Finished /\ status'[e] # status[e] =>
         \/ phase = "marking" /\ e \in unfinished /\ found[e] \in {"started", "node"}
         \/ e \in crossed
         \/ e \in stops /\ status'[e] = "canceled"]_vars

\* A process that has died of what it recovered does not do so for ever: some
\* start is the last, and the process gets up.
StartsEnd == phase # "up" ~> phase = "up"
=============================================================================
