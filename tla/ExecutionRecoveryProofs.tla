---------------------- MODULE ExecutionRecoveryProofs ----------------------
(***************************************************************************)
(* Proofs about ExecutionRecovery, for any number of executions, crashes   *)
(* and messages under way.                                                 *)
(*                                                                         *)
(* None of them depends on what the writer thread has got to: whatever the *)
(* log lacks, the database says of an execution that was running, and      *)
(* whatever it has too much of, a row that waits has its time to wait for, *)
(* and a row that is read as finished is passed over.                      *)
(***************************************************************************)
EXTENDS ExecutionRecovery, TLAPS

\* The log leaves the execution unfinished.
Open(e) == found[e] \in {"started", "node"}

\* The start of a process has not got to its end.
Beginning == {"starting", "reading", "marking", "recovering"}

\* A row that waits has a time to wait for.
RowInv == \A e \in Execution : status[e] = "waiting" => waitTill[e]

\* Before the process is up only executions run that may cross the recovery, and
\* the row of any other that runs is running.
RunInv ==
  \A e \in Execution : run[e] # "none" =>
    /\ phase # "down"
    /\ e \notin crossed => phase = "up" /\ status[e] = "running"

\* A row that an earlier process left running is among the unfinished until it
\* has been dealt with.
OrphanInv ==
  \A e \in Execution :
    status[e] = "running" /\ run[e] = "none" /\ phase \in {"marking", "recovering", "up"}
    => e \in unfinished \/ found[e] = "started"

\* An execution that has been left alone since the start does not run; it waits,
\* or it is between the two writes of its recovery, which has read that it waits.
SurvivorInv ==
  /\ phase = "marking" => path = "marked"
  /\ \A e \in survivors :
       /\ run[e] = "none" /\ status[e] # "absent"
       /\ phase \in Beginning \/ (phase = "up" /\ path # "marked") =>
            /\ status[e] = "waiting" \/ (amend.id = e /\ amend.step = "save")
            /\ amend.id = e => amend.step \in {"update", "save"} /\ amend.wait
            /\ e \in unfinished => Open(e)

\* An execution that is recovered, and that nobody touches meanwhile, has not finished, and
\* it was running if the log does not say that it is unfinished.
AmendInv ==
  \A e \in Execution \ crossed :
    /\ amend.id = e => status[e] \notin Finished
    /\ phase \in {"marking", "recovering"} /\ e \in unfinished /\ amend.id # e /\ ~Open(e)
       => status[e] = "running"

RowsInv == RowInv /\ RunInv /\ OrphanInv /\ SurvivorInv /\ AmendInv

RecoveryInv == TypeOK /\ RowsInv
-----------------------------------------------------------------------------
(* The log and its writer *)

USE DEF Runs, Amends, Idle, rowVars, fileVars, recoveryVars, historyVars

Commands == [command : CommandName, log : Log]

\* A command is well formed when its log is.
LEMMA CommandTypes ==
  ASSUME NEW name \in CommandName, NEW log \in Log
  PROVE  Command(name, log) \in Commands
  BY DEF Command, Commands

LEMMA LogTypes ==
  /\ EmptyLog \in Log
  /\ \A e \in Execution, m \in LastMessage : Message(e, m) \in Log
  /\ \A log1, log2 \in Log : Then(log1, log2) \in Log
  BY DEF EmptyLog, Log, LastMessage, Message, Then

\* What is posted comes after what the writer has not handled.
LEMMA PostTypes ==
  ASSUME inbox \in Seq(Commands), NEW cs \in Seq(Commands), Post(cs)
  PROVE  inbox' \in Seq(Commands)
  BY DEF Post

LEMMA EventTypes ==
  ASSUME inbox \in Seq(Commands), NEW e \in Execution, NEW m \in LastMessage, Event(e, m)
  PROVE  inbox' \in Seq(Commands)
<1>1. Append1(Message(e, m)) \in Commands
  BY LogTypes, CommandTypes DEF Append1, CommandName
<1>2. <<Append1(Message(e, m))>> \in Seq(Commands)
  BY <1>1
<1>3. CASE phase = "up"
  <2>1. Post(<<Append1(Message(e, m))>>)
    BY <1>3 DEF Event
  <2>. QED
    BY <1>2, <2>1, PostTypes
<1>4. CASE phase # "up"
  BY <1>4 DEF Event
<1>. QED
  BY <1>3, <1>4

LEMMA UpTypes ==
  ASSUME inbox \in Seq(Commands), Up
  PROVE  inbox' \in Seq(Commands)
<1>1. Command("endRecoveryProcess", EmptyLog) \in Commands
  BY LogTypes, CommandTypes DEF CommandName
<1>2. <<Command("endRecoveryProcess", EmptyLog)>> \in Seq(Commands)
  BY <1>1
<1>3. Post(<<Command("endRecoveryProcess", EmptyLog)>>)
  BY DEF Up
<1>. QED
  BY <1>2, <1>3, PostTypes

-----------------------------------------------------------------------------
(* The initial state *)

LEMMA InitInv == Init => RecoveryInv
<1>. SUFFICES ASSUME Init PROVE RecoveryInv
  OBVIOUS
<1>1. TypeOK
  <2>1. {current, previous, found} \subseteq Log
    BY LogTypes DEF Init
  <2>2. inbox \in Seq([command : CommandName, log : Log])
    BY DEF Init
  <2>3. /\ status \in [Execution -> {"absent", "running", "waiting", "crashed"} \cup Finished]
        /\ waitTill \in [Execution -> BOOLEAN]
        /\ run \in [Execution -> {"none", "begun", "started", "node", "ended"}]
    BY DEF Init
  <2>4. /\ crashes \in 0..MaxCrashes
        /\ amend \in [id : Execution \cup {None}, step : {"idle", "read", "update", "save"},
                      wait : BOOLEAN]
        /\ amend = Idle /\ unfinished = {}
    BY RecoveryAssumption DEF Init
  <2>5. /\ recoveryInProgress \in BOOLEAN /\ phase = "down" /\ path = "none"
        /\ stops = {} /\ crossed = {} /\ survivors = {}
    BY DEF Init
  <2>. QED
    BY <2>1, <2>2, <2>3, <2>4, <2>5 DEF TypeOK
<1>2. RowsInv
  BY RecoveryAssumption DEF Init, RowsInv, RowInv, RunInv, OrphanInv, SurvivorInv, AmendInv
<1>. QED
  BY <1>1, <1>2 DEF RecoveryInv

-----------------------------------------------------------------------------
(* The writer *)

LEMMA HandleKeeps ==
  ASSUME RecoveryInv, Handle
  PROVE  RecoveryInv'
<1>1. TypeOK /\ RowsInv
  BY DEF RecoveryInv
<1>2. TypeOK'
  <2>1. Tail(inbox) \in Seq(Commands) /\ Head(inbox) \in Commands
    <3>1. inbox \in Seq(Commands) /\ inbox # <<>>
      BY <1>1 DEF Handle, TypeOK, Commands
    <3>. QED
      BY <3>1
  <2>2. Head(inbox).log \in Log /\ EmptyLog \in Log
    BY <2>1, LogTypes DEF Commands
  <2>3. current' \in Log /\ previous' \in Log /\ recoveryInProgress' \in BOOLEAN
    <3>1. Then(current, Head(inbox).log) \in Log
      BY <1>1, <2>2, LogTypes DEF TypeOK
    <3>. QED
      BY <1>1, <2>2, <3>1 DEF Handle, Rotate, TypeOK
  <2>. QED
    BY <1>1, <2>1, <2>3 DEF Handle, TypeOK, Commands
<1>3. RowsInv'
  BY <1>1, RecoveryAssumption DEF Handle, RowsInv, RowInv, RunInv, OrphanInv,
       SurvivorInv, AmendInv, Beginning, Open, Finished, TypeOK
<1>. QED
  BY <1>2, <1>3 DEF RecoveryInv

LEMMA CheckFileSizeKeeps ==
  ASSUME RecoveryInv, CheckFileSize
  PROVE  RecoveryInv'
<1>1. TypeOK /\ RowsInv
  BY DEF RecoveryInv
<1>2. TypeOK'
  BY <1>1, LogTypes DEF CheckFileSize, Rotate, TypeOK
<1>3. RowsInv'
  BY <1>1, RecoveryAssumption DEF CheckFileSize, RowsInv, RowInv, RunInv,
       OrphanInv, SurvivorInv, AmendInv, Beginning, Open, Finished, TypeOK
<1>. QED
  BY <1>2, <1>3 DEF RecoveryInv

-----------------------------------------------------------------------------
(* Runs *)

LEMMA SetRunningKeeps ==
  ASSUME RecoveryInv, NEW e \in Execution, SetRunning(e)
  PROVE  RecoveryInv'
<1>1. TypeOK /\ RowsInv
  BY DEF RecoveryInv
<1>2. TypeOK'
  BY <1>1, RecoveryAssumption DEF SetRunning, Crosses, TypeOK, Finished
<1>3. RowsInv'
  BY <1>1, RecoveryAssumption DEF SetRunning, Crosses, RowsInv, RowInv, RunInv,
       OrphanInv, SurvivorInv, AmendInv, Beginning, Open, Finished, TypeOK
<1>. QED
  BY <1>2, <1>3 DEF RecoveryInv

LEMMA WorkflowExecuteBeforeKeeps ==
  ASSUME RecoveryInv, NEW e \in Execution, WorkflowExecuteBefore(e)
  PROVE  RecoveryInv'
<1>1. TypeOK /\ RowsInv
  BY DEF RecoveryInv
<1>2. TypeOK'
  <2>1. inbox' \in Seq(Commands)
    BY <1>1, EventTypes DEF WorkflowExecuteBefore, TypeOK, Commands, LastMessage
  <2>. QED
    BY <1>1, <2>1 DEF WorkflowExecuteBefore, TypeOK, Commands
<1>3. RowsInv'
  BY <1>1, RecoveryAssumption DEF WorkflowExecuteBefore, RowsInv, RowInv,
       RunInv, OrphanInv, SurvivorInv, AmendInv, Beginning, Open, Finished,
       TypeOK
<1>. QED
  BY <1>2, <1>3 DEF RecoveryInv

LEMMA NodeExecuteKeeps ==
  ASSUME RecoveryInv, NEW e \in Execution, NodeExecute(e)
  PROVE  RecoveryInv'
<1>1. TypeOK /\ RowsInv
  BY DEF RecoveryInv
<1>2. TypeOK'
  <2>1. inbox' \in Seq(Commands)
    BY <1>1, EventTypes DEF NodeExecute, TypeOK, Commands, LastMessage
  <2>. QED
    BY <1>1, <2>1 DEF NodeExecute, TypeOK, Commands
<1>3. RowsInv'
  BY <1>1, RecoveryAssumption DEF NodeExecute, RowsInv, RowInv, RunInv,
       OrphanInv, SurvivorInv, AmendInv, Beginning, Open, Finished, TypeOK
<1>. QED
  BY <1>2, <1>3 DEF RecoveryInv

LEMMA WorkflowExecuteAfterKeeps ==
  ASSUME RecoveryInv, NEW e \in Execution, WorkflowExecuteAfter(e)
  PROVE  RecoveryInv'
<1>1. TypeOK /\ RowsInv
  BY DEF RecoveryInv
<1>2. TypeOK'
  <2>1. inbox' \in Seq(Commands)
    BY <1>1, EventTypes DEF WorkflowExecuteAfter, TypeOK, Commands, LastMessage
  <2>. QED
    BY <1>1, <2>1 DEF WorkflowExecuteAfter, TypeOK, Commands
<1>3. RowsInv'
  BY <1>1, RecoveryAssumption DEF WorkflowExecuteAfter, RowsInv, RowInv, RunInv,
       OrphanInv, SurvivorInv, AmendInv, Beginning, Open, Finished, TypeOK
<1>. QED
  BY <1>2, <1>3 DEF RecoveryInv

LEMMA SaveKeeps ==
  ASSUME RecoveryInv, NEW e \in Execution, Save(e)
  PROVE  RecoveryInv'
<1>1. TypeOK /\ RowsInv
  BY DEF RecoveryInv
<1>2. TypeOK'
  BY <1>1, RecoveryAssumption DEF Save, TypeOK, Finished
<1>3. RowsInv'
  BY <1>1, RecoveryAssumption DEF Save, RowsInv, RowInv, RunInv, OrphanInv,
       SurvivorInv, AmendInv, Beginning, Open, Finished, TypeOK
<1>. QED
  BY <1>2, <1>3 DEF RecoveryInv

LEMMA SuspendKeeps ==
  ASSUME RecoveryInv, NEW e \in Execution, Suspend(e)
  PROVE  RecoveryInv'
<1>1. TypeOK /\ RowsInv
  BY DEF RecoveryInv
<1>2. TypeOK'
  BY <1>1, RecoveryAssumption DEF Suspend, TypeOK, Finished
<1>3. RowsInv'
  BY <1>1, RecoveryAssumption DEF Suspend, RowsInv, RowInv, RunInv, OrphanInv,
       SurvivorInv, AmendInv, Beginning, Open, Finished, TypeOK
<1>. QED
  BY <1>2, <1>3 DEF RecoveryInv

LEMMA ResumeKeeps ==
  ASSUME RecoveryInv, NEW e \in Execution, Resume(e)
  PROVE  RecoveryInv'
<1>1. TypeOK /\ RowsInv
  BY DEF RecoveryInv
<1>2. TypeOK'
  BY <1>1, RecoveryAssumption DEF Resume, Crosses, TypeOK, Finished
<1>3. RowsInv'
  BY <1>1, RecoveryAssumption DEF Resume, Crosses, RowsInv, RowInv, RunInv, OrphanInv,
       SurvivorInv, AmendInv, Beginning, Open, Finished, TypeOK
<1>. QED
  BY <1>2, <1>3 DEF RecoveryInv

LEMMA ReadStoppableKeeps ==
  ASSUME RecoveryInv, NEW e \in Execution, ReadStoppable(e)
  PROVE  RecoveryInv'
<1>1. TypeOK /\ RowsInv
  BY DEF RecoveryInv
<1>2. TypeOK'
  BY <1>1, RecoveryAssumption DEF ReadStoppable, TypeOK, Finished
<1>3. RowsInv'
  BY <1>1, RecoveryAssumption DEF ReadStoppable, RowsInv, RowInv, RunInv,
       OrphanInv, SurvivorInv, AmendInv, Beginning, Open, Finished, TypeOK
<1>. QED
  BY <1>2, <1>3 DEF RecoveryInv

LEMMA StopDuringRunKeeps ==
  ASSUME RecoveryInv, NEW e \in Execution, StopDuringRun(e)
  PROVE  RecoveryInv'
<1>1. TypeOK /\ RowsInv
  BY DEF RecoveryInv
<1>2. TypeOK'
  BY <1>1, RecoveryAssumption DEF StopDuringRun, TypeOK, Finished
<1>3. RowsInv'
  BY <1>1, RecoveryAssumption DEF StopDuringRun, RowsInv, RowInv, RunInv,
       OrphanInv, SurvivorInv, AmendInv, Beginning, Open, Finished, TypeOK
<1>. QED
  BY <1>2, <1>3 DEF RecoveryInv

-----------------------------------------------------------------------------
(* MessageEventBus.initialize *)

LEMMA StartKeeps ==
  ASSUME RecoveryInv, Start
  PROVE  RecoveryInv'
<1>1. TypeOK /\ RowsInv
  BY DEF RecoveryInv
<1>2. TypeOK'
  BY <1>1, RecoveryAssumption DEF Start, TypeOK, Finished
<1>3. RowsInv'
  BY <1>1, RecoveryAssumption DEF Start, RowsInv, RowInv, RunInv, OrphanInv,
       SurvivorInv, AmendInv, Beginning, Open, Finished, TypeOK
<1>. QED
  BY <1>2, <1>3 DEF RecoveryInv

LEMMA ReadLogKeeps ==
  ASSUME RecoveryInv, ReadLog
  PROVE  RecoveryInv'
<1>1. TypeOK /\ RowsInv
  BY DEF RecoveryInv
<1>2. TypeOK'
  <2>1. found' \in Log
    BY <1>1, LogTypes DEF ReadLog, TypeOK
  <2>2. /\ Command("startLogging", EmptyLog) \in Commands
        /\ Append1(found') \in Commands
    BY <2>1, LogTypes, CommandTypes DEF Append1, CommandName
  <2>3. inbox' \in Seq(Commands)
    <3>1. PICK unsent \in Resends :
            Post(<<Command("startLogging", EmptyLog)>>
                 \o (IF unsent THEN <<Append1(found')>> ELSE <<>>))
      BY DEF ReadLog
    <3>2. (IF unsent THEN <<Append1(found')>> ELSE <<>>) \in Seq(Commands)
      BY <2>2
    <3>3. <<Command("startLogging", EmptyLog)>>
            \o (IF unsent THEN <<Append1(found')>> ELSE <<>>) \in Seq(Commands)
      BY <2>2, <3>2
    <3>. QED
      BY <1>1, <3>1, <3>3, PostTypes DEF TypeOK, Commands
  <2>. QED
    BY <1>1, <2>1, <2>3 DEF ReadLog, TypeOK, Commands
<1>3. RowsInv'
  BY <1>1, RecoveryAssumption DEF ReadLog, RowsInv, RowInv, RunInv, OrphanInv,
       SurvivorInv, AmendInv, Beginning, Open, Finished, TypeOK
<1>. QED
  BY <1>2, <1>3 DEF RecoveryInv

LEMMA FindUnfinishedKeeps ==
  ASSUME RecoveryInv, FindUnfinished
  PROVE  RecoveryInv'
<1>1. TypeOK /\ RowsInv
  BY DEF RecoveryInv
<1>2. TypeOK'
  <2>1. Command("startRecoveryProcess", EmptyLog) \in Commands
    BY LogTypes, CommandTypes DEF CommandName
  <2>2. inbox' \in Seq(Commands)
    <3>1. <<Command("startRecoveryProcess", EmptyLog)>> \in Seq(Commands)
      BY <2>1
    <3>2. inbox' = inbox \/ Post(<<Command("startRecoveryProcess", EmptyLog)>>)
      BY DEF FindUnfinished
    <3>. QED
      BY <1>1, <3>1, <3>2, PostTypes DEF TypeOK, Commands
  <2>3. unfinished' \subseteq Execution /\ amend' = Idle
    BY <1>1 DEF FindUnfinished, Unfinished, TypeOK
  <2>. QED
    BY <1>1, <2>2, <2>3 DEF FindUnfinished, TypeOK, Commands
<1>3. RowsInv'
  BY <1>1, RecoveryAssumption DEF FindUnfinished, Unfinished, MarkOnly, RowsInv,
       RowInv, RunInv, OrphanInv, SurvivorInv, AmendInv, Beginning, Open,
       Finished, TypeOK
<1>. QED
  BY <1>2, <1>3 DEF RecoveryInv

LEMMA MarkAsCrashedKeeps ==
  ASSUME RecoveryInv, MarkAsCrashed
  PROVE  RecoveryInv'
<1>1. TypeOK /\ RowsInv
  BY DEF RecoveryInv
<1>2. TypeOK'
  <2>1. inbox' \in Seq(Commands)
    BY <1>1, UpTypes DEF MarkAsCrashed, TypeOK, Commands
  <2>. QED
    BY <1>1, <2>1 DEF MarkAsCrashed, Up, TypeOK, Commands
<1>3. RowsInv'
  BY <1>1, RecoveryAssumption DEF MarkAsCrashed, Up, RowsInv, RowInv, RunInv,
       OrphanInv, SurvivorInv, AmendInv, Beginning, Open, Finished, TypeOK
<1>. QED
  BY <1>2, <1>3 DEF RecoveryInv

LEMMA EndRecoveryKeeps ==
  ASSUME RecoveryInv, EndRecovery
  PROVE  RecoveryInv'
<1>1. TypeOK /\ RowsInv
  BY DEF RecoveryInv
<1>2. TypeOK'
  <2>1. inbox' \in Seq(Commands)
    BY <1>1, UpTypes DEF EndRecovery, TypeOK, Commands
  <2>. QED
    BY <1>1, <2>1 DEF EndRecovery, Up, TypeOK, Commands
<1>3. RowsInv'
  BY <1>1, RecoveryAssumption DEF EndRecovery, Up, RowsInv, RowInv, RunInv,
       OrphanInv, SurvivorInv, AmendInv, Beginning, Open, Finished, TypeOK
<1>. QED
  BY <1>2, <1>3 DEF RecoveryInv

-----------------------------------------------------------------------------
(* ExecutionRecoveryService.recoverFromLogs *)

LEMMA AmendWithoutLogsKeeps ==
  ASSUME RecoveryInv, NEW e \in Execution, AmendWithoutLogs(e)
  PROVE  RecoveryInv'
<1>1. TypeOK /\ RowsInv
  BY DEF RecoveryInv
<1>2. TypeOK'
  BY <1>1, RecoveryAssumption DEF AmendWithoutLogs, Recovering, TypeOK, Finished
<1>3. RowsInv'
  BY <1>1, RecoveryAssumption DEF AmendWithoutLogs, Recovering, RowsInv, RowInv,
       RunInv, OrphanInv, SurvivorInv, AmendInv, Beginning, Open, Finished,
       TypeOK
<1>. QED
  BY <1>2, <1>3 DEF RecoveryInv

LEMMA ReadMarkedKeeps ==
  ASSUME RecoveryInv, NEW e \in Execution, ReadMarked(e)
  PROVE  RecoveryInv'
<1>1. TypeOK /\ RowsInv
  BY DEF RecoveryInv
<1>2. TypeOK'
  BY <1>1, RecoveryAssumption DEF ReadMarked, TypeOK, Finished
<1>3. RowsInv'
  BY <1>1, RecoveryAssumption DEF ReadMarked, RowsInv, RowInv, RunInv,
       OrphanInv, SurvivorInv, AmendInv, Beginning, Open, Finished, TypeOK
<1>. QED
  BY <1>2, <1>3 DEF RecoveryInv

LEMMA PassOverKeeps ==
  ASSUME RecoveryInv, NEW e \in Execution, PassOver(e)
  PROVE  RecoveryInv'
<1>1. TypeOK /\ RowsInv
  BY DEF RecoveryInv
<1>2. TypeOK'
  BY <1>1, RecoveryAssumption DEF PassOver, Recovering, Passed, TypeOK, Finished
<1>3. RowsInv'
  BY <1>1, RecoveryAssumption DEF PassOver, Recovering, Passed, RowsInv, RowInv,
       RunInv, OrphanInv, SurvivorInv, AmendInv, Beginning, Open, Finished,
       TypeOK
<1>. QED
  BY <1>2, <1>3 DEF RecoveryInv

LEMMA AmendFromLogsKeeps ==
  ASSUME RecoveryInv, NEW e \in Execution, AmendFromLogs(e)
  PROVE  RecoveryInv'
<1>1. TypeOK /\ RowsInv
  BY DEF RecoveryInv
<1>2. TypeOK'
  BY <1>1, RecoveryAssumption DEF AmendFromLogs, Recovering, Passed, TypeOK,
       Finished
<1>3. RowsInv'
  BY <1>1, RecoveryAssumption DEF AmendFromLogs, Recovering, Passed, RowsInv,
       RowInv, RunInv, OrphanInv, SurvivorInv, AmendInv, Beginning, Open,
       Finished, TypeOK
<1>. QED
  BY <1>2, <1>3 DEF RecoveryInv

LEMMA UpdateExecutionKeeps ==
  ASSUME RecoveryInv, NEW e \in Execution, UpdateExecution(e)
  PROVE  RecoveryInv'
<1>1. TypeOK /\ RowsInv
  BY DEF RecoveryInv
<1>2. TypeOK'
  BY <1>1, RecoveryAssumption DEF UpdateExecution, TypeOK, Finished
<1>3. RowsInv'
  BY <1>1, RecoveryAssumption DEF UpdateExecution, RowsInv, RowInv, RunInv,
       OrphanInv, SurvivorInv, AmendInv, Beginning, Open, Finished, TypeOK
<1>. QED
  BY <1>2, <1>3 DEF RecoveryInv

LEMMA RunHooksKeeps ==
  ASSUME RecoveryInv, NEW e \in Execution, RunHooks(e)
  PROVE  RecoveryInv'
<1>1. TypeOK /\ RowsInv
  BY DEF RecoveryInv
<1>2. TypeOK'
  BY <1>1, RecoveryAssumption DEF RunHooks, FinalStatus, TypeOK, Finished
<1>3. RowsInv'
  BY <1>1, RecoveryAssumption DEF RunHooks, FinalStatus, RowsInv, RowInv,
       RunInv, OrphanInv, SurvivorInv, AmendInv, Beginning, Open, Finished,
       TypeOK
<1>. QED
  BY <1>2, <1>3 DEF RecoveryInv

-----------------------------------------------------------------------------
(* The end of the process *)

LEMMA ProcessEndsKeeps ==
  ASSUME RecoveryInv, ProcessEnds, crashes' \in 0..MaxCrashes
  PROVE  RecoveryInv'
<1>1. TypeOK /\ RowsInv
  BY DEF RecoveryInv
<1>2. TypeOK'
  BY <1>1, LogTypes DEF ProcessEnds, TypeOK
<1>3. RowsInv'
  BY <1>1, RecoveryAssumption
     DEF ProcessEnds, RowsInv, RowInv, RunInv, OrphanInv, SurvivorInv, AmendInv, Beginning,
         Open, Finished, TypeOK
<1>. QED
  BY <1>2, <1>3 DEF RecoveryInv

LEMMA CrashKeeps ==
  ASSUME RecoveryInv, Crash
  PROVE  RecoveryInv'
<1>1. crashes' \in 0..MaxCrashes
  BY RecoveryAssumption DEF Crash, RecoveryInv, TypeOK
<1>. QED
  BY <1>1, ProcessEndsKeeps DEF Crash

LEMMA DieOfDataKeeps ==
  ASSUME RecoveryInv, NEW e \in Execution, DieOfData(e)
  PROVE  RecoveryInv'
  BY ProcessEndsKeeps DEF DieOfData, RecoveryInv, TypeOK

-----------------------------------------------------------------------------
(* Theorems *)

LEMMA RecoveryStep == RecoveryInv /\ [Next]_vars => RecoveryInv'
<1>. SUFFICES ASSUME RecoveryInv, [Next]_vars PROVE RecoveryInv'
  OBVIOUS
<1>1. CASE Initialize
  BY <1>1, StartKeeps, ReadLogKeeps, FindUnfinishedKeeps, MarkAsCrashedKeeps, EndRecoveryKeeps,
     AmendWithoutLogsKeeps, ReadMarkedKeeps, PassOverKeeps, AmendFromLogsKeeps,
     UpdateExecutionKeeps, RunHooksKeeps
     DEF Initialize
<1>2. CASE Handle \/ CheckFileSize \/ Crash
  BY <1>2, HandleKeeps, CheckFileSizeKeeps, CrashKeeps
<1>3. ASSUME NEW e \in Execution, Runner(e) PROVE RecoveryInv'
  BY <1>3, SetRunningKeeps, WorkflowExecuteBeforeKeeps, NodeExecuteKeeps,
     WorkflowExecuteAfterKeeps, SaveKeeps, SuspendKeeps, ResumeKeeps, ReadStoppableKeeps,
     StopDuringRunKeeps
     DEF Runner
<1>4. ASSUME NEW e \in Execution, DieOfData(e) PROVE RecoveryInv'
  BY <1>4, DieOfDataKeeps
<1>5. CASE UNCHANGED vars
  BY <1>5 DEF vars, RecoveryInv, RowsInv, RowInv, RunInv, OrphanInv, SurvivorInv, AmendInv,
              Beginning, Open, Finished, TypeOK
<1>. QED
  BY <1>1, <1>2, <1>3, <1>4, <1>5 DEF Next

LEMMA RecoveryInvariant == Spec => []RecoveryInv
  BY InitInv, RecoveryStep, PTL DEF Spec

\* Files, rows, commands and recovery keep their types, and only a recovery under
\* way has executions left to recover.
THEOREM RecoveryTypeCorrect == Spec => []TypeOK
<1>1. RecoveryInv => TypeOK
  BY DEF RecoveryInv
<1>. QED
  BY <1>1, RecoveryInvariant, PTL

\* However much of the log was lost with the process before, a process that is
\* up has left no execution of it running, except one whose log holds its start
\* and nothing else.
THEOREM NoneLeftRunning == Spec => []NothingLeftRunning
<1>1. RecoveryInv => NothingLeftRunning
  BY DEF RecoveryInv, TypeOK, RowsInv, OrphanInv, NothingLeftRunning
<1>. QED
  BY <1>1, RecoveryInvariant, PTL

\* Executions that were waiting when the process started, and were left alone,
\* are waiting when it is up, unless the unfinished ones were only marked.
THEOREM WaitsSurvive == Spec => []WaitSurvives
<1>1. RecoveryInv => WaitSurvives
  BY RecoveryAssumption
     DEF RecoveryInv, TypeOK, RowsInv, SurvivorInv, WaitSurvives
<1>. QED
  BY <1>1, RecoveryInvariant, PTL

\* What may be written to the row of an execution that has finished.
FinishedMoves ==
  \A e \in Execution :
    status[e] \in Finished /\ status'[e] # status[e] =>
      \/ phase = "marking" /\ e \in unfinished /\ found[e] \in {"started", "node"}
      \/ e \in crossed
      \/ e \in stops /\ status'[e] = "canceled"

\* Runs write the row of an execution that runs, or that waits.
LEMMA RunsMoves ==
  ASSUME RecoveryInv, NEW e \in Execution, Runner(e)
  PROVE  FinishedMoves
<1>1. status \in [Execution -> {"absent", "running", "waiting", "crashed"} \cup Finished]
  BY DEF RecoveryInv, TypeOK
<1>2. RunInv
  BY DEF RecoveryInv, RowsInv
<1>3. CASE SetRunning(e) \/ Resume(e) \/ StopDuringRun(e)
  BY <1>1, <1>3 DEF SetRunning, Resume, StopDuringRun, FinishedMoves, Finished
<1>4. CASE WorkflowExecuteBefore(e) \/ NodeExecute(e) \/ WorkflowExecuteAfter(e)
           \/ ReadStoppable(e)
  BY <1>4 DEF WorkflowExecuteBefore, NodeExecute, WorkflowExecuteAfter, ReadStoppable,
              FinishedMoves
<1>5. CASE Save(e) \/ Suspend(e)
  <2>1. e \in crossed \/ status[e] = "running"
    BY <1>2, <1>5 DEF RunInv, Save, Suspend
  <2>. QED
    BY <1>1, <1>5, <2>1 DEF Save, Suspend, FinishedMoves, Finished
<1>. QED
  BY <1>3, <1>4, <1>5 DEF Runner

\* The recovery writes rows of executions that have not finished, unless they were
\* touched meanwhile, or are marked because the log leaves them unfinished.
LEMMA InitializeMoves ==
  ASSUME RecoveryInv, Initialize
  PROVE  FinishedMoves
<1>1. status \in [Execution -> {"absent", "running", "waiting", "crashed"} \cup Finished]
  BY DEF RecoveryInv, TypeOK
<1>2. AmendInv
  BY DEF RecoveryInv, RowsInv
<1>3. CASE Start \/ ReadLog \/ FindUnfinished \/ EndRecovery
  BY <1>3 DEF Start, ReadLog, FindUnfinished, EndRecovery, FinishedMoves
<1>4. CASE MarkAsCrashed
  <2>1. \A e \in unfinished : Open(e) \/ e \in crossed \/ status[e] \notin Finished
    BY <1>2, <1>4, RecoveryAssumption
       DEF AmendInv, MarkAsCrashed, Finished, RecoveryInv, TypeOK
  <2>. QED
    BY <1>1, <1>4, <2>1 DEF MarkAsCrashed, FinishedMoves, Open
<1>5. ASSUME NEW e \in Execution, ReadMarked(e) \/ PassOver(e) \/ AmendFromLogs(e)
      PROVE  FinishedMoves
  BY <1>5 DEF ReadMarked, PassOver, AmendFromLogs, FinishedMoves
<1>6. ASSUME NEW e \in Execution, AmendWithoutLogs(e)
      PROVE  FinishedMoves
  <2>1. e \in crossed \/ status[e] = "running"
    BY <1>2, <1>6, RecoveryAssumption DEF AmendInv, AmendWithoutLogs, Recovering, Open
  <2>. QED
    BY <1>1, <1>6, <2>1 DEF AmendWithoutLogs, FinishedMoves, Finished
<1>7. ASSUME NEW e \in Execution, UpdateExecution(e) \/ RunHooks(e)
      PROVE  FinishedMoves
  <2>1. e \in crossed \/ status[e] \notin Finished
    BY <1>2, <1>7 DEF AmendInv, UpdateExecution, RunHooks
  <2>. QED
    BY <1>1, <1>7, <2>1 DEF UpdateExecution, RunHooks, FinishedMoves
<1>. QED
  BY <1>3, <1>4, <1>5, <1>6, <1>7 DEF Initialize

LEMMA NextMoves == RecoveryInv /\ [Next]_vars => [FinishedMoves]_vars
<1>. SUFFICES ASSUME RecoveryInv, Next PROVE FinishedMoves
  OBVIOUS
<1>1. CASE Handle \/ CheckFileSize \/ Crash
  BY <1>1 DEF Handle, CheckFileSize, Crash, ProcessEnds, FinishedMoves
<1>2. ASSUME NEW e \in Execution, DieOfData(e) PROVE FinishedMoves
  BY <1>2 DEF DieOfData, ProcessEnds, FinishedMoves
<1>. QED
  BY <1>1, <1>2, RunsMoves, InitializeMoves DEF Next

\* An execution that has finished stays as it is, though its last message never
\* reached the log, unless the log leaves it unfinished and the unfinished are only
\* marked, or it was started, resumed or stopped while the process started, or a stop
\* that found it unfinished still cancels it.
THEOREM FinishedStays == Spec => FinishedIsFinal
<1>1. RecoveryInv /\ [Next]_vars
        => [\A e \in Execution :
              status[e] \in Finished /\ status'[e] # status[e] =>
                \/ phase = "marking" /\ e \in unfinished /\ found[e] \in {"started", "node"}
                \/ e \in crossed
                \/ e \in stops /\ status'[e] = "canceled"]_vars
  BY NextMoves DEF FinishedMoves
<1>. QED
  BY <1>1, RecoveryInvariant, PTL DEF Spec, FinishedIsFinal
=============================================================================
