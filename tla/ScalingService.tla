--------------------------- MODULE ScalingService ---------------------------
(***************************************************************************)
(* Queue mode: the main process that enqueues executions and recovers      *)
(* dangling ones, the Bull queue in Redis, the workers that process jobs,  *)
(* and the rows of the executions in the database they all write.          *)
(*                                                                         *)
(* An execution has at most one job, which leaves the queue when it ends,  *)
(* and a job whose worker has lost its lock is not tried again             *)
(* (maxStalledCount is 0).  Executions that wait are in WaitTracker.       *)
(*                                                                         *)
(* A mutant stands before the operation it stands in for and is not part   *)
(* of the specification: it is a plausible mistake that a property notices.*)
(***************************************************************************)
EXTENDS Integers, FiniteSets

CONSTANTS Worker,
          Execution,
          Local,      \* the executions that run in the main process (manual ones)
          Stoppable,  \* bound: the executions a user may stop
          MayStall,   \* whether a busy worker may lose the lock of its job
          MayReject,  \* bound: the executions whose run may fail to save
          MaxCrashes, \* bound on the crashes of workers and of the main process
          None

ASSUME ScalingAssumption ==
  /\ Local \subseteq Execution /\ Stoppable \subseteq Execution \ Local
  /\ MayReject \subseteq Execution
  /\ MayStall \in BOOLEAN /\ MaxCrashes \in Nat
  /\ None \notin Worker

VARIABLES
  status,   \* per execution, its status in the database
  \* the main process
  entry,    \* per execution, its entry of ActiveExecutions and its handler
  stops,    \* per execution, how far stopJob has got
  stopWrites,  \* the executions that a stop has still to write
  recovery, \* how far recoverFromQueue has got
  dangling, \* the executions it has read
  \* the queue
  job,      \* per execution, the state of its job
  lock,     \* per execution, the worker that has the lock of its job
  ended,    \* per execution, how its job ended, until the main process hears
  aborts,   \* the executions with an abort-job message on its way
  \* the workers
  phase,    \* per worker and execution, how far processJob has got
  crashes

mainVars == <<entry, stops, stopWrites>>
recoveryVars == <<recovery, dangling>>
queueVars == <<job, lock, ended>>
vars == <<status, mainVars, recoveryVars, queueVars, aborts, phase, crashes>>

Init ==
  /\ status = [e \in Execution |-> "absent"]
  /\ entry = [e \in Execution |-> "none"]
  /\ stops = [e \in Execution |-> "none"]
  /\ stopWrites = {}
  /\ recovery = "idle" /\ dangling = {}
  /\ job = [e \in Execution |-> "none"]
  /\ lock = [e \in Execution |-> None]
  /\ ended = [e \in Execution |-> "none"]
  /\ aborts = {}
  /\ phase = [w \in Worker |-> [e \in Execution |-> "idle"]]
  /\ crashes = 0

InProgress == {"new", "running"}

\* The handler in enqueueExecution awaits job.finished().
Awaited(e) == entry[e] \in {"waits", "stopped"}

Writes(e, s) == status' = [status EXCEPT ![e] = s]
Enters(e, p) == entry' = [entry EXCEPT ![e] = p]
Reaches(w, e, p) == phase' = [phase EXCEPT ![w][e] = p]

\* (A mutant of JobLeaves, not part of the specification: the lock outlives the
\* job.)
MutantLockKept(e, how) ==
  /\ job' = [job EXCEPT ![e] = "none"]
  /\ lock' = lock
  /\ ended' = [ended EXCEPT ![e] = IF Awaited(e) THEN how ELSE "none"]

\* The job leaves the queue, and its handler, if there is one, will hear how.
JobLeaves(e, how) ==
  /\ job' = [job EXCEPT ![e] = "none"]
  /\ lock' = [lock EXCEPT ![e] = None]
  /\ ended' = [ended EXCEPT ![e] = IF Awaited(e) THEN how ELSE "none"]

-----------------------------------------------------------------------------
(* The main process *)

Create(e) ==
  /\ status[e] = "absent"
  /\ Writes(e, "new") /\ Enters(e, "adding")
  /\ UNCHANGED <<stops, stopWrites, recoveryVars, queueVars, aborts, phase, crashes>>

\* addJob.  A stop in between has dropped the entry, and the job is added all
\* the same.
AddJob(e) ==
  /\ e \notin Local /\ entry[e] \in {"adding", "dropped"}
  /\ job' = [job EXCEPT ![e] = "waiting"]
  /\ Enters(e, IF entry[e] = "adding" THEN "waits" ELSE "none")
  /\ UNCHANGED <<status, stops, stopWrites, recoveryVars, lock, ended, aborts,
                 phase, crashes>>

RunLocally(e) ==
  /\ e \in Local /\ entry[e] = "adding"
  /\ Writes(e, "running") /\ Enters(e, "local")
  /\ UNCHANGED <<stops, stopWrites, recoveryVars, queueVars, aborts, phase, crashes>>

LocalEnds(e) ==
  /\ entry[e] = "local"
  /\ Writes(e, "success") /\ Enters(e, "none")
  /\ UNCHANGED <<stops, stopWrites, recoveryVars, queueVars, aborts, phase, crashes>>

\* job.finished() resolves: the entry is finalized with the row of the worker.
JobEnds(e) ==
  /\ ended[e] = "completed" /\ Awaited(e)
  /\ ended' = [ended EXCEPT ![e] = "none"]
  /\ Enters(e, "none")
  /\ UNCHANGED <<status, stops, stopWrites, recoveryVars, job, lock, aborts,
                 phase, crashes>>

\* (A mutant of JobFails, not part of the specification: whatever the row says,
\* the failure is taken for a false alarm.)
MutantFalseAlarm(e) ==
  /\ ended[e] \in {"stalled", "errored"} /\ Awaited(e)
  /\ ended' = [ended EXCEPT ![e] = "none"]
  /\ UNCHANGED <<status, entry, stops, stopWrites, recoveryVars, job, lock, aborts,
                 phase, crashes>>

\* job.finished() rejects and processError reads the row.  A success makes it a
\* false alarm, and the entry is left as it is; else the entry is finalized,
\* and the row has still to be written.
JobFails(e) ==
  /\ ended[e] \in {"stalled", "errored"} /\ Awaited(e)
  /\ ended' = [ended EXCEPT ![e] = "none"]
  /\ Enters(e, IF status[e] # "success" THEN "failing"
               ELSE IF entry[e] = "waits" THEN "left" ELSE "none")
  /\ UNCHANGED <<status, stops, stopWrites, recoveryVars, job, lock, aborts,
                 phase, crashes>>

SaveFailure(e) ==
  /\ entry[e] = "failing"
  /\ Writes(e, "error") /\ Enters(e, "none")
  /\ UNCHANGED <<stops, stopWrites, recoveryVars, queueVars, aborts, phase, crashes>>

\* stopInScalingMode: the entry is dropped and, when the workflow is attached,
\* stopJob begins.
Stop(e) ==
  /\ e \in Stoppable /\ status[e] \in InProgress /\ e \notin stopWrites
  /\ stopWrites' = stopWrites \cup {e}
  /\ CASE entry[e] = "adding" -> Enters(e, "dropped") /\ UNCHANGED stops
       [] entry[e] = "waits" -> /\ Enters(e, "stopped")
                                /\ stops' = [stops EXCEPT ![e] = "asked"]
       [] entry[e] = "left" -> Enters(e, "none") /\ UNCHANGED stops
       [] OTHER -> UNCHANGED <<entry, stops>>
  /\ UNCHANGED <<status, recoveryVars, queueVars, aborts, phase, crashes>>

\* stopDuringRun
StopWrite(e) ==
  /\ e \in stopWrites
  /\ stopWrites' = stopWrites \ {e}
  /\ Writes(e, "canceled")
  /\ UNCHANGED <<entry, stops, recoveryVars, queueVars, aborts, phase, crashes>>

\* stopJob asks whether the job is active, and acts on the answer.
StopAsks(e) ==
  /\ stops[e] = "asked"
  /\ stops' = [stops EXCEPT ![e] = IF job[e] = "active" THEN "active" ELSE "inactive"]
  /\ UNCHANGED <<status, entry, stopWrites, recoveryVars, queueVars, aborts, phase,
                 crashes>>

\* The worker is told, the job is moved to failed whoever has its lock, and the
\* handler returns on hearing of the cancellation.
StopActive(e) ==
  /\ stops[e] = "active"
  /\ stops' = [stops EXCEPT ![e] = "none"]
  /\ IF job[e] = "active"
     THEN /\ aborts' = aborts \cup {e}
          /\ JobLeaves(e, "none") /\ Enters(e, "none")
     ELSE UNCHANGED <<aborts, queueVars, entry>>
  /\ UNCHANGED <<status, stopWrites, recoveryVars, phase, crashes>>

\* A job that is active by now has a lock and cannot be removed.
StopInactive(e) ==
  /\ stops[e] = "inactive"
  /\ stops' = [stops EXCEPT ![e] = "none"]
  /\ IF job[e] = "waiting"
     THEN JobLeaves(e, "none") /\ Enters(e, "none")
     ELSE UNCHANGED <<queueVars, entry>>
  /\ UNCHANGED <<status, stopWrites, recoveryVars, aborts, phase, crashes>>

\* The main process restarts, and nobody awaits the jobs it had added.
MainCrash ==
  /\ crashes < MaxCrashes
  /\ crashes' = crashes + 1
  /\ entry' = [e \in Execution |-> "none"]
  /\ stops' = [e \in Execution |-> "none"]
  /\ stopWrites' = {}
  /\ recovery' = "idle" /\ dangling' = {}
  /\ ended' = [e \in Execution |-> "none"]
  /\ UNCHANGED <<status, job, lock, aborts, phase>>

-----------------------------------------------------------------------------
(* Queue recovery *)

\* (A mutant of RecoverRead, not part of the specification: executions that
\* were never enqueued are not looked for.)
MutantRunningOnly ==
  /\ recovery = "idle"
  /\ dangling' = {e \in Execution : status[e] = "running"}
  /\ dangling' # {}
  /\ recovery' = "stored"
  /\ UNCHANGED <<status, mainVars, queueVars, aborts, phase, crashes>>

\* recoverFromQueue reads the ids in the database, then the jobs in the queue,
\* and marks those without a job as crashed, whatever they are by then.
RecoverRead ==
  /\ recovery = "idle"
  /\ dangling' = {e \in Execution : status[e] \in InProgress}
  /\ dangling' # {}
  /\ recovery' = "stored"
  /\ UNCHANGED <<status, mainVars, queueVars, aborts, phase, crashes>>

RecoverCompare ==
  /\ recovery = "stored"
  /\ dangling' = {e \in dangling : job[e] = "none"}
  /\ recovery' = IF dangling' = {} THEN "idle" ELSE "compared"
  /\ UNCHANGED <<status, mainVars, queueVars, aborts, phase, crashes>>

RecoverMark ==
  /\ recovery = "compared"
  /\ status' = [e \in Execution |-> IF e \in dangling THEN "crashed" ELSE status[e]]
  /\ recovery' = "idle" /\ dangling' = {}
  /\ UNCHANGED <<mainVars, queueVars, aborts, phase, crashes>>

-----------------------------------------------------------------------------
(* The workers *)

Pick(w, e) ==
  /\ job[e] = "waiting" /\ phase[w][e] = "idle"
  /\ job' = [job EXCEPT ![e] = "active"]
  /\ lock' = [lock EXCEPT ![e] = w]
  /\ Reaches(w, e, "picked")
  /\ UNCHANGED <<status, mainVars, recoveryVars, ended, aborts, crashes>>

\* processJob reads the row.  An execution marked as crashed is not run, and
\* its job completes.
LoadCrashed(w, e) ==
  /\ phase[w][e] = "picked" /\ status[e] = "crashed"
  /\ Reaches(w, e, "idle")
  /\ IF lock[e] = w THEN JobLeaves(e, "completed") ELSE UNCHANGED queueVars
  /\ UNCHANGED <<status, mainVars, recoveryVars, aborts, crashes>>

Load(w, e) ==
  /\ phase[w][e] = "picked" /\ status[e] # "crashed"
  /\ Reaches(w, e, "loaded")
  /\ UNCHANGED <<status, mainVars, recoveryVars, queueVars, aborts, crashes>>

SetRunning(w, e) ==
  /\ phase[w][e] = "loaded"
  /\ Writes(e, "running") /\ Reaches(w, e, "starting")
  /\ UNCHANGED <<mainVars, recoveryVars, queueVars, aborts, crashes>>

\* (A mutant of StartRun, not part of the specification: processJob returns
\* without awaiting the run.)
MutantNotAwaited(w, e) ==
  /\ phase[w][e] = "starting"
  /\ Reaches(w, e, "running")
  /\ IF lock[e] = w THEN JobLeaves(e, "completed") ELSE UNCHANGED queueVars
  /\ UNCHANGED <<status, mainVars, recoveryVars, aborts, crashes>>

\* The run is entered in runningJobs.
StartRun(w, e) ==
  /\ phase[w][e] = "starting"
  /\ Reaches(w, e, "running")
  /\ UNCHANGED <<status, mainVars, recoveryVars, queueVars, aborts, crashes>>

\* abort-job arrives: only a run in runningJobs can be cancelled.
Abort(e) ==
  /\ e \in aborts
  /\ aborts' = aborts \ {e}
  /\ phase' = [w \in Worker |->
                 [phase[w] EXCEPT ![e] = IF @ = "running" THEN "canceling" ELSE @]]
  /\ UNCHANGED <<status, mainVars, recoveryVars, queueVars, crashes>>

\* The run ends and its workflowExecuteAfter hook saves it.
SaveRun(w, e) ==
  /\ \/ phase[w][e] = "running" /\ \E s \in {"success", "error"} : Writes(e, s)
     \/ phase[w][e] = "canceling" /\ Writes(e, "canceled")
  /\ Reaches(w, e, "saved")
  /\ UNCHANGED <<mainVars, recoveryVars, queueVars, aborts, crashes>>

\* The promise of the run rejects: the job fails, and a run that was not
\* cancelled stays in runningJobs.
RunRejects(w, e) ==
  /\ e \in MayReject /\ phase[w][e] \in {"running", "canceling"}
  /\ Reaches(w, e, IF phase[w][e] = "running" THEN "kept" ELSE "idle")
  /\ IF lock[e] = w THEN JobLeaves(e, "errored") ELSE UNCHANGED queueVars
  /\ UNCHANGED <<status, mainVars, recoveryVars, aborts, crashes>>

\* processJob returns.  Without the lock the job is not completed any more.
Complete(w, e) ==
  /\ phase[w][e] = "saved"
  /\ Reaches(w, e, "idle")
  /\ IF lock[e] = w THEN JobLeaves(e, "completed") ELSE UNCHANGED queueVars
  /\ UNCHANGED <<status, mainVars, recoveryVars, aborts, crashes>>

\* The worker restarts; the jobs it had stay active.
WorkerCrash(w) ==
  /\ crashes < MaxCrashes
  /\ crashes' = crashes + 1
  /\ phase' = [phase EXCEPT ![w] = [e \in Execution |-> "idle"]]
  /\ UNCHANGED <<status, mainVars, recoveryVars, queueVars, aborts>>

Abandoned(e) == job[e] = "active" /\ phase[lock[e]][e] = "idle"

\* (A mutant of Stall, not part of the specification: a stalled job goes back to
\* the queue, as it does with another maxStalledCount.)
MutantTryAgain(e) ==
  /\ job[e] = "active" /\ (MayStall \/ Abandoned(e))
  /\ job' = [job EXCEPT ![e] = "waiting"]
  /\ lock' = [lock EXCEPT ![e] = None]
  /\ UNCHANGED <<status, mainVars, recoveryVars, ended, aborts, phase, crashes>>

\* A worker, gone or busy, has not renewed the lock of its job: the job fails.
Stall(e) ==
  /\ job[e] = "active" /\ (MayStall \/ Abandoned(e))
  /\ JobLeaves(e, "stalled")
  /\ UNCHANGED <<status, mainVars, recoveryVars, aborts, phase, crashes>>

-----------------------------------------------------------------------------
(* Specification *)

MainStep(e) ==
  \/ AddJob(e) \/ RunLocally(e) \/ LocalEnds(e)
  \/ JobEnds(e) \/ JobFails(e) \/ SaveFailure(e)
  \/ StopWrite(e) \/ StopAsks(e) \/ StopActive(e) \/ StopInactive(e)

Recover == RecoverRead \/ RecoverCompare \/ RecoverMark

WorkerStep(w, e) ==
  \/ Pick(w, e) \/ LoadCrashed(w, e) \/ Load(w, e) \/ SetRunning(w, e)
  \/ StartRun(w, e) \/ SaveRun(w, e) \/ RunRejects(w, e) \/ Complete(w, e)

Next ==
  \/ \E e \in Execution : Create(e) \/ Stop(e) \/ Abort(e) \/ Stall(e) \/ MainStep(e)
  \/ Recover \/ MainCrash
  \/ \E w \in Worker : WorkerCrash(w)
  \/ \E w \in Worker, e \in Execution : WorkerStep(w, e)

Spec == Init /\ [][Next]_vars

\* The main process and the recovery timer go on, a worker picks up what waits
\* and ends what it runs, and Bull finds the jobs that a worker has abandoned.
Fairness ==
  /\ \A e \in Execution : WF_vars(MainStep(e))
  /\ \A e \in Execution : WF_vars(Abandoned(e) /\ Stall(e))
  /\ \A e \in Execution : WF_vars(\E w \in Worker : WorkerStep(w, e))
  /\ WF_vars(Recover)

FairSpec == Spec /\ Fairness

-----------------------------------------------------------------------------
(* Properties *)

\* Every variable has its type, and exactly the active jobs are locked.
TypeOK ==
  /\ status \in [Execution -> {"absent", "new", "running", "success", "error",
                               "canceled", "crashed"}]
  /\ entry \in [Execution -> {"none", "adding", "dropped", "waits", "stopped",
                              "local", "left", "failing"}]
  /\ stops \in [Execution -> {"none", "asked", "active", "inactive"}]
  /\ stopWrites \subseteq Execution /\ aborts \subseteq Execution
  /\ recovery \in {"idle", "stored", "compared"} /\ dangling \subseteq Execution
  /\ job \in [Execution -> {"none", "waiting", "active"}]
  /\ lock \in [Execution -> Worker \cup {None}]
  /\ \A e \in Execution : lock[e] # None <=> job[e] = "active"
  /\ ended \in [Execution -> {"none", "completed", "stalled", "errored"}]
  /\ phase \in [Worker -> [Execution -> {"idle", "picked", "loaded", "starting",
                                        "running", "canceling", "saved", "kept"}]]
  /\ crashes \in 0..MaxCrashes

\* No two workers process one execution, even when the first is only busy and
\* has lost the lock of its job.
OneWorker ==
  \A e \in Execution, v, w \in Worker :
    phase[v][e] \notin {"idle", "kept"} /\ phase[w][e] \notin {"idle", "kept"} => v = w

\* When the main process hears that a job is completed, the end of the run is
\* in the database: it reports what it reads there.
CompletedIsSaved ==
  \A e \in Execution : ended[e] = "completed" => status[e] \notin InProgress

\* Every execution that was stored comes to an end in the database, whichever
\* of the processes that know of it crash.
EveryExecutionEnds ==
  \A e \in Execution : status[e] \in InProgress ~> status[e] \notin InProgress

\* The main process hears of the end of every job it awaits, and is left with
\* no entry but that of a success whose job was taken for stalled.
EntrySettles ==
  \A e \in Execution : Awaited(e) ~> entry[e] \in {"none", "left"}

\* Recovery marks as crashed only executions that are in progress and absent
\* from the queue.
RecoveredIsDangling ==
  [][\A e \in Execution : RecoverMark /\ e \in dangling =>
       status[e] \in InProgress /\ job[e] = "none"]_vars
=============================================================================
