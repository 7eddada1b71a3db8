------------------------ MODULE ScalingServiceProofs ------------------------
(***************************************************************************)
(* Proofs about ScalingService, for any number of workers, executions and  *)
(* crashes.                                                                *)
(*                                                                         *)
(* A job is added once, when no worker has been near its execution, and a  *)
(* job that waits has never been picked: whoever picks it is the only      *)
(* worker its execution will ever have, stalled or not.  That worker alone *)
(* writes running, and it has written the end of the run when it completes *)
(* the job.                                                                *)
(***************************************************************************)
EXTENDS ScalingService, TLAPS

\* No worker is near the execution, and nobody is to hear of its job.
Unpicked(e) == ended[e] = "none" /\ \A w \in Worker : phase[w][e] = "idle"

\* An execution that is not stored, or whose job has still to be added, has no
\* job, and one whose job waits has not been picked.
FreshInv ==
  \A e \in Execution :
    /\ status[e] = "absent" => entry[e] = "none" /\ job[e] = "none" /\ Unpicked(e)
    /\ entry[e] \in {"adding", "dropped"} => job[e] = "none" /\ Unpicked(e)
    /\ job[e] = "waiting" => Unpicked(e)

Busy(w, e) == phase[w][e] \notin {"idle", "kept"}

\* The end of a job is heard only by a handler that awaits it, when the job has
\* left the queue; and no worker is at an execution whose job is completed.
EndedInv ==
  \A e \in Execution :
    /\ ended[e] # "none" => job[e] = "none" /\ Awaited(e)
    /\ ended[e] = "completed" => \A w \in Worker : ~Busy(w, e)

\* A worker that has saved a run has written how it ended.
SavedInv ==
  \A w \in Worker, e \in Execution : phase[w][e] = "saved" => status[e] \notin InProgress

WorkInv == FreshInv /\ OneWorker /\ EndedInv /\ SavedInv /\ CompletedIsSaved

ScalingInv == TypeOK /\ WorkInv

-----------------------------------------------------------------------------
(* The initial state, and jobs that leave the queue *)

USE DEF Writes, Enters, Reaches, InProgress, mainVars, recoveryVars, queueVars

LEMMA InitInv == Init => ScalingInv
<1>. SUFFICES ASSUME Init PROVE ScalingInv
  OBVIOUS
<1>1. TypeOK
  BY ScalingAssumption DEF Init, TypeOK
<1>2. WorkInv
  BY DEF Init, WorkInv, FreshInv, OneWorker, EndedInv, SavedInv, CompletedIsSaved,
         Unpicked, Busy
<1>. QED
  BY <1>1, <1>2 DEF ScalingInv

HowEnded == {"none", "completed", "stalled", "errored"}

\* The part of TypeOK that is about the queue.
QueueTypes(j, l, h) ==
  /\ j \in [Execution -> {"none", "waiting", "active"}]
  /\ l \in [Execution -> Worker \cup {None}]
  /\ \A e \in Execution : l[e] # None <=> j[e] = "active"
  /\ h \in [Execution -> HowEnded]

\* A job that leaves takes its lock with it.
LEMMA JobLeavesTypes ==
  ASSUME TypeOK, NEW e \in Execution, NEW how \in HowEnded, JobLeaves(e, how)
  PROVE  QueueTypes(job', lock', ended')
  BY DEF TypeOK, QueueTypes, HowEnded, JobLeaves

-----------------------------------------------------------------------------
(* The main process *)

LEMMA CreateKeeps ==
  ASSUME ScalingInv, NEW e \in Execution, Create(e)
  PROVE  ScalingInv'
<1>1. TypeOK /\ WorkInv
  BY DEF ScalingInv
<1>2. TypeOK'
  BY <1>1, ScalingAssumption DEF Create, TypeOK
<1>3. WorkInv'
  BY <1>1, ScalingAssumption DEF Create, WorkInv, FreshInv, OneWorker, EndedInv,
       SavedInv, CompletedIsSaved, Unpicked, Busy, Awaited, TypeOK
<1>. QED
  BY <1>2, <1>3 DEF ScalingInv

\* The job is new: the execution had none, and nobody has picked it.
LEMMA AddJobKeeps ==
  ASSUME ScalingInv, NEW e \in Execution, AddJob(e)
  PROVE  ScalingInv'
<1>1. TypeOK /\ WorkInv
  BY DEF ScalingInv
<1>2. TypeOK'
  <2>1. job[e] = "none"
    BY <1>1 DEF WorkInv, FreshInv, AddJob
  <2>. QED
    BY <1>1, <2>1, ScalingAssumption DEF AddJob, TypeOK
<1>3. WorkInv'
  BY <1>1, ScalingAssumption DEF AddJob, WorkInv, FreshInv, OneWorker, EndedInv,
       SavedInv, CompletedIsSaved, Unpicked, Busy, Awaited, TypeOK
<1>. QED
  BY <1>2, <1>3 DEF ScalingInv

LEMMA RunLocallyKeeps ==
  ASSUME ScalingInv, NEW e \in Execution, RunLocally(e)
  PROVE  ScalingInv'
<1>1. TypeOK /\ WorkInv
  BY DEF ScalingInv
<1>2. TypeOK'
  BY <1>1, ScalingAssumption DEF RunLocally, TypeOK
<1>3. WorkInv'
  BY <1>1, ScalingAssumption DEF RunLocally, WorkInv, FreshInv, OneWorker,
       EndedInv, SavedInv, CompletedIsSaved, Unpicked, Busy, Awaited, TypeOK
<1>. QED
  BY <1>2, <1>3 DEF ScalingInv

LEMMA LocalEndsKeeps ==
  ASSUME ScalingInv, NEW e \in Execution, LocalEnds(e)
  PROVE  ScalingInv'
<1>1. TypeOK /\ WorkInv
  BY DEF ScalingInv
<1>2. TypeOK'
  BY <1>1, ScalingAssumption DEF LocalEnds, TypeOK
<1>3. WorkInv'
  BY <1>1, ScalingAssumption DEF LocalEnds, WorkInv, FreshInv, OneWorker,
       EndedInv, SavedInv, CompletedIsSaved, Unpicked, Busy, Awaited, TypeOK
<1>. QED
  BY <1>2, <1>3 DEF ScalingInv

LEMMA JobEndsKeeps ==
  ASSUME ScalingInv, NEW e \in Execution, JobEnds(e)
  PROVE  ScalingInv'
<1>1. TypeOK /\ WorkInv
  BY DEF ScalingInv
<1>2. TypeOK'
  BY <1>1, ScalingAssumption DEF JobEnds, TypeOK
<1>3. WorkInv'
  BY <1>1, ScalingAssumption DEF JobEnds, WorkInv, FreshInv, OneWorker,
       EndedInv, SavedInv, CompletedIsSaved, Unpicked, Busy, Awaited, TypeOK
<1>. QED
  BY <1>2, <1>3 DEF ScalingInv

LEMMA JobFailsKeeps ==
  ASSUME ScalingInv, NEW e \in Execution, JobFails(e)
  PROVE  ScalingInv'
<1>1. TypeOK /\ WorkInv
  BY DEF ScalingInv
<1>2. TypeOK'
  BY <1>1, ScalingAssumption DEF JobFails, TypeOK
<1>3. WorkInv'
  BY <1>1, ScalingAssumption DEF JobFails, WorkInv, FreshInv, OneWorker,
       EndedInv, SavedInv, CompletedIsSaved, Unpicked, Busy, Awaited, TypeOK
<1>. QED
  BY <1>2, <1>3 DEF ScalingInv

LEMMA SaveFailureKeeps ==
  ASSUME ScalingInv, NEW e \in Execution, SaveFailure(e)
  PROVE  ScalingInv'
<1>1. TypeOK /\ WorkInv
  BY DEF ScalingInv
<1>2. TypeOK'
  BY <1>1, ScalingAssumption DEF SaveFailure, TypeOK
<1>3. WorkInv'
  BY <1>1, ScalingAssumption DEF SaveFailure, WorkInv, FreshInv, OneWorker,
       EndedInv, SavedInv, CompletedIsSaved, Unpicked, Busy, Awaited, TypeOK
<1>. QED
  BY <1>2, <1>3 DEF ScalingInv

LEMMA StopKeeps ==
  ASSUME ScalingInv, NEW e \in Execution, Stop(e)
  PROVE  ScalingInv'
<1>1. TypeOK /\ WorkInv
  BY DEF ScalingInv
<1>2. TypeOK'
  BY <1>1, ScalingAssumption DEF Stop, TypeOK
<1>3. WorkInv'
  BY <1>1, ScalingAssumption DEF Stop, WorkInv, FreshInv, OneWorker, EndedInv,
       SavedInv, CompletedIsSaved, Unpicked, Busy, Awaited, TypeOK
<1>. QED
  BY <1>2, <1>3 DEF ScalingInv

LEMMA StopWriteKeeps ==
  ASSUME ScalingInv, NEW e \in Execution, StopWrite(e)
  PROVE  ScalingInv'
<1>1. TypeOK /\ WorkInv
  BY DEF ScalingInv
<1>2. TypeOK'
  BY <1>1, ScalingAssumption DEF StopWrite, TypeOK
<1>3. WorkInv'
  BY <1>1, ScalingAssumption DEF StopWrite, WorkInv, FreshInv, OneWorker,
       EndedInv, SavedInv, CompletedIsSaved, Unpicked, Busy, Awaited, TypeOK
<1>. QED
  BY <1>2, <1>3 DEF ScalingInv

LEMMA StopAsksKeeps ==
  ASSUME ScalingInv, NEW e \in Execution, StopAsks(e)
  PROVE  ScalingInv'
<1>1. TypeOK /\ WorkInv
  BY DEF ScalingInv
<1>2. TypeOK'
  BY <1>1, ScalingAssumption DEF StopAsks, TypeOK
<1>3. WorkInv'
  BY <1>1, ScalingAssumption DEF StopAsks, WorkInv, FreshInv, OneWorker,
       EndedInv, SavedInv, CompletedIsSaved, Unpicked, Busy, Awaited, TypeOK
<1>. QED
  BY <1>2, <1>3 DEF ScalingInv

LEMMA StopActiveKeeps ==
  ASSUME ScalingInv, NEW e \in Execution, StopActive(e)
  PROVE  ScalingInv'
<1>1. TypeOK /\ WorkInv
  BY DEF ScalingInv
<1>2. TypeOK'
  <2>1. QueueTypes(job', lock', ended')
    <3>1. QueueTypes(job, lock, ended)
      BY <1>1 DEF TypeOK, QueueTypes, HowEnded
    <3>. QED
      BY <1>1, <3>1, JobLeavesTypes DEF StopActive, HowEnded
  <2>. QED
    BY <1>1, <2>1 DEF StopActive, TypeOK, QueueTypes, HowEnded
<1>3. WorkInv'
  <2>1. CASE job[e] = "active"
    <3>1. FreshInv' /\ OneWorker' /\ SavedInv'
      BY <1>1, <2>1 DEF StopActive, JobLeaves, TypeOK, WorkInv, FreshInv, OneWorker, SavedInv,
                        Unpicked, Busy
    <3>2. ended[e] = "none"
      BY <1>1, <2>1 DEF WorkInv, EndedInv
    <3>3. EndedInv' /\ CompletedIsSaved'
      BY <1>1, <2>1, <3>2 DEF StopActive, JobLeaves, TypeOK, WorkInv, EndedInv,
                              CompletedIsSaved, Busy, Awaited
    <3>. QED
      BY <3>1, <3>3 DEF WorkInv
  <2>2. CASE job[e] # "active"
    BY <1>1, <2>2 DEF StopActive, TypeOK, WorkInv, FreshInv, OneWorker, EndedInv, SavedInv,
                      CompletedIsSaved, Unpicked, Busy, Awaited
  <2>. QED
    BY <2>1, <2>2
<1>. QED
  BY <1>2, <1>3 DEF ScalingInv

LEMMA StopInactiveKeeps ==
  ASSUME ScalingInv, NEW e \in Execution, StopInactive(e)
  PROVE  ScalingInv'
<1>1. TypeOK /\ WorkInv
  BY DEF ScalingInv
<1>2. TypeOK'
  <2>1. QueueTypes(job', lock', ended')
    <3>1. QueueTypes(job, lock, ended)
      BY <1>1 DEF TypeOK, QueueTypes, HowEnded
    <3>. QED
      BY <1>1, <3>1, JobLeavesTypes DEF StopInactive, HowEnded
  <2>. QED
    BY <1>1, <2>1 DEF StopInactive, TypeOK, QueueTypes, HowEnded
<1>3. WorkInv'
  BY <1>1, ScalingAssumption DEF StopInactive, JobLeaves, WorkInv, FreshInv,
       OneWorker, EndedInv, SavedInv, CompletedIsSaved, Unpicked, Busy, Awaited,
       TypeOK
<1>. QED
  BY <1>2, <1>3 DEF ScalingInv

LEMMA MainCrashKeeps ==
  ASSUME ScalingInv, MainCrash
  PROVE  ScalingInv'
<1>1. TypeOK /\ WorkInv
  BY DEF ScalingInv
<1>2. TypeOK'
  BY <1>1, ScalingAssumption DEF MainCrash, TypeOK
<1>3. WorkInv'
  BY <1>1, ScalingAssumption DEF MainCrash, WorkInv, FreshInv, OneWorker,
       EndedInv, SavedInv, CompletedIsSaved, Unpicked, Busy, Awaited, TypeOK
<1>. QED
  BY <1>2, <1>3 DEF ScalingInv

-----------------------------------------------------------------------------
(* Queue recovery *)

LEMMA RecoverReadKeeps ==
  ASSUME ScalingInv, RecoverRead
  PROVE  ScalingInv'
<1>1. TypeOK /\ WorkInv
  BY DEF ScalingInv
<1>2. TypeOK'
  BY <1>1, ScalingAssumption DEF RecoverRead, TypeOK
<1>3. WorkInv'
  BY <1>1, ScalingAssumption DEF RecoverRead, WorkInv, FreshInv, OneWorker,
       EndedInv, SavedInv, CompletedIsSaved, Unpicked, Busy, Awaited, TypeOK
<1>. QED
  BY <1>2, <1>3 DEF ScalingInv

LEMMA RecoverCompareKeeps ==
  ASSUME ScalingInv, RecoverCompare
  PROVE  ScalingInv'
<1>1. TypeOK /\ WorkInv
  BY DEF ScalingInv
<1>2. TypeOK'
  BY <1>1, ScalingAssumption DEF RecoverCompare, TypeOK
<1>3. WorkInv'
  BY <1>1, ScalingAssumption DEF RecoverCompare, WorkInv, FreshInv, OneWorker,
       EndedInv, SavedInv, CompletedIsSaved, Unpicked, Busy, Awaited, TypeOK
<1>. QED
  BY <1>2, <1>3 DEF ScalingInv

LEMMA RecoverMarkKeeps ==
  ASSUME ScalingInv, RecoverMark
  PROVE  ScalingInv'
<1>1. TypeOK /\ WorkInv
  BY DEF ScalingInv
<1>2. TypeOK'
  BY <1>1, ScalingAssumption DEF RecoverMark, TypeOK
<1>3. WorkInv'
  BY <1>1, ScalingAssumption DEF RecoverMark, WorkInv, FreshInv, OneWorker,
       EndedInv, SavedInv, CompletedIsSaved, Unpicked, Busy, Awaited, TypeOK
<1>. QED
  BY <1>2, <1>3 DEF ScalingInv

-----------------------------------------------------------------------------
(* The workers *)

\* A job that waits has not been picked before.
LEMMA PickKeeps ==
  ASSUME ScalingInv, NEW w \in Worker, NEW e \in Execution, Pick(w, e)
  PROVE  ScalingInv'
<1>1. TypeOK /\ WorkInv
  BY DEF ScalingInv
<1>2. TypeOK'
  BY <1>1, ScalingAssumption DEF Pick, TypeOK
<1>3. WorkInv'
  BY <1>1, ScalingAssumption DEF Pick, WorkInv, FreshInv, OneWorker, EndedInv,
       SavedInv, CompletedIsSaved, Unpicked, Busy, Awaited, TypeOK
<1>. QED
  BY <1>2, <1>3 DEF ScalingInv

LEMMA LoadCrashedKeeps ==
  ASSUME ScalingInv, NEW w \in Worker, NEW e \in Execution, LoadCrashed(w, e)
  PROVE  ScalingInv'
<1>1. TypeOK /\ WorkInv
  BY DEF ScalingInv
<1>2. TypeOK'
  <2>1. QueueTypes(job', lock', ended')
    <3>1. QueueTypes(job, lock, ended)
      BY <1>1 DEF TypeOK, QueueTypes, HowEnded
    <3>. QED
      BY <1>1, <3>1, JobLeavesTypes DEF LoadCrashed, HowEnded
  <2>. QED
    BY <1>1, <2>1 DEF LoadCrashed, TypeOK, QueueTypes, HowEnded
<1>3. WorkInv'
  BY <1>1, ScalingAssumption DEF LoadCrashed, JobLeaves, WorkInv, FreshInv,
       OneWorker, EndedInv, SavedInv, CompletedIsSaved, Unpicked, Busy, Awaited,
       TypeOK
<1>. QED
  BY <1>2, <1>3 DEF ScalingInv

LEMMA LoadKeeps ==
  ASSUME ScalingInv, NEW w \in Worker, NEW e \in Execution, Load(w, e)
  PROVE  ScalingInv'
<1>1. TypeOK /\ WorkInv
  BY DEF ScalingInv
<1>2. TypeOK'
  BY <1>1, ScalingAssumption DEF Load, TypeOK
<1>3. WorkInv'
  BY <1>1, ScalingAssumption DEF Load, WorkInv, FreshInv, OneWorker, EndedInv,
       SavedInv, CompletedIsSaved, Unpicked, Busy, Awaited, TypeOK
<1>. QED
  BY <1>2, <1>3 DEF ScalingInv

\* No other worker has saved a run, and nobody is to hear of a completed job.
LEMMA SetRunningKeeps ==
  ASSUME ScalingInv, NEW w \in Worker, NEW e \in Execution, SetRunning(w, e)
  PROVE  ScalingInv'
<1>1. TypeOK /\ WorkInv
  BY DEF ScalingInv
<1>2. TypeOK'
  BY <1>1, ScalingAssumption DEF SetRunning, TypeOK
<1>3. WorkInv'
  BY <1>1, ScalingAssumption DEF SetRunning, WorkInv, FreshInv, OneWorker,
       EndedInv, SavedInv, CompletedIsSaved, Unpicked, Busy, Awaited, TypeOK
<1>. QED
  BY <1>2, <1>3 DEF ScalingInv

LEMMA StartRunKeeps ==
  ASSUME ScalingInv, NEW w \in Worker, NEW e \in Execution, StartRun(w, e)
  PROVE  ScalingInv'
<1>1. TypeOK /\ WorkInv
  BY DEF ScalingInv
<1>2. TypeOK'
  BY <1>1, ScalingAssumption DEF StartRun, TypeOK
<1>3. WorkInv'
  BY <1>1, ScalingAssumption DEF StartRun, WorkInv, FreshInv, OneWorker,
       EndedInv, SavedInv, CompletedIsSaved, Unpicked, Busy, Awaited, TypeOK
<1>. QED
  BY <1>2, <1>3 DEF ScalingInv

LEMMA AbortKeeps ==
  ASSUME ScalingInv, NEW e \in Execution, Abort(e)
  PROVE  ScalingInv'
<1>1. TypeOK /\ WorkInv
  BY DEF ScalingInv
<1>2. TypeOK'
  BY <1>1, ScalingAssumption DEF Abort, TypeOK
<1>3. WorkInv'
  BY <1>1, ScalingAssumption DEF Abort, WorkInv, FreshInv, OneWorker, EndedInv,
       SavedInv, CompletedIsSaved, Unpicked, Busy, Awaited, TypeOK
<1>. QED
  BY <1>2, <1>3 DEF ScalingInv

LEMMA SaveRunKeeps ==
  ASSUME ScalingInv, NEW w \in Worker, NEW e \in Execution, SaveRun(w, e)
  PROVE  ScalingInv'
<1>1. TypeOK /\ WorkInv
  BY DEF ScalingInv
<1>2. TypeOK'
  <2>1. PICK s \in {"success", "error", "canceled"} : status' = [status EXCEPT ![e] = s]
    BY DEF SaveRun
  <2>. QED
    BY <1>1, <2>1 DEF SaveRun, TypeOK
<1>3. Busy(w, e) /\ status'[e] \notin InProgress
      /\ \A f \in Execution \ {e} : status'[f] = status[f]
  BY <1>1 DEF SaveRun, TypeOK, Busy
<1>4. WorkInv'
  <2>1. FreshInv'
    BY <1>1, <1>3 DEF SaveRun, TypeOK, WorkInv, FreshInv, Unpicked, Busy
  <2>2. OneWorker' /\ EndedInv'
    BY <1>1 DEF SaveRun, TypeOK, WorkInv, OneWorker, EndedInv, Busy, Awaited
  <2>3. SavedInv' /\ CompletedIsSaved'
    BY <1>1, <1>3 DEF SaveRun, TypeOK, WorkInv, SavedInv, CompletedIsSaved
  <2>. QED
    BY <2>1, <2>2, <2>3 DEF WorkInv
<1>. QED
  BY <1>2, <1>4 DEF ScalingInv

LEMMA RunRejectsKeeps ==
  ASSUME ScalingInv, NEW w \in Worker, NEW e \in Execution, RunRejects(w, e)
  PROVE  ScalingInv'
<1>1. TypeOK /\ WorkInv
  BY DEF ScalingInv
<1>2. TypeOK'
  <2>1. QueueTypes(job', lock', ended')
    <3>1. QueueTypes(job, lock, ended)
      BY <1>1 DEF TypeOK, QueueTypes, HowEnded
    <3>. QED
      BY <1>1, <3>1, JobLeavesTypes DEF RunRejects, HowEnded
  <2>. QED
    BY <1>1, <2>1 DEF RunRejects, TypeOK, QueueTypes, HowEnded
<1>3. WorkInv'
  BY <1>1, ScalingAssumption DEF RunRejects, JobLeaves, WorkInv, FreshInv,
       OneWorker, EndedInv, SavedInv, CompletedIsSaved, Unpicked, Busy, Awaited,
       TypeOK
<1>. QED
  BY <1>2, <1>3 DEF ScalingInv

LEMMA CompleteKeeps ==
  ASSUME ScalingInv, NEW w \in Worker, NEW e \in Execution, Complete(w, e)
  PROVE  ScalingInv'
<1>1. TypeOK /\ WorkInv
  BY DEF ScalingInv
<1>2. TypeOK'
  <2>1. QueueTypes(job', lock', ended')
    <3>1. QueueTypes(job, lock, ended)
      BY <1>1 DEF TypeOK, QueueTypes, HowEnded
    <3>. QED
      BY <1>1, <3>1, JobLeavesTypes DEF Complete, HowEnded
  <2>. QED
    BY <1>1, <2>1 DEF Complete, TypeOK, QueueTypes, HowEnded
<1>3. WorkInv'
  BY <1>1, ScalingAssumption DEF Complete, JobLeaves, WorkInv, FreshInv,
       OneWorker, EndedInv, SavedInv, CompletedIsSaved, Unpicked, Busy, Awaited,
       TypeOK
<1>. QED
  BY <1>2, <1>3 DEF ScalingInv

LEMMA WorkerCrashKeeps ==
  ASSUME ScalingInv, NEW w \in Worker, WorkerCrash(w)
  PROVE  ScalingInv'
<1>1. TypeOK /\ WorkInv
  BY DEF ScalingInv
<1>2. TypeOK'
  BY <1>1, ScalingAssumption DEF WorkerCrash, TypeOK
<1>3. WorkInv'
  BY <1>1, ScalingAssumption DEF WorkerCrash, WorkInv, FreshInv, OneWorker,
       EndedInv, SavedInv, CompletedIsSaved, Unpicked, Busy, Awaited, TypeOK
<1>. QED
  BY <1>2, <1>3 DEF ScalingInv

LEMMA StallKeeps ==
  ASSUME ScalingInv, NEW e \in Execution, Stall(e)
  PROVE  ScalingInv'
<1>1. TypeOK /\ WorkInv
  BY DEF ScalingInv
<1>2. TypeOK'
  BY <1>1, ScalingAssumption DEF Stall, JobLeaves, TypeOK
<1>3. WorkInv'
  BY <1>1, ScalingAssumption DEF Stall, JobLeaves, WorkInv, FreshInv, OneWorker,
       EndedInv, SavedInv, CompletedIsSaved, Unpicked, Busy, Awaited, TypeOK
<1>. QED
  BY <1>2, <1>3 DEF ScalingInv

-----------------------------------------------------------------------------
(* Theorems *)

LEMMA ScalingStep == ScalingInv /\ [Next]_vars => ScalingInv'
<1>. SUFFICES ASSUME ScalingInv, [Next]_vars PROVE ScalingInv'
  OBVIOUS
<1>1. CASE \E e \in Execution : Create(e) \/ Stop(e) \/ Abort(e) \/ Stall(e)
  BY <1>1, CreateKeeps, StopKeeps, AbortKeeps, StallKeeps
<1>2. CASE \E e \in Execution : MainStep(e)
  BY <1>2, AddJobKeeps, RunLocallyKeeps, LocalEndsKeeps, JobEndsKeeps, JobFailsKeeps,
     SaveFailureKeeps, StopWriteKeeps, StopAsksKeeps, StopActiveKeeps, StopInactiveKeeps
     DEF MainStep
<1>3. CASE Recover \/ MainCrash
  BY <1>3, RecoverReadKeeps, RecoverCompareKeeps, RecoverMarkKeeps, MainCrashKeeps
     DEF Recover
<1>4. CASE \E w \in Worker : WorkerCrash(w)
  BY <1>4, WorkerCrashKeeps
<1>5. CASE \E w \in Worker, e \in Execution : WorkerStep(w, e)
  BY <1>5, PickKeeps, LoadCrashedKeeps, LoadKeeps, SetRunningKeeps, StartRunKeeps,
     SaveRunKeeps, RunRejectsKeeps, CompleteKeeps
     DEF WorkerStep
<1>6. CASE UNCHANGED vars
  BY <1>6 DEF vars, ScalingInv, WorkInv, FreshInv, OneWorker, EndedInv, SavedInv,
              CompletedIsSaved, Unpicked, Busy, Awaited, TypeOK
<1>. QED
  BY <1>1, <1>2, <1>3, <1>4, <1>5, <1>6 DEF Next

LEMMA ScalingInvariant == Spec => []ScalingInv
  BY InitInv, ScalingStep, PTL DEF Spec

\* The state of the queue mode keeps its types, and exactly the active jobs are
\* locked, whatever stalls, is stopped or crashes.
THEOREM ScalingTypeCorrect == Spec => []TypeOK
<1>1. ScalingInv => TypeOK
  BY DEF ScalingInv
<1>. QED
  BY <1>1, ScalingInvariant, PTL

\* No two workers process one execution, though the first may have lost the lock
\* of its job, its main process may have crashed, or a stop may have moved the
\* job to failed.
THEOREM OneWorkerPerExecution == Spec => []OneWorker
<1>1. ScalingInv => OneWorker
  BY DEF ScalingInv, WorkInv
<1>. QED
  BY <1>1, ScalingInvariant, PTL

\* When the main process hears that a job is completed, the end of the run is in
\* the database, for it to report.
THEOREM CompletedJobsAreSaved == Spec => []CompletedIsSaved
<1>1. ScalingInv => CompletedIsSaved
  BY DEF ScalingInv, WorkInv
<1>. QED
  BY <1>1, ScalingInvariant, PTL
=============================================================================
