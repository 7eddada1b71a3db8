---------------------------- MODULE WaitTracker ----------------------------
(***************************************************************************)
(* Waiting executions in queue mode: the wait tracker of every main        *)
(* process, the rows of the executions in the database that the processes  *)
(* share, and the sub-workflow executions that resume their parent.        *)
(*                                                                         *)
(* An execution runs in segments, and every segment but the last ends in a *)
(* wait: wait[e] counts them.  The leader polls for the waits that end     *)
(* within 70 seconds and sets a timer for each.  A resume is a call that   *)
(* claims the row some time later, and only a row that is waiting can be   *)
(* claimed.  The process that claimed a run holds the promise of its end;  *)
(* the run itself is a job for a worker, survives that process, and writes *)
(* the row without looking at it.                                          *)
(*                                                                         *)
(* A sub-workflow runs in the process of its parent until its first wait,  *)
(* one at a time, and its parent then waits for it without a time limit.   *)
(* The end of a sub-workflow that was resumed resumes its parent.          *)
(*                                                                         *)
(* A mutant stands before the operation it stands in for and is not part   *)
(* of the specification: it is a plausible mistake that a property notices.*)
(***************************************************************************)
EXTENDS Integers, FiniteSets

CONSTANTS Main,
          Execution,
          Parent,       \* per execution, its parent execution or None
          Timed,        \* the executions with nodes that wait for a time
          Webhooked,    \* the executions with nodes that wait for a webhook
          Stoppable,    \* bound: the executions a user may stop
          Server,       \* bound: the processes that webhooks and users call
          MaxWaits,     \* bound: per execution, its waits
          MaxTerms,     \* bound on the terms of a process as leader
          Mortal,       \* bound: the processes that may step down or crash
          Docker,       \* the processes that have the same id after a restart
          MaxUpsets,    \* bound on the crashes and stepdowns
          None

ASSUME WaitAssumption ==
  /\ Parent \in [Execution -> Execution \cup {None}]
  /\ Timed \subseteq Execution /\ Webhooked \subseteq Execution
  /\ Stoppable \subseteq Execution
  /\ Server \subseteq Main /\ Mortal \subseteq Main /\ Docker \subseteq Main
  /\ MaxWaits \in [Execution -> Nat]
  /\ {MaxTerms, MaxUpsets} \subseteq Nat
  /\ None \notin Execution \cup Main

Child == {c \in Execution : Parent[c] # None}

Wait == UNION {0..MaxWaits[e] : e \in Execution}
Call == [main : Main, execution : Execution, child : Child \cup {None}]
StopRequest == [main : Main, execution : Execution, step : {"read", "acted"}]

VARIABLES
  \* the database
  status,   \* per execution, its status
  wait,     \* per execution, how many times it has waited
  waitTill, \* per execution, whether its wait ends soon, is due, or never ends
  \* the processes
  leader,   \* the process that is the leader
  tracking, \* whether the leader has started to track
  terms,    \* per process, its terms as leader since it started
  found,    \* per process, the result of a poll that is under way
  waitingExecutions, \* per process, the wait each entry was made for, or 0
  timers,   \* per process, the timers set: an execution and one of its waits
  calls,    \* the resumes under way; bound: two equal ones count as one
  stops,    \* the stop requests under way; bound: one per execution
  \* the runs
  run,      \* per execution, its run: "none", a job that is "queued", "running"
  holder,   \* per execution, the process that holds the promise of its run
  birth,    \* per child, the waits of its parent when it started
  outcome,  \* per child, what became of the resume of its parent
  upsets

rowVars == <<status, wait, waitTill>>
trackerVars == <<found, waitingExecutions, timers>>
leaderVars == <<leader, tracking, terms, upsets>>
runVars == <<run, holder>>
childVars == <<birth, outcome>>
vars == <<rowVars, trackerVars, leaderVars, calls, stops, runVars, childVars>>

Init ==
  /\ status = [e \in Execution |-> IF e \in Child THEN "absent" ELSE "running"]
  /\ wait = [e \in Execution |-> 0]
  /\ waitTill = [e \in Execution |-> "none"]
  /\ leader = None
  /\ tracking = FALSE
  /\ terms = [m \in Main |-> 0]
  /\ found = [m \in Main |-> {}]
  /\ waitingExecutions = [m \in Main |-> [e \in Execution |-> 0]]
  /\ timers = [m \in Main |-> {}]
  /\ calls = {}
  /\ stops = {}
  /\ run = [e \in Execution |-> IF e \in Child THEN "none" ELSE "running"]
  /\ holder = [e \in Execution |-> None]
  /\ birth = [c \in Child |-> 0]
  /\ outcome = [c \in Child |-> "none"]
  /\ upsets = 0

-----------------------------------------------------------------------------
(* Leadership *)

\* startTracking: the interval, of which Poll is a tick.
Takeover(m) ==
  /\ leader = None /\ terms[m] < MaxTerms
  /\ leader' = m /\ tracking' = TRUE
  /\ terms' = [terms EXCEPT ![m] = @ + 1]
  /\ UNCHANGED <<rowVars, trackerVars, calls, stops, runVars, childVars, upsets>>

\* stopTracking clears the timers of the entries and keeps the entries.
Stepdown(m) ==
  /\ leader = m /\ m \in Mortal /\ upsets < MaxUpsets
  /\ leader' = None /\ tracking' = FALSE
  /\ upsets' = upsets + 1
  /\ timers' = [timers EXCEPT ![m] = {t \in @ : waitingExecutions[m][t[1]] # t[2]}]
  /\ UNCHANGED <<rowVars, found, waitingExecutions, calls, stops, runVars, childVars,
                 terms>>

\* A leader that crashes leaves its key: the key expires, or the process, which has
\* its id again, finds it and leads on; nothing tells it to start tracking.
LeadershipAfterCrash(m) ==
  /\ leader' \in IF leader # m THEN {leader} ELSE {None} \cup ({m} \cap Docker)
  /\ tracking' = (tracking /\ leader # m)

\* The calls and stop requests of a process end with it, and nobody waits any
\* more for the runs whose promises it held.
Crash(m) ==
  /\ m \in Mortal /\ upsets < MaxUpsets
  /\ upsets' = upsets + 1
  /\ LeadershipAfterCrash(m)
  /\ terms' = [terms EXCEPT ![m] = 0]
  /\ found' = [found EXCEPT ![m] = {}]
  /\ waitingExecutions' = [waitingExecutions EXCEPT ![m] = [e \in Execution |-> 0]]
  /\ timers' = [timers EXCEPT ![m] = {}]
  /\ calls' = {call \in calls : call.main # m}
  /\ stops' = {s \in stops : s.main # m}
  /\ holder' = [e \in Execution |-> IF holder[e] = m THEN None ELSE holder[e]]
  /\ outcome' = [c \in Child |->
                   IF \E call \in calls : call.main = m /\ call.child = c
                   THEN "lost" ELSE outcome[c]]
  /\ UNCHANGED <<rowVars, run, birth>>

-----------------------------------------------------------------------------
(* The wait tracker *)

\* The query of getWaitingExecutions.
Upcoming == {e \in Execution : status[e] = "waiting" /\ waitTill[e] \in {"soon", "due"}}

\* Bound: a process polls again when it has handled the last poll.
Poll(m) ==
  /\ leader = m /\ tracking /\ found[m] = {} /\ Upcoming # {}
  /\ found' = [found EXCEPT ![m] = {<<e, wait[e]>> : e \in Upcoming}]
  /\ UNCHANGED <<rowVars, waitingExecutions, timers, leaderVars, calls, stops,
                 runVars, childVars>>

\* The result arrives, whatever has happened to the leadership and to the
\* executions since: an execution without an entry gets one, and a timer.
SetTimers(m) ==
  LET new == {f \in found[m] : waitingExecutions[m][f[1]] = 0} IN
  /\ found[m] # {}
  /\ found' = [found EXCEPT ![m] = {}]
  /\ waitingExecutions' = [waitingExecutions EXCEPT ![m] =
       [e \in Execution |-> IF \E f \in new : f[1] = e
                            THEN (CHOOSE f \in new : f[1] = e)[2] ELSE @[e]]]
  /\ timers' = [timers EXCEPT ![m] = @ \cup new]
  /\ UNCHANGED <<rowVars, leaderVars, calls, stops, runVars, childVars>>

\* (A mutant of StartExecution, not part of the specification: the entry stays
\* after its timer has fired.)
MutantEntryKept(m, e, c) ==
  /\ calls' = calls \cup {[main |-> m, execution |-> e, child |-> c]}
  /\ UNCHANGED waitingExecutions

\* A call of startExecution drops the entry, and leaves its timer alone.
StartExecution(m, e, c) ==
  /\ calls' = calls \cup {[main |-> m, execution |-> e, child |-> c]}
  /\ waitingExecutions' = [waitingExecutions EXCEPT ![m][e] = 0]

\* The time a timer was set for has come: that of this wait, or of one that
\* has ended since.
TimeHasCome(e, n) == (status[e] = "waiting" /\ wait[e] = n) => waitTill[e] = "due"

Fire(m, e, n) ==
  /\ TimeHasCome(e, n)
  /\ timers' = [timers EXCEPT ![m] = @ \ {<<e, n>>}]
  /\ StartExecution(m, e, None)
  /\ UNCHANGED <<rowVars, found, leaderVars, stops, runVars, childVars>>

\* A webhook found its execution waiting; it goes on as a timer's call does,
\* and no entry is touched.
Webhook(m, e) ==
  /\ m \in Server /\ e \in Webhooked /\ status[e] = "waiting"
  /\ calls' = calls \cup {[main |-> m, execution |-> e, child |-> None]}
  /\ UNCHANGED <<rowVars, trackerVars, leaderVars, stops, runVars, childVars>>

\* What the resume by a child, if it was one, has come to.
Report(call, result) ==
  outcome' = [c \in Child |-> IF c = call.child THEN result ELSE outcome[c]]

\* (Mutants of Claim, not part of the specification: the time to wait for stays
\* in the row, the row is updated whatever its status is, and nobody asks for
\* the promise of the run.)
MutantKeepsWaitTill(call) ==
  /\ status[call.execution] = "waiting"
  /\ calls' = calls \ {call}
  /\ status' = [status EXCEPT ![call.execution] = "running"]
  /\ run' = [run EXCEPT ![call.execution] = "queued"]
  /\ holder' = [holder EXCEPT ![call.execution] = call.main]
  /\ Report(call, "resumed")
  /\ UNCHANGED <<wait, waitTill, trackerVars, leaderVars, stops, birth>>

MutantClaimsAnyStatus(call) ==
  /\ calls' = calls \ {call}
  /\ status' = [status EXCEPT ![call.execution] = "running"]
  /\ waitTill' = [waitTill EXCEPT ![call.execution] = "none"]
  /\ run' = [run EXCEPT ![call.execution] = "queued"]
  /\ holder' = [holder EXCEPT ![call.execution] = call.main]
  /\ Report(call, "resumed")
  /\ UNCHANGED <<wait, trackerVars, leaderVars, stops, birth>>

MutantNobodyAsks(call) ==
  /\ status[call.execution] = "waiting"
  /\ calls' = calls \ {call}
  /\ status' = [status EXCEPT ![call.execution] = "running"]
  /\ waitTill' = [waitTill EXCEPT ![call.execution] = "none"]
  /\ run' = [run EXCEPT ![call.execution] = "queued"]
  /\ Report(call, "resumed")
  /\ UNCHANGED <<wait, holder, trackerVars, leaderVars, stops, birth>>

\* ActiveExecutions.add: the row is updated where its status is still waiting, and
\* a job is added.
Claim(call) ==
  /\ status[call.execution] = "waiting"
  /\ calls' = calls \ {call}
  /\ status' = [status EXCEPT ![call.execution] = "running"]
  /\ waitTill' = [waitTill EXCEPT ![call.execution] = "none"]
  /\ run' = [run EXCEPT ![call.execution] = "queued"]
  /\ holder' = [holder EXCEPT ![call.execution] = call.main]
  /\ Report(call, "resumed")
  /\ UNCHANGED <<wait, trackerVars, leaderVars, stops, birth>>

\* ExecutionAlreadyResumingError, or the execution has ended.
Skip(call) ==
  /\ status[call.execution] # "waiting"
  /\ calls' = calls \ {call}
  /\ Report(call, "skipped")
  /\ UNCHANGED <<rowVars, trackerVars, leaderVars, stops, runVars, birth>>

\* A user stops an execution through the process m: stop() reads its row.
ReadStoppable(m, e) ==
  /\ m \in Server /\ e \in Stoppable /\ status[e] \in {"waiting", "running"}
  /\ \A s \in stops : s.execution # e
  /\ stops' = stops \cup {[main |-> m, execution |-> e, step |-> "read"]}
  /\ UNCHANGED <<rowVars, trackerVars, leaderVars, calls, runVars, childVars>>

\* ActiveExecutions.stopExecution in the process that holds the promise: it is
\* rejected, and the job is removed or its run is aborted, at once or too late.
CancelRun(m, e) ==
  \/ /\ holder[e] # m
     /\ UNCHANGED <<status, waitTill, runVars>>
  \/ /\ holder[e] = m
     /\ holder' = [holder EXCEPT ![e] = None]
     /\ \/ /\ run' = [run EXCEPT ![e] = "none"]
           /\ status' = [status EXCEPT ![e] = "canceled"]
           /\ waitTill' = [waitTill EXCEPT ![e] = "none"]
        \/ UNCHANGED <<status, waitTill, run>>

Acted(s) == stops' = (stops \ {s}) \cup {[s EXCEPT !.step = "acted"]}

\* (A mutant of StopExecution, not part of the specification: the timer is cleared
\* and the entry stays.)
MutantStopKeepsEntry(s) ==
  /\ s.step = "read" /\ Acted(s)
  /\ CancelRun(s.main, s.execution)
  /\ timers' = [timers EXCEPT ![s.main] =
                  @ \ {<<s.execution, waitingExecutions[s.main][s.execution]>>}]
  /\ UNCHANGED <<wait, found, waitingExecutions, leaderVars, calls, childVars>>

\* When the row has been read, the process cancels the run if it is its own, and
\* drops its entry for a wait.
StopExecution(s) ==
  /\ s.step = "read" /\ Acted(s)
  /\ CancelRun(s.main, s.execution)
  /\ waitingExecutions' = [waitingExecutions EXCEPT ![s.main][s.execution] = 0]
  /\ timers' = [timers EXCEPT ![s.main] =
                  @ \ {<<s.execution, waitingExecutions[s.main][s.execution]>>}]
  /\ UNCHANGED <<wait, found, leaderVars, calls, childVars>>

\* The row is written, whatever has become of it since it was read.
StopDuringRun(s) ==
  /\ s.step = "acted" /\ stops' = stops \ {s}
  /\ status' = [status EXCEPT ![s.execution] = "canceled"]
  /\ waitTill' = [waitTill EXCEPT ![s.execution] = "none"]
  /\ UNCHANGED <<wait, trackerVars, leaderVars, calls, runVars, childVars>>

\* The time of a wait comes.
Due(e) ==
  /\ status[e] = "waiting" /\ waitTill[e] = "soon"
  /\ waitTill' = [waitTill EXCEPT ![e] = "due"]
  /\ UNCHANGED <<status, wait, trackerVars, leaderVars, calls, stops, runVars, childVars>>

-----------------------------------------------------------------------------
(* Runs *)

\* No sub-workflow is in its first segment, which its parent awaits.
Free(e) ==
  \A c \in Child : ~(Parent[c] = e /\ run[c] = "running" /\ wait[c] = 0)

\* A sub-workflow started in this segment has begun to wait.
ChildWaits(e) ==
  \E c \in Child : Parent[c] = e /\ birth[c] = wait[e] /\ wait[c] > 0

StartChild(c) ==
  /\ status[c] = "absent"
  /\ run[Parent[c]] = "running" /\ Free(Parent[c]) /\ wait[Parent[c]] < MaxWaits[Parent[c]]
  /\ status' = [status EXCEPT ![c] = "running"]
  /\ run' = [run EXCEPT ![c] = "running"]
  /\ birth' = [birth EXCEPT ![c] = wait[Parent[c]]]
  /\ UNCHANGED <<wait, waitTill, trackerVars, leaderVars, calls, stops, holder, outcome>>

\* A worker takes the job: setRunning, whatever the status is by now.
SetRunning(e) ==
  /\ run[e] = "queued"
  /\ run' = [run EXCEPT ![e] = "running"]
  /\ status' = [status EXCEPT ![e] = "running"]
  /\ UNCHANGED <<wait, waitTill, trackerVars, leaderVars, calls, stops, holder, childVars>>

\* putExecutionToWait, and the segment ends: its promise resolves with a run
\* that waits, and its holder does nothing more.
Suspend(e) ==
  /\ run[e] = "running" /\ Free(e) /\ wait[e] < MaxWaits[e]
  /\ status' = [status EXCEPT ![e] = "waiting"]
  /\ wait' = [wait EXCEPT ![e] = @ + 1]
  /\ \E till \in (IF ChildWaits(e) \/ e \notin Timed THEN {} ELSE {"soon"})
               \cup (IF ChildWaits(e) \/ e \in Webhooked THEN {"never"} ELSE {}) :
       waitTill' = [waitTill EXCEPT ![e] = till]
  /\ run' = [run EXCEPT ![e] = "none"]
  /\ holder' = [holder EXCEPT ![e] = None]
  /\ UNCHANGED <<trackerVars, leaderVars, calls, stops, childVars>>

\* The end of a run.  Its parent has the result of a first segment at once;
\* after a resume the holder of the promise resumes the parent.
Finish(e) ==
  /\ run[e] = "running" /\ Free(e) /\ ~ChildWaits(e)
  /\ status' = [status EXCEPT ![e] = "success"]
  /\ run' = [run EXCEPT ![e] = "none"]
  /\ holder' = [holder EXCEPT ![e] = None]
  /\ IF e \in Child /\ wait[e] > 0
     THEN IF holder[e] = None
          THEN /\ outcome' = [outcome EXCEPT ![e] = "lost"]
               /\ UNCHANGED <<calls, waitingExecutions>>
          ELSE /\ outcome' = [outcome EXCEPT ![e] = "calling"]
               /\ StartExecution(holder[e], Parent[e], e)
     ELSE UNCHANGED <<outcome, calls, waitingExecutions>>
  /\ UNCHANGED <<wait, waitTill, found, timers, leaderVars, stops, birth>>

-----------------------------------------------------------------------------
(* Specification *)

Fires(m) == \E t \in timers[m] : Fire(m, t[1], t[2])

Settles(m) == \E call \in calls : call.main = m /\ (Claim(call) \/ Skip(call))

StopGoesOn(m) == \E s \in stops : s.main = m /\ (StopExecution(s) \/ StopDuringRun(s))

RunGoesOn(e) == SetRunning(e) \/ Suspend(e) \/ Finish(e)

Next ==
  \/ \E m \in Main : Takeover(m) \/ Stepdown(m) \/ Crash(m) \/ Poll(m) \/ SetTimers(m)
  \/ \E m \in Main : Fires(m) \/ Settles(m) \/ StopGoesOn(m)
  \/ \E m \in Main, e \in Execution : Webhook(m, e) \/ ReadStoppable(m, e)
  \/ \E e \in Execution : Due(e) \/ RunGoesOn(e)
  \/ \E c \in Child : StartChild(c)

Spec == Init /\ [][Next]_vars

\* The key of a leader that is gone expires and a process takes it; intervals,
\* timers, requests, the database and the workers go on, and a run ends or waits.
Fairness ==
  /\ WF_vars(\E m \in Main : Takeover(m))
  /\ \A m \in Main : WF_vars(Poll(m) \/ SetTimers(m))
  /\ \A m \in Main : WF_vars(Fires(m)) /\ WF_vars(Settles(m)) /\ WF_vars(StopGoesOn(m))
  /\ \A e \in Timed : WF_vars(Due(e))
  /\ \A e \in Execution : WF_vars(RunGoesOn(e))

FairSpec == Spec /\ Fairness

-----------------------------------------------------------------------------
(* Properties *)

\* Every variable has its type, and a row has a time to wait for exactly while
\* it is waiting.
TypeOK ==
  /\ status \in [Execution -> {"absent", "running", "waiting", "success", "canceled"}]
  /\ wait \in [Execution -> Wait]
  /\ waitTill \in [Execution -> {"none", "soon", "due", "never"}]
  /\ \A e \in Execution : status[e] = "waiting" <=> waitTill[e] # "none"
  /\ leader \in Main \cup {None}
  /\ tracking \in BOOLEAN
  /\ terms \in [Main -> 0..MaxTerms]
  /\ found \in [Main -> SUBSET (Execution \X Wait)]
  /\ waitingExecutions \in [Main -> [Execution -> Wait]]
  /\ timers \in [Main -> SUBSET (Execution \X Wait)]
  /\ calls \in SUBSET Call
  /\ stops \in SUBSET StopRequest
  /\ run \in [Execution -> {"none", "queued", "running"}]
  /\ holder \in [Execution -> Main \cup {None}]
  /\ birth \in [Child -> Wait]
  /\ outcome \in [Child -> {"none", "calling", "resumed", "skipped", "lost"}]
  /\ upsets \in 0..MaxUpsets

\* A child resumes its parent at most once, and an execution that has ended, or was
\* stopped while it waited, does not run again, whatever timers, webhooks, children
\* and stop requests are still on their way when it does: its row stays as it is,
\* or is marked as canceled by a stop that had read it before.
EndsOnce ==
  [][/\ \A e \in Execution :
          status[e] \in {"success", "canceled"} /\ run[e] = "none"
            => run'[e] = "none" /\ status'[e] \in {status[e], "canceled"}
     /\ \A c \in Child : outcome[c] \in {"resumed", "skipped", "lost"}
                         => outcome'[c] = outcome[c]]_vars

\* Behind every entry of a leader in its first term is the timer it was made
\* with, whatever has resumed or stopped the execution: an entry without one
\* keeps getWaitingExecutions from ever setting a timer again.
EntryHasTimer ==
  \A m \in Main, e \in Execution :
    leader = m /\ terms[m] = 1 /\ waitingExecutions[m][e] # 0
      => <<e, waitingExecutions[m][e]>> \in timers[m]

DueWaits(e) == status[e] = "waiting" /\ waitTill[e] = "due"

\* A process that leads again has an entry for the execution and no timer.
Stranded(e) ==
  /\ leader # None /\ terms[leader] > 1
  /\ LET n == waitingExecutions[leader][e] IN n # 0 /\ <<e, n>> \notin timers[leader]

\* A wait whose time has come ends, whichever process leads when it comes, and
\* whatever crashes, steps down or leads again on the way.  The exceptions are the
\* two ways for it to go on for ever: the leader keeps an entry for it from a
\* former term, or has not started to track and stays the leader.
DueIsResumed ==
  \A e \in Timed :
    <>[]DueWaits(e) => <>[](Stranded(e) \/ (leader # None /\ ~tracking))

\* A parent that waits for a child which has not ended, and which nobody stops, goes
\* on after the end of that child, unless the process that was to resume it crashed,
\* or the child itself is due for ever (DueIsResumed says when).
Awaits(c) ==
  /\ status[Parent[c]] = "waiting" /\ wait[Parent[c]] = birth[c] + 1
  /\ wait[c] > 0 /\ (run[c] # "none" \/ status[c] = "waiting")

ParentFollowsChild ==
  \A c \in Child \ (Webhooked \cup Stoppable) :
    Awaits(c) ~> \/ status[Parent[c]] # "waiting" \/ wait[Parent[c]] # birth[c] + 1
                 \/ (upsets > 0 /\ outcome[c] = "lost")
                 \/ []DueWaits(c)

\* A resume by a child that is skipped leaves nothing to resume: the parent has
\* been resumed from the wait for that child.
SkippedIsResumed ==
  \A c \in Child : outcome[c] = "skipped" =>
    \/ wait[Parent[c]] > birth[c]
    \/ status[Parent[c]] \in {"success", "canceled"}
=============================================================================
