------------------------- MODULE WaitTrackerProofs -------------------------
(***************************************************************************)
(* Proofs about WaitTracker, for any number of processes, executions and   *)
(* sub-workflows, of waits, terms, crashes and stepdowns.                  *)
(*                                                                         *)
(* An entry without its timer can only be left behind by a stepdown, which *)
(* clears timers and keeps entries: a process that leads for the first     *)
(* time since it started has none.  The resume of a parent is one call,    *)
(* made when the run of its child ends, and a run ends once.               *)
(***************************************************************************)
EXTENDS WaitTracker, TLAPS

\* A process that has not taken over since it started does not track, has polled
\* nothing and has no entries.
TermInv ==
  \A m \in Main : terms[m] = 0 =>
    /\ ~(leader = m /\ tracking)
    /\ found[m] = {}
    /\ \A e \in Execution : waitingExecutions[m][e] = 0

\* The row of an execution that has a run is running, or a stop has overwritten it.
RunInv == \A e \in Execution : run[e] # "none" => status[e] \in {"running", "canceled"}

\* What became of the resume of a parent is settled from the end of the child on.
OutcomeInv ==
  \A c \in Child : outcome[c] # "none" =>
    status[c] \in {"success", "canceled"} /\ run[c] = "none"

\* The resume by a child under way is the only one.
CallInv ==
  /\ \A call \in calls : call.child # None => outcome[call.child] = "calling"
  /\ \A call1, call2 \in calls :
       call1.child = call2.child /\ call1.child # None => call1 = call2

TrackerInv == EntryHasTimer /\ TermInv /\ RunInv /\ OutcomeInv /\ CallInv

WaitInv == TypeOK /\ TrackerInv

-----------------------------------------------------------------------------
(* Types *)

USE DEF rowVars, trackerVars, leaderVars, runVars, childVars

\* A child is an execution that has a parent, and no execution is None.
LEMMA ChildTypes ==
  /\ Child \subseteq Execution /\ None \notin Child
  /\ \A c \in Child : Parent[c] \in Execution
  BY WaitAssumption DEF Child

\* The waits of an execution, and the one after each but the last.
LEMMA WaitTypes ==
  /\ Wait \subseteq Nat
  /\ \A e \in Execution : 0 \in Wait
  /\ \A e \in Execution, n \in Nat : n < MaxWaits[e] => n + 1 \in Wait
  BY WaitAssumption DEF Wait

\* A timer, a webhook and the end of a child make calls.
LEMMA CallTypes ==
  \A m \in Main, e \in Execution, c \in Child \cup {None} :
    [main |-> m, execution |-> e, child |-> c] \in Call
  BY DEF Call

-----------------------------------------------------------------------------
(* The initial state *)

LEMMA InitInv == Init => WaitInv
<1>. SUFFICES ASSUME Init PROVE WaitInv
  OBVIOUS
<1>1. TypeOK
  <2>1. tracking \in BOOLEAN
    BY DEF Init
  <2>2. /\ wait \in [Execution -> Wait] /\ birth \in [Child -> Wait]
        /\ waitingExecutions \in [Main -> [Execution -> Wait]]
    BY WaitTypes, ChildTypes DEF Init
  <2>. QED
    BY <2>1, <2>2, WaitAssumption DEF Init, TypeOK
<1>2. TrackerInv
  BY WaitAssumption, ChildTypes
     DEF Init, TrackerInv, EntryHasTimer, TermInv, RunInv, OutcomeInv, CallInv
<1>. QED
  BY <1>1, <1>2 DEF WaitInv

-----------------------------------------------------------------------------
(* Leadership *)

LEMMA TakeoverKeeps ==
  ASSUME WaitInv, NEW m \in Main, Takeover(m)
  PROVE  WaitInv'
<1>1. TypeOK /\ TrackerInv
  BY DEF WaitInv
<1>2. TypeOK'
  BY <1>1, WaitAssumption, WaitTypes, ChildTypes DEF Takeover, TypeOK
<1>3. TrackerInv'
  <2>1. EntryHasTimer'
    <3>1. terms[m] \in Nat /\ terms'[m] = terms[m] + 1 /\ leader' = m
      BY <1>1, WaitAssumption DEF Takeover, TypeOK
    <3>2. terms'[m] = 1 => \A e \in Execution : waitingExecutions[m][e] = 0
      BY <1>1, <3>1 DEF TrackerInv, TermInv
    <3>. QED
      BY <3>1, <3>2 DEF EntryHasTimer, Takeover
  <2>2. TermInv'
    BY <1>1, WaitAssumption, WaitTypes, ChildTypes DEF Takeover, TrackerInv,
         TermInv, TypeOK
  <2>3. OutcomeInv'
    BY <1>1, WaitAssumption, WaitTypes, ChildTypes DEF Takeover, TrackerInv,
         OutcomeInv, CallInv, TypeOK
  <2>4. CallInv'
    BY <1>1, WaitAssumption, WaitTypes, ChildTypes DEF Takeover, TrackerInv,
         CallInv, OutcomeInv, TypeOK
  <2>5. RunInv'
    BY <1>1 DEF Takeover, TrackerInv, RunInv, TypeOK
  <2>. QED
    BY <2>1, <2>2, <2>3, <2>4, <2>5 DEF TrackerInv
<1>. QED
  BY <1>2, <1>3 DEF WaitInv

LEMMA StepdownKeeps ==
  ASSUME WaitInv, NEW m \in Main, Stepdown(m)
  PROVE  WaitInv'
<1>1. TypeOK /\ TrackerInv
  BY DEF WaitInv
<1>2. TypeOK'
  <2>1. tracking' \in BOOLEAN
    BY DEF Stepdown
  <2>2. upsets' \in 0..MaxUpsets /\ leader' \in Main \cup {None}
    BY <1>1, WaitAssumption DEF Stepdown, TypeOK
  <2>3. timers' \in [Main -> SUBSET (Execution \X Wait)]
    BY <1>1 DEF Stepdown, TypeOK
  <2>. QED
    BY <1>1, <2>1, <2>2, <2>3 DEF Stepdown, TypeOK
<1>3. TrackerInv'
  <2>1. EntryHasTimer'
    BY <1>1, WaitAssumption, WaitTypes, ChildTypes DEF Stepdown, TrackerInv,
         EntryHasTimer, TermInv, TypeOK
  <2>2. TermInv'
    BY <1>1, WaitAssumption, WaitTypes, ChildTypes DEF Stepdown, TrackerInv,
         TermInv, TypeOK
  <2>3. OutcomeInv'
    BY <1>1, WaitAssumption, WaitTypes, ChildTypes DEF Stepdown, TrackerInv,
         OutcomeInv, CallInv, TypeOK
  <2>4. CallInv'
    BY <1>1, WaitAssumption, WaitTypes, ChildTypes DEF Stepdown, TrackerInv,
         CallInv, OutcomeInv, TypeOK
  <2>5. RunInv'
    BY <1>1 DEF Stepdown, TrackerInv, RunInv, TypeOK
  <2>. QED
    BY <2>1, <2>2, <2>3, <2>4, <2>5 DEF TrackerInv
<1>. QED
  BY <1>2, <1>3 DEF WaitInv

LEMMA CrashKeeps ==
  ASSUME WaitInv, NEW m \in Main, Crash(m)
  PROVE  WaitInv'
<1>1. TypeOK /\ TrackerInv
  BY DEF WaitInv
<1>2. TypeOK'
  BY <1>1, WaitAssumption, WaitTypes, ChildTypes DEF Crash, LeadershipAfterCrash,
       TypeOK
<1>3. TrackerInv'
  <2>1. EntryHasTimer'
    BY <1>1, WaitAssumption, WaitTypes, ChildTypes DEF Crash,
         LeadershipAfterCrash, TrackerInv, EntryHasTimer, TermInv, TypeOK
  <2>2. TermInv'
    <3>. SUFFICES ASSUME NEW m2 \in Main, terms'[m2] = 0
                  PROVE  /\ ~(leader' = m2 /\ tracking')
                         /\ found'[m2] = {}
                         /\ \A e \in Execution : waitingExecutions'[m2][e] = 0
      BY DEF TermInv
    <3>1. CASE m2 = m
      <4>1. leader' = m => ~tracking'
        BY <1>1, WaitAssumption DEF Crash, LeadershipAfterCrash, TypeOK
      <4>2. found'[m] = {} /\ \A e \in Execution : waitingExecutions'[m][e] = 0
        BY <1>1 DEF Crash, TypeOK
      <4>. QED
        BY <3>1, <4>1, <4>2
    <3>2. CASE m2 # m
      <4>1. terms[m2] = 0 /\ found'[m2] = found[m2]
        BY <1>1, <3>2 DEF Crash, TypeOK
      <4>2. waitingExecutions'[m2] = waitingExecutions[m2]
        BY <1>1, <3>2 DEF Crash, TypeOK
      <4>3. leader' = m2 => leader = m2
        BY <3>2, WaitAssumption DEF Crash, LeadershipAfterCrash
      <4>4. tracking' => tracking
        BY DEF Crash, LeadershipAfterCrash
      <4>. QED
        BY <1>1, <4>1, <4>2, <4>3, <4>4 DEF TrackerInv, TermInv
    <3>. QED
      BY <3>1, <3>2
  <2>3. OutcomeInv'
    <3>. SUFFICES ASSUME NEW c \in Child, outcome'[c] # "none"
                  PROVE  status[c] \in {"success", "canceled"} /\ run[c] = "none"
      BY DEF OutcomeInv, Crash
    <3>1. ASSUME NEW call \in calls, call.child = c
          PROVE  outcome[c] = "calling"
      BY <1>1, <3>1, ChildTypes DEF TrackerInv, CallInv
    <3>2. outcome[c] # "none"
      BY <3>1 DEF Crash
    <3>. QED
      BY <1>1, <3>2 DEF TrackerInv, OutcomeInv
  <2>4. CallInv'
    <3>1. /\ calls' \subseteq calls
          /\ \A call \in calls' : call.main # m
      BY DEF Crash
    <3>2. ASSUME NEW call \in calls', call.child # None
          PROVE  outcome'[call.child] = "calling"
      <4>1. call \in calls /\ call.main # m /\ call.child \in Child
        BY <1>1, <3>1, <3>2 DEF TypeOK, Call
      <4>2. outcome[call.child] = "calling"
        BY <1>1, <4>1, <3>2 DEF TrackerInv, CallInv
      <4>3. ~ \E other \in calls : other.main = m /\ other.child = call.child
        BY <1>1, <4>1, <3>2 DEF TrackerInv, CallInv
      <4>. QED
        BY <4>1, <4>2, <4>3 DEF Crash
    <3>3. \A call1, call2 \in calls' :
            call1.child = call2.child /\ call1.child # None => call1 = call2
      BY <1>1, <3>1 DEF TrackerInv, CallInv
    <3>. QED
      BY <3>2, <3>3 DEF CallInv
  <2>5. RunInv'
    BY <1>1 DEF Crash, TrackerInv, RunInv, TypeOK
  <2>. QED
    BY <2>1, <2>2, <2>3, <2>4, <2>5 DEF TrackerInv
<1>. QED
  BY <1>2, <1>3 DEF WaitInv

-----------------------------------------------------------------------------
(* The wait tracker *)

LEMMA PollKeeps ==
  ASSUME WaitInv, NEW m \in Main, Poll(m)
  PROVE  WaitInv'
<1>1. TypeOK /\ TrackerInv
  BY DEF WaitInv
<1>2. TypeOK'
  BY <1>1, WaitAssumption, WaitTypes, ChildTypes DEF Poll, Upcoming, TypeOK
<1>3. TrackerInv'
  <2>1. EntryHasTimer'
    BY <1>1, WaitAssumption, WaitTypes, ChildTypes DEF Poll, Upcoming, TrackerInv,
         EntryHasTimer, TermInv, TypeOK
  <2>2. TermInv'
    BY <1>1, WaitAssumption, WaitTypes, ChildTypes DEF Poll, Upcoming, TrackerInv,
         TermInv, TypeOK
  <2>3. OutcomeInv'
    BY <1>1, WaitAssumption, WaitTypes, ChildTypes DEF Poll, Upcoming, TrackerInv,
         OutcomeInv, CallInv, TypeOK
  <2>4. CallInv'
    BY <1>1, WaitAssumption, WaitTypes, ChildTypes DEF Poll, Upcoming, TrackerInv,
         CallInv, OutcomeInv, TypeOK
  <2>5. RunInv'
    BY <1>1 DEF Poll, TrackerInv, RunInv, TypeOK
  <2>. QED
    BY <2>1, <2>2, <2>3, <2>4, <2>5 DEF TrackerInv
<1>. QED
  BY <1>2, <1>3 DEF WaitInv

LEMMA SetTimersKeeps ==
  ASSUME WaitInv, NEW m \in Main, SetTimers(m)
  PROVE  WaitInv'
<1>1. TypeOK /\ TrackerInv
  BY DEF WaitInv
<1>2. TypeOK'
  BY <1>1, WaitAssumption, WaitTypes, ChildTypes DEF SetTimers, TypeOK
<1>3. TrackerInv'
  <2>1. EntryHasTimer'
    <3>. SUFFICES ASSUME NEW m2 \in Main, NEW e \in Execution,
                         leader = m2, terms[m2] = 1, waitingExecutions'[m2][e] # 0
                  PROVE  <<e, waitingExecutions'[m2][e]>> \in timers'[m2]
      BY DEF SetTimers, EntryHasTimer
    <3>. DEFINE new == {f \in found[m] : waitingExecutions[m][f[1]] = 0}
    <3>1. timers[m2] \subseteq timers'[m2]
      BY <1>1 DEF SetTimers, TypeOK
    <3>2. CASE m2 = m /\ \E f \in new : f[1] = e
      <4>. DEFINE f == CHOOSE f \in new : f[1] = e
      <4>1. f \in new /\ f[1] = e
        BY <3>2
      <4>2. f \in Execution \X Wait
        BY <1>1, <4>1 DEF TypeOK
      <4>3. waitingExecutions'[m][e] = f[2]
        BY <1>1, <3>2 DEF SetTimers, TypeOK
      <4>4. f \in timers'[m]
        BY <1>1, <4>1 DEF SetTimers, TypeOK
      <4>. QED
        BY <3>2, <4>1, <4>2, <4>3, <4>4
    <3>3. CASE ~(m2 = m /\ \E f \in new : f[1] = e)
      <4>1. waitingExecutions'[m2][e] = waitingExecutions[m2][e]
        BY <1>1, <3>3 DEF SetTimers, TypeOK
      <4>. QED
        BY <1>1, <3>1, <4>1 DEF TrackerInv, EntryHasTimer
    <3>. QED
      BY <3>2, <3>3
  <2>2. TermInv'
    BY <1>1, WaitAssumption, WaitTypes, ChildTypes DEF SetTimers, TrackerInv,
         TermInv, TypeOK
  <2>3. OutcomeInv'
    BY <1>1, WaitAssumption, WaitTypes, ChildTypes DEF SetTimers, TrackerInv,
         OutcomeInv, CallInv, TypeOK
  <2>4. CallInv'
    BY <1>1, WaitAssumption, WaitTypes, ChildTypes DEF SetTimers, TrackerInv,
         CallInv, OutcomeInv, TypeOK
  <2>5. RunInv'
    BY <1>1 DEF SetTimers, TrackerInv, RunInv, TypeOK
  <2>. QED
    BY <2>1, <2>2, <2>3, <2>4, <2>5 DEF TrackerInv
<1>. QED
  BY <1>2, <1>3 DEF WaitInv

LEMMA FireKeeps ==
  ASSUME WaitInv, NEW m \in Main, NEW e \in Execution, NEW n \in Wait, Fire(m, e, n)
  PROVE  WaitInv'
<1>1. TypeOK /\ TrackerInv
  BY DEF WaitInv
<1>2. TypeOK'
  <2>1. calls' \in SUBSET Call
    BY <1>1, CallTypes DEF Fire, StartExecution, TypeOK
  <2>2. waitingExecutions' \in [Main -> [Execution -> Wait]]
    BY <1>1, WaitTypes DEF Fire, StartExecution, TypeOK
  <2>3. timers' \in [Main -> SUBSET (Execution \X Wait)]
    BY <1>1 DEF Fire, TypeOK
  <2>. QED
    BY <1>1, <2>1, <2>2, <2>3 DEF Fire, TypeOK
<1>3. TrackerInv'
  <2>1. EntryHasTimer'
    BY <1>1, WaitAssumption, WaitTypes, ChildTypes DEF Fire, TimeHasCome,
         StartExecution, TrackerInv, EntryHasTimer, TermInv, TypeOK
  <2>2. TermInv'
    BY <1>1, WaitAssumption, WaitTypes, ChildTypes DEF Fire, TimeHasCome,
         StartExecution, TrackerInv, TermInv, TypeOK
  <2>3. OutcomeInv'
    BY <1>1, WaitAssumption, WaitTypes, ChildTypes DEF Fire, TimeHasCome,
         StartExecution, TrackerInv, OutcomeInv, CallInv, TypeOK
  <2>4. CallInv'
    BY <1>1, WaitAssumption, WaitTypes, ChildTypes DEF Fire, TimeHasCome,
         StartExecution, TrackerInv, CallInv, OutcomeInv, TypeOK
  <2>5. RunInv'
    BY <1>1 DEF Fire, StartExecution, TrackerInv, RunInv, TypeOK
  <2>. QED
    BY <2>1, <2>2, <2>3, <2>4, <2>5 DEF TrackerInv
<1>. QED
  BY <1>2, <1>3 DEF WaitInv

LEMMA WebhookKeeps ==
  ASSUME WaitInv, NEW m \in Main, NEW e \in Execution, Webhook(m, e)
  PROVE  WaitInv'
<1>1. TypeOK /\ TrackerInv
  BY DEF WaitInv
<1>2. TypeOK'
  <2>1. calls' \in SUBSET Call
    BY <1>1, CallTypes DEF Webhook, TypeOK
  <2>. QED
    BY <1>1, <2>1 DEF Webhook, TypeOK
<1>3. TrackerInv'
  <2>1. EntryHasTimer'
    BY <1>1, WaitAssumption, WaitTypes, ChildTypes DEF Webhook, TrackerInv,
         EntryHasTimer, TermInv, TypeOK
  <2>2. TermInv'
    BY <1>1, WaitAssumption, WaitTypes, ChildTypes DEF Webhook, TrackerInv, TermInv,
         TypeOK
  <2>3. OutcomeInv'
    BY <1>1, WaitAssumption, WaitTypes, ChildTypes DEF Webhook, TrackerInv,
         OutcomeInv, CallInv, TypeOK
  <2>4. CallInv'
    BY <1>1, WaitAssumption, WaitTypes, ChildTypes DEF Webhook, TrackerInv, CallInv,
         OutcomeInv, TypeOK
  <2>5. RunInv'
    BY <1>1 DEF Webhook, TrackerInv, RunInv, TypeOK
  <2>. QED
    BY <2>1, <2>2, <2>3, <2>4, <2>5 DEF TrackerInv
<1>. QED
  BY <1>2, <1>3 DEF WaitInv

LEMMA ClaimKeeps ==
  ASSUME WaitInv, NEW call \in calls, Claim(call)
  PROVE  WaitInv'
<1>1. TypeOK /\ TrackerInv
  BY DEF WaitInv
<1>2. TypeOK'
  <2>1. call \in Call
    BY <1>1 DEF TypeOK
  <2>2. call.main \in Main /\ call.execution \in Execution
    BY <2>1 DEF Call
  <2>3. /\ status' \in [Execution -> {"absent", "running", "waiting", "success", "canceled"}]
        /\ waitTill' \in [Execution -> {"none", "soon", "due", "never"}]
        /\ \A e \in Execution : status'[e] = "waiting" <=> waitTill'[e] # "none"
    BY <1>1, <2>2 DEF Claim, TypeOK
  <2>4. /\ holder' \in [Execution -> Main \cup {None}]
        /\ run' \in [Execution -> {"none", "queued", "running"}]
        /\ outcome' \in [Child -> {"none", "calling", "resumed", "skipped", "lost"}]
        /\ calls' \in SUBSET Call
    BY <1>1, <2>2 DEF Claim, Report, TypeOK
  <2>. QED
    BY <1>1, <2>3, <2>4 DEF Claim, TypeOK
<1>3. TrackerInv'
  <2>1. EntryHasTimer'
    BY <1>1, WaitAssumption, WaitTypes, ChildTypes DEF Claim, Report, TrackerInv,
         EntryHasTimer, TermInv, TypeOK
  <2>2. TermInv'
    BY <1>1, WaitAssumption, WaitTypes, ChildTypes DEF Claim, Report, TrackerInv,
         TermInv, TypeOK
  <2>3. OutcomeInv'
    <3>. SUFFICES ASSUME NEW c \in Child, outcome'[c] # "none"
                  PROVE  status'[c] \in {"success", "canceled"} /\ run'[c] = "none"
      BY DEF OutcomeInv
    <3>1. c = call.child => outcome[c] = "calling"
      BY <1>1, ChildTypes DEF TrackerInv, CallInv
    <3>2. outcome[c] # "none"
      BY <3>1 DEF Claim, Report
    <3>3. status[c] \in {"success", "canceled"} /\ run[c] = "none"
      BY <1>1, <3>2 DEF TrackerInv, OutcomeInv
    <3>. QED
      BY <1>1, <3>3, ChildTypes DEF Claim, TypeOK
  <2>4. CallInv'
    <3>1. ASSUME NEW other \in calls', other.child # None
          PROVE  outcome'[other.child] = "calling"
      <4>1. other \in calls /\ other # call /\ other.child \in Child
        BY <1>1, <3>1 DEF Claim, TypeOK, Call
      <4>2. outcome[other.child] = "calling" /\ other.child # call.child
        BY <1>1, <3>1, <4>1 DEF TrackerInv, CallInv
      <4>. QED
        BY <4>1, <4>2 DEF Claim, Report
    <3>2. \A call1, call2 \in calls' :
            call1.child = call2.child /\ call1.child # None => call1 = call2
      BY <1>1 DEF Claim, TrackerInv, CallInv
    <3>. QED
      BY <3>1, <3>2 DEF CallInv
  <2>5. RunInv'
    BY <1>1 DEF Claim, Report, TrackerInv, RunInv, TypeOK
  <2>. QED
    BY <2>1, <2>2, <2>3, <2>4, <2>5 DEF TrackerInv
<1>. QED
  BY <1>2, <1>3 DEF WaitInv

LEMMA SkipKeeps ==
  ASSUME WaitInv, NEW call \in calls, Skip(call)
  PROVE  WaitInv'
<1>1. TypeOK /\ TrackerInv
  BY DEF WaitInv
<1>2. TypeOK'
  BY <1>1, WaitAssumption, WaitTypes, ChildTypes DEF Skip, Report, TypeOK
<1>3. TrackerInv'
  <2>1. EntryHasTimer'
    BY <1>1 DEF Skip, TrackerInv, EntryHasTimer
  <2>2. TermInv'
    BY <1>1 DEF Skip, TrackerInv, TermInv
  <2>3. OutcomeInv'
    <3>. SUFFICES ASSUME NEW c \in Child, outcome'[c] # "none"
                  PROVE  status[c] \in {"success", "canceled"} /\ run[c] = "none"
      BY DEF Skip, OutcomeInv
    <3>1. c = call.child => outcome[c] = "calling"
      BY <1>1, ChildTypes DEF TrackerInv, CallInv
    <3>2. outcome[c] # "none"
      BY <3>1 DEF Skip, Report
    <3>. QED
      BY <1>1, <3>2 DEF TrackerInv, OutcomeInv
  <2>4. CallInv'
    <3>1. ASSUME NEW other \in calls', other.child # None
          PROVE  outcome'[other.child] = "calling"
      <4>1. other \in calls /\ other # call /\ other.child \in Child
        BY <1>1, <3>1 DEF Skip, TypeOK, Call
      <4>2. outcome[other.child] = "calling" /\ other.child # call.child
        BY <1>1, <3>1, <4>1 DEF TrackerInv, CallInv
      <4>. QED
        BY <4>1, <4>2 DEF Skip, Report
    <3>2. \A call1, call2 \in calls' :
            call1.child = call2.child /\ call1.child # None => call1 = call2
      BY <1>1 DEF Skip, TrackerInv, CallInv
    <3>. QED
      BY <3>1, <3>2 DEF CallInv
  <2>5. RunInv'
    BY <1>1 DEF Skip, Report, TrackerInv, RunInv, TypeOK
  <2>. QED
    BY <2>1, <2>2, <2>3, <2>4, <2>5 DEF TrackerInv
<1>. QED
  BY <1>2, <1>3 DEF WaitInv

LEMMA ReadStoppableKeeps ==
  ASSUME WaitInv, NEW m \in Main, NEW e \in Execution, ReadStoppable(m, e)
  PROVE  WaitInv'
<1>1. TypeOK /\ TrackerInv
  BY DEF WaitInv
<1>2. TypeOK'
  <2>1. [main |-> m, execution |-> e, step |-> "read"] \in StopRequest
    BY DEF StopRequest
  <2>. QED
    BY <1>1, <2>1 DEF ReadStoppable, TypeOK
<1>3. TrackerInv'
  <2>1. EntryHasTimer'
    BY <1>1, ChildTypes DEF ReadStoppable, TrackerInv,
         EntryHasTimer, TypeOK
  <2>2. TermInv'
    BY <1>1, ChildTypes DEF ReadStoppable, TrackerInv,
         TermInv, TypeOK
  <2>3. OutcomeInv'
    BY <1>1, ChildTypes DEF ReadStoppable, TrackerInv,
         OutcomeInv, RunInv, TypeOK
  <2>4. CallInv'
    BY <1>1, ChildTypes DEF ReadStoppable, TrackerInv,
         CallInv, TypeOK
  <2>5. RunInv'
    BY <1>1, ChildTypes DEF ReadStoppable, TrackerInv,
         RunInv, TypeOK
  <2>. QED
    BY <2>1, <2>2, <2>3, <2>4, <2>5 DEF TrackerInv
<1>. QED
  BY <1>2, <1>3 DEF WaitInv

LEMMA StopExecutionKeeps ==
  ASSUME WaitInv, NEW s \in stops, StopExecution(s)
  PROVE  WaitInv'
<1>1. TypeOK /\ TrackerInv
  BY DEF WaitInv
<1>2. TypeOK'
  <2>1. s \in StopRequest /\ [s EXCEPT !.step = "acted"] \in StopRequest
    BY <1>1 DEF TypeOK, StopRequest
  <2>2. s.main \in Main /\ s.execution \in Execution
    BY <2>1 DEF StopRequest
  <2>3. /\ waitingExecutions' \in [Main -> [Execution -> Wait]]
        /\ timers' \in [Main -> SUBSET (Execution \X Wait)]
        /\ stops' \in SUBSET StopRequest
    BY <1>1, <2>1, <2>2, WaitTypes DEF StopExecution, Acted, TypeOK
  <2>4. /\ status' \in [Execution -> {"absent", "running", "waiting", "success", "canceled"}]
        /\ waitTill' \in [Execution -> {"none", "soon", "due", "never"}]
        /\ \A e \in Execution : status'[e] = "waiting" <=> waitTill'[e] # "none"
        /\ run' \in [Execution -> {"none", "queued", "running"}]
        /\ holder' \in [Execution -> Main \cup {None}]
    <3>1. /\ holder' \in [Execution -> Main \cup {None}]
          /\ run' \in [Execution -> {"none", "queued", "running"}]
      BY <1>1, <2>2 DEF StopExecution, CancelRun, TypeOK
    <3>2. CASE UNCHANGED <<status, waitTill>>
      BY <1>1, <3>1, <3>2 DEF TypeOK
    <3>3. CASE /\ status' = [status EXCEPT ![s.execution] = "canceled"]
               /\ waitTill' = [waitTill EXCEPT ![s.execution] = "none"]
      BY <1>1, <2>2, <3>1, <3>3 DEF TypeOK
    <3>. QED
      BY <3>2, <3>3 DEF StopExecution, CancelRun
  <2>5. UNCHANGED <<wait, found, leaderVars, calls, childVars>>
    BY DEF StopExecution
  <2>. QED
    BY <1>1, <2>3, <2>4, <2>5 DEF TypeOK
<1>3. TrackerInv'
  <2>1. EntryHasTimer'
    BY <1>1, ChildTypes DEF StopExecution, CancelRun, Acted, TrackerInv,
         EntryHasTimer, TypeOK
  <2>2. TermInv'
    BY <1>1, ChildTypes DEF StopExecution, CancelRun, Acted, TrackerInv,
         TermInv, TypeOK
  <2>3. OutcomeInv'
    BY <1>1, ChildTypes DEF StopExecution, CancelRun, Acted, TrackerInv,
         OutcomeInv, RunInv, TypeOK
  <2>4. CallInv'
    BY <1>1, ChildTypes DEF StopExecution, CancelRun, Acted, TrackerInv,
         CallInv, TypeOK
  <2>5. RunInv'
    BY <1>1, ChildTypes DEF StopExecution, CancelRun, Acted, TrackerInv,
         RunInv, TypeOK
  <2>. QED
    BY <2>1, <2>2, <2>3, <2>4, <2>5 DEF TrackerInv
<1>. QED
  BY <1>2, <1>3 DEF WaitInv

LEMMA StopDuringRunKeeps ==
  ASSUME WaitInv, NEW s \in stops, StopDuringRun(s)
  PROVE  WaitInv'
<1>1. TypeOK /\ TrackerInv
  BY DEF WaitInv
<1>2. TypeOK'
  <2>1. s.execution \in Execution
    BY <1>1 DEF TypeOK, StopRequest
  <2>. QED
    BY <1>1, <2>1 DEF StopDuringRun, TypeOK
<1>3. TrackerInv'
  <2>1. EntryHasTimer'
    BY <1>1, ChildTypes DEF StopDuringRun, TrackerInv,
         EntryHasTimer, TypeOK
  <2>2. TermInv'
    BY <1>1, ChildTypes DEF StopDuringRun, TrackerInv,
         TermInv, TypeOK
  <2>3. OutcomeInv'
    BY <1>1, ChildTypes DEF StopDuringRun, TrackerInv,
         OutcomeInv, RunInv, TypeOK
  <2>4. CallInv'
    BY <1>1, ChildTypes DEF StopDuringRun, TrackerInv,
         CallInv, TypeOK
  <2>5. RunInv'
    BY <1>1, ChildTypes DEF StopDuringRun, TrackerInv,
         RunInv, TypeOK
  <2>. QED
    BY <2>1, <2>2, <2>3, <2>4, <2>5 DEF TrackerInv
<1>. QED
  BY <1>2, <1>3 DEF WaitInv

LEMMA DueKeeps ==
  ASSUME WaitInv, NEW e \in Execution, Due(e)
  PROVE  WaitInv'
<1>1. TypeOK /\ TrackerInv
  BY DEF WaitInv
<1>2. TypeOK'
  BY <1>1, WaitAssumption, WaitTypes, ChildTypes DEF Due, TypeOK
<1>3. TrackerInv'
  <2>1. EntryHasTimer'
    BY <1>1, WaitAssumption, WaitTypes, ChildTypes DEF Due, TrackerInv,
         EntryHasTimer, TermInv, TypeOK
  <2>2. TermInv'
    BY <1>1, WaitAssumption, WaitTypes, ChildTypes DEF Due, TrackerInv, TermInv,
         TypeOK
  <2>3. OutcomeInv'
    BY <1>1, WaitAssumption, WaitTypes, ChildTypes DEF Due, TrackerInv, OutcomeInv,
         CallInv, TypeOK
  <2>4. CallInv'
    BY <1>1, WaitAssumption, WaitTypes, ChildTypes DEF Due, TrackerInv, CallInv,
         OutcomeInv, TypeOK
  <2>5. RunInv'
    BY <1>1 DEF Due, TrackerInv, RunInv, TypeOK
  <2>. QED
    BY <2>1, <2>2, <2>3, <2>4, <2>5 DEF TrackerInv
<1>. QED
  BY <1>2, <1>3 DEF WaitInv

-----------------------------------------------------------------------------
(* Runs *)

LEMMA StartChildKeeps ==
  ASSUME WaitInv, NEW c \in Child, StartChild(c)
  PROVE  WaitInv'
<1>1. TypeOK /\ TrackerInv
  BY DEF WaitInv
<1>2. TypeOK'
  BY <1>1, WaitAssumption, WaitTypes, ChildTypes DEF StartChild, TypeOK
<1>3. TrackerInv'
  <2>1. EntryHasTimer'
    BY <1>1, WaitAssumption, WaitTypes, ChildTypes DEF StartChild, TrackerInv,
         EntryHasTimer, TermInv, TypeOK
  <2>2. TermInv'
    BY <1>1, WaitAssumption, WaitTypes, ChildTypes DEF StartChild, TrackerInv,
         TermInv, TypeOK
  <2>3. OutcomeInv'
    BY <1>1, WaitAssumption, WaitTypes, ChildTypes DEF StartChild, TrackerInv,
         OutcomeInv, CallInv, TypeOK
  <2>4. CallInv'
    BY <1>1, WaitAssumption, WaitTypes, ChildTypes DEF StartChild, TrackerInv,
         CallInv, OutcomeInv, TypeOK
  <2>5. RunInv'
    BY <1>1 DEF StartChild, TrackerInv, RunInv, TypeOK
  <2>. QED
    BY <2>1, <2>2, <2>3, <2>4, <2>5 DEF TrackerInv
<1>. QED
  BY <1>2, <1>3 DEF WaitInv

LEMMA SetRunningKeeps ==
  ASSUME WaitInv, NEW e \in Execution, SetRunning(e)
  PROVE  WaitInv'
<1>1. TypeOK /\ TrackerInv
  BY DEF WaitInv
<1>2. TypeOK'
  BY <1>1, WaitAssumption, WaitTypes, ChildTypes DEF SetRunning, TrackerInv, RunInv, TypeOK
<1>3. TrackerInv'
  <2>1. EntryHasTimer'
    BY <1>1, ChildTypes DEF SetRunning, TrackerInv,
         EntryHasTimer, TypeOK
  <2>2. TermInv'
    BY <1>1, ChildTypes DEF SetRunning, TrackerInv,
         TermInv, TypeOK
  <2>3. OutcomeInv'
    BY <1>1, ChildTypes DEF SetRunning, TrackerInv,
         OutcomeInv, RunInv, TypeOK
  <2>4. CallInv'
    BY <1>1, ChildTypes DEF SetRunning, TrackerInv,
         CallInv, TypeOK
  <2>5. RunInv'
    BY <1>1, ChildTypes DEF SetRunning, TrackerInv,
         RunInv, TypeOK
  <2>. QED
    BY <2>1, <2>2, <2>3, <2>4, <2>5 DEF TrackerInv
<1>. QED
  BY <1>2, <1>3 DEF WaitInv

LEMMA SuspendKeeps ==
  ASSUME WaitInv, NEW e \in Execution, Suspend(e)
  PROVE  WaitInv'
<1>1. TypeOK /\ TrackerInv
  BY DEF WaitInv
<1>2. TypeOK'
  <2>1. wait[e] \in Nat /\ wait[e] + 1 \in Wait
    BY <1>1, WaitTypes DEF Suspend, TypeOK
  <2>2. wait' \in [Execution -> Wait]
    BY <1>1, <2>1 DEF Suspend, TypeOK
  <2>3. PICK till \in {"soon", "never"} : waitTill' = [waitTill EXCEPT ![e] = till]
    BY DEF Suspend
  <2>4. /\ status' \in [Execution -> {"absent", "running", "waiting", "success", "canceled"}]
        /\ waitTill' \in [Execution -> {"none", "soon", "due", "never"}]
        /\ \A e2 \in Execution : status'[e2] = "waiting" <=> waitTill'[e2] # "none"
    BY <1>1, <2>3 DEF Suspend, TypeOK
  <2>. QED
    BY <1>1, <2>2, <2>4 DEF Suspend, TypeOK
<1>3. TrackerInv'
  <2>1. EntryHasTimer'
    BY <1>1, WaitAssumption, WaitTypes, ChildTypes DEF Suspend, TrackerInv,
         EntryHasTimer, TermInv, TypeOK
  <2>2. TermInv'
    BY <1>1, WaitAssumption, WaitTypes, ChildTypes DEF Suspend, TrackerInv, TermInv,
         TypeOK
  <2>3. OutcomeInv'
    BY <1>1, WaitAssumption, WaitTypes, ChildTypes DEF Suspend, TrackerInv,
         OutcomeInv, CallInv, TypeOK
  <2>4. CallInv'
    BY <1>1, WaitAssumption, WaitTypes, ChildTypes DEF Suspend, TrackerInv, CallInv,
         OutcomeInv, TypeOK
  <2>5. RunInv'
    BY <1>1 DEF Suspend, TrackerInv, RunInv, TypeOK
  <2>. QED
    BY <2>1, <2>2, <2>3, <2>4, <2>5 DEF TrackerInv
<1>. QED
  BY <1>2, <1>3 DEF WaitInv

LEMMA FinishKeeps ==
  ASSUME WaitInv, NEW e \in Execution, Finish(e)
  PROVE  WaitInv'
<1>1. TypeOK /\ TrackerInv
  BY DEF WaitInv
<1>2. TypeOK'
  <2>1. /\ status' \in [Execution -> {"absent", "running", "waiting", "success", "canceled"}]
        /\ \A e2 \in Execution : status'[e2] = "waiting" <=> waitTill'[e2] # "none"
        /\ holder' \in [Execution -> Main \cup {None}]
    BY <1>1 DEF Finish, TrackerInv, RunInv, TypeOK
  <2>2. /\ outcome' \in [Child -> {"none", "calling", "resumed", "skipped", "lost"}]
        /\ calls' \in SUBSET Call
        /\ waitingExecutions' \in [Main -> [Execution -> Wait]]
    <3>1. CASE e \in Child /\ wait[e] > 0 /\ holder[e] # None
      <4>1. holder[e] \in Main /\ Parent[e] \in Execution
        BY <1>1, <3>1, ChildTypes DEF TypeOK
      <4>2. [main |-> holder[e], execution |-> Parent[e], child |-> e] \in Call
        BY <3>1, <4>1 DEF Call
      <4>3. /\ calls' = calls \cup {[main |-> holder[e], execution |-> Parent[e], child |-> e]}
            /\ waitingExecutions' = [waitingExecutions EXCEPT ![holder[e]][Parent[e]] = 0]
        BY <3>1 DEF Finish, StartExecution
      <4>4. calls' \in SUBSET Call
        BY <1>1, <4>2, <4>3 DEF TypeOK
      <4>5. waitingExecutions' \in [Main -> [Execution -> Wait]]
        BY <1>1, <4>1, <4>3, WaitTypes DEF TypeOK
      <4>6. outcome' \in [Child -> {"none", "calling", "resumed", "skipped", "lost"}]
        BY <1>1, <3>1 DEF Finish, TypeOK
      <4>. QED
        BY <4>4, <4>5, <4>6
    <3>2. CASE ~(e \in Child /\ wait[e] > 0 /\ holder[e] # None)
      BY <1>1, <3>2 DEF Finish, TypeOK
    <3>. QED
      BY <3>1, <3>2
  <2>. QED
    BY <1>1, <2>1, <2>2 DEF Finish, TypeOK
<1>3. TrackerInv'
  <2>1. EntryHasTimer'
    <3>. SUFFICES ASSUME NEW m \in Main, NEW e2 \in Execution,
                         waitingExecutions'[m][e2] # 0
                  PROVE  waitingExecutions'[m][e2] = waitingExecutions[m][e2]
      BY <1>1 DEF Finish, TrackerInv, EntryHasTimer
    <3>1. CASE e \in Child /\ wait[e] > 0 /\ holder[e] # None
      <4>1. holder[e] \in Main /\ Parent[e] \in Execution
        BY <1>1, <3>1, ChildTypes DEF TypeOK
      <4>2. waitingExecutions' = [waitingExecutions EXCEPT ![holder[e]][Parent[e]] = 0]
        BY <3>1 DEF Finish, StartExecution
      <4>. QED
        BY <1>1, <4>1, <4>2 DEF TypeOK
    <3>2. CASE ~(e \in Child /\ wait[e] > 0 /\ holder[e] # None)
      BY <3>2 DEF Finish
    <3>. QED
      BY <3>1, <3>2
  <2>2. TermInv'
    <3>. SUFFICES ASSUME NEW m \in Main, terms[m] = 0, NEW e2 \in Execution
                  PROVE  waitingExecutions'[m][e2] = 0
      BY <1>1 DEF Finish, TrackerInv, TermInv
    <3>1. waitingExecutions[m][e2] = 0
      BY <1>1 DEF TrackerInv, TermInv
    <3>2. CASE e \in Child /\ wait[e] > 0 /\ holder[e] # None
      <4>1. waitingExecutions' = [waitingExecutions EXCEPT ![holder[e]][Parent[e]] = 0]
        BY <3>2 DEF Finish, StartExecution
      <4>. QED
        BY <1>1, <3>1, <4>1 DEF TypeOK
    <3>3. CASE ~(e \in Child /\ wait[e] > 0 /\ holder[e] # None)
      BY <3>1, <3>3 DEF Finish
    <3>. QED
      BY <3>2, <3>3
  <2>3. OutcomeInv'
    BY <1>1, WaitAssumption, WaitTypes, ChildTypes DEF Finish, StartExecution,
         TrackerInv, OutcomeInv, CallInv, TypeOK
  <2>4. CallInv'
    <3>1. CASE e \in Child /\ wait[e] > 0
      <4>1. outcome[e] = "none"
        BY <1>1, <3>1 DEF Finish, TrackerInv, OutcomeInv
      <4>2. \A call \in calls : call.child # e
        BY <1>1, <3>1, <4>1, ChildTypes DEF TrackerInv, CallInv
      <4>3. \A c \in Child : c # e => outcome'[c] = outcome[c]
        BY <1>1, <3>1 DEF Finish, TypeOK
      <4>4. \A call \in calls : call.child # None => outcome'[call.child] = "calling"
        BY <1>1, <4>2, <4>3 DEF TrackerInv, CallInv, TypeOK, Call
      <4>5. CASE holder[e] = None
        BY <1>1, <3>1, <4>4, <4>5 DEF Finish, TrackerInv, CallInv
      <4>6. CASE holder[e] # None
        <5>. DEFINE new == [main |-> holder[e], execution |-> Parent[e], child |-> e]
        <5>1. calls' = calls \cup {new} /\ outcome'[e] = "calling"
          BY <1>1, <3>1, <4>6 DEF Finish, StartExecution, TypeOK
        <5>2. new.child = e
          OBVIOUS
        <5>. HIDE DEF new
        <5>. QED
          BY <1>1, <4>2, <4>4, <5>1, <5>2 DEF TrackerInv, CallInv
      <4>. QED
        BY <4>5, <4>6
    <3>2. CASE ~(e \in Child /\ wait[e] > 0)
      BY <1>1, <3>2 DEF Finish, TrackerInv, CallInv
    <3>. QED
      BY <3>1, <3>2
  <2>5. RunInv'
    BY <1>1 DEF Finish, StartExecution, TrackerInv, RunInv, TypeOK
  <2>. QED
    BY <2>1, <2>2, <2>3, <2>4, <2>5 DEF TrackerInv
<1>. QED
  BY <1>2, <1>3 DEF WaitInv

-----------------------------------------------------------------------------
(* Theorems *)

LEMMA WaitStep == WaitInv /\ [Next]_vars => WaitInv'
<1>. SUFFICES ASSUME WaitInv, [Next]_vars PROVE WaitInv'
  OBVIOUS
<1>1. ASSUME NEW m \in Main,
             Takeover(m) \/ Stepdown(m) \/ Crash(m) \/ Poll(m) \/ SetTimers(m)
      PROVE  WaitInv'
  BY <1>1, TakeoverKeeps, StepdownKeeps, CrashKeeps, PollKeeps, SetTimersKeeps
<1>2. ASSUME NEW m \in Main, Fires(m) PROVE WaitInv'
  <2>1. PICK t \in timers[m] : Fire(m, t[1], t[2])
    BY <1>2 DEF Fires
  <2>2. t[1] \in Execution /\ t[2] \in Wait
    BY <2>1 DEF WaitInv, TypeOK
  <2>. QED
    BY <2>1, <2>2, FireKeeps
<1>3. ASSUME NEW m \in Main, Settles(m) PROVE WaitInv'
  BY <1>3, ClaimKeeps, SkipKeeps DEF Settles
<1>4. ASSUME NEW m \in Main, NEW e \in Execution, Webhook(m, e) \/ ReadStoppable(m, e)
      PROVE  WaitInv'
  BY <1>4, WebhookKeeps, ReadStoppableKeeps
<1>5. ASSUME NEW e \in Execution, Due(e) \/ RunGoesOn(e) PROVE WaitInv'
  BY <1>5, DueKeeps, SetRunningKeeps, SuspendKeeps, FinishKeeps DEF RunGoesOn
<1>6. ASSUME NEW c \in Child, StartChild(c) PROVE WaitInv'
  BY <1>6, StartChildKeeps
<1>7. CASE UNCHANGED vars
  BY <1>7 DEF vars, WaitInv, TrackerInv, EntryHasTimer, TermInv, RunInv, OutcomeInv,
              CallInv, TypeOK
<1>8. ASSUME NEW m \in Main, StopGoesOn(m) PROVE WaitInv'
  BY <1>8, StopExecutionKeeps, StopDuringRunKeeps DEF StopGoesOn
<1>. QED
  BY <1>1, <1>2, <1>3, <1>4, <1>5, <1>6, <1>7, <1>8 DEF Next

LEMMA WaitInvariant == Spec => []WaitInv
  BY InitInv, WaitStep, PTL DEF Spec

\* Rows, entries, timers and calls keep their types, and a row has a time to wait
\* for exactly while it is waiting.
THEOREM WaitTypeCorrect == Spec => []TypeOK
<1>1. WaitInv => TypeOK
  BY DEF WaitInv
<1>. QED
  BY <1>1, WaitInvariant, PTL

\* Whatever resumes or stops the executions, a leader in its first term has behind
\* each of its entries the timer that was set with it.
THEOREM EntriesHaveTimers == Spec => []EntryHasTimer
<1>1. WaitInv => EntryHasTimer
  BY DEF WaitInv, TrackerInv
<1>. QED
  BY <1>1, WaitInvariant, PTL

\* What has come to an end and does not change any more.
EndStays ==
  /\ \A e \in Execution :
       status[e] \in {"success", "canceled"} /\ run[e] = "none"
         => run'[e] = "none" /\ status'[e] \in {status[e], "canceled"}
  /\ \A c \in Child : outcome[c] \in {"resumed", "skipped", "lost"}
                      => outcome'[c] = outcome[c]

\* The report of a call changes nothing that was settled: the child is waiting
\* for it.
LEMMA ReportStays ==
  ASSUME WaitInv, NEW call \in calls, NEW result, Report(call, result)
  PROVE  \A c \in Child : outcome[c] \in {"resumed", "skipped", "lost"}
                          => outcome'[c] = outcome[c]
<1>1. \A c \in Child : c = call.child => outcome[c] = "calling"
  BY ChildTypes DEF WaitInv, TrackerInv, CallInv
<1>. QED
  BY <1>1 DEF Report

\* Nor does the crash of a process lose a call that was settled.
LEMMA CrashStays ==
  ASSUME WaitInv, NEW m \in Main, Crash(m)
  PROVE  EndStays
<1>1. \A c \in Child, call \in calls : call.child = c => outcome[c] = "calling"
  BY ChildTypes DEF WaitInv, TrackerInv, CallInv
<1>. QED
  BY <1>1 DEF Crash, EndStays

LEMMA FinishStays ==
  ASSUME WaitInv, NEW e \in Execution, Finish(e)
  PROVE  EndStays
<1>1. /\ status \in [Execution -> {"absent", "running", "waiting", "success", "canceled"}]
      /\ run \in [Execution -> {"none", "queued", "running"}]
  BY DEF WaitInv, TypeOK
<1>2. /\ e \in Child => outcome[e] = "none"
      /\ DOMAIN outcome = Child
  BY DEF WaitInv, TypeOK, TrackerInv, OutcomeInv, Finish
<1>3. \A c \in Child : outcome[c] # "none" => outcome'[c] = outcome[c]
  BY <1>2 DEF Finish, StartExecution
<1>. QED
  BY <1>1, <1>3 DEF Finish, EndStays

LEMMA NextStays == WaitInv /\ [Next]_vars => [EndStays]_vars
<1>. SUFFICES ASSUME WaitInv, Next PROVE EndStays
  OBVIOUS
<1>1. /\ status \in [Execution -> {"absent", "running", "waiting", "success", "canceled"}]
      /\ run \in [Execution -> {"none", "queued", "running"}]
      /\ calls \subseteq Call /\ stops \subseteq StopRequest
  BY DEF WaitInv, TypeOK
<1>2. ASSUME NEW m \in Main, Takeover(m) \/ Stepdown(m) \/ Poll(m) \/ SetTimers(m)
      PROVE  EndStays
  BY <1>2 DEF Takeover, Stepdown, Poll, SetTimers, EndStays
<1>3. ASSUME NEW m \in Main, Fires(m) PROVE EndStays
  BY <1>3 DEF Fires, Fire, EndStays
<1>4. ASSUME NEW m \in Main, Settles(m) PROVE EndStays
  <2>1. PICK call \in calls : Claim(call) \/ Skip(call)
    BY <1>4 DEF Settles
  <2>2. PICK result : Report(call, result)
    BY <2>1 DEF Claim, Skip
  <2>3. \A e \in Execution : status[e] \in {"success", "canceled"}
                              => status'[e] = status[e] /\ run'[e] = run[e]
    BY <1>1, <2>1 DEF Claim, Skip
  <2>. QED
    BY <2>2, <2>3, ReportStays DEF EndStays
<1>5. ASSUME NEW m \in Main, NEW e \in Execution, Webhook(m, e) \/ ReadStoppable(m, e)
      PROVE  EndStays
  BY <1>5 DEF Webhook, ReadStoppable, EndStays
<1>6. ASSUME NEW m \in Main, StopGoesOn(m) PROVE EndStays
  <2>1. PICK s \in stops : StopExecution(s) \/ StopDuringRun(s)
    BY <1>6 DEF StopGoesOn
  <2>2. s.execution \in Execution /\ UNCHANGED outcome
    BY <1>1, <2>1 DEF StopExecution, StopDuringRun, StopRequest
  <2>3. CASE StopExecution(s)
    BY <1>1, <2>2, <2>3 DEF StopExecution, CancelRun, EndStays
  <2>4. CASE StopDuringRun(s)
    BY <1>1, <2>2, <2>4 DEF StopDuringRun, EndStays
  <2>. QED
    BY <2>1, <2>3, <2>4
<1>7. ASSUME NEW e \in Execution, Due(e) \/ SetRunning(e) \/ Suspend(e) PROVE EndStays
  BY <1>1, <1>7 DEF Due, SetRunning, Suspend, EndStays
<1>8. ASSUME NEW c \in Child, StartChild(c) PROVE EndStays
  BY <1>1, <1>8, ChildTypes DEF StartChild, EndStays
<1>. QED
  BY <1>2, <1>3, <1>4, <1>5, <1>6, <1>7, <1>8, CrashStays, FinishStays DEF Next, RunGoesOn

\* An execution that has ended does not run again, whatever timers, webhooks,
\* children and stop requests are still on their way, though a stop may mark it as
\* canceled; and the resume of its parent by a child is made, skipped or lost once.
THEOREM EndsOnceOnly == Spec => EndsOnce
<1>1. WaitInv /\ [Next]_vars
        => [/\ \A e \in Execution :
                 status[e] \in {"success", "canceled"} /\ run[e] = "none"
                   => run'[e] = "none" /\ status'[e] \in {status[e], "canceled"}
            /\ \A c \in Child : outcome[c] \in {"resumed", "skipped", "lost"}
                                => outcome'[c] = outcome[c]]_vars
  BY NextStays DEF EndStays
<1>. QED
  BY <1>1, WaitInvariant, PTL DEF Spec, EndsOnce
=============================================================================
