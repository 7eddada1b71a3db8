--------------------------- MODULE MultiMainSetup ---------------------------
(***************************************************************************)
(* Leadership among main processes: MultiMainSetup, the leader key in      *)
(* Redis, the role InstanceSettings keeps of it, and what the wait tracker *)
(* makes of it as a service that only the leader runs.  The other such     *)
(* services register for the same two events in the same way.              *)
(*                                                                         *)
(* A process talks to Redis over one connection, so its commands run and   *)
(* its replies arrive in order.  checkLeader is started by an interval     *)
(* that does not await it, so several checks can be under way; what a      *)
(* check does next depends on the reply alone, so replies need no owner.   *)
(***************************************************************************)
EXTENDS Naturals, Sequences, FiniteSets

CONSTANTS Host,         \* main processes
          None,         \* no leader key
          Gone,         \* the id of a process that is no more
          Docker,       \* whether hostId is the hostname, which survives a restart
          MaxInFlight,  \* bound on commands under way per connection
          MaxBoots,     \* bound on starts of processes
          MaxLapses     \* bound on leader keys that expire while their owner lives

ASSUME HostAssumption == None \notin Host /\ Gone \notin Host /\ None # Gone
ASSUME SetupAssumption ==
  /\ Docker \in BOOLEAN
  /\ MaxInFlight \in Nat /\ MaxBoots \in Nat /\ MaxLapses \in Nat

VARIABLES
  leaderKey,  \* the value of the leader key
  sent,       \* per process, commands that Redis has not run
  replies,    \* per process, replies it has not handled
  proc,       \* per process, how far Start.init or stopProcess has got
  role,       \* per process, InstanceSettings.instanceRole
  intervals,  \* per process, intervals that poll for waiting executions
  mainTimer,  \* per process, whether WaitTracker.mainTimer is one of them
  boots, lapses

redisVars == <<leaderKey, sent, replies>>
trackerVars == <<intervals, mainTimer>>
countVars == <<boots, lapses>>
vars == <<redisVars, proc, role, trackerVars, countVars>>

Init ==
  /\ leaderKey = None
  /\ sent = [h \in Host |-> <<>>]
  /\ replies = [h \in Host |-> <<>>]
  /\ proc = [h \in Host |-> "down"]
  /\ role = [h \in Host |-> "unset"]
  /\ intervals = [h \in Host |-> 0]
  /\ mainTimer = [h \in Host |-> FALSE]
  /\ boots = 0
  /\ lapses = 0

\* Between MultiMainSetup.init and shutdown.
Checking == {"orchestrated", "initialized", "running", "stopping"}

\* registerEventHandlers has been called.
Listening == {"running", "stopping", "clearing"}

Mark(h, r) == role' = [role EXCEPT ![h] = r]
Enter(h, p) == proc' = [proc EXCEPT ![h] = p]
Send(h, command) == sent' = [sent EXCEPT ![h] = Append(@, command)]

-----------------------------------------------------------------------------
(* Connections *)

\* The process handles its next reply.
Takes(h, reply) ==
  /\ replies[h] # <<>> /\ Head(replies[h]) = reply
  /\ replies' = [replies EXCEPT ![h] = Tail(@)]

\* Redis runs the next command of the process.
Runs(h, command, reply) ==
  /\ sent[h] # <<>> /\ Head(sent[h]) = command
  /\ sent' = [sent EXCEPT ![h] = Tail(@)]
  /\ replies' = [replies EXCEPT ![h] = Append(@, reply)]
  /\ UNCHANGED <<proc, role, trackerVars, countVars>>

-----------------------------------------------------------------------------
(* WaitTracker *)

\* startTracking sets mainTimer, whatever it held before.
StartTracking(h) ==
  /\ intervals' = [intervals EXCEPT ![h] = @ + 1]
  /\ mainTimer' = [mainTimer EXCEPT ![h] = TRUE]

\* (A mutant of stopTracking, not part of the specification: the interval is
\* cleared again when a process that has stopped already steps down.)
MutantClearKeepsTimer(h) ==
  /\ intervals' = [intervals EXCEPT ![h] = IF mainTimer[h] THEN @ - 1 ELSE @]
  /\ UNCHANGED mainTimer

StopTracking(h) ==
  /\ intervals' = [intervals EXCEPT ![h] = IF mainTimer[h] THEN @ - 1 ELSE @]
  /\ mainTimer' = [mainTimer EXCEPT ![h] = FALSE]

\* emit('leader-takeover') and emit('leader-stepdown'): handlers run at once,
\* and without handlers nothing happens.
EmitTakeover(h) ==
  \/ proc[h] \in Listening /\ StartTracking(h)
  \/ proc[h] \notin Listening /\ UNCHANGED trackerVars

EmitStepdown(h) ==
  \/ proc[h] \in Listening /\ StopTracking(h)
  \/ proc[h] \notin Listening /\ UNCHANGED trackerVars

-----------------------------------------------------------------------------
(* Mutants: plausible mistakes in the operations below.  None is part of the *)
(* specification; each stands in for one operation to show that a property  *)
(* would notice the mistake.                                                *)

\* The key is set without NX.
MutantSetAnyway(h) == Runs(h, "set", "set") /\ leaderKey' = h

\* The wait tracker starts whatever the role is.
MutantTrackAlways(h) ==
  /\ proc[h] = "orchestrated"
  /\ Enter(h, "initialized")
  /\ StartTracking(h)
  /\ UNCHANGED <<redisVars, role, countVars>>

\* A leader that has lost the key stays leader.
MutantNoStepdown(h) ==
  /\ Takes(h, "other")
  /\ UNCHANGED <<leaderKey, sent, proc, role, trackerVars, countVars>>

\* A vacant leadership is left to others.
MutantLeaveVacant(h) ==
  /\ Takes(h, "vacant")
  /\ Mark(h, "follower")
  /\ EmitStepdown(h)
  /\ UNCHANGED <<leaderKey, sent, proc, countVars>>

-----------------------------------------------------------------------------
(* Redis *)

\* GET, as the process will compare the value with its own id.
RunGet(h) ==
  /\ Runs(h, "get", IF leaderKey = h THEN "own"
                    ELSE IF leaderKey = None THEN "vacant" ELSE "other")
  /\ UNCHANGED leaderKey

\* SET with EX and NX.
RunSet(h) ==
  \/ leaderKey = None /\ Runs(h, "set", "set") /\ leaderKey' = h
  \/ leaderKey # None /\ Runs(h, "set", "refused") /\ UNCHANGED leaderKey

\* EXPIRE, and DEL in shutdown, of the key, whoever has set it.
RunExpire(h) == Runs(h, "expire", "done") /\ UNCHANGED leaderKey
RunDel(h) == Runs(h, "del", "deleted") /\ leaderKey' = None

\* The time to live of a key ends that nobody renews any more.
Expire ==
  /\ leaderKey # None
  /\ leaderKey \in Host => proc[leaderKey] = "down"
  /\ leaderKey' = None
  /\ UNCHANGED <<sent, replies, proc, role, trackerVars, countVars>>

\* It ends before its owner, slow or cut off, has renewed it.
Lapse ==
  /\ lapses < MaxLapses
  /\ leaderKey \in Host /\ proc[leaderKey] # "down"
  /\ leaderKey' = None
  /\ lapses' = lapses + 1
  /\ UNCHANGED <<sent, replies, proc, role, trackerVars, boots>>

-----------------------------------------------------------------------------
(* MultiMainSetup.checkLeader *)

\* The interval fires.
Tick(h) ==
  /\ proc[h] \in Checking
  /\ Len(sent[h]) + Len(replies[h]) < MaxInFlight
  /\ Send(h, "get")
  /\ UNCHANGED <<leaderKey, replies, proc, role, trackerVars, countVars>>

\* The key is ours: the role follows, without an event, and the key is renewed.
GotOwn(h) ==
  /\ Takes(h, "own")
  /\ Mark(h, "leader")
  /\ Send(h, "expire")
  /\ UNCHANGED <<leaderKey, proc, trackerVars, countVars>>

\* The key is somebody else's: a leader steps down.
GotOther(h) ==
  /\ Takes(h, "other")
  /\ \/ role[h] = "leader" /\ Mark(h, "follower") /\ EmitStepdown(h)
     \/ role[h] # "leader" /\ UNCHANGED <<role, trackerVars>>
  /\ UNCHANGED <<leaderKey, sent, proc, countVars>>

\* There is no key: step down in any case, and try to become the leader.
GotVacant(h) ==
  /\ Takes(h, "vacant")
  /\ Mark(h, "follower")
  /\ EmitStepdown(h)
  /\ Send(h, "set")
  /\ UNCHANGED <<leaderKey, proc, countVars>>

\* tryBecomeLeader goes on; the first one is part of MultiMainSetup.init.
Orchestrated(h) ==
  proc' = [proc EXCEPT ![h] = IF @ = "booting" THEN "orchestrated" ELSE @]

SetSucceeded(h) ==
  /\ Takes(h, "set")
  /\ Mark(h, "leader")
  /\ EmitTakeover(h)
  /\ Orchestrated(h)
  /\ UNCHANGED <<leaderKey, sent, countVars>>

SetRefused(h) ==
  /\ Takes(h, "refused")
  /\ Mark(h, "follower")
  /\ Orchestrated(h)
  /\ UNCHANGED <<leaderKey, sent, trackerVars, countVars>>

\* The reply to EXPIRE or DEL.
Acknowledged(h) ==
  /\ Takes(h, "done") \/ Takes(h, "deleted")
  /\ UNCHANGED <<leaderKey, sent, proc, role, trackerVars, countVars>>

-----------------------------------------------------------------------------
(* Start.init and Start.stopProcess *)

\* MultiMainSetup.init begins with tryBecomeLeader.
Boot(h) ==
  /\ boots < MaxBoots
  /\ proc[h] = "down"
  /\ Enter(h, "booting")
  /\ Send(h, "set")
  /\ boots' = boots + 1
  /\ UNCHANGED <<leaderKey, replies, role, trackerVars, lapses>>

\* WaitTracker.init
TrackerInit(h) ==
  /\ proc[h] = "orchestrated"
  /\ Enter(h, "initialized")
  /\ \/ role[h] = "leader" /\ StartTracking(h)
     \/ role[h] # "leader" /\ UNCHANGED trackerVars
  /\ UNCHANGED <<redisVars, role, countVars>>

\* registerEventHandlers
RegisterEventHandlers(h) ==
  /\ proc[h] = "initialized"
  /\ Enter(h, "running")
  /\ UNCHANGED <<redisVars, role, trackerVars, countVars>>

\* stopProcess begins with WaitTracker.stopTracking.
Stop(h) ==
  /\ proc[h] = "running"
  /\ Enter(h, "stopping")
  /\ StopTracking(h)
  /\ UNCHANGED <<redisVars, role, countVars>>

\* MultiMainSetup.shutdown: the interval is cleared, checks under way go on.
Shutdown(h) ==
  /\ proc[h] = "stopping"
  /\ Enter(h, "clearing")
  /\ \/ role[h] = "leader" /\ Send(h, "del")
     \/ role[h] # "leader" /\ UNCHANGED sent
  /\ UNCHANGED <<leaderKey, replies, role, trackerVars, countVars>>

\* Nothing of a process survives but the key, and its id when it is the hostname.
End(h) ==
  /\ Enter(h, "down")
  /\ Mark(h, "unset")
  /\ sent' = [sent EXCEPT ![h] = <<>>]
  /\ replies' = [replies EXCEPT ![h] = <<>>]
  /\ intervals' = [intervals EXCEPT ![h] = 0]
  /\ mainTimer' = [mainTimer EXCEPT ![h] = FALSE]
  /\ leaderKey' = IF leaderKey = h /\ ~Docker THEN Gone ELSE leaderKey
  /\ UNCHANGED countVars

Exit(h) ==
  /\ proc[h] = "clearing"
  /\ \A i \in DOMAIN sent[h] : sent[h][i] # "del"
  /\ \A i \in DOMAIN replies[h] : replies[h][i] # "deleted"
  /\ End(h)

Crash(h) == proc[h] # "down" /\ End(h)

-----------------------------------------------------------------------------
RunCommand(h) == RunGet(h) \/ RunSet(h) \/ RunExpire(h) \/ RunDel(h)

Continue(h) ==
  \/ GotOwn(h) \/ GotOther(h) \/ GotVacant(h)
  \/ SetSucceeded(h) \/ SetRefused(h) \/ Acknowledged(h)

Next ==
  \/ Expire \/ Lapse
  \/ \E h \in Host :
       \/ RunCommand(h) \/ Continue(h) \/ Tick(h)
       \/ Boot(h) \/ TrackerInit(h) \/ RegisterEventHandlers(h)
       \/ Stop(h) \/ Shutdown(h) \/ Exit(h) \/ Crash(h)

Spec == Init /\ [][Next]_vars

\* Redis answers, the interval keeps firing, a process that starts or stops gets
\* on with it, and the key of a dead process expires.
Fairness ==
  /\ WF_vars(Expire)
  /\ \A h \in Host :
       /\ WF_vars(RunCommand(h))
       /\ WF_vars(Continue(h))
       /\ WF_vars(Tick(h))
       /\ WF_vars(TrackerInit(h) \/ RegisterEventHandlers(h))
       /\ WF_vars(Shutdown(h) \/ Exit(h))

FairSpec == Spec /\ Fairness

-----------------------------------------------------------------------------
(* Properties *)

Process == {"down", "booting", "clearing"} \cup Checking
Command == {"get", "set", "expire", "del"}
Reply == {"own", "other", "vacant", "set", "refused", "done", "deleted"}

\* The variables have their types, and mainTimer is one of the intervals.
TypeOK ==
  /\ leaderKey \in Host \cup {None, Gone}
  /\ sent \in [Host -> Seq(Command)]
  /\ replies \in [Host -> Seq(Reply)]
  /\ proc \in [Host -> Process]
  /\ role \in [Host -> {"unset", "leader", "follower"}]
  /\ intervals \in [Host -> Nat]
  /\ mainTimer \in [Host -> BOOLEAN]
  /\ \A h \in Host : mainTimer[h] => intervals[h] > 0
  /\ boots \in 0..MaxBoots /\ lapses \in 0..MaxLapses

Leads(h) == proc[h] \in Checking /\ role[h] = "leader"

\* As long as no key expires before its owner renews it, two processes never
\* take themselves for the leader, however checks overlap and wherever processes
\* crash, restart or clear the key.
AtMostOneLeader ==
  lapses = 0 => \A g, h \in Host : Leads(g) /\ Leads(h) => g = h

Serves(h) == proc[h] \in Checking \ {"stopping"} /\ intervals[h] > 0

\* Under the same condition waiting executions are polled by one process at a
\* time, once: the wait tracker's start at boot and the events do not add up.
AtMostOnePoller ==
  lapses = 0 =>
    \A g, h \in Host : Serves(g) /\ Serves(h) => g = h /\ intervals[h] = 1

\* Two leaders that meet after a key has lapsed do not both stay leaders.
DualLeadershipEnds ==
  \A g, h \in Host : g # h => (Leads(g) /\ Leads(h) ~> ~(Leads(g) /\ Leads(h)))

\* After crashes, lapses and restarts, a leader that holds the key is found and
\* stays, unless no process is left.
LeadershipSettles ==
  <>[](\/ \A h \in Host : proc[h] \notin Checking
       \/ \E h \in Host : Leads(h) /\ leaderKey = h)
=============================================================================
