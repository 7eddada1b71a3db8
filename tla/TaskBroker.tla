----------------------------- MODULE TaskBroker -----------------------------
(***************************************************************************)
(* The task broker with the task requester of its own process, the task    *)
(* runners and the WebSocket connections between the broker and them.      *)
(*                                                                         *)
(* The requester calls the broker and is called by it without an await     *)
(* that waits for anything outside the process, so from the acceptance of  *)
(* a task to the sending of its settings is one step.  A runner answers    *)
(* over its connection: toRunner and toBroker hold the messages on the     *)
(* way, in order.  Timers of the broker (request, acceptance, task) and of *)
(* the runner (task, validity of offers) may fire at any time they are set.*)
(*                                                                         *)
(* A task gets a fresh id when an offer is matched with a request, and an  *)
(* offer is matched at most once: a task is named by its offer.  There is  *)
(* one task type.                                                          *)
(*                                                                         *)
(* A mutant stands before the operation it stands in for and is not part   *)
(* of the specification: it is a plausible mistake that a property notices.*)
(***************************************************************************)
EXTENDS Integers, FiniteSets, Sequences, SequencesExt

CONSTANTS Runner,
          Launcher,    \* the runners that only start a runner when they get a task
          Request,
          Slots,       \* maxConcurrency of a runner
          Mode,        \* "internal" or "external"
          MaxOffers,   \* bound on the offers made
          Mortal,      \* bound: the runners that may crash
          None

ASSUME BrokerAssumption ==
  /\ Launcher \subseteq Runner /\ Mortal \subseteq Runner
  /\ Slots \in Nat /\ MaxOffers \in Nat
  /\ Mode \in {"internal", "external"}
  /\ None \notin Request /\ None \notin Runner

Offer == 1..MaxOffers

VARIABLES
  \* the broker
  knownRunners,  \* knownRunners, and runnerConnections of the WebSocket server
  offers,        \* pendingTaskOffers
  pending,       \* pendingTaskRequests
  inProgress,    \* per request, acceptInProgress
  requestTimer,  \* the requests whose timeout is set
  handshake,     \* per task, the promise of its acceptance by the runner
  matched,       \* per task, the request it was made for
  tasks,         \* tasks
  taskTimer,     \* the tasks whose timeout is set
  isDraining,
  \* the requester
  requestAcceptRejects,  \* the requests that wait for a task
  taskAcceptRejects,     \* the tasks that wait for their result
  reply,                 \* per request, what startTask has returned
  \* the runners
  canSendOffers,
  openOffers,    \* per runner
  status,        \* per task, TaskState.status and what it was when the task ended
  maker,         \* per offer, the runner that made it
  made,          \* the number of offers made
  \* the connections
  link,          \* per runner: "none", "open", "closed", or "dead" with its runner
  toRunner, toBroker

brokerVars == <<knownRunners, offers, pending, inProgress, requestTimer, handshake,
                matched, tasks, taskTimer, isDraining>>
requesterVars == <<requestAcceptRejects, taskAcceptRejects, reply>>
runnerVars == <<canSendOffers, openOffers, status, maker, made>>
linkVars == <<link, toRunner, toBroker>>
vars == <<brokerVars, requesterVars, runnerVars, linkVars>>

Init ==
  /\ knownRunners = {} /\ offers = <<>> /\ pending = <<>>
  /\ inProgress = [q \in Request |-> FALSE]
  /\ requestTimer = {}
  /\ handshake = [o \in Offer |-> "none"]
  /\ matched = [o \in Offer |-> None]
  /\ tasks = {} /\ taskTimer = {}
  /\ isDraining = FALSE
  /\ requestAcceptRejects = {} /\ taskAcceptRejects = {}
  /\ reply = [q \in Request |-> "unasked"]
  /\ canSendOffers = [r \in Runner |-> FALSE]
  /\ openOffers = [r \in Runner |-> {}]
  /\ status = [o \in Offer |-> "none"]
  /\ maker = [o \in Offer |-> None]
  /\ made = 0
  /\ link = [r \in Runner |-> "none"]
  /\ toRunner = [r \in Runner |-> <<>>]
  /\ toBroker = [r \in Runner |-> <<>>]

-----------------------------------------------------------------------------
(* Connections *)

Message(type, o) == [type |-> type, offer |-> o]

\* Messages that are about no offer.
Signal(type) == Message(type, 0)

\* What is sent to a runner that is gone, or by a runner whose connection is
\* closed, is lost without an error.
Send(r, ms) ==
  toRunner' = [toRunner EXCEPT ![r] = IF link[r] = "open" THEN @ \o ms ELSE @]

Reply(r, ms) ==
  toBroker' = [toBroker EXCEPT ![r] = IF link[r] = "open" THEN @ \o ms ELSE @]

Takes(queue, r, type) == queue[r] # <<>> /\ Head(queue[r]).type = type

FromRunner(r, type) == r \in knownRunners /\ Takes(toBroker, r, type)
PopFromRunner(r) == toBroker' = [toBroker EXCEPT ![r] = Tail(@)]

FromBroker(r, type) == link[r] # "dead" /\ Takes(toRunner, r, type)
PopFromBroker(r) == toRunner' = [toRunner EXCEPT ![r] = Tail(@)]

-----------------------------------------------------------------------------
(* The broker: matching *)

\* The elements of s at some of its positions, in order: what is left by filter(),
\* or visited by a loop that passes over the others.
ElementsAt(s, positions) ==
  LET picked[i \in 0..Len(s)] ==
        IF i = 0 THEN <<>>
        ELSE IF i \in positions THEN Append(picked[i - 1], s[i]) ELSE picked[i - 1]
  IN picked[Len(s)]

ElementsIn(s, S) == ElementsAt(s, {i \in 1..Len(s) : s[i] \in S})

\* The requests settleTasks() finds an offer for, in order: a request that is in
\* the list twice is in progress by the time its second copy is looked at.
Unmatched(requests) ==
  ElementsAt(requests, {i \in 1..Len(requests) :
                          /\ ~inProgress[requests[i]]
                          /\ \A j \in 1..(i - 1) : requests[j] # requests[i]})

\* settleTasks(): expired offers go, then each request is given the oldest offer
\* left and the runner is told.  acceptOffer() runs up to its first await.
SettleTasks(requests, offered) ==
  \E expired \in SUBSET {o \in ToSet(offered) : maker[o] \notin Launcher} :
    LET live  == ElementsIn(offered, Offer \ expired)
        free  == Unmatched(requests)
        n     == IF Len(live) < Len(free) THEN Len(live) ELSE Len(free)
        taken == SubSeq(live, 1, n)
        AcceptsTo(r) == ElementsIn(taken, {o \in Offer : maker[o] = r /\ link[r] = "open"})
    IN /\ offers' = SubSeq(live, n + 1, Len(live))
       /\ inProgress' = [q \in Request |-> inProgress[q] \/ \E i \in 1..n : free[i] = q]
       /\ handshake' = [o \in Offer |-> IF Contains(taken, o) THEN "open" ELSE handshake[o]]
       /\ matched' = [o \in Offer |-> IF Contains(taken, o)
                                      THEN free[CHOOSE i \in 1..n : taken[i] = o]
                                      ELSE matched[o]]
       /\ toRunner' = [r \in Runner |->
            toRunner[r] \o [i \in DOMAIN AcceptsTo(r) |->
                              Message("taskofferaccept", AcceptsTo(r)[i])]]

\* handleRunnerAccept(), handleRunnerReject() and handleRunnerDeferred() find the
\* promise of the task; settling one that is settled already changes nothing.
CloseHandshake(o) == handshake' = [handshake EXCEPT ![o] = "closed"]

\* Mutant of Retry: the flag is not reset when a runner does not take the task.
MutantStillInProgress(q) == UNCHANGED inProgress

\* The catch block of acceptOffer(): the request may be matched again, but only
\* the next offer or request makes the broker try.
Retry(q) == inProgress' = [inProgress EXCEPT ![q] = FALSE]

-----------------------------------------------------------------------------
(* The requester, and what the broker does when it calls *)

\* startTask() up to its first await.
StartTask(q) ==
  /\ reply[q] = "unasked"
  /\ \/ /\ isDraining
        /\ reply' = [reply EXCEPT ![q] = "expired"]
        /\ UNCHANGED <<brokerVars, requestAcceptRejects, toRunner>>
     \/ /\ ~isDraining
        /\ reply' = [reply EXCEPT ![q] = "asked"]
        /\ requestAcceptRejects' = requestAcceptRejects \union {q}
        /\ requestTimer' = requestTimer \union {q}
        /\ pending' = Append(pending, q)
        /\ SettleTasks(pending', offers)
        /\ UNCHANGED <<knownRunners, tasks, taskTimer, isDraining>>
  /\ UNCHANGED <<taskAcceptRejects, runnerVars, link, toBroker>>

\* The answers of the requests whose tasks, in ended, end with answer a: the
\* requester ignores a task whose caller it has answered before.
Answer(ended, a) ==
  LET answered == {matched[o] : o \in ended \intersect taskAcceptRejects} IN
  /\ reply' = [q \in Request |-> IF q \in answered THEN a ELSE reply[q]]
  /\ taskAcceptRejects' = taskAcceptRejects \ ended

\* cancelTask() of the requester for a task of a stopped execution, and of the
\* broker.  The timer of a task that is gone would find no task: taskTimer is left
\* with the timers of tasks only.
CancelTask(o) ==
  /\ o \in taskAcceptRejects
  /\ Answer({o}, "canceled")
  /\ tasks' = tasks \ {o} /\ taskTimer' = taskTimer \ {o}
  /\ Send(maker[o], IF o \in tasks THEN <<Message("taskcancel", o)>> ELSE <<>>)
  /\ UNCHANGED <<knownRunners, offers, pending, inProgress, requestTimer, handshake,
                 matched, isDraining, requestAcceptRejects, runnerVars,
                 link, toBroker>>

-----------------------------------------------------------------------------
(* The broker: timers *)

\* Mutant: the request is removed, but its caller is not told.
MutantSilentTimeout(q) ==
  /\ q \in requestTimer
  /\ requestTimer' = requestTimer \ {q}
  /\ pending' = RemoveFirst(pending, q)
  /\ UNCHANGED <<knownRunners, offers, inProgress, handshake, matched, tasks, taskTimer,
                 isDraining, requesterVars, runnerVars, linkVars>>

RequestTimeout(q) ==
  /\ q \in requestTimer
  /\ requestTimer' = requestTimer \ {q}
  /\ pending' = RemoveFirst(pending, q)
  /\ \/ /\ q \in requestAcceptRejects /\ Contains(pending, q)
        /\ requestAcceptRejects' = requestAcceptRejects \ {q}
        /\ reply' = [reply EXCEPT ![q] = "expired"]
     \/ /\ q \notin requestAcceptRejects \/ ~Contains(pending, q)
        /\ UNCHANGED <<requestAcceptRejects, reply>>
  /\ UNCHANGED <<knownRunners, offers, inProgress, handshake, matched, tasks, taskTimer,
                 isDraining, taskAcceptRejects, runnerVars, linkVars>>

\* The two seconds of acceptOffer() are over.
AcceptTimeout(o) ==
  /\ handshake[o] = "open"
  /\ CloseHandshake(o)
  /\ Retry(matched[o])
  /\ UNCHANGED <<knownRunners, offers, pending, requestTimer, matched, tasks, taskTimer,
                 isDraining, requesterVars, runnerVars, linkVars>>

\* Mutant: the runner is not told of the timeout in external mode either.
MutantUntoldTimeout(o) ==
  /\ o \in taskTimer
  /\ taskTimer' = taskTimer \ {o}
  /\ tasks' = tasks \ {o}
  /\ Answer({o}, "error")
  /\ UNCHANGED <<knownRunners, offers, pending, inProgress, requestTimer, handshake,
                 matched, isDraining, requestAcceptRejects, runnerVars, linkVars>>

\* handleTaskTimeout().  In internal mode the process of the runner is killed,
\* which is one of the crashes.
TaskTimeout(o) ==
  /\ o \in taskTimer
  /\ taskTimer' = taskTimer \ {o}
  /\ tasks' = tasks \ {o}
  /\ Answer({o}, "error")
  /\ Send(maker[o], IF Mode = "external" THEN <<Message("taskcancel", o)>> ELSE <<>>)
  /\ UNCHANGED <<knownRunners, offers, pending, inProgress, requestTimer, handshake,
                 matched, isDraining, requestAcceptRejects, runnerVars, link, toBroker>>

-----------------------------------------------------------------------------
(* The broker: messages of a runner *)

RegisterRunner(r) ==
  /\ Takes(toBroker, r, "info")
  /\ PopFromRunner(r)
  /\ knownRunners' = knownRunners \union {r}
  /\ Send(r, <<Signal("runnerregistered")>>)
  /\ UNCHANGED <<offers, pending, inProgress, requestTimer, handshake, matched, tasks,
                 taskTimer, isDraining, requesterVars, runnerVars, link>>

TaskOffered(r) ==
  /\ FromRunner(r, "taskoffer")
  /\ PopFromRunner(r)
  /\ SettleTasks(pending, Append(offers, Head(toBroker[r]).offer))
  /\ UNCHANGED <<knownRunners, pending, requestTimer, tasks, taskTimer, isDraining,
                 requesterVars, runnerVars, link>>

\* The task whose handshake a runner answers, while the broker waits for it.
Decides(r, type, o) ==
  /\ FromRunner(r, type) /\ o = Head(toBroker[r]).offer
  /\ handshake[o] = "open"
  /\ CloseHandshake(o)
  /\ PopFromRunner(r)

\* The answer comes after the two seconds: nobody waits for it.
AnswersTooLate(r) ==
  /\ \E type \in {"taskaccepted", "taskrejected", "taskdeferred"} : FromRunner(r, type)
  /\ handshake[Head(toBroker[r]).offer] # "open"
  /\ PopFromRunner(r)
  /\ UNCHANGED <<brokerVars, requesterVars, runnerVars, link, toRunner>>

\* acceptOffer() after the runner has accepted, its request being in the list
\* and its caller waiting: taskready, tasksettings and sendTaskSettings().
TaskSettled(r, o) ==
  LET q == matched[o] IN
  /\ Contains(pending, q) /\ q \in requestAcceptRejects
  /\ pending' = RemoveFirst(pending, q)
  /\ requestAcceptRejects' = requestAcceptRejects \ {q}
  /\ taskAcceptRejects' = taskAcceptRejects \union {o}
  /\ tasks' = tasks \union {o}
  /\ taskTimer' = taskTimer \union {o}
  /\ Send(r, <<Message("tasksettings", o)>>)

\* Mutant: taskReady() does not look whether the caller still waits.
MutantNotRefused(r, o) ==
  /\ Contains(pending, matched[o]) /\ matched[o] \notin requestAcceptRejects
  /\ pending' = RemoveFirst(pending, matched[o])
  /\ tasks' = tasks \union {o} /\ taskTimer' = taskTimer \union {o}
  /\ Send(r, <<Message("tasksettings", o)>>)
  /\ UNCHANGED <<requestAcceptRejects, taskAcceptRejects>>

\* The caller does not wait any more: the requester refuses the task.
TaskRefused(r, o) ==
  LET q == matched[o] IN
  /\ Contains(pending, q) /\ q \notin requestAcceptRejects
  /\ pending' = RemoveFirst(pending, q)
  /\ Send(r, <<Message("taskcancel", o)>>)
  /\ UNCHANGED <<requestAcceptRejects, taskAcceptRejects, tasks, taskTimer>>

\* The request has left the list: the task is kept, and nobody is told of it.
TaskOrphaned(o) ==
  /\ ~Contains(pending, matched[o])
  /\ tasks' = tasks \union {o}
  /\ UNCHANGED <<pending, requestAcceptRejects, taskAcceptRejects, taskTimer, toRunner>>

TaskAccepted(r) ==
  \E o \in Offer :
    /\ Decides(r, "taskaccepted", o)
    /\ requestTimer' = requestTimer \ {matched[o]}
    /\ TaskSettled(r, o) \/ TaskRefused(r, o) \/ TaskOrphaned(o)
    /\ UNCHANGED <<knownRunners, offers, inProgress, matched, isDraining, reply,
                   runnerVars, link>>

TaskRejected(r) ==
  \E o \in Offer :
    /\ Decides(r, "taskrejected", o)
    /\ Retry(matched[o])
    /\ UNCHANGED <<knownRunners, offers, pending, requestTimer, matched, tasks, taskTimer,
                   isDraining, requesterVars, runnerVars, link, toRunner>>

\* The request is pushed to the list, which may still hold it, with a new timer.
TaskDeferred(r) ==
  \E o \in Offer :
    /\ Decides(r, "taskdeferred", o)
    /\ Retry(matched[o])
    /\ requestTimer' = requestTimer \union {matched[o]}
    /\ pending' = Append(pending, matched[o])
    /\ UNCHANGED <<knownRunners, offers, matched, tasks, taskTimer, isDraining,
                   requesterVars, runnerVars, link, toRunner>>

\* taskDoneHandler() and taskErrorHandler(); without the task they do nothing.
TaskEnded(r) ==
  \E type \in {"taskdone", "taskerror"} :
    /\ FromRunner(r, type)
    /\ PopFromRunner(r)
    /\ LET o == Head(toBroker[r]).offer IN
         /\ Answer({o} \intersect tasks, IF type = "taskdone" THEN "done" ELSE "error")
         /\ tasks' = tasks \ {o}
         /\ taskTimer' = taskTimer \ {o}
    /\ UNCHANGED <<knownRunners, offers, pending, inProgress, requestTimer, handshake,
                   matched, isDraining, requestAcceptRejects, runnerVars, link, toRunner>>

BrokerReceives(r) ==
  \/ RegisterRunner(r) \/ TaskOffered(r) \/ AnswersTooLate(r)
  \/ TaskAccepted(r) \/ TaskRejected(r) \/ TaskDeferred(r) \/ TaskEnded(r)

-----------------------------------------------------------------------------
(* The broker: connections and shutdown *)

\* Mutant: deregisterRunner() forgets to fail the tasks of the runner.
MutantTasksKept(r) ==
  /\ r \in knownRunners
  /\ knownRunners' = knownRunners \ {r}
  /\ offers' = ElementsIn(offers, {o \in Offer : maker[o] # r})
  /\ link' = [link EXCEPT ![r] = IF @ = "open" THEN "closed" ELSE @]
  /\ Send(r, <<Signal("close")>>)
  /\ toBroker' = [toBroker EXCEPT ![r] = <<>>]
  /\ UNCHANGED <<pending, inProgress, requestTimer, handshake, matched, tasks, taskTimer,
                 isDraining, requesterVars, runnerVars>>

\* removeConnection() when the connection has closed, after a failed heartbeat
\* check and at shutdown; what the runner still sends is dropped.  A handshake
\* with the runner is not ended: it runs into its two seconds.
RemoveConnection(r) ==
  /\ r \in knownRunners
  /\ knownRunners' = knownRunners \ {r}
  /\ offers' = ElementsIn(offers, {o \in Offer : maker[o] # r})
  /\ LET failed == {o \in tasks : maker[o] = r} IN
       /\ Answer(failed, "error")
       /\ tasks' = tasks \ failed /\ taskTimer' = taskTimer \ failed
  /\ link' = [link EXCEPT ![r] = IF @ = "open" THEN "closed" ELSE @]
  /\ Send(r, <<Signal("close")>>)
  /\ toBroker' = [toBroker EXCEPT ![r] = <<>>]
  /\ UNCHANGED <<pending, inProgress, requestTimer, handshake, matched, isDraining,
                 requestAcceptRejects, runnerVars>>

\* drainActiveTasks() up to its loop; after it the connections are removed.
StartDraining ==
  /\ ~isDraining
  /\ isDraining' = TRUE
  /\ toRunner' = [r \in Runner |-> IF r \in knownRunners /\ link[r] = "open"
                                   THEN Append(toRunner[r], Signal("drain"))
                                   ELSE toRunner[r]]
  /\ UNCHANGED <<knownRunners, offers, pending, inProgress, requestTimer, handshake,
                 matched, tasks, taskTimer, requesterVars, runnerVars, link, toBroker>>

-----------------------------------------------------------------------------
(* The runners *)

SlotsOf(r) == IF r \in Launcher THEN 1 ELSE Slots

ActiveStatus == {"waitingForSettings", "running", "aborting:cancelled", "aborting:timeout"}

\* runningTasks
RunningTasks(r) == {o \in Offer : maker[o] = r /\ status[o] \in ActiveStatus}

\* sendOffers(), after the runner has sent ms and has so many tasks left: offers
\* that are stale go, and the free slots are offered.
SendOffersAfter(r, ms, running) ==
  \E stale \in SUBSET (IF r \in Launcher THEN {} ELSE openOffers[r]) :
    LET open == openOffers[r] \ stale
        room == SlotsOf(r) - (Cardinality(open) + running)
        n    == IF ~canSendOffers[r] \/ room < 0 THEN 0
                ELSE IF room < MaxOffers - made THEN room ELSE MaxOffers - made
    IN /\ openOffers' = [openOffers EXCEPT ![r] = open \union (made + 1)..(made + n)]
       /\ maker' = [o \in Offer |-> IF o \in (made + 1)..(made + n) THEN r ELSE maker[o]]
       /\ made' = made + n
       /\ Reply(r, ms \o [i \in 1..n |-> Message("taskoffer", made + i)])

\* finishTask() of a task that is not run further, after the runner has sent ms.
FinishTask(o, ended, ms) ==
  LET r == maker[o] IN
  /\ status' = [status EXCEPT ![o] = ended]
  /\ SendOffersAfter(r, ms, Cardinality(RunningTasks(r) \ {o}))

Connect(r) ==
  /\ link[r] = "none"
  /\ link' = [link EXCEPT ![r] = "open"]
  /\ toBroker' = [toBroker EXCEPT ![r] = <<Signal("info")>>]
  /\ UNCHANGED <<brokerVars, requesterVars, runnerVars, toRunner>>

\* startTaskOffers(), and stopTaskOffers() when the broker drains or the
\* connection is closed.
SwitchOffers(r) ==
  /\ \/ FromBroker(r, "runnerregistered") /\ canSendOffers' = [canSendOffers EXCEPT ![r] = TRUE]
     \/ FromBroker(r, "drain") /\ canSendOffers' = [canSendOffers EXCEPT ![r] = FALSE]
     \/ FromBroker(r, "close") /\ canSendOffers' = [canSendOffers EXCEPT ![r] = FALSE]
  /\ PopFromBroker(r)
  /\ UNCHANGED <<brokerVars, requesterVars, openOffers, status, maker, made, link, toBroker>>

\* The interval.
SendOffers(r) ==
  /\ canSendOffers[r]
  /\ SendOffersAfter(r, <<>>, Cardinality(RunningTasks(r)))
  /\ UNCHANGED <<brokerVars, requesterVars, canSendOffers, status, link, toRunner>>

\* offerAccepted(): a free slot and an offer that still stands.
OfferTaken(r, o) ==
  /\ Cardinality(RunningTasks(r)) < Slots /\ o \in openOffers[r]
  /\ status' = [status EXCEPT ![o] = "waitingForSettings"]
  /\ Reply(r, <<Message("taskaccepted", o)>>)

OfferRefused(r, o) ==
  /\ Cardinality(RunningTasks(r)) >= Slots \/ o \notin openOffers[r]
  /\ Reply(r, <<Message("taskrejected", o)>>)
  /\ UNCHANGED status

\* A launcher starts a runner instead, which connects as one of the others.
OfferDeferred(r, o) ==
  /\ Reply(r, <<Message("taskdeferred", o)>>)
  /\ UNCHANGED status

OfferAccepted(r) ==
  /\ FromBroker(r, "taskofferaccept")
  /\ PopFromBroker(r)
  /\ LET o == Head(toRunner[r]).offer IN
       /\ openOffers' = [openOffers EXCEPT ![r] = @ \ {o}]
       /\ \/ r \in Launcher /\ OfferDeferred(r, o)
          \/ r \notin Launcher /\ (OfferTaken(r, o) \/ OfferRefused(r, o))
  /\ UNCHANGED <<brokerVars, requesterVars, canSendOffers, maker, made, link>>

\* taskCancelled(): a task without settings is finished, a running one aborted.
TaskCancelled(r) ==
  /\ FromBroker(r, "taskcancel")
  /\ PopFromBroker(r)
  /\ LET o == Head(toRunner[r]).offer IN
       \/ /\ status[o] = "waitingForSettings"
          /\ FinishTask(o, "dropped", <<>>)
       \/ /\ status[o] = "running"
          /\ status' = [status EXCEPT ![o] = "aborting:cancelled"]
          /\ UNCHANGED <<openOffers, maker, made, toBroker>>
       \/ /\ status[o] \notin {"waitingForSettings", "running"}
          /\ UNCHANGED <<openOffers, maker, made, toBroker, status>>
  /\ UNCHANGED <<brokerVars, requesterVars, canSendOffers, link>>

\* receivedSettings(): the task may be over by now.
ReceivedSettings(r) ==
  /\ FromBroker(r, "tasksettings")
  /\ PopFromBroker(r)
  /\ LET o == Head(toRunner[r]).offer IN
       status' = [status EXCEPT ![o] = IF @ = "waitingForSettings" THEN "running" ELSE @]
  /\ UNCHANGED <<brokerVars, requesterVars, canSendOffers, openOffers, maker, made,
                 link, toBroker>>

\* Mutant: a task that has got no settings is dropped without an error.
MutantSilentEnd(o) ==
  /\ \/ /\ status[o] = "waitingForSettings"
        /\ FinishTask(o, "dropped", <<>>)
     \/ /\ status[o] = "running"
        /\ status' = [status EXCEPT ![o] = "aborting:timeout"]
        /\ UNCHANGED <<openOffers, maker, made, toBroker>>
  /\ UNCHANGED <<brokerVars, requesterVars, canSendOffers, link, toRunner>>

\* taskTimedOut()
TaskTimedOut(o) ==
  /\ \/ /\ status[o] = "waitingForSettings"
        /\ FinishTask(o, "dropped", <<Message("taskerror", o)>>)
     \/ /\ status[o] = "running"
        /\ status' = [status EXCEPT ![o] = "aborting:timeout"]
        /\ UNCHANGED <<openOffers, maker, made, toBroker>>
  /\ UNCHANGED <<brokerVars, requesterVars, canSendOffers, link, toRunner>>

\* taskExecutionSucceeded() and taskExecutionFailed()
TaskExecuted(o) ==
  /\ \/ /\ status[o] \in {"running", "aborting:timeout"}
        /\ \E type \in {"taskdone", "taskerror"} :
             FinishTask(o, "ended", <<Message(type, o)>>)
     \/ /\ status[o] = "aborting:cancelled"
        /\ FinishTask(o, "ended", <<>>)
  /\ UNCHANGED <<brokerVars, requesterVars, canSendOffers, link, toRunner>>

\* The process of the runner dies or cannot be reached any more; the broker
\* finds out later, and what the runner has sent before may still arrive.
Crash(r) ==
  /\ r \in Mortal /\ link[r] \in {"open", "closed"}
  /\ link' = [link EXCEPT ![r] = "dead"]
  /\ toRunner' = [toRunner EXCEPT ![r] = <<>>]
  /\ canSendOffers' = [canSendOffers EXCEPT ![r] = FALSE]
  /\ openOffers' = [openOffers EXCEPT ![r] = {}]
  /\ status' = [o \in Offer |->
       IF o \notin RunningTasks(r) THEN status[o]
       ELSE IF status[o] = "waitingForSettings" THEN "dropped" ELSE "ended"]
  /\ UNCHANGED <<brokerVars, requesterVars, maker, made, toBroker>>

RunnerReceives(r) ==
  SwitchOffers(r) \/ OfferAccepted(r) \/ TaskCancelled(r) \/ ReceivedSettings(r)

-----------------------------------------------------------------------------
RunnerNext(r) ==
  \/ BrokerReceives(r) \/ RemoveConnection(r)
  \/ Connect(r) \/ RunnerReceives(r) \/ SendOffers(r) \/ Crash(r)

RequestNext(q) == StartTask(q) \/ RequestTimeout(q)

TaskNext(o) ==
  \/ CancelTask(o) \/ AcceptTimeout(o) \/ TaskTimeout(o)
  \/ TaskTimedOut(o) \/ TaskExecuted(o)

Next ==
  \/ \E r \in Runner : RunnerNext(r)
  \/ \E q \in Request : RequestNext(q)
  \/ \E o \in Offer : TaskNext(o)
  \/ StartDraining

Spec == Init /\ [][Next]_vars

\* Messages are delivered and handled, timers fire, and the connection of a
\* runner that is gone is removed.  Code that runs in a runner may run for ever,
\* nobody has to connect, to ask or to cancel.
Fairness ==
  /\ \A r \in Runner :
       /\ WF_vars(BrokerReceives(r))
       /\ WF_vars(RunnerReceives(r))
       /\ WF_vars(link[r] # "open" /\ RemoveConnection(r))
  /\ \A q \in Request : WF_vars(RequestTimeout(q))
  /\ \A o \in Offer :
       /\ WF_vars(AcceptTimeout(o))
       /\ WF_vars(TaskTimeout(o))
       /\ WF_vars(TaskTimedOut(o))

FairSpec == Spec /\ Fairness

-----------------------------------------------------------------------------
(* Properties *)

MessageType == {"info", "taskoffer", "taskaccepted", "taskrejected", "taskdeferred",
                "taskdone", "taskerror", "runnerregistered", "taskofferaccept",
                "taskcancel", "tasksettings", "drain", "close"}
Messages == [type : MessageType, offer : 0..MaxOffers]

\* The values the variables take: what a proof starts from.  No run lists it.
TypeOK ==
  /\ knownRunners \subseteq Runner
  /\ offers \in Seq(Offer) /\ pending \in Seq(Request)
  /\ inProgress \in [Request -> BOOLEAN]
  /\ requestTimer \subseteq Request
  /\ handshake \in [Offer -> {"none", "open", "closed"}]
  /\ matched \in [Offer -> Request \union {None}]
  /\ tasks \subseteq Offer /\ taskTimer \subseteq Offer
  /\ isDraining \in BOOLEAN
  /\ requestAcceptRejects \subseteq Request /\ taskAcceptRejects \subseteq Offer
  /\ reply \in [Request -> {"unasked", "asked", "done", "error", "canceled", "expired"}]
  /\ canSendOffers \in [Runner -> BOOLEAN]
  /\ openOffers \in [Runner -> SUBSET Offer]
  /\ status \in [Offer -> ActiveStatus \union {"none", "dropped", "ended"}]
  /\ maker \in [Offer -> Runner \union {None}]
  /\ made \in 0..MaxOffers
  /\ link \in [Runner -> {"none", "open", "closed", "dead"}]
  /\ toRunner \in [Runner -> Seq(Messages)]
  /\ toBroker \in [Runner -> Seq(Messages)]

\* A node that waits for its code is not forgotten: its request is in the list
\* with its timer set, or its task is booked on a runner the broker is connected
\* to, with the timer of the task set.  Either timer would answer it.
Remembered(q) ==
  \/ /\ q \in requestAcceptRejects
     /\ Contains(pending, q) /\ q \in requestTimer
  \/ \E o \in taskAcceptRejects :
       /\ matched[o] = q
       /\ o \in tasks /\ o \in taskTimer /\ maker[o] \in knownRunners

AnswerDue == \A q \in Request : reply[q] = "asked" => Remembered(q)

\* The broker never has more tasks on a runner than the runner has slots, though
\* a slot is offered again before the broker has heard that its task is over.
BookedWithinSlots ==
  \A r \in Runner : Cardinality({o \in tasks : maker[o] = r}) <= SlotsOf(r)

\* Nothing runs unwatched: what a connected runner executes is a task of the
\* broker, or the message that cancels it is on its way.  (In internal mode a task
\* that has timed out is ended by killing the runner.)
WorkIsWatched ==
  \A o \in Offer :
    status[o] = "running" /\ link[maker[o]] = "open" =>
      o \in tasks \/ Contains(toRunner[maker[o]], Message("taskcancel", o))

\* A request somebody waits for is marked as in progress only while a runner decides
\* on it: with nobody deciding, the next offer finds it, however often it has been
\* deferred, refused or left without an answer.  (A deferred request is in the list
\* twice; the copy that is left when the other has been accepted keeps its mark for
\* ever, but nobody waits for it.)
PendingCanSettle ==
  \A q \in requestAcceptRejects :
    inProgress[q] => \E o \in Offer : matched[o] = q /\ handshake[o] = "open"

\* What has become of the code of a request.
Work(q) ==
  LET Some(S) == \E o \in Offer : matched[o] = q /\ status[o] \in S IN
  IF Some({"running", "aborting:cancelled", "aborting:timeout"}) THEN "running"
  ELSE IF Some({"ended"}) THEN "finished" ELSE "none"

Service == INSTANCE TaskService WITH work <- [q \in Request |-> Work(q)]

\* Broker, requester and runners together do what TaskService promises: one run
\* and one answer per request, a result only of a finished run, and no run of a
\* request that has expired, whatever is late, lost, refused or deferred.
ImplementsTaskService == Service!ServiceSpec

\* Every request is answered.
EveryRequestAnswered ==
  \A q \in Request : reply[q] = "asked" ~> reply[q] # "asked"

\* Every task leaves the broker, those nobody waits for included: no task keeps
\* hasActiveTasks() true for ever.  Nothing is said about how long that takes; the
\* drain at shutdown polls it for a limited time only, and then goes on.
TasksEnd == \A o \in Offer : o \in tasks ~> o \notin tasks
=============================================================================
