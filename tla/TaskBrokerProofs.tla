-------------------------- MODULE TaskBrokerProofs --------------------------
(***************************************************************************)
(* Proofs about TaskBroker from its invariant, for any number of runners,  *)
(* requests, slots and offers.                                             *)
(*                                                                         *)
(* AnswerDue: a booked task was matched once, and it is the runner that    *)
(* made the offer that has accepted it, so that the broker knows it.       *)
(*                                                                         *)
(* WorkIsWatched, in external mode: what settings have started is a task   *)
(* of the broker until it sends the message that cancels it, and settings  *)
(* that are still on their way are followed by that message (WatchInv).    *)
(* A connection is opened once, before anything is sent (ConnectInv).      *)
(*                                                                         *)
(* BookedWithinSlots: however many of the messages on their way the broker *)
(* has handled, it has booked no more tasks than the runner has slots, and *)
(* after all of them only tasks that the runner still runs (BookInv).      *)
(*                                                                         *)
(* PendingCanSettle: a request is marked as in progress with a match, and  *)
(* when the match ends the mark goes, or nobody waits any more (PendInv).  *)
(*                                                                         *)
(* ImplementsTaskService: the tasks that got their settings, or are about  *)
(* to, have requests of their own that wait for no other (ServeInv).       *)
(***************************************************************************)
EXTENDS TaskBrokerInvariant

USE DEF brokerVars, requesterVars, runnerVars, linkVars

-----------------------------------------------------------------------------
(* Types *)

\* The broker, the requester, the runners and the messages between them keep their
\* types, however many there are.
THEOREM BrokerTypeCorrect == Spec => []TypeOK
<1>1. BrokerInv => TypeOK
  BY DEF BrokerInv
<1>. QED
  BY <1>1, BrokerInvariant, PTL

-----------------------------------------------------------------------------
(* Nobody who waits is forgotten *)

\* q is in the list, and its timer would answer it.
Listed(q) == q \in requestAcceptRejects /\ Contains(pending, q) /\ q \in requestTimer

\* The task of an offer is booked, and its timer would answer whoever waits for it.
Booked(o) ==
  o \in taskAcceptRejects /\ o \in tasks /\ o \in taskTimer /\ maker[o] \in knownRunners

\* What a step must leave: whoever waits is still listed, or has a task by now, and
\* whoever has a task keeps it or gets an answer.
LEMMA DueKept ==
  ASSUME BrokerInv, BrokerInv', AnswerDue,
         \A q \in Request : reply'[q] = "asked" /\ (Listed(q) \/ reply[q] # "asked") =>
           Listed(q)' \/ \E o \in Offer : matched'[o] = q /\ Booked(o)',
         \A o \in Offer : Booked(o) /\ reply'[matched[o]] = "asked" =>
           Booked(o)' /\ matched'[o] = matched[o]
  PROVE  AnswerDue'
<1>. SUFFICES ASSUME NEW q \in Request, reply'[q] = "asked" PROVE Remembered(q)'
  BY DEF AnswerDue
<1>1. taskAcceptRejects \subseteq Offer
  BY DEF BrokerInv, TypeOK
<1>2. reply[q] = "asked" => Listed(q) \/ \E o \in Offer : matched[o] = q /\ Booked(o)
  BY <1>1 DEF AnswerDue, Remembered, Listed, Booked
<1>3. Listed(q)' \/ \E o \in Offer : matched'[o] = q /\ Booked(o)'
  BY <1>2
<1>. QED
  BY <1>3 DEF Remembered, Listed, Booked

LEMMA UnchangedDue ==
  ASSUME AnswerDue,
         UNCHANGED <<reply, requestAcceptRejects, pending, requestTimer, taskAcceptRejects,
                     tasks, taskTimer>>,
         \A o \in taskAcceptRejects : matched'[o] = matched[o] /\ maker'[o] = maker[o],
         knownRunners \subseteq knownRunners'
  PROVE  AnswerDue'
  BY DEF AnswerDue, Remembered

\* A task that is booked was taken, so that its offer cannot be matched or made anew.
LEMMA TasksTaken ==
  ASSUME BrokerInv, NEW o \in taskAcceptRejects \cup tasks
  PROVE  o \in Offer /\ handshake[o] = "closed" /\ maker[o] \in Runner /\ maker[o] # None
  BY BrokerAssumption DEF BrokerInv, TypeOK, MadeInv

LEMMA StartTaskDue ==
  ASSUME BrokerInv, BrokerInv', AnswerDue, NEW q \in Request, StartTask(q)
  PROVE  AnswerDue'
<1>1. TypeOK /\ pending \in Seq(Request)
  BY DEF BrokerInv, TypeOK
<1>2. CASE isDraining
  <2>1. /\ reply' = [reply EXCEPT ![q] = "expired"]
        /\ UNCHANGED <<brokerVars, requestAcceptRejects, taskAcceptRejects, runnerVars>>
    BY <1>2 DEF StartTask
  <2>2. \A x \in Request : reply'[x] = "asked" => reply[x] = "asked"
    BY <1>1, <2>1 DEF TypeOK
  <2>. QED
    BY <2>1, <2>2, DueKept DEF Listed, Booked
<1>3. CASE ~isDraining
  <2>1. PICK T, pick, accepts :
          /\ Settles(Append(pending, q), offers, T, pick, accepts)
          /\ T \subseteq Offer /\ \A o \in T : handshake[o] = "none" /\ maker[o] # None
    BY <1>3, StartTaskSettles
  <2>2. matched' = [o \in Offer |-> IF o \in T THEN pick[o] ELSE matched[o]]
    BY <2>1 DEF Settles
  <2>3. /\ reply' = [reply EXCEPT ![q] = "asked"]
        /\ requestAcceptRejects' = requestAcceptRejects \union {q}
        /\ requestTimer' = requestTimer \union {q}
        /\ pending' = Append(pending, q)
        /\ UNCHANGED <<taskAcceptRejects, tasks, taskTimer, knownRunners, maker>>
    BY <1>3 DEF StartTask
  <2>4. /\ \A x : Contains(pending, x) => Contains(pending', x)
        /\ Contains(pending', q)
    BY <1>1, <2>3, AppendElements
  <2>5. \A x \in Request : reply'[x] = "asked" /\ (Listed(x) \/ reply[x] # "asked") => Listed(x)'
    BY <1>1, <2>3, <2>4 DEF Listed, TypeOK
  <2>6. \A o \in Offer : Booked(o) => Booked(o)' /\ matched'[o] = matched[o]
    BY <2>1, <2>2, <2>3, TasksTaken DEF Booked
  <2>. QED
    BY <2>5, <2>6, DueKept
<1>. QED
  BY <1>2, <1>3

\* The tasks that end have their answers, and the others are kept.
LEMMA AnsweredDue ==
  ASSUME BrokerInv, BrokerInv', AnswerDue,
         NEW ended, NEW a \in {"done", "error", "canceled"}, Answer(ended, a),
         \A o \in Offer \ ended : Booked(o) => Booked(o)',
         UNCHANGED <<matched, requestAcceptRejects, pending, requestTimer>>
  PROVE  AnswerDue'
<1>1. reply' = [q \in Request |->
        IF q \in {matched[o] : o \in ended \intersect taskAcceptRejects} THEN a ELSE reply[q]]
  BY DEF Answer
<1>2. \A q \in Request : reply'[q] = "asked" =>
        reply[q] = "asked" /\ \A o \in ended \intersect taskAcceptRejects : matched[o] # q
  BY <1>1
<1>3. \A o \in Offer : Booked(o) => matched[o] \in Request
  BY TasksTaken DEF Booked, BrokerInv, MadeInv
<1>4. \A o \in Offer : Booked(o) /\ reply'[matched[o]] = "asked" => Booked(o)'
  BY <1>2, <1>3 DEF Booked
<1>5. \A q \in Request : reply'[q] = "asked" /\ (Listed(q) \/ reply[q] # "asked") => Listed(q)'
  BY <1>2 DEF Listed
<1>. QED
  BY <1>4, <1>5, DueKept

LEMMA CancelTaskDue ==
  ASSUME BrokerInv, BrokerInv', AnswerDue, NEW o \in Offer, CancelTask(o)
  PROVE  AnswerDue'
<1>1. Answer({o}, "canceled") /\ taskAcceptRejects' = taskAcceptRejects \ {o}
  BY DEF CancelTask, Answer
<1>2. \A x \in Offer \ {o} : Booked(x) => Booked(x)'
  BY <1>1 DEF CancelTask, Booked
<1>. QED
  BY <1>1, <1>2, AnsweredDue DEF CancelTask

LEMMA TaskTimeoutDue ==
  ASSUME BrokerInv, BrokerInv', AnswerDue, NEW o \in Offer, TaskTimeout(o)
  PROVE  AnswerDue'
<1>1. Answer({o}, "error") /\ taskAcceptRejects' = taskAcceptRejects \ {o}
  BY DEF TaskTimeout, Answer
<1>2. \A x \in Offer \ {o} : Booked(x) => Booked(x)'
  BY <1>1 DEF TaskTimeout, Booked
<1>. QED
  BY <1>1, <1>2, AnsweredDue DEF TaskTimeout

LEMMA TaskEndedDue ==
  ASSUME BrokerInv, BrokerInv', AnswerDue, NEW r \in Runner, TaskEnded(r)
  PROVE  AnswerDue'
<1>. DEFINE o == Head(toBroker[r]).offer
<1>1. PICK a \in {"done", "error"} :
        /\ Answer({o} \intersect tasks, a)
        /\ tasks' = tasks \ {o} /\ taskTimer' = taskTimer \ {o}
        /\ UNCHANGED <<knownRunners, maker, matched, requestAcceptRejects, pending, requestTimer>>
  BY DEF TaskEnded
<1>2. taskAcceptRejects' = taskAcceptRejects \ ({o} \intersect tasks)
  BY <1>1 DEF Answer
<1>. HIDE DEF o
<1>3. \A x \in Offer \ ({o} \intersect tasks) : Booked(x) => Booked(x)'
  BY <1>1, <1>2 DEF Booked
<1>. QED
  BY <1>1, <1>3, AnsweredDue

LEMMA RemoveConnectionDue ==
  ASSUME BrokerInv, BrokerInv', AnswerDue, NEW r \in Runner, RemoveConnection(r)
  PROVE  AnswerDue'
<1>. DEFINE failed == {o \in tasks : maker[o] = r}
<1>1. /\ Answer(failed, "error")
      /\ tasks' = tasks \ failed /\ taskTimer' = taskTimer \ failed
      /\ knownRunners' = knownRunners \ {r}
      /\ UNCHANGED <<maker, matched, requestAcceptRejects, pending, requestTimer>>
  BY DEF RemoveConnection
<1>2. taskAcceptRejects' = taskAcceptRejects \ failed
  BY <1>1 DEF Answer
<1>3. \A x \in Offer \ failed : Booked(x) => Booked(x)'
  BY <1>1, <1>2 DEF Booked
<1>. HIDE DEF failed
<1>. QED
  BY <1>1, <1>3, AnsweredDue

LEMMA RequestTimeoutDue ==
  ASSUME BrokerInv, BrokerInv', AnswerDue, NEW q \in Request, RequestTimeout(q)
  PROVE  AnswerDue'
<1>1. TypeOK /\ pending \in Seq(Request)
  BY DEF BrokerInv, TypeOK
<1>2. /\ requestTimer' = requestTimer \ {q} /\ pending' = RemoveFirst(pending, q)
      /\ UNCHANGED <<taskAcceptRejects, tasks, taskTimer, knownRunners, maker, matched>>
  BY DEF RequestTimeout
<1>3. \A x : x # q /\ Contains(pending, x) => Contains(pending', x)
  BY <1>1, <1>2, RemoveFirstProperties
<1>4. \A x \in Request : reply'[x] = "asked" => reply[x] = "asked"
  BY <1>1 DEF RequestTimeout, TypeOK
<1>5. \A x \in Request : reply'[x] = "asked" /\ Listed(x) => Listed(x)'
  <2>1. CASE q \in requestAcceptRejects /\ Contains(pending, q)
    <3>1. requestAcceptRejects' = requestAcceptRejects \ {q} /\ reply'[q] = "expired"
      BY <1>1, <2>1 DEF RequestTimeout, TypeOK
    <3>. QED
      BY <1>2, <1>3, <3>1 DEF Listed
  <2>2. CASE ~(q \in requestAcceptRejects /\ Contains(pending, q))
    <3>1. requestAcceptRejects' = requestAcceptRejects
      BY <2>2 DEF RequestTimeout
    <3>. QED
      BY <1>2, <1>3, <2>2, <3>1 DEF Listed
  <2>. QED
    BY <2>1, <2>2
<1>6. \A o \in Offer : Booked(o) => Booked(o)' /\ matched'[o] = matched[o]
  BY <1>2 DEF Booked
<1>. QED
  BY <1>4, <1>5, <1>6, DueKept

LEMMA TaskAcceptedDue ==
  ASSUME BrokerInv, BrokerInv', AnswerDue, NEW r \in Runner, TaskAccepted(r)
  PROVE  AnswerDue'
<1>1. TypeOK /\ MessageInv /\ pending \in Seq(Request)
  BY DEF BrokerInv, TypeOK
<1>2. PICK o \in Offer :
        /\ Decides(r, "taskaccepted", o)
        /\ requestTimer' = requestTimer \ {matched[o]}
        /\ TaskSettled(r, o) \/ TaskRefused(r, o) \/ TaskOrphaned(o)
        /\ UNCHANGED <<knownRunners, matched, reply, maker>>
  BY DEF TaskAccepted
<1>. DEFINE q == matched[o]
<1>3. maker[o] = r /\ r \in knownRunners
  <2>1. FromRunner(r, "taskaccepted") /\ PopFromRunner(r) /\ o = Head(toBroker[r]).offer
    BY <1>2 DEF Decides
  <2>. QED
    BY <1>1, <2>1, Received DEF FromOK
<1>4. \A x : x # q /\ Contains(pending, x) => Contains(RemoveFirst(pending, q), x)
  BY <1>1, RemoveFirstProperties
<1>5. \A x \in Offer : Booked(x) => Booked(x)' /\ matched'[x] = matched[x]
  BY <1>2 DEF Booked, TaskSettled, TaskRefused, TaskOrphaned
<1>. HIDE DEF q
<1>6. ASSUME NEW x \in Request, Listed(x)
      PROVE  Listed(x)' \/ \E y \in Offer : matched'[y] = x /\ Booked(y)'
  <2>1. CASE TaskSettled(r, o)
    <3>1. CASE x = q
      <4>1. Booked(o)' /\ matched'[o] = q
        BY <1>2, <1>3, <2>1 DEF Booked, TaskSettled, q
      <4>. QED
        BY <3>1, <4>1
    <3>2. CASE x # q
      BY <1>2, <1>4, <1>6, <2>1, <3>2 DEF Listed, TaskSettled, q
    <3>. QED
      BY <3>1, <3>2
  <2>2. CASE TaskRefused(r, o)
    BY <1>2, <1>4, <1>6, <2>2 DEF Listed, TaskRefused, q
  <2>3. CASE TaskOrphaned(o)
    BY <1>2, <1>6, <2>3 DEF Listed, TaskOrphaned
  <2>. QED
    BY <1>2, <2>1, <2>2, <2>3
<1>. QED
  BY <1>2, <1>5, <1>6, DueKept

LEMMA TaskDeferredDue ==
  ASSUME BrokerInv, BrokerInv', AnswerDue, NEW r \in Runner, TaskDeferred(r)
  PROVE  AnswerDue'
<1>1. PICK q \in Request :
        /\ requestTimer' = requestTimer \union {q} /\ pending' = Append(pending, q)
        /\ UNCHANGED <<knownRunners, matched, maker, reply, requestAcceptRejects,
                       taskAcceptRejects, tasks, taskTimer>>
  <2>1. PICK o \in Offer :
          /\ Decides(r, "taskdeferred", o)
          /\ requestTimer' = requestTimer \union {matched[o]}
          /\ pending' = Append(pending, matched[o])
          /\ UNCHANGED <<knownRunners, matched, maker, reply, requestAcceptRejects,
                         taskAcceptRejects, tasks, taskTimer>>
    BY DEF TaskDeferred
  <2>2. matched[o] \in Request
    BY <2>1 DEF Decides, BrokerInv, MadeInv
  <2>. QED
    BY <2>1, <2>2
<1>2. \A x : Contains(pending, x) => Contains(pending', x)
  <2>1. pending \in Seq(Request)
    BY DEF BrokerInv, TypeOK
  <2>. QED
    BY <1>1, <2>1, AppendElements
<1>3. \A x \in Request : Listed(x) => Listed(x)'
  BY <1>1, <1>2 DEF Listed
<1>4. \A o \in Offer : Booked(o) => Booked(o)' /\ matched'[o] = matched[o]
  BY <1>1 DEF Booked
<1>. QED
  BY <1>1, <1>3, <1>4, DueKept

\* The runners take no part in what the broker owes.
LEMMA DueStep ==
  ASSUME BrokerInv, AnswerDue, [Next]_vars
  PROVE  AnswerDue'
<1>1. BrokerInv' /\ Ages
  BY BrokerStep
<1>2. ASSUME UNCHANGED <<reply, requestAcceptRejects, pending, requestTimer, taskAcceptRejects,
                         tasks, taskTimer, matched>>,
             knownRunners \subseteq knownRunners'
      PROVE  AnswerDue'
  <2>1. \A o \in taskAcceptRejects : maker'[o] = maker[o]
    BY <1>1, TasksTaken DEF Ages
  <2>. QED
    BY <1>2, <2>1, UnchangedDue
<1>3. ASSUME NEW r \in Runner, RunnerNext(r) PROVE AnswerDue'
  <2>1. CASE BrokerReceives(r)
    <3>1. CASE RegisterRunner(r)
      BY <1>2, <3>1 DEF RegisterRunner
    <3>2. CASE TaskOffered(r)
      <4>1. PICK T, pick, accepts :
              /\ Settles(pending, Append(offers, Head(toBroker[r]).offer), T, pick, accepts)
              /\ T \subseteq Offer /\ \A o \in T : handshake[o] = "none" /\ maker[o] # None
        BY <3>2, TaskOfferedSettles
      <4>2. matched' = [o \in Offer |-> IF o \in T THEN pick[o] ELSE matched[o]]
        BY <4>1 DEF Settles
      <4>3. \A o \in taskAcceptRejects : matched'[o] = matched[o]
        BY <4>1, <4>2, TasksTaken
      <4>. QED
        BY <3>2, <4>3, UnchangedDue DEF TaskOffered
    <3>3. CASE AnswersTooLate(r)
      BY <1>2, <3>3 DEF AnswersTooLate
    <3>4. CASE TaskRejected(r)
      BY <1>2, <3>4 DEF TaskRejected
    <3>. QED
      BY <1>1, <2>1, <3>1, <3>2, <3>3, <3>4, TaskAcceptedDue, TaskDeferredDue, TaskEndedDue
         DEF BrokerReceives
  <2>2. CASE RunnerReceives(r)
    <3>1. CASE SwitchOffers(r)
      BY <1>2, <3>1 DEF SwitchOffers
    <3>2. CASE OfferAccepted(r)
      BY <1>2, <3>2 DEF OfferAccepted
    <3>3. CASE TaskCancelled(r)
      BY <1>2, <3>3 DEF TaskCancelled
    <3>4. CASE ReceivedSettings(r)
      BY <1>2, <3>4 DEF ReceivedSettings
    <3>. QED
      BY <2>2, <3>1, <3>2, <3>3, <3>4 DEF RunnerReceives
  <2>3. CASE Connect(r)
    BY <1>2, <2>3 DEF Connect
  <2>4. CASE SendOffers(r)
    BY <1>2, <2>4 DEF SendOffers
  <2>5. CASE Crash(r)
    BY <1>2, <2>5 DEF Crash
  <2>. QED
    BY <1>1, <1>3, <2>1, <2>2, <2>3, <2>4, <2>5, RemoveConnectionDue DEF RunnerNext
<1>4. ASSUME NEW q \in Request, RequestNext(q) PROVE AnswerDue'
  BY <1>1, <1>4, StartTaskDue, RequestTimeoutDue DEF RequestNext
<1>5. ASSUME NEW o \in Offer, TaskNext(o) PROVE AnswerDue'
  <2>1. CASE AcceptTimeout(o)
    BY <1>2, <2>1 DEF AcceptTimeout
  <2>2. CASE TaskTimedOut(o)
    BY <1>2, <2>2 DEF TaskTimedOut
  <2>3. CASE TaskExecuted(o)
    BY <1>2, <2>3 DEF TaskExecuted
  <2>. QED
    BY <1>1, <1>5, <2>1, <2>2, <2>3, CancelTaskDue, TaskTimeoutDue DEF TaskNext
<1>6. CASE StartDraining
  BY <1>2, <1>6 DEF StartDraining
<1>7. CASE UNCHANGED vars
  BY <1>2, <1>7 DEF vars
<1>. QED
  BY <1>3, <1>4, <1>5, <1>6, <1>7 DEF Next

LEMMA InitDue == Init => AnswerDue
  BY DEF Init, AnswerDue

\* A node that waits for its code is not forgotten, however many runners come and go,
\* reject, defer or answer too late: one of two timers would answer it.
THEOREM AnswersDue == Spec => []AnswerDue
<1>1. BrokerInv /\ BrokerInv' /\ AnswerDue /\ [Next]_vars => AnswerDue'
  BY DueStep
<1>. QED
  BY <1>1, InitDue, BrokerInvariant, PTL DEF Spec

-----------------------------------------------------------------------------
(* Nothing runs unwatched *)

\* A runner that has not connected takes no part.
ConnectInv ==
  \A r \in Runner : link[r] = "none" =>
    /\ toRunner[r] = <<>> /\ ~canSendOffers[r]
    /\ \A o \in Offer : maker[o] # r

LEMMA InitConnect == Init => ConnectInv
  BY BrokerAssumption DEF Init, ConnectInv

\* Nothing is sent where no connection is open.
LEMMA SettlesConnected ==
  ASSUME TypeOK, NEW requests, NEW offered, NEW T, NEW pick, NEW accepts,
         Settles(requests, offered, T, pick, accepts), NEW r \in Runner, link[r] # "open"
  PROVE  accepts[r] = <<>> /\ toRunner'[r] = toRunner[r]
<1>1. accepts[r] \in Seq(Messages) /\ toRunner'[r] = toRunner[r] \o accepts[r]
  BY DEF Settles
<1>2. ToSet(accepts[r]) = {}
  BY DEF Settles
<1>3. accepts[r] = <<>>
  <2>1. \A i \in 1..Len(accepts[r]) : accepts[r][i] \in ToSet(accepts[r])
    BY <1>1, Elements
  <2>2. ~(1 \in 1..Len(accepts[r]))
    BY <1>2, <2>1
  <2>. QED
    BY <1>1, <2>2
<1>4. toRunner[r] \in Seq(Messages)
  BY DEF TypeOK
<1>. QED
  BY <1>1, <1>3, <1>4

\* Only a runner that may send offers makes some.
LEMMA FinishesConnect ==
  ASSUME BrokerInv, ConnectInv, NEW o \in Offer, NEW ended, NEW ms, Finishes(o, ended, ms)
  PROVE  \A r \in Runner : link[r] = "none" => \A x \in Offer : maker'[x] # r
<1>. DEFINE r == maker[o]
<1>1. r \in Runner /\ link[r] # "none"
  <2>1. status[o] # "none"
    BY DEF Finishes, ActiveStatus
  <2>. QED
    BY <2>1 DEF BrokerInv, MadeInv, ConnectInv
<1>2. \A x \in Offer : maker'[x] = maker[x] \/ maker'[x] = r
  BY DEF Finishes, FinishTask, SendOffersAfter
<1>. QED
  BY <1>1, <1>2 DEF ConnectInv

LEMMA ConnectStep ==
  ASSUME BrokerInv, ConnectInv, [Next]_vars
  PROVE  ConnectInv'
<1>1. TypeOK
  BY DEF BrokerInv
<1>2. ASSUME \A r \in Runner : link'[r] = "none" =>
               link[r] = "none" /\ toRunner'[r] = toRunner[r]
               /\ canSendOffers'[r] = canSendOffers[r] /\ \A o \in Offer : maker'[o] # r
      PROVE  ConnectInv'
  BY <1>2 DEF ConnectInv
<1>3. ASSUME NEW r \in Runner, NEW ms, Send(r, ms), UNCHANGED <<canSendOffers, maker>>,
             \A x \in Runner : link'[x] = "none" => link[x] = "none"
      PROVE  ConnectInv'
  <2>1. \A x \in Runner : link[x] = "none" => toRunner'[x] = toRunner[x]
    BY <1>1, <1>3 DEF Send, TypeOK
  <2>. QED
    BY <1>3, <2>1 DEF ConnectInv
<1>4. ASSUME UNCHANGED <<canSendOffers, maker, link, toRunner>> PROVE ConnectInv'
  BY <1>4 DEF ConnectInv
<1>5. ASSUME NEW requests, NEW offered, NEW T, NEW pick, NEW accepts,
             Settles(requests, offered, T, pick, accepts),
             UNCHANGED <<canSendOffers, maker, link>>
      PROVE  ConnectInv'
  <2>1. \A r \in Runner : link[r] = "none" => toRunner'[r] = toRunner[r]
    BY <1>1, <1>5, SettlesConnected
  <2>. QED
    BY <1>5, <2>1 DEF ConnectInv
\* A runner that has got a message is connected.
<1>6. ASSUME NEW r \in Runner, toRunner[r] # <<>>, PopFromBroker(r), UNCHANGED link,
             \A x \in Runner : x # r => canSendOffers'[x] = canSendOffers[x],
             \A x \in Runner : link[x] = "none" => \A o \in Offer : maker'[o] # x
      PROVE  ConnectInv'
  <2>1. link[r] # "none"
    BY <1>6 DEF ConnectInv
  <2>2. \A x \in Runner : x # r => toRunner'[x] = toRunner[x]
    BY <1>1, <1>6 DEF PopFromBroker, TypeOK
  <2>. QED
    BY <1>6, <2>1, <2>2 DEF ConnectInv
<1>7. ASSUME NEW r \in Runner, RunnerNext(r) PROVE ConnectInv'
  <2>1. CASE RegisterRunner(r)
    BY <1>3, <2>1 DEF RegisterRunner
  <2>2. CASE TaskOffered(r)
    BY <1>5, <2>2, TaskOfferedSettles DEF TaskOffered
  <2>3. CASE TaskAccepted(r)
    <3>1. PICK o \in Offer : /\ TaskSettled(r, o) \/ TaskRefused(r, o) \/ TaskOrphaned(o)
                             /\ UNCHANGED <<runnerVars, link>>
      BY <2>3 DEF TaskAccepted
    <3>2. CASE TaskSettled(r, o)
      BY <1>3, <3>1, <3>2 DEF TaskSettled
    <3>3. CASE TaskRefused(r, o)
      BY <1>3, <3>1, <3>3 DEF TaskRefused
    <3>4. CASE TaskOrphaned(o)
      BY <1>4, <3>1, <3>4 DEF TaskOrphaned
    <3>. QED
      BY <3>1, <3>2, <3>3, <3>4
  <2>4. CASE AnswersTooLate(r) \/ TaskRejected(r) \/ TaskDeferred(r) \/ TaskEnded(r)
    BY <1>4, <2>4 DEF AnswersTooLate, TaskRejected, TaskDeferred, TaskEnded
  <2>5. CASE RemoveConnection(r)
    <3>1. \A x \in Runner : link'[x] = "none" => link[x] = "none"
      BY <1>1, <2>5 DEF RemoveConnection, TypeOK
    <3>. QED
      BY <1>3, <2>5, <3>1 DEF RemoveConnection
  <2>6. CASE Connect(r)
    <3>1. \A x \in Runner : link'[x] = "none" => link[x] = "none"
      BY <1>1, <2>6 DEF Connect, TypeOK
    <3>. QED
      BY <2>6, <3>1 DEF Connect, ConnectInv
  <2>7. CASE SwitchOffers(r)
    <3>1. toRunner[r] # <<>> /\ PopFromBroker(r) /\ UNCHANGED <<link, maker>>
      BY <2>7 DEF SwitchOffers, FromBroker, Takes
    <3>2. canSendOffers \in [Runner -> BOOLEAN]
      BY <1>1 DEF TypeOK
    <3>3. \A x \in Runner : x # r => canSendOffers'[x] = canSendOffers[x]
      BY <2>7, <3>2 DEF SwitchOffers
    <3>. QED
      BY <1>6, <3>1, <3>3 DEF ConnectInv
  <2>8. CASE OfferAccepted(r)
    BY <1>6, <2>8 DEF OfferAccepted, FromBroker, Takes, ConnectInv
  <2>9. CASE TaskCancelled(r)
    <3>1. \A x \in Runner : link[x] = "none" => \A o \in Offer : maker'[o] # x
      BY <2>9, TaskCancelledEffect, FinishesConnect DEF GoesOn, ConnectInv
    <3>. QED
      BY <1>6, <2>9, <3>1 DEF TaskCancelled, FromBroker, Takes
  <2>10. CASE ReceivedSettings(r)
    BY <1>6, <2>10 DEF ReceivedSettings, FromBroker, Takes, ConnectInv
  <2>11. CASE SendOffers(r)
    <3>1. \A x \in Offer : maker'[x] = maker[x] \/ maker'[x] = r
      BY <2>11 DEF SendOffers, SendOffersAfter
    <3>2. link[r] # "none"
      BY <2>11 DEF SendOffers, ConnectInv
    <3>. QED
      BY <2>11, <3>1, <3>2 DEF SendOffers, ConnectInv
  <2>12. CASE Crash(r)
    BY <1>1, <2>12 DEF Crash, ConnectInv, TypeOK
  <2>. QED
    BY <1>7, <2>1, <2>2, <2>3, <2>4, <2>5, <2>6, <2>7, <2>8, <2>9, <2>10, <2>11, <2>12
       DEF RunnerNext, BrokerReceives, RunnerReceives
<1>8. ASSUME NEW q \in Request, RequestNext(q) PROVE ConnectInv'
  <2>1. CASE StartTask(q) /\ ~isDraining
    BY <1>5, <2>1, StartTaskSettles DEF StartTask
  <2>2. CASE StartTask(q) /\ isDraining
    BY <1>4, <2>2 DEF StartTask
  <2>3. CASE RequestTimeout(q)
    BY <1>4, <2>3 DEF RequestTimeout
  <2>. QED
    BY <1>8, <2>1, <2>2, <2>3 DEF RequestNext
<1>9. ASSUME NEW o \in Offer, TaskNext(o) PROVE ConnectInv'
  <2>1. CASE CancelTask(o)
    <3>1. maker[o] \in Runner
      BY <2>1, TasksTaken DEF CancelTask
    <3>. QED
      BY <1>3, <2>1, <3>1 DEF CancelTask
  <2>2. CASE TaskTimeout(o)
    <3>1. maker[o] \in Runner
      BY <2>2 DEF TaskTimeout, BrokerInv, MadeInv
    <3>. QED
      BY <1>3, <2>2, <3>1 DEF TaskTimeout
  <2>3. CASE AcceptTimeout(o)
    BY <1>4, <2>3 DEF AcceptTimeout
  <2>4. CASE TaskTimedOut(o)
    <3>1. \A x \in Runner : link[x] = "none" => \A y \in Offer : maker'[y] # x
      BY <2>4, TaskTimedOutEffect, FinishesConnect DEF GoesOn, ConnectInv
    <3>. QED
      BY <2>4, <3>1 DEF TaskTimedOut, ConnectInv
  <2>5. CASE TaskExecuted(o)
    <3>1. \A x \in Runner : link[x] = "none" => \A y \in Offer : maker'[y] # x
      BY <2>5, TaskExecutedEffect, FinishesConnect
    <3>. QED
      BY <2>5, <3>1 DEF TaskExecuted, ConnectInv
  <2>. QED
    BY <1>9, <2>1, <2>2, <2>3, <2>4, <2>5 DEF TaskNext
<1>10. CASE StartDraining
  BY <1>10 DEF StartDraining, ConnectInv
<1>11. CASE UNCHANGED vars
  BY <1>4, <1>11 DEF vars
<1>. QED
  BY <1>7, <1>8, <1>9, <1>10, <1>11 DEF Next

Settings(o) == Message("tasksettings", o)
Cancel(o) == Message("taskcancel", o)

\* Settings that are on their way are followed by the message that cancels the task.
Covered(queue, o) ==
  \A i \in 1..Len(queue) : queue[i] = Settings(o) =>
    \E j \in (i + 1)..Len(queue) : queue[j] = Cancel(o)

\* A task that the broker does not have is cancelled before it would start to run, or
\* the message that cancels it is on its way.
Watched(o) ==
  /\ status[o] = "running" =>
       o \in tasks \/ Contains(toRunner[maker[o]], Cancel(o))
  /\ status[o] = "waitingForSettings" =>
       o \in tasks \/ Covered(toRunner[maker[o]], o)

WatchInv == \A o \in Offer : link[maker[o]] = "open" => Watched(o)

LEMMA SettingsAndCancel ==
  ASSUME NEW o \in Offer
  PROVE  /\ Settings(o) \in Messages /\ Cancel(o) \in Messages
         /\ Settings(o) # Cancel(o)
  BY MessageTypes DEF MessageType, Settings, Cancel

LEMMA ConcatCovered ==
  ASSUME NEW s \in Seq(Messages), NEW t \in Seq(Messages), NEW o \in Offer
  PROVE  /\ \A x : Contains(s, x) \/ Contains(t, x) => Contains(s \o t, x)
         /\ Covered(s, o) /\ Settings(o) \notin ToSet(t) => Covered(s \o t, o)
<1>. DEFINE u == s \o t
<1>1. /\ u \in Seq(Messages) /\ Len(u) = Len(s) + Len(t) /\ Len(s) \in Nat /\ Len(t) \in Nat
      /\ \A i \in 1..Len(s) : u[i] = s[i]
      /\ \A i \in (Len(s) + 1)..Len(u) : u[i] = t[i - Len(s)]
  OBVIOUS
<1>2. ToSet(u) = ToSet(s) \cup ToSet(t)
  BY ConcatElements
<1>. HIDE DEF u
<1>3. \A x : Contains(s, x) \/ Contains(t, x) => Contains(u, x)
  <2>1. \A x : Contains(s, x) => x \in ToSet(s)
    BY Elements
  <2>2. \A x : Contains(t, x) => x \in ToSet(t)
    BY Elements
  <2>3. \A x : x \in ToSet(u) => Contains(u, x)
    BY <1>1, Elements
  <2>. QED
    BY <1>2, <2>1, <2>2, <2>3
<1>4. ASSUME Covered(s, o), Settings(o) \notin ToSet(t) PROVE Covered(u, o)
  <2>. SUFFICES ASSUME NEW i \in 1..Len(u), u[i] = Settings(o)
                PROVE  \E j \in (i + 1)..Len(u) : u[j] = Cancel(o)
    BY DEF Covered
  <2>1. i \in 1..Len(s)
    <3>. SUFFICES ASSUME i \notin 1..Len(s) PROVE FALSE
      OBVIOUS
    <3>1. i \in (Len(s) + 1)..Len(u) /\ i - Len(s) \in 1..Len(t)
      BY <1>1
    <3>2. t[i - Len(s)] = Settings(o)
      BY <1>1, <3>1
    <3>. QED
      BY <1>4, <3>1, <3>2, Elements
  <2>2. s[i] = Settings(o)
    BY <1>1, <2>1
  <2>3. PICK j \in (i + 1)..Len(s) : s[j] = Cancel(o)
    BY <1>4, <2>1, <2>2 DEF Covered
  <2>4. j \in 1..Len(s) /\ j \in (i + 1)..Len(u)
    BY <1>1, <2>1
  <2>. QED
    BY <1>1, <2>3, <2>4
<1>. QED
  BY <1>3, <1>4 DEF u

LEMMA CanceledCovered ==
  ASSUME NEW s \in Seq(Messages), NEW o \in Offer
  PROVE  Contains(s \o <<Cancel(o)>>, Cancel(o)) /\ Covered(s \o <<Cancel(o)>>, o)
<1>. DEFINE u == s \o <<Cancel(o)>>
<1>1. <<Cancel(o)>> \in Seq(Messages) /\ Contains(<<Cancel(o)>>, Cancel(o))
  BY SettingsAndCancel DEF Contains
<1>2. /\ u \in Seq(Messages) /\ Len(u) = Len(s) + 1 /\ Len(s) \in Nat
      /\ u[Len(s) + 1] = Cancel(o)
  BY <1>1
<1>3. Contains(u, Cancel(o))
  BY <1>1, ConcatCovered
<1>. HIDE DEF u
<1>4. Covered(u, o)
  <2>. SUFFICES ASSUME NEW i \in 1..Len(u), u[i] = Settings(o)
                PROVE  \E j \in (i + 1)..Len(u) : u[j] = Cancel(o)
    BY DEF Covered
  <2>1. i # Len(s) + 1
    BY <1>2, SettingsAndCancel
  <2>2. Len(s) + 1 \in (i + 1)..Len(u)
    BY <1>2, <2>1
  <2>. QED
    BY <1>2, <2>2
<1>. QED
  BY <1>3, <1>4 DEF u

LEMMA TailCovered ==
  ASSUME NEW s \in Seq(Messages), s # <<>>, NEW o \in Offer
  PROVE  /\ \A x : Contains(s, x) /\ Head(s) # x => Contains(Tail(s), x)
         /\ Covered(s, o) => Covered(Tail(s), o)
         /\ Covered(s, o) /\ Head(s) = Settings(o) => Contains(Tail(s), Cancel(o))
<1>. DEFINE t == Tail(s)
<1>1. /\ t \in Seq(Messages) /\ Len(t) = Len(s) - 1 /\ Len(s) \in Nat /\ Len(s) > 0
      /\ Head(s) = s[1] /\ 1 \in 1..Len(s)
      /\ \A i \in 1..Len(t) : t[i] = s[i + 1]
  OBVIOUS
<1>2. ToSet(s) = {Head(s)} \cup ToSet(t)
  BY TailElements
<1>. HIDE DEF t
<1>3. \A x : Contains(s, x) /\ Head(s) # x => Contains(t, x)
  <2>1. \A x : Contains(s, x) => x \in ToSet(s)
    BY Elements
  <2>2. \A x : x \in ToSet(t) => Contains(t, x)
    BY <1>1, Elements
  <2>. QED
    BY <1>2, <2>1, <2>2
<1>4. ASSUME Covered(s, o) PROVE Covered(t, o)
  <2>. SUFFICES ASSUME NEW i \in 1..Len(t), t[i] = Settings(o)
                PROVE  \E j \in (i + 1)..Len(t) : t[j] = Cancel(o)
    BY DEF Covered
  <2>1. i + 1 \in 1..Len(s) /\ s[i + 1] = Settings(o)
    BY <1>1
  <2>2. PICK j \in ((i + 1) + 1)..Len(s) : s[j] = Cancel(o)
    BY <1>4, <2>1 DEF Covered
  <2>3. j - 1 \in (i + 1)..Len(t) /\ j - 1 \in 1..Len(t) /\ (j - 1) + 1 = j
    BY <1>1
  <2>. QED
    BY <1>1, <2>2, <2>3
<1>5. ASSUME Covered(s, o), Head(s) = Settings(o) PROVE Contains(t, Cancel(o))
  <2>1. PICK j \in (1 + 1)..Len(s) : s[j] = Cancel(o)
    BY <1>1, <1>5 DEF Covered
  <2>2. j - 1 \in 1..Len(t) /\ (j - 1) + 1 = j
    BY <1>1
  <2>. QED
    BY <1>1, <2>1, <2>2 DEF Contains
<1>. QED
  BY <1>3, <1>4, <1>5 DEF t

LEMMA InitWatch == Init => WatchInv
  BY DEF Init, WatchInv, Watched

\* The broker sends something: settings to a task that it has, and to a task that it
\* gives up the message that cancels it.
LEMMA WatchGrows ==
  ASSUME BrokerInv, WatchInv, NEW sent \in [Runner -> Seq(Messages)],
         \A r \in Runner : link'[r] = "open" =>
           link[r] = "open" /\ toRunner'[r] = toRunner[r] \o sent[r],
         UNCHANGED <<status, maker>>,
         \A o \in Offer : status[o] \in {"running", "waitingForSettings"} =>
           /\ Settings(o) \in ToSet(sent[maker[o]]) => o \in tasks'
           /\ o \in tasks \ tasks' /\ link'[maker[o]] = "open" =>
                sent[maker[o]] = <<Cancel(o)>>
  PROVE  WatchInv'
<1>. SUFFICES ASSUME NEW o \in Offer, link'[maker[o]] = "open",
                     status[o] \in {"running", "waitingForSettings"}, o \notin tasks'
              PROVE  Watched(o)'
  BY DEF WatchInv, Watched
<1>. DEFINE r == maker[o]
            s == toRunner[r]
            t == sent[r]
<1>1. r \in Runner /\ s \in Seq(Messages) /\ t \in Seq(Messages)
  <2>1. r \in Runner
    BY DEF BrokerInv, MadeInv
  <2>. QED
    BY <2>1 DEF BrokerInv, TypeOK
<1>2. link[r] = "open" /\ toRunner'[r] = s \o t /\ Watched(o)
  BY <1>1 DEF WatchInv
<1>3. Settings(o) \notin ToSet(t) /\ (o \in tasks => t = <<Cancel(o)>>)
  OBVIOUS
<1>. HIDE DEF t, s
<1>4. CASE o \in tasks
  BY <1>1, <1>2, <1>3, <1>4, CanceledCovered DEF Watched
<1>5. CASE o \notin tasks
  BY <1>1, <1>2, <1>3, <1>5, ConcatCovered DEF Watched, s
<1>. QED
  BY <1>4, <1>5

LEMMA WatchSent ==
  ASSUME BrokerInv, WatchInv, NEW r \in Runner, NEW ms \in Seq(Messages), Send(r, ms),
         \A x \in Runner : link'[x] = "open" => link[x] = "open",
         UNCHANGED <<status, maker>>,
         \A o \in Offer : status[o] \in {"running", "waitingForSettings"} =>
           /\ Settings(o) \in ToSet(ms) /\ maker[o] = r => o \in tasks'
           /\ o \in tasks \ tasks' /\ link'[maker[o]] = "open" =>
                maker[o] = r /\ ms = <<Cancel(o)>>
  PROVE  WatchInv'
<1>. DEFINE sent == [x \in Runner |-> IF x = r THEN ms ELSE <<>>]
<1>1. sent \in [Runner -> Seq(Messages)] /\ sent[r] = ms
      /\ \A x \in Runner : x # r => sent[x] = <<>>
  OBVIOUS
<1>2. TypeOK /\ MadeInv
  BY DEF BrokerInv
<1>. HIDE DEF sent
<1>3. \A s \in Seq(Messages) : s \o <<>> = s
  OBVIOUS
<1>4. \A x \in Runner : toRunner[x] \in Seq(Messages)
  BY <1>2 DEF TypeOK
<1>5. /\ link[r] = "open" => toRunner'[r] = toRunner[r] \o ms
      /\ \A x \in Runner : x # r => toRunner'[x] = toRunner[x]
  BY <1>2, Sent
<1>6. \A x \in Runner : link'[x] = "open" =>
        link[x] = "open" /\ toRunner'[x] = toRunner[x] \o sent[x]
  BY <1>1, <1>3, <1>4, <1>5
<1>7. ASSUME NEW o \in Offer, status[o] \in {"running", "waitingForSettings"}
      PROVE  /\ Settings(o) \in ToSet(sent[maker[o]]) => o \in tasks'
             /\ o \in tasks \ tasks' /\ link'[maker[o]] = "open" =>
                  sent[maker[o]] = <<Cancel(o)>>
  <2>1. maker[o] \in Runner
    BY <1>2, <1>7 DEF MadeInv
  <2>2. maker[o] # r => Settings(o) \notin ToSet(sent[maker[o]])
    BY <1>1, <2>1, FewElements
  <2>. QED
    BY <1>1, <1>7, <2>1, <2>2
<1>. QED
  BY <1>1, <1>6, <1>7, WatchGrows

\* Nothing is sent and nothing starts.
LEMMA WatchKept ==
  ASSUME BrokerInv, BrokerInv', Ages, WatchInv,
         \A r \in Runner : link'[r] = "open" =>
           link[r] = "open" /\ toRunner'[r] = toRunner[r],
         \A o \in Offer : status'[o] \in {"running", "waitingForSettings"} =>
           /\ status'[o] = status[o]
           /\ o \in tasks \ tasks' => link'[maker[o]] # "open"
  PROVE  WatchInv'
<1>. SUFFICES ASSUME NEW o \in Offer, link'[maker'[o]] = "open",
                     status'[o] \in {"running", "waitingForSettings"}
              PROVE  Watched(o)'
  BY DEF WatchInv, Watched
<1>1. status[o] = status'[o] /\ maker[o] \in Runner /\ maker[o] # None
  BY BrokerAssumption DEF BrokerInv, MadeInv
<1>2. maker'[o] = maker[o]
  BY <1>1 DEF Ages
<1>3. Watched(o) /\ toRunner'[maker[o]] = toRunner[maker[o]] /\ (o \in tasks => o \in tasks')
  BY <1>1, <1>2 DEF WatchInv
<1>. QED
  BY <1>1, <1>2, <1>3 DEF Watched

\* A runner handles a message.
LEMMA WatchPopped ==
  ASSUME BrokerInv, BrokerInv', Ages, WatchInv,
         NEW r \in Runner, toRunner[r] # <<>>, PopFromBroker(r),
         UNCHANGED <<link, tasks>>,
         \A o \in Offer :
           /\ status'[o] = "running" =>
                \/ status[o] = "running" /\ Head(toRunner[r]) # Cancel(o)
                \/ status[o] = "waitingForSettings" /\ maker[o] = r
                   /\ Head(toRunner[r]) = Settings(o)
           /\ status'[o] = "waitingForSettings" => status[o] \in {"waitingForSettings", "none"}
  PROVE  WatchInv'
<1>. SUFFICES ASSUME NEW o \in Offer, link[maker'[o]] = "open",
                     status'[o] \in {"running", "waitingForSettings"}, o \notin tasks
              PROVE  Watched(o)'
  BY DEF WatchInv, Watched
<1>. DEFINE x == maker'[o]
<1>1. TypeOK /\ MessageInv /\ x \in Runner
  BY DEF BrokerInv, MadeInv
<1>2. /\ toRunner'[r] = Tail(toRunner[r])
      /\ \A y \in Runner : y # r => toRunner'[y] = toRunner[y]
      /\ toRunner[x] \in Seq(Messages) /\ toRunner'[x] \in Seq(Messages)
      /\ ToSet(toRunner'[x]) \subseteq ToSet(toRunner[x])
  BY <1>1, PoppedToRunner DEF TypeOK
<1>3. CASE status[o] = "none"
  <2>1. Settings(o) \notin ToSet(toRunner[x])
    <3>1. Settings(o).type = "tasksettings" /\ Settings(o).offer = o
      BY MessageTypes DEF Settings
    <3>. QED
      BY <1>1, <1>3, <3>1 DEF MessageInv, ToOK
  <2>2. \A i \in 1..Len(toRunner'[x]) : toRunner'[x][i] # Settings(o)
    BY <1>2, <2>1, Elements
  <2>3. Covered(toRunner'[x], o)
    BY <2>2 DEF Covered
  <2>. QED
    BY <1>3, <2>3 DEF Watched
<1>4. CASE status[o] # "none"
  <2>1. x = maker[o]
    <3>1. maker[o] \in Runner /\ maker[o] # None
      BY <1>4, BrokerAssumption DEF BrokerInv, MadeInv
    <3>. QED
      BY <3>1 DEF Ages
  <2>2. Watched(o)
    BY <2>1 DEF WatchInv
  <2>. HIDE DEF x
  <2>3. CASE status'[o] = "running" /\ status[o] = "running"
    <3>1. Contains(toRunner[x], Cancel(o)) /\ Head(toRunner[r]) # Cancel(o)
      BY <2>1, <2>2, <2>3 DEF Watched
    <3>2. Contains(toRunner'[x], Cancel(o))
      BY <1>1, <1>2, <3>1, TailCovered
    <3>. QED
      BY <2>3, <3>2 DEF Watched, x
  <2>4. CASE status'[o] = "running" /\ status[o] = "waitingForSettings"
    <3>1. Covered(toRunner[r], o) /\ Head(toRunner[r]) = Settings(o) /\ x = r
      BY <2>1, <2>2, <2>4 DEF Watched
    <3>2. Contains(toRunner'[x], Cancel(o))
      BY <1>1, <1>2, <3>1, TailCovered
    <3>. QED
      BY <2>4, <3>2 DEF Watched, x
  <2>5. CASE status'[o] = "waitingForSettings"
    <3>1. Covered(toRunner[x], o)
      BY <1>4, <2>1, <2>2, <2>5 DEF Watched
    <3>2. Covered(toRunner'[x], o)
      BY <1>1, <1>2, <3>1, TailCovered
    <3>. QED
      BY <2>5, <3>2 DEF Watched, x
  <2>. QED
    BY <1>4, <2>3, <2>4, <2>5
<1>. QED
  BY <1>3, <1>4

\* What the broker sends with an answer, a match or a drain is not about settings.
LEMMA OthersSent ==
  /\ \A type \in {"runnerregistered", "drain", "close"} :
       /\ <<Signal(type)>> \in Seq(Messages)
       /\ \A x \in Offer : Settings(x) \notin ToSet(<<Signal(type)>>)
  /\ \A o \in Offer :
       /\ <<Cancel(o)>> \in Seq(Messages) /\ <<Settings(o)>> \in Seq(Messages)
       /\ \A x \in Offer : Settings(x) \notin ToSet(<<Cancel(o)>>)
       /\ \A x \in Offer : Settings(x) \in ToSet(<<Settings(o)>>) => x = o
  /\ <<>> \in Seq(Messages) /\ \A x \in Offer : Settings(x) \notin ToSet(<<>>)
<1>1. /\ \A x \in Offer : Settings(x).type = "tasksettings" /\ Settings(x).offer = x
      /\ \A x \in Offer : Cancel(x).type = "taskcancel"
  BY MessageTypes DEF Settings, Cancel
<1>2. ASSUME NEW type \in {"runnerregistered", "drain", "close"}
      PROVE  /\ <<Signal(type)>> \in Seq(Messages)
             /\ \A x \in Offer : Settings(x) \notin ToSet(<<Signal(type)>>)
  <2>1. /\ <<Signal(type)>> \in Seq(Messages) /\ ToSet(<<Signal(type)>>) = {Signal(type)}
        /\ Signal(type).type = type
    BY Signals, MessageTypes
  <2>. QED
    BY <1>1, <2>1
<1>3. ASSUME NEW o \in Offer
      PROVE  /\ <<Cancel(o)>> \in Seq(Messages) /\ <<Settings(o)>> \in Seq(Messages)
             /\ \A x \in Offer : Settings(x) \notin ToSet(<<Cancel(o)>>)
             /\ \A x \in Offer : Settings(x) \in ToSet(<<Settings(o)>>) => x = o
  <2>1. /\ <<Cancel(o)>> \in Seq(Messages) /\ ToSet(<<Cancel(o)>>) = {Cancel(o)}
        /\ <<Settings(o)>> \in Seq(Messages) /\ ToSet(<<Settings(o)>>) = {Settings(o)}
    BY SettingsAndCancel, FewElements
  <2>. QED
    BY <1>1, <2>1
<1>4. <<>> \in Seq(Messages) /\ \A x \in Offer : Settings(x) \notin ToSet(<<>>)
  BY FewElements
<1>. QED
  BY <1>2, <1>3, <1>4

LEMMA SettlesWatch ==
  ASSUME BrokerInv, WatchInv, NEW requests, NEW offered, NEW T, NEW pick, NEW accepts,
         Settles(requests, offered, T, pick, accepts), UNCHANGED <<tasks, status, maker, link>>
  PROVE  WatchInv'
<1>1. /\ accepts \in [Runner -> Seq(Messages)]
      /\ toRunner' = [r \in Runner |-> toRunner[r] \o accepts[r]]
      /\ \A r \in Runner : \A m \in ToSet(accepts[r]) : m.type = "taskofferaccept"
  BY DEF Settles
<1>2. ASSUME NEW o \in Offer, status[o] \in {"running", "waitingForSettings"}
      PROVE  Settings(o) \notin ToSet(accepts[maker[o]])
  <2>1. maker[o] \in Runner
    BY <1>2 DEF BrokerInv, MadeInv
  <2>2. Settings(o).type # "taskofferaccept"
    BY MessageTypes DEF Settings
  <2>. QED
    BY <1>1, <2>1, <2>2
<1>. QED
  BY <1>1, <1>2, WatchGrows

LEMMA TaskAcceptedWatch ==
  ASSUME BrokerInv, BrokerInv', Ages, WatchInv, NEW r \in Runner, TaskAccepted(r)
  PROVE  WatchInv'
<1>1. PICK o \in Offer : /\ TaskSettled(r, o) \/ TaskRefused(r, o) \/ TaskOrphaned(o)
                         /\ UNCHANGED <<runnerVars, link>>
  BY DEF TaskAccepted
<1>2. CASE TaskSettled(r, o)
  <2>1. Send(r, <<Settings(o)>>) /\ tasks' = tasks \cup {o}
    BY <1>2 DEF TaskSettled, Settings
  <2>. QED
    BY <1>1, <2>1, OthersSent, WatchSent
<1>3. CASE TaskRefused(r, o)
  <2>1. Send(r, <<Cancel(o)>>) /\ tasks' = tasks
    BY <1>3 DEF TaskRefused, Cancel
  <2>. QED
    BY <1>1, <2>1, OthersSent, WatchSent
<1>4. CASE TaskOrphaned(o)
  BY <1>1, <1>4, WatchKept DEF TaskOrphaned
<1>. QED
  BY <1>1, <1>2, <1>3, <1>4

\* A task that ends while its runner may work on it is cancelled there.
LEMMA CancelTaskWatch ==
  ASSUME BrokerInv, WatchInv, NEW o \in Offer, CancelTask(o)
  PROVE  WatchInv'
<1>. DEFINE ms == IF o \in tasks THEN <<Cancel(o)>> ELSE <<>>
<1>1. /\ Send(maker[o], ms) /\ tasks' = tasks \ {o}
      /\ UNCHANGED <<status, maker, link>>
  BY DEF CancelTask, Cancel
<1>2. maker[o] \in Runner
  BY TasksTaken DEF CancelTask
<1>3. ms \in Seq(Messages) /\ \A x \in Offer : Settings(x) \notin ToSet(ms)
  BY OthersSent
<1>4. o \in tasks => ms = <<Cancel(o)>>
  OBVIOUS
<1>. HIDE DEF ms
<1>. QED
  BY <1>1, <1>2, <1>3, <1>4, WatchSent

LEMMA TaskTimeoutWatch ==
  ASSUME Mode = "external", BrokerInv, WatchInv, NEW o \in Offer, TaskTimeout(o)
  PROVE  WatchInv'
<1>1. /\ Send(maker[o], <<Cancel(o)>>) /\ tasks' = tasks \ {o}
      /\ UNCHANGED <<status, maker, link>>
  BY DEF TaskTimeout, Cancel
<1>2. maker[o] \in Runner
  BY DEF TaskTimeout, BrokerInv, MadeInv
<1>. QED
  BY <1>1, <1>2, OthersSent, WatchSent

LEMMA TaskEndedWatch ==
  ASSUME BrokerInv, BrokerInv', Ages, WatchInv, NEW r \in Runner, TaskEnded(r)
  PROVE  WatchInv'
<1>1. PICK type \in Ending : FromRunner(r, type) /\ PopFromRunner(r)
  BY DEF TaskEnded, Ending
<1>2. FromOK(Head(toBroker[r]), r, maker, handshake, status) /\ Head(toBroker[r]).type \in Ending
  BY <1>1, Received DEF BrokerInv
<1>3. status[Head(toBroker[r]).offer] \in {"ended", "dropped"}
  BY <1>2 DEF FromOK
<1>4. tasks' = tasks \ {Head(toBroker[r]).offer} /\ UNCHANGED <<status, link, toRunner>>
  BY DEF TaskEnded
<1>. QED
  BY <1>3, <1>4, WatchKept

LEMMA RemoveConnectionWatch ==
  ASSUME BrokerInv, WatchInv, NEW r \in Runner, RemoveConnection(r)
  PROVE  WatchInv'
<1>1. /\ Send(r, <<Signal("close")>>) /\ tasks' = tasks \ {o \in tasks : maker[o] = r}
      /\ UNCHANGED <<status, maker>>
  BY DEF RemoveConnection
<1>2. link'[r] # "open" /\ \A x \in Runner : link'[x] = "open" => link[x] = "open"
  BY DEF RemoveConnection, BrokerInv, TypeOK
<1>3. \A o \in Offer : o \in tasks \ tasks' => link'[maker[o]] # "open"
  BY <1>1, <1>2
<1>4. /\ <<Signal("close")>> \in Seq(Messages)
      /\ \A o \in Offer : Settings(o) \notin ToSet(<<Signal("close")>>)
  BY OthersSent
<1>5. \A o \in Offer : status[o] \in {"running", "waitingForSettings"} =>
        /\ Settings(o) \in ToSet(<<Signal("close")>>) /\ maker[o] = r => o \in tasks'
        /\ o \in tasks \ tasks' /\ link'[maker[o]] = "open" =>
             maker[o] = r /\ <<Signal("close")>> = <<Cancel(o)>>
  BY <1>3, <1>4
<1>. QED
  BY <1>1, <1>2, <1>4, <1>5, WatchSent

LEMMA StartDrainingWatch ==
  ASSUME BrokerInv, WatchInv, StartDraining
  PROVE  WatchInv'
<1>. DEFINE sent == [r \in Runner |-> IF r \in knownRunners /\ link[r] = "open"
                                      THEN <<Signal("drain")>> ELSE <<>>]
<1>1. sent \in [Runner -> Seq(Messages)]
  BY Signals
<1>2. \A r \in Runner : toRunner[r] \in Seq(Messages) /\ Signal("drain") \in Messages
  BY Signals DEF BrokerInv, TypeOK
<1>3. \A s \in Seq(Messages) : /\ s \o <<>> = s
                               /\ \A m \in Messages : Append(s, m) = s \o <<m>>
  OBVIOUS
<1>4. \A r \in Runner : toRunner'[r] = toRunner[r] \o sent[r]
  BY <1>2, <1>3 DEF StartDraining
<1>5. ASSUME NEW o \in Offer, status[o] \in {"running", "waitingForSettings"}
      PROVE  Settings(o) \notin ToSet(sent[maker[o]])
  <2>1. maker[o] \in Runner
    BY <1>5 DEF BrokerInv, MadeInv
  <2>. QED
    BY <2>1, OthersSent, FewElements
<1>6. UNCHANGED <<status, maker, link, tasks>>
  BY DEF StartDraining
<1>. HIDE DEF sent
<1>. QED
  BY <1>1, <1>4, <1>5, <1>6, WatchGrows

LEMMA ConnectWatch ==
  ASSUME BrokerInv, ConnectInv, WatchInv, NEW r \in Runner, Connect(r)
  PROVE  WatchInv'
<1>. SUFFICES ASSUME NEW o \in Offer, link'[maker[o]] = "open",
                     status[o] \in {"running", "waitingForSettings"}
              PROVE  Watched(o)
  BY DEF WatchInv, Watched, Connect
<1>1. maker[o] \in Runner
  BY DEF BrokerInv, MadeInv
<1>2. maker[o] # r
  BY DEF Connect, ConnectInv
<1>3. link[maker[o]] = "open"
  BY <1>1, <1>2 DEF Connect, BrokerInv, TypeOK
<1>. QED
  BY <1>3 DEF WatchInv

LEMMA CrashWatch ==
  ASSUME BrokerInv, BrokerInv', Ages, WatchInv, NEW r \in Runner, Crash(r)
  PROVE  WatchInv'
<1>1. TypeOK
  BY DEF BrokerInv
<1>2. /\ link'[r] # "open"
      /\ \A x \in Runner : x # r => link'[x] = link[x] /\ toRunner'[x] = toRunner[x]
      /\ tasks' = tasks
  BY <1>1 DEF Crash, TypeOK
<1>3. \A o \in Offer : status'[o] \in {"running", "waitingForSettings"} => status'[o] = status[o]
  BY DEF Crash
<1>. QED
  BY <1>2, <1>3, WatchKept

\* A runner that handles a message about a task.
LEMMA TaskCancelledWatch ==
  ASSUME BrokerInv, BrokerInv', Ages, WatchInv, NEW r \in Runner, TaskCancelled(r)
  PROVE  WatchInv'
<1>1. TypeOK /\ MessageInv
  BY DEF BrokerInv
<1>2. PICK o \in Offer :
           /\ o = Head(toRunner[r]).offer /\ maker[o] = r
           /\ \/ status[o] = "waitingForSettings" /\ Finishes(o, "dropped", <<>>)
              \/ status[o] = "running" /\ GoesOn(o, "aborting:cancelled")
              \/ status[o] \notin {"waitingForSettings", "running"} /\ GoesOn(o, status[o])
  BY TaskCancelledEffect
<1>3. FromBroker(r, "taskcancel") /\ PopFromBroker(r) /\ UNCHANGED <<link, tasks>>
  BY DEF TaskCancelled
<1>4. \A x \in Offer : Cancel(x).offer = x
  BY MessageTypes DEF Cancel
<1>5. /\ \A x \in Offer : x # o => status'[x] = status[x]
      /\ status'[o] \notin {"running", "waitingForSettings"}
  BY <1>1, <1>2 DEF Finishes, FinishTask, GoesOn, TypeOK
<1>. QED
  BY <1>2, <1>3, <1>4, <1>5, WatchPopped DEF FromBroker, Takes

LEMMA ReceivedSettingsWatch ==
  ASSUME BrokerInv, BrokerInv', Ages, WatchInv, NEW r \in Runner, ReceivedSettings(r)
  PROVE  WatchInv'
<1>1. TypeOK /\ MessageInv
  BY DEF BrokerInv
<1>2. PICK o \in Offer :
           /\ o = Head(toRunner[r]).offer /\ maker[o] = r
           /\ \/ status[o] = "waitingForSettings" /\ GoesOn(o, "running")
              \/ status[o] # "waitingForSettings" /\ GoesOn(o, status[o])
  BY ReceivedSettingsEffect
<1>3. FromBroker(r, "tasksettings") /\ PopFromBroker(r) /\ UNCHANGED <<link, tasks>>
  BY DEF ReceivedSettings
<1>4. /\ toRunner[r] # <<>> /\ Head(toRunner[r]) = Settings(o)
      /\ \A x \in Offer : Head(toRunner[r]) # Cancel(x)
  <2>1. Head(toRunner[r]).type = "tasksettings" /\ Head(toRunner[r]) \in Messages
        /\ toRunner[r] # <<>>
    BY <1>1, <1>3, ReceivedByRunner
  <2>. QED
    BY <1>2, <2>1, MessageTypes DEF Settings, Cancel
<1>5. /\ \A x \in Offer : x # o => status'[x] = status[x]
      /\ status'[o] = IF status[o] = "waitingForSettings" THEN "running" ELSE status[o]
  BY <1>1, <1>2 DEF GoesOn, TypeOK
<1>. QED
  BY <1>2, <1>3, <1>4, <1>5, WatchPopped

LEMMA OfferAcceptedWatch ==
  ASSUME BrokerInv, BrokerInv', Ages, WatchInv, NEW r \in Runner, OfferAccepted(r)
  PROVE  WatchInv'
<1>1. TypeOK /\ MessageInv /\ MadeInv
  BY DEF BrokerInv
<1>. DEFINE o == Head(toRunner[r]).offer
<1>2. FromBroker(r, "taskofferaccept") /\ PopFromBroker(r) /\ UNCHANGED <<link, tasks>>
  BY DEF OfferAccepted
<1>3. /\ toRunner[r] # <<>>
      /\ \A x \in Offer : Head(toRunner[r]) # Cancel(x)
  <2>1. Head(toRunner[r]).type = "taskofferaccept" /\ toRunner[r] # <<>>
    BY <1>1, <1>2, ReceivedByRunner
  <2>2. \A x \in Offer : Cancel(x).type = "taskcancel"
    BY MessageTypes DEF Cancel
  <2>. QED
    BY <2>1, <2>2
<1>4. \A x \in Offer :
        \/ status'[x] = status[x]
        \/ status[x] = "none" /\ status'[x] = "waitingForSettings"
  <2>1. UNCHANGED status \/ OfferTaken(r, o)
    BY DEF OfferAccepted, OfferDeferred, OfferRefused
  <2>2. CASE OfferTaken(r, o)
    <3>1. /\ o \in openOffers[r]
          /\ status' = [status EXCEPT ![o] = "waitingForSettings"]
      BY <2>2 DEF OfferTaken
    <3>. HIDE DEF o
    <3>2. o \in Offer /\ status[o] = "none"
      BY <1>1, <3>1 DEF MadeInv, TypeOK
    <3>3. status \in [Offer -> ActiveStatus \union {"none", "dropped", "ended"}]
      BY <1>1 DEF TypeOK
    <3>. QED
      BY <3>1, <3>2, <3>3
  <2>3. CASE UNCHANGED status
    BY <2>3
  <2>. QED
    BY <2>1, <2>2, <2>3
<1>. HIDE DEF o
<1>. QED
  BY <1>2, <1>3, <1>4, WatchPopped

LEMMA SwitchOffersWatch ==
  ASSUME BrokerInv, BrokerInv', Ages, WatchInv, NEW r \in Runner, SwitchOffers(r)
  PROVE  WatchInv'
<1>1. TypeOK /\ MessageInv
  BY DEF BrokerInv
<1>2. PICK type \in {"runnerregistered", "drain", "close"} :
        FromBroker(r, type) /\ PopFromBroker(r) /\ UNCHANGED <<link, tasks, status>>
  BY DEF SwitchOffers
<1>3. /\ toRunner[r] # <<>>
      /\ \A x \in Offer : Head(toRunner[r]) # Cancel(x)
  <2>1. Head(toRunner[r]).type = type /\ toRunner[r] # <<>>
    BY <1>1, <1>2, ReceivedByRunner
  <2>2. \A x \in Offer : Cancel(x).type = "taskcancel"
    BY MessageTypes DEF Cancel
  <2>. QED
    BY <2>1, <2>2
<1>. QED
  BY <1>2, <1>3, WatchPopped

LEMMA WatchStep ==
  ASSUME Mode = "external", BrokerInv, ConnectInv, WatchInv, [Next]_vars
  PROVE  WatchInv'
<1>1. BrokerInv' /\ Ages
  BY BrokerStep
<1>2. status \in [Offer -> ActiveStatus \union {"none", "dropped", "ended"}]
  BY DEF BrokerInv, TypeOK
<1>3. ASSUME UNCHANGED <<link, toRunner>>, tasks \subseteq tasks',
             \A o \in Offer : status'[o] \in {"running", "waitingForSettings"} =>
               status'[o] = status[o]
      PROVE  WatchInv'
  BY <1>1, <1>3, WatchKept
<1>4. ASSUME NEW r \in Runner, RunnerNext(r) PROVE WatchInv'
  <2>1. CASE BrokerReceives(r)
    <3>1. CASE RegisterRunner(r)
      <4>1. Send(r, <<Signal("runnerregistered")>>) /\ UNCHANGED <<link, tasks, status, maker>>
        BY <3>1 DEF RegisterRunner
      <4>. QED
        BY <4>1, OthersSent, WatchSent
    <3>2. CASE TaskOffered(r)
      BY <3>2, TaskOfferedSettles, SettlesWatch DEF TaskOffered
    <3>3. CASE AnswersTooLate(r) \/ TaskRejected(r) \/ TaskDeferred(r)
      BY <1>3, <3>3 DEF AnswersTooLate, TaskRejected, TaskDeferred
    <3>. QED
      BY <1>1, <2>1, <3>1, <3>2, <3>3, TaskAcceptedWatch, TaskEndedWatch DEF BrokerReceives
  <2>2. CASE RunnerReceives(r)
    BY <1>1, <2>2, SwitchOffersWatch, OfferAcceptedWatch, TaskCancelledWatch,
       ReceivedSettingsWatch DEF RunnerReceives
  <2>3. CASE SendOffers(r)
    BY <1>3, <2>3 DEF SendOffers
  <2>. QED
    BY <1>1, <1>4, <2>1, <2>2, <2>3, RemoveConnectionWatch, ConnectWatch, CrashWatch
       DEF RunnerNext
<1>5. ASSUME NEW q \in Request, RequestNext(q) PROVE WatchInv'
  <2>1. CASE StartTask(q) /\ ~isDraining
    BY <2>1, StartTaskSettles, SettlesWatch DEF StartTask
  <2>2. CASE StartTask(q) /\ isDraining
    BY <1>3, <2>2 DEF StartTask
  <2>3. CASE RequestTimeout(q)
    BY <1>3, <2>3 DEF RequestTimeout
  <2>. QED
    BY <1>5, <2>1, <2>2, <2>3 DEF RequestNext
<1>6. ASSUME NEW o \in Offer, TaskNext(o) PROVE WatchInv'
  <2>1. CASE AcceptTimeout(o)
    BY <1>3, <2>1 DEF AcceptTimeout
  <2>2. CASE TaskTimedOut(o)
    <3>1. \A x \in Offer : status'[x] \in {"running", "waitingForSettings"} =>
            status'[x] = status[x]
      <4>1. CASE status[o] = "waitingForSettings" /\ status' = [status EXCEPT ![o] = "dropped"]
        BY <4>1, <1>2
      <4>2. CASE status[o] = "running" /\ status' = [status EXCEPT ![o] = "aborting:timeout"]
        BY <4>2, <1>2
      <4>. QED
        BY <2>2, <4>1, <4>2, TaskTimedOutEffect DEF Finishes, FinishTask, GoesOn
    <3>. QED
      BY <1>3, <2>2, <3>1 DEF TaskTimedOut
  <2>3. CASE TaskExecuted(o)
    <3>1. \A x \in Offer : status'[x] \in {"running", "waitingForSettings"} =>
            status'[x] = status[x]
      <4>1. status' = [status EXCEPT ![o] = "ended"]
        BY <2>3, TaskExecutedEffect DEF Finishes, FinishTask
      <4>. QED
        BY <1>2, <4>1
    <3>. QED
      BY <1>3, <2>3, <3>1 DEF TaskExecuted
  <2>. QED
    BY <1>6, <2>1, <2>2, <2>3, CancelTaskWatch, TaskTimeoutWatch DEF TaskNext
<1>7. CASE StartDraining
  BY <1>7, StartDrainingWatch
<1>8. CASE UNCHANGED vars
  BY <1>3, <1>8 DEF vars
<1>. QED
  BY <1>4, <1>5, <1>6, <1>7, <1>8 DEF Next

\* In external mode no connected runner works on something the broker has given up
\* without having been told to stop, in whatever order answers, settings, timeouts and
\* cancellations cross.
THEOREM WorkWatched ==
  ASSUME Mode = "external"
  PROVE  Spec => []WorkIsWatched
<1>1. Init => ConnectInv /\ WatchInv
  BY InitConnect, InitWatch
<1>2. BrokerInv /\ ConnectInv /\ WatchInv /\ [Next]_vars => ConnectInv' /\ WatchInv'
  BY ConnectStep, WatchStep
<1>3. WatchInv => WorkIsWatched
  BY DEF WatchInv, Watched, WorkIsWatched, Cancel
<1>. QED
  BY <1>1, <1>2, <1>3, BrokerInvariant, PTL DEF Spec

-----------------------------------------------------------------------------
(* The slots of a runner *)

Accepted(o) == Message("taskaccepted", o)
Ends(o) == {Message("taskdone", o), Message("taskerror", o)}

\* The offers of S and those accepted by one of the first k messages of the queue,
\* without those that end by then: what the broker has booked after k messages.
BookedIn(queue, k, S) ==
  {o \in Offer : /\ o \in S \/ \E i \in 1..k : queue[i] = Accepted(o)
                 /\ \A i \in 1..k : queue[i] \notin Ends(o)}

\* A task that the broker has yet to hear of is accepted once, before it ends.
Ordered(queue, S) ==
  \A o \in Offer : \A i \in 1..Len(queue) : queue[i] = Accepted(o) =>
    /\ o \notin S
    /\ \A j \in 1..Len(queue) : /\ queue[j] = Accepted(o) => i = j
                                /\ queue[j] \in Ends(o) => i < j

LEMMA AcceptedAndEnds ==
  /\ \A o \in Offer : Accepted(o) \in Messages /\ Ends(o) \subseteq Messages
  /\ \A o : Accepted(o).type = "taskaccepted" /\ Accepted(o).offer = o
  /\ \A o : \A m \in Ends(o) : m.type \in Ending /\ m.offer = o
  /\ \A o, x : Accepted(o) \notin Ends(x)
  /\ \A o, x : Accepted(o) = Accepted(x) => o = x
<1>1. \A o \in Offer : Accepted(o) \in Messages /\ Ends(o) \subseteq Messages
  BY MessageTypes DEF MessageType, Accepted, Ends
<1>2. \A o : Accepted(o).type = "taskaccepted" /\ Accepted(o).offer = o
  BY MessageTypes DEF Accepted
<1>3. \A o : \A m \in Ends(o) : m.type \in Ending /\ m.offer = o
  BY MessageTypes DEF Ends, Ending
<1>4. "taskaccepted" \notin Ending
  BY DEF Ending
<1>. QED
  BY <1>1, <1>2, <1>3, <1>4

\* What is taken from the queue.
LEMMA TailOrdered ==
  ASSUME NEW s \in Seq(Messages), s # <<>>, NEW S, NEW S1, Ordered(s, S),
         \A o \in Offer : o \in S1 => o \in S \/ Head(s) = Accepted(o)
  PROVE  /\ Ordered(Tail(s), S1)
         /\ \A o \in Offer : Head(s) = Accepted(o) => o \notin S /\ Accepted(o) \notin ToSet(Tail(s))
         /\ \A o \in Offer : Head(s) \in Ends(o) => Accepted(o) \notin ToSet(s)
<1>. DEFINE t == Tail(s)
<1>1. /\ t \in Seq(Messages) /\ Len(t) = Len(s) - 1 /\ Len(s) \in Nat /\ Len(s) > 0
      /\ Head(s) = s[1] /\ 1 \in 1..Len(s)
      /\ \A i \in 1..Len(t) : t[i] = s[i + 1]
  OBVIOUS
<1>. HIDE DEF t
<1>2. \A i \in 1..Len(t) : i + 1 \in 1..Len(s) /\ i + 1 # 1
  BY <1>1
<1>3. ToSet(t) = {t[i] : i \in 1..Len(t)} /\ ToSet(s) = {s[i] : i \in 1..Len(s)}
  BY <1>1, Elements
<1>4. ASSUME NEW o \in Offer, Head(s) = Accepted(o)
      PROVE  o \notin S /\ \A i \in 1..Len(t) : t[i] # Accepted(o)
  BY <1>1, <1>2, <1>4 DEF Ordered
<1>5. ASSUME NEW o \in Offer, Head(s) \in Ends(o), NEW i \in 1..Len(s), s[i] = Accepted(o)
      PROVE  FALSE
  <2>1. i < 1
    BY <1>1, <1>5 DEF Ordered
  <2>. QED
    BY <2>1, <1>1
<1>6. Ordered(t, S1)
  <2>. SUFFICES ASSUME NEW o \in Offer, NEW i \in 1..Len(t), t[i] = Accepted(o)
                PROVE  /\ o \notin S1
                       /\ \A j \in 1..Len(t) : /\ t[j] = Accepted(o) => i = j
                                               /\ t[j] \in Ends(o) => i < j
    BY DEF Ordered
  <2>1. s[i + 1] = Accepted(o) /\ i + 1 \in 1..Len(s)
    BY <1>1, <1>2
  <2>2. /\ o \notin S
        /\ \A j \in 1..Len(s) : /\ s[j] = Accepted(o) => i + 1 = j
                                /\ s[j] \in Ends(o) => i + 1 < j
    BY <2>1 DEF Ordered
  <2>3. o \notin S1
    BY <1>4, <2>2
  <2>4. ASSUME NEW j \in 1..Len(t)
        PROVE  /\ t[j] = Accepted(o) => i = j
               /\ t[j] \in Ends(o) => i < j
    <3>1. t[j] = s[j + 1] /\ j + 1 \in 1..Len(s)
      BY <1>1, <1>2
    <3>2. /\ t[j] = Accepted(o) => i + 1 = j + 1
          /\ t[j] \in Ends(o) => i + 1 < j + 1
      BY <2>2, <3>1
    <3>. QED
      BY <1>1, <3>2
  <2>. QED
    BY <2>3, <2>4
<1>. QED
  BY <1>3, <1>4, <1>5, <1>6 DEF t

LEMMA TailBooked ==
  ASSUME NEW s \in Seq(Messages), s # <<>>, NEW S, NEW S1, Ordered(s, S),
         \A o \in Offer : o \in S1 =>
           (o \in S \/ Head(s) = Accepted(o)) /\ Head(s) \notin Ends(o)
  PROVE  \A k \in 0..Len(Tail(s)) :
           /\ k + 1 \in 0..Len(s)
           /\ BookedIn(Tail(s), k, S1) \subseteq BookedIn(s, k + 1, S)
<1>. DEFINE t == Tail(s)
<1>1. /\ t \in Seq(Messages) /\ Len(t) = Len(s) - 1 /\ Len(s) \in Nat /\ Len(s) > 0
      /\ Head(s) = s[1]
      /\ \A i \in 1..Len(t) : t[i] = s[i + 1]
  OBVIOUS
<1>2. ToSet(t) = {t[i] : i \in 1..Len(t)} /\ ToSet(t) \subseteq ToSet(s)
  <2>1. ToSet(t) = {t[i] : i \in 1..Len(t)}
    <3>1. t \in Seq(Messages)
      BY <1>1
    <3>. HIDE DEF t
    <3>. QED
      BY <3>1, Elements
  <2>2. ToSet(s) = {Head(s)} \cup ToSet(t)
    BY <1>1, TailElements
  <2>. QED
    BY <2>1, <2>2
<1>3. \A o \in Offer : Head(s) \in Ends(o) => Accepted(o) \notin ToSet(s)
  BY TailOrdered
<1>. HIDE DEF t
<1>. SUFFICES ASSUME NEW k \in 0..Len(t)
              PROVE  k + 1 \in 0..Len(s) /\ BookedIn(t, k, S1) \subseteq BookedIn(s, k + 1, S)
  BY DEF t
<1>4. k + 1 \in 0..Len(s) /\ k \in Nat
  BY <1>1
<1>5. /\ \A i \in 1..k : i \in 1..Len(t) /\ i + 1 \in 1..(k + 1)
      /\ 1 \in 1..(k + 1)
      /\ \A i \in 1..(k + 1) : i = 1 \/ (i - 1 \in 1..k /\ (i - 1) + 1 = i)
  BY <1>1
<1>6. ASSUME NEW o \in BookedIn(t, k, S1) PROVE o \in BookedIn(s, k + 1, S)
  <2>1. /\ o \in Offer /\ \A i \in 1..k : t[i] \notin Ends(o)
        /\ o \in S1 \/ \E i \in 1..k : t[i] = Accepted(o)
    BY <1>6 DEF BookedIn
  <2>2. CASE o \in S1
    <3>1. o \in S \/ s[1] = Accepted(o)
      BY <1>1, <2>1, <2>2
    <3>2. s[1] \notin Ends(o)
      BY <1>1, <2>1, <2>2
    <3>3. \A i \in 1..(k + 1) : s[i] \notin Ends(o)
      BY <1>1, <1>5, <2>1, <3>2
    <3>. QED
      BY <1>5, <2>1, <3>1, <3>3 DEF BookedIn
  <2>3. CASE \E i \in 1..k : t[i] = Accepted(o)
    <3>1. PICK i \in 1..k : t[i] = Accepted(o)
      BY <2>3
    <3>2. s[i + 1] = Accepted(o) /\ i + 1 \in 1..(k + 1)
      BY <1>1, <1>5, <3>1
    <3>3. s[1] \notin Ends(o)
      BY <1>1, <1>2, <1>3, <1>5, <2>1, <3>1
    <3>4. \A j \in 1..(k + 1) : s[j] \notin Ends(o)
      BY <1>1, <1>5, <2>1, <3>3
    <3>. QED
      BY <2>1, <3>2, <3>4 DEF BookedIn
  <2>. QED
    BY <2>1, <2>2, <2>3
<1>. QED
  BY <1>4, <1>6

\* What is put into the queue.
LEMMA ConcatOrdered ==
  ASSUME NEW s \in Seq(Messages), NEW t \in Seq(Messages), NEW S,
         Ordered(s, S), Ordered(t, S),
         \A o \in Offer : Accepted(o) \in ToSet(t) =>
           Accepted(o) \notin ToSet(s) /\ Ends(o) \cap ToSet(s) = {}
  PROVE  Ordered(s \o t, S)
<1>. DEFINE u == s \o t
<1>1. /\ u \in Seq(Messages) /\ Len(u) = Len(s) + Len(t) /\ Len(s) \in Nat /\ Len(t) \in Nat
      /\ \A i \in 1..Len(s) : u[i] = s[i]
      /\ \A i \in (Len(s) + 1)..Len(u) : u[i] = t[i - Len(s)]
  OBVIOUS
<1>. HIDE DEF u
<1>2. /\ \A i \in 1..Len(u) : i \in 1..Len(s) \/ i \in (Len(s) + 1)..Len(u)
      /\ \A i \in (Len(s) + 1)..Len(u) : i - Len(s) \in 1..Len(t)
  BY <1>1
<1>3. ToSet(s) = {s[i] : i \in 1..Len(s)} /\ ToSet(t) = {t[i] : i \in 1..Len(t)}
  BY Elements
<1>4. \A i \in 1..Len(s) : u[i] \in ToSet(s)
  BY <1>1, <1>3
<1>5. \A i \in (Len(s) + 1)..Len(u) : u[i] \in ToSet(t)
  BY <1>1, <1>2, <1>3
<1>. SUFFICES ASSUME NEW o \in Offer, NEW i \in 1..Len(u), u[i] = Accepted(o)
              PROVE  /\ o \notin S
                     /\ \A j \in 1..Len(u) : /\ u[j] = Accepted(o) => i = j
                                             /\ u[j] \in Ends(o) => i < j
  BY DEF Ordered, u
<1>6. CASE i \in 1..Len(s)
  <2>1. s[i] = Accepted(o) /\ Accepted(o) \notin ToSet(t)
    BY <1>1, <1>4, <1>6
  <2>2. o \notin S
    BY <1>6, <2>1 DEF Ordered
  <2>3. ASSUME NEW j \in 1..Len(u)
        PROVE  /\ u[j] = Accepted(o) => i = j
               /\ u[j] \in Ends(o) => i < j
    <3>1. CASE j \in 1..Len(s)
      <4>1. u[j] = s[j]
        BY <1>1, <3>1
      <4>. QED
        BY <1>6, <2>1, <3>1, <4>1 DEF Ordered
    <3>2. CASE j \in (Len(s) + 1)..Len(u)
      <4>1. i < j
        BY <1>1, <1>6, <3>2
      <4>2. u[j] # Accepted(o)
        BY <1>5, <2>1, <3>2
      <4>. QED
        BY <4>1, <4>2
    <3>. QED
      BY <1>2, <3>1, <3>2
  <2>. QED
    BY <2>2, <2>3
<1>7. CASE i \in (Len(s) + 1)..Len(u)
  <2>1. t[i - Len(s)] = Accepted(o) /\ i - Len(s) \in 1..Len(t)
    BY <1>1, <1>2, <1>7
  <2>2. o \notin S
    BY <2>1 DEF Ordered
  <2>3. Accepted(o) \notin ToSet(s) /\ Ends(o) \cap ToSet(s) = {}
    BY <1>3, <2>1
  <2>4. ASSUME NEW j \in 1..Len(u)
        PROVE  /\ u[j] = Accepted(o) => i = j
               /\ u[j] \in Ends(o) => i < j
    <3>1. CASE j \in 1..Len(s)
      BY <1>4, <2>3, <3>1
    <3>2. CASE j \in (Len(s) + 1)..Len(u)
      <4>1. u[j] = t[j - Len(s)] /\ j - Len(s) \in 1..Len(t)
        BY <1>1, <1>2, <3>2
      <4>2. /\ u[j] = Accepted(o) => i - Len(s) = j - Len(s)
            /\ u[j] \in Ends(o) => i - Len(s) < j - Len(s)
        BY <2>1, <4>1 DEF Ordered
      <4>. QED
        BY <1>1, <1>7, <3>2, <4>2
    <3>. QED
      BY <1>2, <3>1, <3>2
  <2>. QED
    BY <2>2, <2>4
<1>. QED
  BY <1>2, <1>6, <1>7

LEMMA ConcatBooked ==
  ASSUME NEW s \in Seq(Messages), NEW t \in Seq(Messages), NEW S
  PROVE  \A k \in 0..Len(s \o t) :
           \/ k \in 0..Len(s) /\ BookedIn(s \o t, k, S) = BookedIn(s, k, S)
           \/ /\ t # <<>>
              /\ \A o \in BookedIn(s \o t, k, S) :
                   /\ o \in BookedIn(s, Len(s), S) \/ Accepted(o) \in ToSet(t)
                   /\ t[1] \notin Ends(o)
<1>. DEFINE u == s \o t
<1>1. /\ u \in Seq(Messages) /\ Len(u) = Len(s) + Len(t) /\ Len(s) \in Nat /\ Len(t) \in Nat
      /\ \A i \in 1..Len(s) : u[i] = s[i]
      /\ \A i \in (Len(s) + 1)..Len(u) : u[i] = t[i - Len(s)]
  OBVIOUS
<1>. HIDE DEF u
<1>2. ToSet(t) = {t[i] : i \in 1..Len(t)}
  BY Elements
<1>. SUFFICES ASSUME NEW k \in 0..Len(u)
              PROVE  \/ k \in 0..Len(s) /\ BookedIn(u, k, S) = BookedIn(s, k, S)
                     \/ /\ t # <<>>
                        /\ \A o \in BookedIn(u, k, S) :
                             /\ o \in BookedIn(s, Len(s), S) \/ Accepted(o) \in ToSet(t)
                             /\ t[1] \notin Ends(o)
  BY DEF u
<1>3. CASE k \in 0..Len(s)
  <2>1. \A i \in 1..k : u[i] = s[i]
    BY <1>1, <1>3
  <2>2. \A o \in Offer : o \in BookedIn(u, k, S) <=> o \in BookedIn(s, k, S)
    BY <2>1 DEF BookedIn
  <2>3. BookedIn(u, k, S) \subseteq Offer /\ BookedIn(s, k, S) \subseteq Offer
    BY DEF BookedIn
  <2>. QED
    BY <1>3, <2>2, <2>3
<1>4. CASE k \notin 0..Len(s)
  <2>1. /\ k \in (Len(s) + 1)..Len(u) /\ Len(t) > 0 /\ Len(s) + 1 \in 1..k
        /\ Len(s) + 1 \in (Len(s) + 1)..Len(u) /\ (Len(s) + 1) - Len(s) = 1
    BY <1>1, <1>4
  <2>2. u[Len(s) + 1] = t[1] /\ t # <<>>
    <3>1. u[Len(s) + 1] = t[(Len(s) + 1) - Len(s)]
      BY <1>1, <2>1
    <3>2. t # <<>>
      BY <2>1
    <3>. QED
      BY <2>1, <3>1, <3>2
  <2>3. \A i \in 1..Len(s) : i \in 1..k
    BY <1>1, <2>1
  <2>4. \A i \in 1..k : i \in 1..Len(s) \/ u[i] \in ToSet(t)
    <3>. TAKE i \in 1..k
    <3>1. CASE i \notin 1..Len(s)
      <4>1. i \in (Len(s) + 1)..Len(u) /\ i - Len(s) \in 1..Len(t)
        BY <1>1, <2>1, <3>1
      <4>. QED
        BY <1>1, <1>2, <4>1
    <3>. QED
      BY <3>1
  <2>5. ASSUME NEW o \in BookedIn(u, k, S)
        PROVE  /\ o \in BookedIn(s, Len(s), S) \/ Accepted(o) \in ToSet(t)
               /\ t[1] \notin Ends(o)
    <3>1. /\ o \in Offer /\ \A i \in 1..k : u[i] \notin Ends(o)
          /\ o \in S \/ \E i \in 1..k : u[i] = Accepted(o)
      BY <2>5 DEF BookedIn
    <3>2. \A i \in 1..Len(s) : s[i] \notin Ends(o)
      BY <1>1, <2>3, <3>1
    <3>3. \/ o \in S
          \/ \E i \in 1..Len(s) : s[i] = Accepted(o)
          \/ Accepted(o) \in ToSet(t)
      BY <1>1, <2>4, <3>1
    <3>4. t[1] \notin Ends(o)
      BY <2>1, <2>2, <3>1
    <3>. QED
      BY <3>1, <3>2, <3>3, <3>4 DEF BookedIn
  <2>. QED
    BY <2>2, <2>5
<1>. QED
  BY <1>3, <1>4

TasksOf(r) == {o \in tasks : maker[o] = r}

\* The broker has the task, or will hear that it is accepted.
Expected(o) == o \in tasks \/ \E r \in Runner : Accepted(o) \in ToSet(toBroker[r])

\* A task the broker reckons with is not being cancelled.
ExpectInv ==
  \A o \in Offer : Expected(o) =>
    /\ maker[o] \notin Launcher
    /\ status[o] # "aborting:cancelled"
    /\ Cancel(o) \notin ToSet(toRunner[maker[o]])

\* However many of the messages on their way the broker has handled, it has booked no
\* more tasks than there are slots; after all of them, only tasks that still run.
SlotFor(r) ==
  /\ Cardinality(RunningTasks(r)) <= Slots
  /\ \A k \in 0..Len(toBroker[r]) :
       Cardinality(BookedIn(toBroker[r], k, TasksOf(r))) <= Slots
  /\ link[r] = "open" =>
       BookedIn(toBroker[r], Len(toBroker[r]), TasksOf(r)) \subseteq RunningTasks(r)

BookInv ==
  /\ taskTimer \subseteq tasks
  /\ \A r \in Runner : Ordered(toBroker[r], tasks)
  /\ ExpectInv
  /\ \A r \in Runner \ Launcher : SlotFor(r)

LEMMA ExpectedMade ==
  ASSUME BrokerInv, NEW o \in Offer, Expected(o)
  PROVE  /\ maker[o] \in Runner /\ maker[o] # None /\ status[o] # "none"
         /\ o \in tasks \/ Accepted(o) \in ToSet(toBroker[maker[o]])
<1>1. CASE o \in tasks
  BY <1>1, BrokerAssumption DEF BrokerInv, MadeInv
<1>2. CASE o \notin tasks
  <2>1. PICK r \in Runner : Accepted(o) \in ToSet(toBroker[r])
    BY <1>2 DEF Expected
  <2>2. FromOK(Accepted(o), r, maker, handshake, status)
    BY <2>1 DEF BrokerInv, MessageInv
  <2>3. maker[o] = r /\ status[o] # "none"
    BY <2>2, AcceptedAndEnds DEF FromOK
  <2>. QED
    BY <2>1, <2>3, BrokerAssumption
<1>. QED
  BY <1>1, <1>2

LEMMA BookedExpected ==
  ASSUME BrokerInv, NEW r \in Runner, NEW k \in 0..Len(toBroker[r])
  PROVE  \A o \in BookedIn(toBroker[r], k, TasksOf(r)) : Expected(o)
<1>1. toBroker[r] \in Seq(Messages)
  BY DEF BrokerInv, TypeOK
<1>2. ToSet(toBroker[r]) = {toBroker[r][i] : i \in 1..Len(toBroker[r])}
  BY <1>1, Elements
<1>3. \A i \in 1..k : i \in 1..Len(toBroker[r])
  BY <1>1
<1>. QED
  BY <1>2, <1>3 DEF BookedIn, TasksOf, Expected

LEMMA ExpectKept ==
  ASSUME BrokerInv, BrokerInv', Ages, ExpectInv,
         \A o \in Offer : Expected(o)' =>
           /\ Expected(o)
           /\ status'[o] = "aborting:cancelled" => status[o] = "aborting:cancelled"
           /\ maker[o] \in Runner /\ Cancel(o) \in ToSet(toRunner'[maker[o]])
                => Cancel(o) \in ToSet(toRunner[maker[o]])
  PROVE  ExpectInv'
<1>1. \A o \in Offer : Expected(o)' => maker[o] \in Runner /\ maker'[o] = maker[o]
  BY ExpectedMade DEF Ages
<1>. QED
  BY <1>1 DEF ExpectInv

\* A runner's tasks are those it had, as long as none starts.
LEMMA RunningKept ==
  ASSUME BrokerInv, Ages,
         \A o \in Offer : status'[o] \in ActiveStatus => status[o] \in ActiveStatus
  PROVE  \A r : /\ RunningTasks(r)' \subseteq RunningTasks(r)
                /\ \A o \in RunningTasks(r) : status'[o] \in ActiveStatus => o \in RunningTasks(r)'
<1>1. \A o \in Offer : status[o] \in ActiveStatus => maker[o] # None
  <2>1. "none" \notin ActiveStatus
    BY DEF ActiveStatus
  <2>. QED
    BY <2>1, BrokerAssumption DEF BrokerInv, MadeInv
<1>2. \A o \in Offer : status[o] \in ActiveStatus => maker'[o] = maker[o]
  BY <1>1 DEF Ages
<1>. QED
  BY <1>2 DEF RunningTasks

LEMMA SmallerIsWithin ==
  ASSUME NEW S, NEW T, T \subseteq Offer, S \subseteq T, Cardinality(T) <= Slots
  PROVE  Cardinality(S) <= Slots
<1>1. IsFiniteSet(T) /\ Cardinality(T) \in Nat
  BY RunningTasksFinite
<1>2. Cardinality(S) <= Cardinality(T) /\ Cardinality(S) \in Nat
  BY <1>1, FS_Subset, FS_CardinalityType
<1>. QED
  BY <1>1, <1>2, BrokerAssumption

LEMMA SlotKept ==
  ASSUME NEW r \in Runner, SlotFor(r),
         RunningTasks(r)' \subseteq RunningTasks(r),
         \A k \in 0..Len(toBroker'[r]) : \E j \in 0..Len(toBroker[r]) :
           BookedIn(toBroker'[r], k, TasksOf(r)') \subseteq BookedIn(toBroker[r], j, TasksOf(r)),
         link'[r] = "open" =>
           BookedIn(toBroker'[r], Len(toBroker'[r]), TasksOf(r)') \subseteq RunningTasks(r)'
  PROVE  SlotFor(r)'
<1>1. Cardinality(RunningTasks(r)') <= Slots
  <2>1. RunningTasks(r) \subseteq Offer
    BY DEF RunningTasks
  <2>. QED
    BY <2>1, SmallerIsWithin DEF SlotFor
<1>2. ASSUME NEW k \in 0..Len(toBroker'[r])
      PROVE  Cardinality(BookedIn(toBroker'[r], k, TasksOf(r)')) <= Slots
  <2>1. PICK j \in 0..Len(toBroker[r]) :
          BookedIn(toBroker'[r], k, TasksOf(r)') \subseteq BookedIn(toBroker[r], j, TasksOf(r))
    OBVIOUS
  <2>2. BookedIn(toBroker[r], j, TasksOf(r)) \subseteq Offer
    BY DEF BookedIn
  <2>3. Cardinality(BookedIn(toBroker[r], j, TasksOf(r))) <= Slots
    BY DEF SlotFor
  <2>. QED
    BY <2>1, <2>2, <2>3, SmallerIsWithin
<1>. QED
  BY <1>1, <1>2 DEF SlotFor

LEMMA SlotQuiet ==
  ASSUME BrokerInv, NEW r \in Runner, SlotFor(r), toBroker'[r] = toBroker[r],
         TasksOf(r)' \subseteq TasksOf(r), RunningTasks(r)' \subseteq RunningTasks(r),
         link'[r] = "open" => link[r] = "open" /\ RunningTasks(r) \subseteq RunningTasks(r)'
  PROVE  SlotFor(r)'
<1>1. \A k : BookedIn(toBroker'[r], k, TasksOf(r)') \subseteq BookedIn(toBroker[r], k, TasksOf(r))
  BY DEF BookedIn
<1>2. toBroker[r] \in Seq(Messages)
  BY DEF BrokerInv, TypeOK
<1>. QED
  BY <1>1, <1>2, SlotKept DEF SlotFor

LEMMA SlotPopped ==
  ASSUME BrokerInv, NEW r \in Runner, SlotFor(r), Ordered(toBroker[r], tasks),
         toBroker[r] # <<>>, toBroker'[r] = Tail(toBroker[r]), link'[r] = link[r],
         RunningTasks(r)' = RunningTasks(r),
         \A o \in TasksOf(r)' :
           /\ o \in TasksOf(r) \/ Head(toBroker[r]) = Accepted(o)
           /\ Head(toBroker[r]) \notin Ends(o)
  PROVE  SlotFor(r)'
<1>. DEFINE s == toBroker[r]
<1>1. s \in Seq(Messages) /\ s # <<>>
  BY DEF BrokerInv, TypeOK
<1>2. Ordered(s, TasksOf(r))
  BY DEF Ordered, TasksOf
<1>3. \A k \in 0..Len(Tail(s)) :
        /\ k + 1 \in 0..Len(s)
        /\ BookedIn(Tail(s), k, TasksOf(r)') \subseteq BookedIn(s, k + 1, TasksOf(r))
  BY <1>1, <1>2, TailBooked
<1>4. Len(Tail(s)) \in 0..Len(Tail(s)) /\ Len(Tail(s)) + 1 = Len(s)
  BY <1>1
<1>5. link'[r] = "open" =>
        BookedIn(toBroker'[r], Len(toBroker'[r]), TasksOf(r)') \subseteq RunningTasks(r)'
  BY <1>3, <1>4 DEF SlotFor
<1>6. \A k \in 0..Len(toBroker'[r]) : \E j \in 0..Len(toBroker[r]) :
        BookedIn(toBroker'[r], k, TasksOf(r)') \subseteq BookedIn(toBroker[r], j, TasksOf(r))
  BY <1>3
<1>. QED
  BY <1>5, <1>6, SlotKept

\* What is sent says of every task that is over that it is, and of none that is not.
LEMMA SlotGrown ==
  ASSUME BrokerInv, NEW r \in Runner, SlotFor(r), NEW t \in Seq(Messages),
         toBroker'[r] = toBroker[r] \o t, link[r] = "open", TasksOf(r)' = TasksOf(r),
         Cardinality(RunningTasks(r)') <= Slots,
         \A o \in Offer : Accepted(o) \in ToSet(t) => o \in RunningTasks(r)',
         \A o \in RunningTasks(r) \ RunningTasks(r)' :
           (t # <<>> /\ t[1] \in Ends(o)) \/ ~Expected(o)
  PROVE  SlotFor(r)'
<1>. DEFINE s == toBroker[r]
            S == TasksOf(r)
<1>1. s \in Seq(Messages) /\ Len(s) \in Nat /\ Len(s) \in 0..Len(s)
  BY DEF BrokerInv, TypeOK
<1>2. /\ \A k \in 0..Len(s) : Cardinality(BookedIn(s, k, S)) <= Slots
      /\ BookedIn(s, Len(s), S) \subseteq RunningTasks(r)
  BY DEF SlotFor
<1>3. \A o \in BookedIn(s, Len(s), S) : Expected(o)
  BY <1>1, BookedExpected
<1>4. RunningTasks(r)' \subseteq Offer
  BY DEF RunningTasks
<1>5. \A k : BookedIn(s \o t, k, S) \subseteq Offer
  BY DEF BookedIn
<1>. HIDE DEF s, S
<1>6. \A k \in 0..Len(s \o t) :
           \/ k \in 0..Len(s) /\ BookedIn(s \o t, k, S) = BookedIn(s, k, S)
           \/ /\ t # <<>>
              /\ \A o \in BookedIn(s \o t, k, S) :
                   /\ o \in BookedIn(s, Len(s), S) \/ Accepted(o) \in ToSet(t)
                   /\ t[1] \notin Ends(o)
  BY <1>1, ConcatBooked
<1>7. ASSUME NEW k, \A o \in BookedIn(s \o t, k, S) :
                      /\ o \in BookedIn(s, Len(s), S) \/ Accepted(o) \in ToSet(t)
                      /\ t[1] \notin Ends(o)
      PROVE  BookedIn(s \o t, k, S) \subseteq RunningTasks(r)'
  BY <1>2, <1>3, <1>5, <1>7
<1>8. ASSUME NEW k \in 0..Len(s \o t)
      PROVE  Cardinality(BookedIn(s \o t, k, S)) <= Slots
  <2>1. CASE k \in 0..Len(s) /\ BookedIn(s \o t, k, S) = BookedIn(s, k, S)
    BY <1>2, <2>1
  <2>2. CASE BookedIn(s \o t, k, S) \subseteq RunningTasks(r)'
    BY <1>4, <2>2, SmallerIsWithin
  <2>. QED
    BY <1>6, <1>7, <2>1, <2>2
<1>9. BookedIn(s \o t, Len(s \o t), S) \subseteq RunningTasks(r)'
  <2>1. /\ Len(s \o t) = Len(s) + Len(t) /\ Len(t) \in Nat /\ (t = <<>> <=> Len(t) = 0)
        /\ Len(s \o t) \in 0..Len(s \o t)
    BY <1>1
  <2>2. CASE Len(s \o t) \in 0..Len(s) /\ BookedIn(s \o t, Len(s \o t), S) = BookedIn(s, Len(s \o t), S)
    <3>1. Len(s \o t) = Len(s) /\ t = <<>>
      BY <1>1, <2>1, <2>2
    <3>. QED
      BY <1>2, <1>3, <2>2, <3>1
  <2>. QED
    BY <1>6, <1>7, <2>1, <2>2
<1>. QED
  BY <1>8, <1>9 DEF SlotFor, s, S

-----------------------------------------------------------------------------
\* No runner says more than it has said, and the broker takes no task.
LEMMA QuietBooks ==
  ASSUME BrokerInv, BrokerInv', Ages, BookInv, tasks' \subseteq tasks, taskTimer' \subseteq tasks',
         \A r \in Runner :
           /\ link'[r] = "open" => link[r] = "open"
           /\ \/ toBroker'[r] = toBroker[r]
              \/ toBroker'[r] = <<>> /\ link'[r] # "open",
         \A o \in Offer :
           /\ status'[o] \in ActiveStatus => status[o] \in ActiveStatus
           /\ status[o] \in ActiveStatus /\ link'[maker[o]] = "open" => status'[o] \in ActiveStatus
           /\ Expected(o)' /\ status'[o] = "aborting:cancelled" => status[o] = "aborting:cancelled"
           /\ Expected(o)' /\ maker[o] \in Runner /\ Cancel(o) \in ToSet(toRunner'[maker[o]])
                => Cancel(o) \in ToSet(toRunner[maker[o]])
  PROVE  BookInv'
<1>1. \A r \in Runner : ToSet(toBroker'[r]) \subseteq ToSet(toBroker[r])
  BY FewElements
<1>2. \A o \in Offer : Expected(o)' => Expected(o)
  BY <1>1 DEF Expected
<1>3. ExpectInv'
  BY <1>2, ExpectKept DEF BookInv
<1>4. \A r \in Runner : Ordered(toBroker'[r], tasks')
  <2>. TAKE r \in Runner
  <2>1. CASE toBroker'[r] = toBroker[r]
    BY <2>1 DEF BookInv, Ordered
  <2>2. CASE toBroker'[r] = <<>>
    BY <2>2 DEF Ordered
  <2>. QED
    BY <2>1, <2>2
<1>5. \A r : /\ RunningTasks(r)' \subseteq RunningTasks(r)
             /\ \A o \in RunningTasks(r) : status'[o] \in ActiveStatus => o \in RunningTasks(r)'
  BY RunningKept
<1>6. \A o \in tasks' : o \in Offer /\ maker'[o] = maker[o]
  BY BrokerAssumption DEF BrokerInv, TypeOK, MadeInv, Ages
<1>7. ASSUME NEW r \in Runner \ Launcher PROVE SlotFor(r)'
  <2>1. SlotFor(r) /\ RunningTasks(r)' \subseteq RunningTasks(r)
        /\ TasksOf(r)' \subseteq TasksOf(r)
    BY <1>5, <1>6 DEF BookInv, TasksOf
  <2>2. link'[r] = "open" => link[r] = "open" /\ RunningTasks(r) \subseteq RunningTasks(r)'
    BY <1>5 DEF RunningTasks
  <2>3. CASE toBroker'[r] = toBroker[r]
    BY <2>1, <2>2, <2>3, SlotQuiet
  <2>4. CASE toBroker'[r] = <<>> /\ link'[r] # "open"
    <3>1. Len(toBroker[r]) \in Nat
      BY DEF BrokerInv, TypeOK
    <3>2. 0 \in 0..Len(toBroker[r])
      BY <3>1
    <3>3. Len(toBroker'[r]) = 0
      BY <2>4
    <3>4. BookedIn(toBroker'[r], 0, TasksOf(r)') \subseteq BookedIn(toBroker[r], 0, TasksOf(r))
      BY <2>1 DEF BookedIn
    <3>5. \A k \in 0..Len(toBroker'[r]) : k = 0
      BY <3>3
    <3>6. \A k \in 0..Len(toBroker'[r]) : \E j \in 0..Len(toBroker[r]) :
            BookedIn(toBroker'[r], k, TasksOf(r)') \subseteq BookedIn(toBroker[r], j, TasksOf(r))
      BY <3>2, <3>4, <3>5
    <3>. QED
      BY <2>1, <2>4, <3>6, SlotKept
  <2>. QED
    BY <2>3, <2>4
<1>. QED
  BY <1>3, <1>4, <1>7 DEF BookInv

\* The broker handles a message.
LEMMA PoppedBooks ==
  ASSUME BrokerInv, BrokerInv', Ages, BookInv, NEW r \in Runner, toBroker[r] # <<>>,
         PopFromRunner(r), UNCHANGED <<status, maker, link>>, taskTimer' \subseteq tasks',
         \A o \in tasks' : /\ o \in tasks \/ Head(toBroker[r]) = Accepted(o)
                           /\ Head(toBroker[r]) \notin Ends(o),
         \A o \in Offer :
           Expected(o)' /\ maker[o] \in Runner /\ Cancel(o) \in ToSet(toRunner'[maker[o]])
             => Cancel(o) \in ToSet(toRunner[maker[o]])
  PROVE  BookInv'
<1>1. TypeOK /\ MessageInv /\ toBroker[r] \in Seq(Messages)
  BY DEF BrokerInv, TypeOK
<1>2. /\ toBroker'[r] = Tail(toBroker[r])
      /\ \A x \in Runner : x # r => toBroker'[x] = toBroker[x]
      /\ \A x \in Runner : ToSet(toBroker'[x]) \subseteq ToSet(toBroker[x])
      /\ Head(toBroker[r]) \in ToSet(toBroker[r])
  BY <1>1, Popped DEF PopFromRunner, TypeOK
<1>3. \A o \in tasks' : o \in Offer
  BY DEF BrokerInv, TypeOK
<1>4. \A x \in Runner : \A o \in Offer : Accepted(o) \in ToSet(toBroker[x]) => maker[o] = x
  BY <1>1, AcceptedAndEnds DEF MessageInv, FromOK
<1>5. \A o \in Offer : Expected(o)' => Expected(o)
  BY <1>2 DEF Expected
<1>6. ExpectInv'
  BY <1>5, ExpectKept DEF BookInv
<1>7. ASSUME NEW x \in Runner, x # r
      PROVE  Ordered(toBroker'[x], tasks') /\ TasksOf(x)' \subseteq TasksOf(x)
  <2>1. \A o \in tasks' : o \in tasks \/ maker[o] = r
    BY <1>2, <1>3, <1>4
  <2>2. toBroker[x] \in Seq(Messages) /\ toBroker'[x] = toBroker[x]
    BY <1>2, <1>7 DEF BrokerInv, TypeOK
  <2>3. \A i \in 1..Len(toBroker[x]) : toBroker[x][i] \in ToSet(toBroker[x])
    BY <2>2, Elements
  <2>4. \A o \in Offer : \A i \in 1..Len(toBroker[x]) :
          toBroker[x][i] = Accepted(o) => maker[o] = x
    BY <1>4, <2>3
  <2>5. Ordered(toBroker[x], tasks)
    BY DEF BookInv
  <2>6. Ordered(toBroker[x], tasks')
    BY <1>7, <2>1, <2>4, <2>5 DEF Ordered
  <2>. QED
    BY <1>7, <2>1, <2>2, <2>6 DEF TasksOf
<1>8. Ordered(toBroker'[r], tasks')
  <2>1. Ordered(toBroker[r], tasks)
    BY DEF BookInv
  <2>2. \A o \in Offer : o \in tasks' => o \in tasks \/ Head(toBroker[r]) = Accepted(o)
    OBVIOUS
  <2>. QED
    BY <1>1, <1>2, <2>1, <2>2, TailOrdered
<1>9. ASSUME NEW x \in Runner \ Launcher PROVE SlotFor(x)'
  <2>1. SlotFor(x) /\ Ordered(toBroker[x], tasks) /\ RunningTasks(x)' = RunningTasks(x)
    BY DEF BookInv, RunningTasks
  <2>2. CASE x = r
    <3>1. \A o \in TasksOf(r)' : /\ o \in TasksOf(r) \/ Head(toBroker[r]) = Accepted(o)
                                 /\ Head(toBroker[r]) \notin Ends(o)
      BY DEF TasksOf
    <3>. QED
      BY <1>2, <2>1, <2>2, <3>1, SlotPopped
  <2>3. CASE x # r
    BY <1>2, <1>7, <2>1, <2>3, SlotQuiet
  <2>. QED
    BY <2>2, <2>3
<1>. QED
  BY <1>6, <1>7, <1>8, <1>9 DEF BookInv

\* A runner says something; if a task of it ends, it says so first, or the broker does
\* not reckon with the task.
LEMMA GrownBooks ==
  ASSUME BrokerInv, BrokerInv', Ages, BookInv, NEW r \in Runner, NEW t \in Seq(Messages),
         UNCHANGED <<tasks, taskTimer, link>>,
         toBroker'[r] = IF link[r] = "open" THEN toBroker[r] \o t ELSE toBroker[r],
         \A x \in Runner : x # r => toBroker'[x] = toBroker[x],
         \A x \in Runner : ToSet(toRunner'[x]) \subseteq ToSet(toRunner[x]),
         \A o \in Offer : Accepted(o) \notin ToSet(t),
         \A o \in Offer :
           \/ status'[o] = status[o]
           \/ /\ status'[o] \notin ActiveStatus /\ maker[o] = r
              /\ (t # <<>> /\ t[1] \in Ends(o)) \/ ~Expected(o)
  PROVE  BookInv'
<1>1. TypeOK /\ toBroker[r] \in Seq(Messages)
  BY DEF BrokerInv, TypeOK
<1>2. \A o \in Offer : \A x \in Runner :
        Accepted(o) \in ToSet(toBroker'[x]) => Accepted(o) \in ToSet(toBroker[x])
  BY <1>1, ConcatElements
<1>3. \A o \in Offer : Expected(o)' => Expected(o)
  BY <1>2 DEF Expected
<1>4. "aborting:cancelled" \in ActiveStatus
  BY DEF ActiveStatus
<1>5. ExpectInv'
  <2>1. \A o \in Offer : Expected(o)' =>
          /\ Expected(o)
          /\ status'[o] = "aborting:cancelled" => status[o] = "aborting:cancelled"
          /\ Cancel(o) \in ToSet(toRunner'[maker[o]]) => Cancel(o) \in ToSet(toRunner[maker[o]])
    <3>1. \A o \in Offer : Expected(o) => maker[o] \in Runner
      BY ExpectedMade
    <3>. QED
      BY <1>3, <1>4, <3>1
  <2>. QED
    BY <2>1, ExpectKept DEF BookInv
<1>6. \A x \in Runner : Ordered(toBroker[x], tasks)
  BY DEF BookInv
<1>7. Ordered(toBroker[r] \o t, tasks)
  <2>1. Ordered(t, tasks)
    <3>1. \A i \in 1..Len(t) : t[i] \in ToSet(t)
      BY Elements
    <3>. QED
      BY <3>1 DEF Ordered
  <2>. QED
    BY <1>1, <1>6, <2>1, ConcatOrdered
<1>8. \A x \in Runner : Ordered(toBroker'[x], tasks')
  BY <1>6, <1>7
<1>9. \A x : /\ RunningTasks(x)' \subseteq RunningTasks(x)
             /\ \A o \in RunningTasks(x) : status'[o] \in ActiveStatus => o \in RunningTasks(x)'
  BY RunningKept
<1>10. \A x : TasksOf(x)' = TasksOf(x)
  BY BrokerAssumption DEF TasksOf, BrokerInv, TypeOK, MadeInv, Ages
<1>11. ASSUME NEW x \in Runner \ Launcher PROVE SlotFor(x)'
  <2>1. SlotFor(x)
    BY DEF BookInv
  <2>2. CASE x # r
    <3>1. RunningTasks(x) \subseteq RunningTasks(x)'
      BY <1>9, <2>2 DEF RunningTasks
    <3>. QED
      BY <1>9, <1>10, <2>1, <2>2, <3>1, SlotQuiet
  <2>3. CASE x = r /\ link[r] # "open"
    <3>1. toBroker'[x] = toBroker[x] /\ link'[x] # "open"
      BY <2>3
    <3>. QED
      BY <1>9, <1>10, <2>1, <3>1, SlotQuiet
  <2>4. CASE x = r /\ link[r] = "open"
    <3>1. \A o \in RunningTasks(r) \ RunningTasks(r)' :
            (t # <<>> /\ t[1] \in Ends(o)) \/ ~Expected(o)
      BY <1>9 DEF RunningTasks
    <3>2. Cardinality(RunningTasks(r)') <= Slots
      <4>1. Cardinality(RunningTasks(r)) <= Slots /\ RunningTasks(r) \subseteq Offer
        BY <2>1, <2>4 DEF SlotFor, RunningTasks
      <4>. QED
        BY <1>9, <4>1, SmallerIsWithin
    <3>. QED
      BY <1>10, <2>1, <2>4, <3>1, <3>2, SlotGrown
  <2>. QED
    BY <2>2, <2>3, <2>4
<1>. QED
  BY <1>5, <1>8, <1>11 DEF BookInv

-----------------------------------------------------------------------------
LEMMA InitBook == Init => BookInv
<1>. SUFFICES ASSUME Init PROVE BookInv
  OBVIOUS
<1>1. \A r \in Runner : toBroker[r] = <<>> /\ RunningTasks(r) = {} /\ TasksOf(r) = {}
  BY DEF Init, RunningTasks, ActiveStatus, TasksOf
<1>2. \A o \in Offer : ~Expected(o)
  BY <1>1, FewElements DEF Init, Expected
<1>3. Cardinality({}) = 0 /\ Slots \in Nat
  BY FS_EmptySet, BrokerAssumption
<1>4. ASSUME NEW r \in Runner PROVE SlotFor(r) /\ Ordered(toBroker[r], tasks)
  <2>1. \A k \in 0..0 : BookedIn(<<>>, k, {}) = {}
    BY DEF BookedIn
  <2>2. Len(<<>>) = 0 /\ link[r] # "open"
    BY DEF Init
  <2>3. Ordered(<<>>, tasks)
    BY <2>2 DEF Ordered
  <2>4. \A k \in 0..0 : Cardinality(BookedIn(<<>>, k, {})) <= Slots
    <3>. SUFFICES ASSUME NEW k \in 0..0 PROVE Cardinality(BookedIn(<<>>, k, {})) <= Slots
      OBVIOUS
    <3>1. BookedIn(<<>>, k, {}) = {}
      BY <2>1
    <3>. QED
      BY <1>3, <3>1
  <2>5. 0 <= Slots
    BY <1>3
  <2>6. \A k \in 0..Len(toBroker[r]) : Cardinality(BookedIn(toBroker[r], k, TasksOf(r))) <= Slots
    BY <1>1, <2>2, <2>4
  <2>. QED
    BY <1>1, <1>3, <2>2, <2>3, <2>5, <2>6 DEF SlotFor
<1>. QED
  BY <1>2, <1>4 DEF BookInv, ExpectInv, Init

\* What the broker sends without cancelling a task.
LEMMA SentNoCancel ==
  ASSUME TypeOK, NEW r \in Runner, NEW type \in {"runnerregistered", "close", "tasksettings"},
         NEW o, Message(type, o) \in Messages, Send(r, <<Message(type, o)>>), NEW x \in Offer
  PROVE  \A y \in Runner : Cancel(x) \in ToSet(toRunner'[y]) => Cancel(x) \in ToSet(toRunner[y])
<1>1. /\ <<Message(type, o)>> \in Seq(Messages)
      /\ ToSet(<<Message(type, o)>>) = {Message(type, o)}
  BY FewElements
<1>2. Cancel(x) # Message(type, o)
  BY MessageTypes DEF Cancel
<1>. QED
  BY <1>1, <1>2, Sent

\* A task the broker has is accepted already.
LEMMA NotExpected ==
  ASSUME BrokerInv, BookInv, NEW o \in tasks
  PROVE  \A r \in Runner : Accepted(o) \notin ToSet(toBroker[r])
<1>. SUFFICES ASSUME NEW r \in Runner, Accepted(o) \in ToSet(toBroker[r]) PROVE FALSE
  OBVIOUS
<1>1. toBroker[r] \in Seq(Messages) /\ o \in Offer
  BY DEF BrokerInv, TypeOK
<1>2. PICK i \in 1..Len(toBroker[r]) : toBroker[r][i] = Accepted(o)
  BY <1>1, Elements
<1>. QED
  BY <1>1, <1>2 DEF BookInv, Ordered

\* The broker drops a task and may cancel it.
LEMMA DroppedBooks ==
  ASSUME BrokerInv, BrokerInv', Ages, BookInv, NEW o \in Offer, maker[o] \in Runner,
         tasks' = tasks \ {o}, taskTimer' = taskTimer \ {o},
         UNCHANGED <<status, link, toBroker>>,
         NEW ms, ms = <<>> \/ (ms = <<Cancel(o)>> /\ o \in tasks), Send(maker[o], ms)
  PROVE  BookInv'
<1>1. /\ ms \in Seq(Messages) /\ ToSet(ms) \subseteq {Cancel(o)}
      /\ o \notin tasks => ToSet(ms) = {}
  <2>1. <<>> \in Seq(Messages) /\ ToSet(<<>>) = {}
    BY FewElements
  <2>2. <<Cancel(o)>> \in Seq(Messages) /\ ToSet(<<Cancel(o)>>) = {Cancel(o)}
    BY SettingsAndCancel, FewElements
  <2>. QED
    BY <2>1, <2>2
<1>2. /\ \A x \in Runner : ToSet(toRunner'[x]) \subseteq ToSet(toRunner[x]) \cup ToSet(ms)
  BY <1>1, Sent DEF BrokerInv
<1>3. o \in tasks => ~Expected(o)'
  BY NotExpected DEF Expected
<1>4. \A x \in Offer : Cancel(x) = Cancel(o) => x = o
  BY MessageTypes DEF Cancel
<1>5. \A x \in Offer : Expected(x)' /\ maker[x] \in Runner
                        /\ Cancel(x) \in ToSet(toRunner'[maker[x]])
        => Cancel(x) \in ToSet(toRunner[maker[x]])
  BY <1>1, <1>2, <1>3, <1>4
<1>6. tasks' \subseteq tasks /\ taskTimer' \subseteq tasks'
  BY DEF BookInv
<1>. QED
  BY <1>5, <1>6, QuietBooks

LEMMA CancelTaskBooks ==
  ASSUME BrokerInv, BrokerInv', Ages, BookInv, NEW o \in Offer, CancelTask(o)
  PROVE  BookInv'
<1>. DEFINE ms == IF o \in tasks THEN <<Cancel(o)>> ELSE <<>>
<1>1. /\ Send(maker[o], ms) /\ tasks' = tasks \ {o} /\ taskTimer' = taskTimer \ {o}
      /\ UNCHANGED <<status, link, toBroker>>
  BY DEF CancelTask, Cancel
<1>2. maker[o] \in Runner
  BY TasksTaken DEF CancelTask
<1>3. ms = <<>> \/ (ms = <<Cancel(o)>> /\ o \in tasks)
  OBVIOUS
<1>. HIDE DEF ms
<1>. QED
  BY <1>1, <1>2, <1>3, DroppedBooks

LEMMA TaskTimeoutBooks ==
  ASSUME BrokerInv, BrokerInv', Ages, BookInv, NEW o \in Offer, TaskTimeout(o)
  PROVE  BookInv'
<1>. DEFINE ms == IF Mode = "external" THEN <<Cancel(o)>> ELSE <<>>
<1>1. /\ Send(maker[o], ms) /\ tasks' = tasks \ {o} /\ taskTimer' = taskTimer \ {o}
      /\ UNCHANGED <<status, link, toBroker>>
  BY DEF TaskTimeout, Cancel
<1>2. maker[o] \in Runner /\ o \in tasks
  BY DEF TaskTimeout, BrokerInv, MadeInv, BookInv
<1>3. ms = <<>> \/ (ms = <<Cancel(o)>> /\ o \in tasks)
  BY <1>2
<1>. HIDE DEF ms
<1>. QED
  BY <1>1, <1>2, <1>3, DroppedBooks

\* Matching changes nothing of it.
LEMMA SettlesNoCancel ==
  ASSUME TypeOK, NEW requests, NEW offered, NEW T, NEW pick, NEW accepts,
         Settles(requests, offered, T, pick, accepts)
  PROVE  \A o \in Offer : \A r \in Runner :
           Cancel(o) \in ToSet(toRunner'[r]) => Cancel(o) \in ToSet(toRunner[r])
<1>. SUFFICES ASSUME NEW o \in Offer, NEW r \in Runner, Cancel(o) \in ToSet(toRunner'[r])
              PROVE  Cancel(o) \in ToSet(toRunner[r])
  OBVIOUS
<1>1. /\ accepts[r] \in Seq(Messages) /\ toRunner'[r] = toRunner[r] \o accepts[r]
      /\ \A m \in ToSet(accepts[r]) : m.type = "taskofferaccept"
  BY DEF Settles
<1>2. toRunner[r] \in Seq(Messages)
  BY DEF TypeOK
<1>3. Cancel(o).type # "taskofferaccept"
  BY MessageTypes DEF Cancel
<1>. QED
  BY <1>1, <1>2, <1>3, ConcatElements

LEMMA RegisterRunnerBooks ==
  ASSUME BrokerInv, BrokerInv', Ages, BookInv, NEW r \in Runner, RegisterRunner(r)
  PROVE  BookInv'
<1>1. /\ toBroker[r] # <<>> /\ Head(toBroker[r]).type = "info" /\ PopFromRunner(r)
      /\ Send(r, <<Signal("runnerregistered")>>)
      /\ UNCHANGED <<status, maker, link, tasks, taskTimer>>
  BY DEF RegisterRunner, Takes
<1>2. \A o : Head(toBroker[r]) \notin Ends(o)
  BY <1>1, AcceptedAndEnds DEF Ending
<1>3. \A o \in Offer : \A x \in Runner :
        Cancel(o) \in ToSet(toRunner'[x]) => Cancel(o) \in ToSet(toRunner[x])
  BY <1>1, Signals, SentNoCancel DEF BrokerInv, Signal
<1>. QED
  BY <1>1, <1>2, <1>3, PoppedBooks DEF BookInv

LEMMA TaskOfferedBooks ==
  ASSUME BrokerInv, BrokerInv', Ages, BookInv, NEW r \in Runner, TaskOffered(r)
  PROVE  BookInv'
<1>1. /\ toBroker[r] # <<>> /\ Head(toBroker[r]).type = "taskoffer" /\ PopFromRunner(r)
      /\ UNCHANGED <<status, maker, link, tasks, taskTimer>>
  BY DEF TaskOffered, FromRunner, Takes
<1>2. \A o : Head(toBroker[r]) \notin Ends(o)
  BY <1>1, AcceptedAndEnds DEF Ending
<1>3. \A o \in Offer : \A x \in Runner :
        Cancel(o) \in ToSet(toRunner'[x]) => Cancel(o) \in ToSet(toRunner[x])
  BY TaskOfferedSettles, SettlesNoCancel DEF BrokerInv
<1>. QED
  BY <1>1, <1>2, <1>3, PoppedBooks DEF BookInv

\* The answers that leave the tasks alone.
LEMMA NoTaskTakenBooks ==
  ASSUME BrokerInv, BrokerInv', Ages, BookInv, NEW r \in Runner,
         AnswersTooLate(r) \/ TaskRejected(r) \/ TaskDeferred(r)
  PROVE  BookInv'
<1>1. /\ PopFromRunner(r) /\ UNCHANGED <<status, maker, link, tasks, taskTimer, toRunner>>
      /\ toBroker[r] # <<>> /\ Head(toBroker[r]).type \notin Ending
  BY DEF AnswersTooLate, TaskRejected, TaskDeferred, Decides, FromRunner, Takes, Ending
<1>2. \A o : Head(toBroker[r]) \notin Ends(o)
  BY <1>1, AcceptedAndEnds
<1>. QED
  BY <1>1, <1>2, PoppedBooks DEF BookInv

LEMMA TaskEndedBooks ==
  ASSUME BrokerInv, BrokerInv', Ages, BookInv, NEW r \in Runner, TaskEnded(r)
  PROVE  BookInv'
<1>. DEFINE e == Head(toBroker[r]).offer
<1>1. /\ toBroker[r] # <<>> /\ PopFromRunner(r)
      /\ tasks' = tasks \ {e} /\ taskTimer' = taskTimer \ {e}
      /\ UNCHANGED <<status, maker, link, toRunner>>
  BY DEF TaskEnded, FromRunner, Takes
<1>2. \A o : Head(toBroker[r]) \in Ends(o) => o = e
  BY AcceptedAndEnds
<1>. HIDE DEF e
<1>3. taskTimer' \subseteq tasks'
  BY <1>1 DEF BookInv
<1>. QED
  BY <1>1, <1>2, <1>3, PoppedBooks

LEMMA TaskAcceptedBooks ==
  ASSUME BrokerInv, BrokerInv', Ages, BookInv, NEW r \in Runner, TaskAccepted(r)
  PROVE  BookInv'
<1>1. TypeOK /\ MessageInv
  BY DEF BrokerInv
<1>2. PICK o \in Offer : /\ Decides(r, "taskaccepted", o)
                         /\ TaskSettled(r, o) \/ TaskRefused(r, o) \/ TaskOrphaned(o)
                         /\ UNCHANGED <<runnerVars, link>>
  BY DEF TaskAccepted
<1>3. /\ toBroker[r] # <<>> /\ PopFromRunner(r) /\ toBroker[r] \in Seq(Messages)
      /\ Head(toBroker[r]).type = "taskaccepted" /\ Head(toBroker[r]).offer = o
      /\ FromRunner(r, "taskaccepted")
  BY <1>1, <1>2 DEF Decides, FromRunner, Takes, TypeOK
<1>4. Head(toBroker[r]) = Accepted(o) /\ Head(toBroker[r]) \in ToSet(toBroker[r])
      /\ maker[o] = r
  <2>1. Head(toBroker[r]) \in Messages /\ Head(toBroker[r]) \in ToSet(toBroker[r])
    BY <1>1, <1>3, Popped
  <2>2. FromOK(Head(toBroker[r]), r, maker, handshake, status)
    BY <1>1, <1>3, Received
  <2>. QED
    BY <1>3, <2>1, <2>2, MessageTypes DEF Accepted, FromOK
<1>5. \A x : Head(toBroker[r]) \notin Ends(x)
  BY <1>4, AcceptedAndEnds
<1>6. CASE TaskSettled(r, o)
  <2>1. /\ tasks' = tasks \cup {o} /\ taskTimer' = taskTimer \cup {o}
        /\ Send(r, <<Message("tasksettings", o)>>)
    BY <1>6 DEF TaskSettled
  <2>2. Message("tasksettings", o) \in Messages
    BY MessageTypes DEF MessageType
  <2>3. \A x \in Offer : \A y \in Runner :
          Cancel(x) \in ToSet(toRunner'[y]) => Cancel(x) \in ToSet(toRunner[y])
    BY <1>1, <2>1, <2>2, SentNoCancel
  <2>4. taskTimer' \subseteq tasks'
    BY <2>1 DEF BookInv
  <2>. QED
    BY <1>2, <1>3, <1>4, <1>5, <2>1, <2>3, <2>4, PoppedBooks
<1>7. CASE TaskRefused(r, o)
  <2>1. /\ tasks' = tasks /\ taskTimer' = taskTimer /\ Send(r, <<Cancel(o)>>)
    BY <1>7 DEF TaskRefused, Cancel
  <2>2. \A y \in Runner : ToSet(toRunner'[y]) \subseteq ToSet(toRunner[y]) \cup {Cancel(o)}
    BY <1>1, <2>1, SettingsAndCancel, FewElements, Sent
  <2>3. \A x \in Offer : Cancel(x) = Cancel(o) => x = o
    BY MessageTypes DEF Cancel
\* Nothing else says that the task was accepted.
  <2>4. ~Expected(o)'
    <3>1. Ordered(toBroker[r], tasks)
      BY DEF BookInv
    <3>2. o \notin tasks /\ Accepted(o) \notin ToSet(Tail(toBroker[r]))
      BY <1>3, <1>4, <3>1, TailOrdered
    <3>3. \A x \in Runner : Accepted(o) \in ToSet(toBroker[x]) => x = r
      BY <1>1, <1>4, AcceptedAndEnds DEF MessageInv, FromOK
    <3>4. /\ toBroker'[r] = Tail(toBroker[r])
          /\ \A x \in Runner : x # r => toBroker'[x] = toBroker[x]
      BY <1>1, <1>3 DEF PopFromRunner, TypeOK
    <3>. QED
      BY <2>1, <3>2, <3>3, <3>4 DEF Expected
  <2>5. \A x \in Offer : Expected(x)' /\ maker[x] \in Runner
                          /\ Cancel(x) \in ToSet(toRunner'[maker[x]])
          => Cancel(x) \in ToSet(toRunner[maker[x]])
    BY <2>2, <2>3, <2>4
  <2>. QED
    BY <1>2, <1>3, <1>5, <2>1, <2>5, PoppedBooks DEF BookInv
<1>8. CASE TaskOrphaned(o)
  <2>1. /\ tasks' = tasks \cup {o} /\ UNCHANGED <<taskTimer, toRunner>>
    BY <1>8 DEF TaskOrphaned
  <2>. QED
    BY <1>2, <1>3, <1>4, <1>5, <2>1, PoppedBooks DEF BookInv
<1>. QED
  BY <1>2, <1>6, <1>7, <1>8

-----------------------------------------------------------------------------
LEMMA RemoveConnectionBooks ==
  ASSUME BrokerInv, BrokerInv', Ages, BookInv, NEW r \in Runner, RemoveConnection(r)
  PROVE  BookInv'
<1>1. TypeOK
  BY DEF BrokerInv
<1>. DEFINE failed == {o \in tasks : maker[o] = r}
<1>2. /\ tasks' = tasks \ failed /\ taskTimer' = taskTimer \ failed
      /\ Send(r, <<Signal("close")>>) /\ UNCHANGED <<status, maker>>
  BY DEF RemoveConnection
<1>3. /\ toBroker'[r] = <<>> /\ link'[r] # "open"
      /\ \A x \in Runner : x # r => toBroker'[x] = toBroker[x] /\ link'[x] = link[x]
  BY <1>1 DEF RemoveConnection, TypeOK
<1>4. \A o \in Offer : \A x \in Runner :
        Cancel(o) \in ToSet(toRunner'[x]) => Cancel(o) \in ToSet(toRunner[x])
  BY <1>1, <1>2, Signals, SentNoCancel DEF Signal
<1>5. tasks' \subseteq tasks /\ taskTimer' \subseteq tasks'
  BY <1>2 DEF BookInv
<1>6. \A x \in Runner : /\ link'[x] = "open" => link[x] = "open"
                        /\ \/ toBroker'[x] = toBroker[x]
                           \/ toBroker'[x] = <<>> /\ link'[x] # "open"
  BY <1>3
<1>. HIDE DEF failed
<1>. QED
  BY <1>2, <1>4, <1>5, <1>6, QuietBooks

LEMMA ConnectBooks ==
  ASSUME BrokerInv, BrokerInv', ConnectInv, Ages, BookInv, NEW r \in Runner, Connect(r)
  PROVE  BookInv'
<1>. DEFINE s == <<Signal("info")>>
<1>1. /\ UNCHANGED <<tasks, taskTimer, status, maker, toRunner>>
      /\ toBroker'[r] = s /\ link[r] = "none"
      /\ \A x \in Runner : x # r => toBroker'[x] = toBroker[x] /\ link'[x] = link[x]
  BY DEF Connect, BrokerInv, TypeOK
<1>2. \A o \in Offer : maker[o] # r
  BY <1>1 DEF ConnectInv
<1>3. /\ s \in Seq(Messages) /\ ToSet(s) = {Signal("info")} /\ Signal("info").type = "info"
      /\ \A i \in 1..Len(s) : s[i] \in ToSet(s)
  <2>1. Signal("info") \in Messages /\ Signal("info").type = "info"
    BY MessageTypes DEF MessageType
  <2>2. s \in Seq(Messages) /\ ToSet(s) = {Signal("info")}
    BY <2>1, FewElements
  <2>. HIDE DEF s
  <2>3. ToSet(s) = {s[i] : i \in 1..Len(s)}
    BY <2>2, Elements
  <2>4. \A i \in 1..Len(s) : s[i] \in ToSet(s)
    BY <2>3
  <2>. QED
    BY <2>1, <2>2, <2>4
<1>. HIDE DEF s
<1>4. \A o \in Offer : Accepted(o) \notin ToSet(s)
  BY <1>3, AcceptedAndEnds
<1>5. ExpectInv'
  <2>1. \A o \in Offer : Expected(o)' => Expected(o)
    BY <1>1, <1>4 DEF Expected
  <2>. QED
    BY <1>1, <2>1, ExpectKept DEF BookInv
<1>6. \A x \in Runner : Ordered(toBroker'[x], tasks')
  <2>1. Ordered(s, tasks)
    BY <1>3, <1>4 DEF Ordered
  <2>. QED
    BY <1>1, <2>1 DEF BookInv
<1>7. ASSUME NEW x \in Runner \ Launcher PROVE SlotFor(x)'
  <2>1. SlotFor(x) /\ RunningTasks(x)' = RunningTasks(x) /\ TasksOf(x)' = TasksOf(x)
    BY <1>1 DEF BookInv, RunningTasks, TasksOf
  <2>2. CASE x # r
    BY <1>1, <2>1, <2>2, SlotQuiet
  <2>3. CASE x = r
    <3>1. TasksOf(r) = {}
      BY <1>2 DEF TasksOf, BrokerInv, TypeOK
    <3>2. \A k \in 0..Len(s) : BookedIn(s, k, {}) = {}
      <4>1. Len(s) \in Nat
        BY <1>3
      <4>2. \A k \in 0..Len(s) : \A i \in 1..k : i \in 1..Len(s)
        BY <4>1
      <4>. QED
        BY <1>3, <1>4, <4>2 DEF BookedIn
    <3>3. Len(s) \in 0..Len(s) /\ 0 \in 0..Len(toBroker[r])
      BY <1>3 DEF BrokerInv, TypeOK
    <3>4. BookedIn(s, Len(s), {}) = {}
      BY <3>2, <3>3
    <3>5. \A k \in 0..Len(toBroker'[x]) : \E j \in 0..Len(toBroker[x]) :
            BookedIn(toBroker'[x], k, TasksOf(x)') \subseteq BookedIn(toBroker[x], j, TasksOf(x))
      BY <1>1, <2>1, <2>3, <3>1, <3>2, <3>3
    <3>. QED
      BY <1>1, <2>1, <2>3, <3>1, <3>4, <3>5, SlotKept
  <2>. QED
    BY <2>2, <2>3
<1>. QED
  BY <1>1, <1>5, <1>6, <1>7 DEF BookInv

LEMMA CrashBooks ==
  ASSUME BrokerInv, BrokerInv', Ages, BookInv, NEW r \in Runner, Crash(r)
  PROVE  BookInv'
<1>1. TypeOK
  BY DEF BrokerInv
<1>2. /\ link'[r] # "open" /\ toRunner'[r] = <<>>
      /\ \A x \in Runner : x # r => link'[x] = link[x] /\ toRunner'[x] = toRunner[x]
      /\ UNCHANGED <<tasks, taskTimer, toBroker>>
  BY <1>1 DEF Crash, TypeOK
<1>3. \A o \in Offer :
        /\ status'[o] = status[o] \/ (maker[o] = r /\ status'[o] \in {"dropped", "ended"})
  BY DEF Crash, RunningTasks
<1>4. \A x \in Runner : ToSet(toRunner'[x]) \subseteq ToSet(toRunner[x])
  BY <1>2, FewElements
<1>5. {"dropped", "ended"} \cap ActiveStatus = {} /\ "aborting:cancelled" \in ActiveStatus
  BY DEF ActiveStatus
<1>6. \A x \in Runner : /\ link'[x] = "open" => link[x] = "open"
                        /\ toBroker'[x] = toBroker[x]
  BY <1>2
<1>7. \A o \in Offer :
        /\ status'[o] \in ActiveStatus => status[o] \in ActiveStatus
        /\ status[o] \in ActiveStatus /\ link'[maker[o]] = "open" => status'[o] \in ActiveStatus
        /\ status'[o] = "aborting:cancelled" => status[o] = "aborting:cancelled"
  BY <1>2, <1>3, <1>5
<1>. QED
  BY <1>2, <1>4, <1>6, <1>7, QuietBooks DEF BookInv

LEMMA StartDrainingBooks ==
  ASSUME BrokerInv, BrokerInv', Ages, BookInv, StartDraining
  PROVE  BookInv'
<1>1. /\ UNCHANGED <<tasks, taskTimer, status, link, toBroker>>
      /\ toRunner' = [r \in Runner |-> IF r \in knownRunners /\ link[r] = "open"
                                       THEN Append(toRunner[r], Signal("drain"))
                                       ELSE toRunner[r]]
  BY DEF StartDraining
<1>2. \A o \in Offer : \A x \in Runner :
        Cancel(o) \in ToSet(toRunner'[x]) => Cancel(o) \in ToSet(toRunner[x])
  <2>. TAKE o \in Offer
  <2>. TAKE x \in Runner
  <2>1. toRunner[x] \in Seq(Messages) /\ Signal("drain") \in Messages
    BY Signals DEF BrokerInv, TypeOK
  <2>2. ToSet(Append(toRunner[x], Signal("drain"))) = ToSet(toRunner[x]) \cup {Signal("drain")}
    BY <2>1, AppendElements
  <2>3. Cancel(o) # Signal("drain")
    BY MessageTypes DEF Cancel
  <2>. QED
    BY <1>1, <2>2, <2>3
<1>. QED
  BY <1>1, <1>2, QuietBooks DEF BookInv

\* A task in a runner goes on: if it is being cancelled, the broker has said so.
LEMMA GoesOnBooks ==
  ASSUME BrokerInv, BrokerInv', Ages, BookInv, NEW o \in Offer, NEW s, GoesOn(o, s),
         s = "aborting:cancelled" => s = status[o] \/ ~Expected(o)
  PROVE  BookInv'
<1>1. /\ \A x \in Offer : x # o => status'[x] = status[x]
      /\ status'[o] = s
      /\ s = status[o] \/ {s, status[o]} \subseteq ActiveStatus
      /\ UNCHANGED <<tasks, taskTimer, link, toBroker, maker>>
      /\ \A x \in Runner : ToSet(toRunner'[x]) \subseteq ToSet(toRunner[x])
  BY DEF GoesOn, BrokerInv, TypeOK
<1>2. \A x \in Offer : Expected(x)' = Expected(x)
  BY <1>1 DEF Expected
<1>3. \A x \in Offer :
        /\ status'[x] \in ActiveStatus <=> status[x] \in ActiveStatus
        /\ Expected(x)' /\ status'[x] = "aborting:cancelled" => status[x] = "aborting:cancelled"
  BY <1>1, <1>2
<1>. QED
  BY <1>1, <1>3, QuietBooks DEF BookInv

\* New offers are about no task.
LEMMA OffersAreNew ==
  ASSUME NEW r, NEW ms \in Seq(Messages), NEW n, Offers(r, ms, n), TypeOK,
         \A o \in Offer : Accepted(o) \notin ToSet(ms)
  PROVE  \E t \in Seq(Messages) :
           /\ toBroker'[r] = IF link[r] = "open" THEN toBroker[r] \o t ELSE toBroker[r]
           /\ \A o \in Offer : Accepted(o) \notin ToSet(t)
           /\ ms # <<>> => t # <<>> /\ t[1] = ms[1]
<1>. DEFINE new == [i \in 1..n |-> Message("taskoffer", made + i)]
            t == ms \o new
<1>1. n \in Nat /\ made \in Nat /\ made + n <= MaxOffers /\ MaxOffers \in Nat
  BY BrokerAssumption DEF Offers, TypeOK
<1>2. \A i \in 1..n : /\ Message("taskoffer", made + i) \in Messages
                      /\ Message("taskoffer", made + i).type = "taskoffer"
  <2>1. \A i \in 1..n : made + i \in Offer
    BY <1>1 DEF Offer
  <2>. QED
    BY <2>1, MessageTypes DEF MessageType
<1>3. new \in Seq(Messages) /\ Len(new) = n
  <2>1. \A i \in 1..n : Message("taskoffer", made + i) \in Messages
    BY <1>2
  <2>. QED
    BY <1>1, <2>1
<1>4. \A i \in 1..n : new[i] = Message("taskoffer", made + i)
  OBVIOUS
<1>5. toBroker'[r] = IF link[r] = "open" THEN toBroker[r] \o t ELSE toBroker[r]
  BY DEF Offers
<1>. HIDE DEF new
<1>6. t \in Seq(Messages) /\ ToSet(t) = ToSet(ms) \cup ToSet(new)
  BY <1>3, ConcatElements
<1>7. \A o \in Offer : Accepted(o) \notin ToSet(new)
  <2>1. ToSet(new) = {new[i] : i \in 1..n}
    BY <1>3, Elements
  <2>. QED
    BY <1>2, <1>4, <2>1, AcceptedAndEnds
<1>8. ms # <<>> => t # <<>> /\ t[1] = ms[1]
  BY <1>3
<1>. QED
  BY <1>5, <1>6, <1>7, <1>8

LEMMA SendOffersBooks ==
  ASSUME BrokerInv, BrokerInv', Ages, BookInv, NEW r \in Runner, SendOffers(r)
  PROVE  BookInv'
<1>1. TypeOK /\ UNCHANGED <<tasks, taskTimer, status, link, toRunner>>
  BY DEF BrokerInv, SendOffers
<1>2. PICK n : Offers(r, <<>>, n)
  <2>1. Cardinality(RunningTasks(r)) \in Nat
    BY RunningTasksFinite DEF RunningTasks
  <2>. QED
    BY <1>1, <2>1, SendOffersOffers, NoMessages DEF SendOffers
<1>3. PICK t \in Seq(Messages) :
        /\ toBroker'[r] = IF link[r] = "open" THEN toBroker[r] \o t ELSE toBroker[r]
        /\ \A o \in Offer : Accepted(o) \notin ToSet(t)
  BY <1>1, <1>2, NoMessages, OffersAreNew
<1>4. \A x \in Runner : x # r => toBroker'[x] = toBroker[x]
  BY <1>2 DEF Offers
<1>. QED
  BY <1>1, <1>3, <1>4, GrownBooks

LEMMA FinishesBooks ==
  ASSUME BrokerInv, BrokerInv', Ages, BookInv, NEW o \in Offer, NEW ended, NEW ms,
         Finishes(o, ended, ms), ms # <<>> \/ ~Expected(o)
  PROVE  BookInv'
<1>. DEFINE r == maker[o]
<1>1. TypeOK /\ UNCHANGED <<tasks, taskTimer, link>>
      /\ \A x \in Runner : ToSet(toRunner'[x]) \subseteq ToSet(toRunner[x])
  BY DEF BrokerInv, Finishes
<1>2. r \in Runner
  <2>1. status[o] # "none"
    BY DEF Finishes, ActiveStatus
  <2>. QED
    BY <2>1 DEF BrokerInv, MadeInv
<1>3. /\ ms \in Seq(Messages) /\ \A x \in Offer : Accepted(x) \notin ToSet(ms)
      /\ ms # <<>> => ms[1] \in Ends(o)
  <2>1. CASE ms = <<>>
    BY <2>1, NoMessages
  <2>2. ASSUME NEW type \in Ending, ms = <<Message(type, o)>>
        PROVE  /\ ms \in Seq(Messages) /\ \A x \in Offer : Accepted(x) \notin ToSet(ms)
               /\ ms # <<>> => ms[1] \in Ends(o)
    <3>1. Message(type, o) \in Ends(o)
      BY DEF Ending, Ends
    <3>2. ms \in Seq(Messages) /\ ToSet(ms) = {Message(type, o)}
      BY <2>2, Replies
    <3>3. ms[1] = Message(type, o)
      BY <2>2
    <3>. QED
      BY <3>1, <3>2, <3>3, AcceptedAndEnds
  <2>. QED
    BY <2>1, <2>2 DEF Finishes
<1>4. /\ \A x \in Offer : x # o => status'[x] = status[x]
      /\ status'[o] \notin ActiveStatus
      /\ SendOffersAfter(r, ms, Cardinality(RunningTasks(r) \ {o}))
  BY <1>1 DEF Finishes, FinishTask, TypeOK, ActiveStatus
<1>5. PICK n : Offers(r, ms, n)
  <2>1. Cardinality(RunningTasks(r) \ {o}) \in Nat
    BY RunningTasksFinite DEF RunningTasks
  <2>. QED
    BY <1>1, <1>2, <1>3, <1>4, <2>1, SendOffersOffers
<1>6. PICK t \in Seq(Messages) :
        /\ toBroker'[r] = IF link[r] = "open" THEN toBroker[r] \o t ELSE toBroker[r]
        /\ \A x \in Offer : Accepted(x) \notin ToSet(t)
        /\ ms # <<>> => t # <<>> /\ t[1] = ms[1]
  BY <1>1, <1>3, <1>5, OffersAreNew
<1>7. \A x \in Runner : x # r => toBroker'[x] = toBroker[x]
  BY <1>5 DEF Offers
<1>8. \A x \in Offer :
        \/ status'[x] = status[x]
        \/ /\ status'[x] \notin ActiveStatus /\ maker[x] = r
           /\ (t # <<>> /\ t[1] \in Ends(x)) \/ ~Expected(x)
  BY <1>3, <1>4, <1>6
<1>. HIDE DEF r
<1>. QED
  BY <1>1, <1>2, <1>6, <1>7, <1>8, GrownBooks

\* A runner takes an offer only while it has a slot for it.
LEMMA OfferTakenBooks ==
  ASSUME BrokerInv, BrokerInv', Ages, BookInv, NEW r \in Runner \ Launcher,
         NEW o \in Offer, OfferTaken(r, o), UNCHANGED <<tasks, taskTimer, maker, link>>,
         \A x \in Runner : ToSet(toRunner'[x]) \subseteq ToSet(toRunner[x])
  PROVE  BookInv'
<1>. DEFINE t == <<Accepted(o)>>
<1>1. TypeOK /\ MadeInv /\ MessageInv /\ toBroker[r] \in Seq(Messages)
  BY DEF BrokerInv, TypeOK
<1>2. /\ t \in Seq(Messages) /\ ToSet(t) = {Accepted(o)}
  BY AcceptedAndEnds, FewElements
<1>3. /\ toBroker'[r] = IF link[r] = "open" THEN toBroker[r] \o t ELSE toBroker[r]
      /\ \A x \in Runner : x # r => toBroker'[x] = toBroker[x]
  <2>1. Reply(r, t)
    BY DEF OfferTaken, Accepted
  <2>. HIDE DEF t
  <2>. QED
    BY <1>1, <1>2, <2>1, Replied
<1>4. /\ maker[o] = r /\ status[o] = "none" /\ o \notin tasks
      /\ status'[o] = "waitingForSettings" /\ \A x \in Offer : x # o => status'[x] = status[x]
      /\ Cardinality(RunningTasks(r)) < Slots
  BY <1>1 DEF OfferTaken, MadeInv, TypeOK
\* Nobody has said anything about the task before.
<1>5. /\ \A x \in Runner : Accepted(o) \notin ToSet(toBroker[x])
      /\ \A x \in Runner : Ends(o) \cap ToSet(toBroker[x]) = {}
      /\ \A x \in Runner : Cancel(o) \notin ToSet(toRunner[x])
  <2>1. /\ \A x \in Runner : \A m \in ToSet(toBroker[x]) : FromOK(m, x, maker, handshake, status)
        /\ \A x \in Runner : \A m \in ToSet(toRunner[x]) : ToOK(m, x, maker, handshake, status)
    BY <1>1 DEF MessageInv
  <2>2. Cancel(o).type = "taskcancel" /\ Cancel(o).offer = o
    BY MessageTypes DEF Cancel
  <2>3. \A x \in Runner : Accepted(o) \notin ToSet(toBroker[x])
    BY <1>4, <2>1, AcceptedAndEnds DEF FromOK
  <2>4. \A x \in Runner : Cancel(o) \notin ToSet(toRunner[x])
    BY <1>4, <2>1, <2>2 DEF ToOK
  <2>5. \A x \in Runner : Ends(o) \cap ToSet(toBroker[x]) = {}
    BY <1>4, <2>1, AcceptedAndEnds DEF FromOK
  <2>. QED
    BY <2>3, <2>4, <2>5
<1>. HIDE DEF t
<1>6. \A x \in Offer : Expected(x)' => Expected(x) \/ x = o
  <2>1. \A y \in Runner : ToSet(toBroker'[y]) \subseteq ToSet(toBroker[y]) \cup {Accepted(o)}
    BY <1>1, <1>2, <1>3, ConcatElements
  <2>2. \A x \in Offer : Accepted(x) = Accepted(o) => x = o
    BY AcceptedAndEnds
  <2>. QED
    BY <2>1, <2>2 DEF Expected
<1>7. ExpectInv'
  <2>1. ASSUME NEW x \in Offer, Expected(x)'
        PROVE  /\ maker[x] \notin Launcher
               /\ status'[x] # "aborting:cancelled"
               /\ Cancel(x) \notin ToSet(toRunner'[maker[x]])
    <3>1. CASE x = o
      BY <1>4, <1>5, <3>1
    <3>2. CASE x # o
      <4>1. Expected(x)
        BY <1>6, <2>1, <3>2
      <4>2. maker[x] \in Runner
        BY <4>1, ExpectedMade
      <4>. QED
        BY <1>4, <3>2, <4>1, <4>2 DEF BookInv, ExpectInv
    <3>. QED
      BY <3>1, <3>2
  <2>. QED
    BY <2>1 DEF ExpectInv
<1>8. \A x \in Runner : Ordered(toBroker[x], tasks)
  BY DEF BookInv
<1>9. Ordered(toBroker[r] \o t, tasks)
  <2>1. Ordered(t, tasks)
    <3>1. Len(t) = 1 /\ t[1] = Accepted(o)
      BY DEF t
    <3>2. \A i \in 1..Len(t) : i = 1
      BY <3>1
    <3>. QED
      BY <1>4, <3>1, <3>2, AcceptedAndEnds DEF Ordered
  <2>2. \A x \in Offer : Accepted(x) \in ToSet(t) =>
          Accepted(x) \notin ToSet(toBroker[r]) /\ Ends(x) \cap ToSet(toBroker[r]) = {}
    BY <1>2, <1>5, AcceptedAndEnds
  <2>. QED
    BY <1>1, <1>2, <1>8, <2>1, <2>2, ConcatOrdered
<1>10. \A x \in Runner : Ordered(toBroker'[x], tasks')
  BY <1>3, <1>8, <1>9
<1>11. /\ RunningTasks(r)' = RunningTasks(r) \cup {o}
       /\ \A x \in Runner : x # r => RunningTasks(x)' = RunningTasks(x)
       /\ \A x : TasksOf(x)' = TasksOf(x)
  BY <1>4 DEF RunningTasks, ActiveStatus, TasksOf
<1>12. Cardinality(RunningTasks(r)') <= Slots
  <2>1. IsFiniteSet(RunningTasks(r)) /\ Cardinality(RunningTasks(r)) \in Nat
    BY RunningTasksFinite DEF RunningTasks
  <2>2. o \notin RunningTasks(r)
    BY <1>4 DEF RunningTasks, ActiveStatus
  <2>3. Cardinality(RunningTasks(r) \cup {o}) = Cardinality(RunningTasks(r)) + 1
    BY <2>1, <2>2, FS_AddElement
  <2>. QED
    BY <1>4, <1>11, <2>1, <2>3, BrokerAssumption
<1>13. ASSUME NEW x \in Runner \ Launcher PROVE SlotFor(x)'
  <2>1. SlotFor(x)
    BY DEF BookInv
  <2>2. CASE x # r
    BY <1>3, <1>11, <2>1, <2>2, SlotQuiet
  <2>3. CASE x = r /\ link[r] # "open"
    BY <1>3, <1>11, <1>12, <2>1, <2>3 DEF SlotFor
  <2>4. CASE x = r /\ link[r] = "open"
    <3>1. \A y \in Offer : Accepted(y) \in ToSet(t) => y \in RunningTasks(r)'
      BY <1>2, <1>11, AcceptedAndEnds
    <3>. QED
      BY <1>2, <1>3, <1>11, <1>12, <2>1, <2>4, <3>1, SlotGrown
  <2>. QED
    BY <2>2, <2>3, <2>4
<1>. QED
  BY <1>7, <1>10, <1>13 DEF BookInv

LEMMA OfferAcceptedBooks ==
  ASSUME BrokerInv, BrokerInv', Ages, BookInv, NEW r \in Runner, OfferAccepted(r)
  PROVE  BookInv'
<1>1. TypeOK /\ MessageInv
  BY DEF BrokerInv
<1>2. PICK o : o = Head(toRunner[r]).offer
  OBVIOUS
<1>3. /\ FromBroker(r, "taskofferaccept") /\ PopFromBroker(r)
      /\ UNCHANGED <<tasks, taskTimer, maker, link>>
      /\ \/ r \in Launcher /\ OfferDeferred(r, o)
         \/ r \notin Launcher /\ (OfferTaken(r, o) \/ OfferRefused(r, o))
  BY <1>2 DEF OfferAccepted
<1>4. /\ o \in Offer
      /\ \A x \in Runner : ToSet(toRunner'[x]) \subseteq ToSet(toRunner[x])
  <2>1. /\ ToOK(Head(toRunner[r]), r, maker, handshake, status)
        /\ Head(toRunner[r]).type = "taskofferaccept"
        /\ \A x \in Runner : ToSet(toRunner'[x]) \subseteq ToSet(toRunner[x])
    BY <1>1, <1>3, ReceivedByRunner
  <2>. QED
    BY <1>2, <2>1 DEF ToOK
<1>5. CASE r \notin Launcher /\ OfferTaken(r, o)
  BY <1>3, <1>4, <1>5, OfferTakenBooks
<1>6. ASSUME NEW type \in {"taskrejected", "taskdeferred"}, Reply(r, <<Message(type, o)>>),
             UNCHANGED status
      PROVE  BookInv'
  <2>1. type \in Answering \cup Ending
    BY DEF Answering
  <2>2. /\ <<Message(type, o)>> \in Seq(Messages)
        /\ ToSet(<<Message(type, o)>>) = {Message(type, o)}
        /\ Message(type, o).type = type
    BY <1>4, <2>1, Replies
  <2>3. PICK t : t = <<Message(type, o)>>
    OBVIOUS
  <2>4. /\ t \in Seq(Messages) /\ \A x \in Offer : Accepted(x) \notin ToSet(t)
    BY <2>2, <2>3, AcceptedAndEnds
  <2>5. /\ toBroker'[r] = IF link[r] = "open" THEN toBroker[r] \o t ELSE toBroker[r]
        /\ \A x \in Runner : x # r => toBroker'[x] = toBroker[x]
    BY <1>1, <1>6, <2>3, <2>4, Replied
  <2>. QED
    BY <1>3, <1>4, <1>6, <2>4, <2>5, GrownBooks
<1>. QED
  BY <1>3, <1>5, <1>6 DEF OfferDeferred, OfferRefused

\* A task that is being cancelled is not on the books.
LEMMA TaskCancelledBooks ==
  ASSUME BrokerInv, BrokerInv', Ages, BookInv, NEW r \in Runner, TaskCancelled(r)
  PROVE  BookInv'
<1>1. PICK o \in Offer :
           /\ o = Head(toRunner[r]).offer /\ maker[o] = r
           /\ \/ status[o] = "waitingForSettings" /\ Finishes(o, "dropped", <<>>)
              \/ status[o] = "running" /\ GoesOn(o, "aborting:cancelled")
              \/ status[o] \notin {"waitingForSettings", "running"} /\ GoesOn(o, status[o])
  BY TaskCancelledEffect
<1>2. Cancel(o) \in ToSet(toRunner[r])
  <2>1. TypeOK /\ MessageInv /\ FromBroker(r, "taskcancel") /\ PopFromBroker(r)
    BY DEF BrokerInv, TaskCancelled
  <2>2. toRunner[r] # <<>> /\ Head(toRunner[r]).type = "taskcancel"
    BY <2>1 DEF FromBroker, Takes
  <2>3. Head(toRunner[r]) \in ToSet(toRunner[r]) /\ Head(toRunner[r]) \in Messages
    BY <2>1, <2>2, PoppedToRunner
  <2>. QED
    BY <1>1, <2>2, <2>3, MessageTypes DEF Cancel
<1>3. ~Expected(o)
  BY <1>1, <1>2 DEF BookInv, ExpectInv
<1>4. CASE Finishes(o, "dropped", <<>>)
  BY <1>3, <1>4, FinishesBooks
<1>5. CASE GoesOn(o, "aborting:cancelled")
  BY <1>3, <1>5, GoesOnBooks
<1>6. CASE GoesOn(o, status[o])
  BY <1>3, <1>6, GoesOnBooks
<1>. QED
  BY <1>1, <1>4, <1>5, <1>6

LEMMA ReceivedSettingsBooks ==
  ASSUME BrokerInv, BrokerInv', Ages, BookInv, NEW r \in Runner, ReceivedSettings(r)
  PROVE  BookInv'
<1>1. PICK o \in Offer : GoesOn(o, "running") \/ GoesOn(o, status[o])
  BY ReceivedSettingsEffect
<1>2. CASE GoesOn(o, "running")
  BY <1>2, GoesOnBooks
<1>3. CASE GoesOn(o, status[o])
  BY <1>3, GoesOnBooks
<1>. QED
  BY <1>1, <1>2, <1>3

LEMMA TaskTimedOutBooks ==
  ASSUME BrokerInv, BrokerInv', Ages, BookInv, NEW o \in Offer, TaskTimedOut(o)
  PROVE  BookInv'
<1>1. CASE Finishes(o, "dropped", <<Message("taskerror", o)>>)
  BY <1>1, FinishesBooks
<1>2. CASE GoesOn(o, "aborting:timeout")
  BY <1>2, GoesOnBooks
<1>. QED
  BY <1>1, <1>2, TaskTimedOutEffect

LEMMA TaskExecutedBooks ==
  ASSUME BrokerInv, BrokerInv', Ages, BookInv, NEW o \in Offer, TaskExecuted(o)
  PROVE  BookInv'
<1>1. CASE status[o] = "aborting:cancelled"
  <2>1. Finishes(o, "ended", <<>>)
    BY <1>1, TaskExecutedEffect
  <2>2. ~Expected(o)
    BY <1>1 DEF BookInv, ExpectInv
  <2>. QED
    BY <2>1, <2>2, FinishesBooks
<1>2. CASE status[o] \in {"running", "aborting:timeout"}
  <2>1. PICK type \in {"taskdone", "taskerror"} : FinishTask(o, "ended", <<Message(type, o)>>)
    BY <1>2 DEF TaskExecuted
  <2>2. \A x \in Runner : toRunner'[x] = toRunner[x]
    BY DEF TaskExecuted
  <2>3. Finishes(o, "ended", <<Message(type, o)>>)
    BY <1>2, <2>1, <2>2 DEF TaskExecuted, Finishes, ActiveStatus, Ending, BrokerInv, TypeOK
  <2>. QED
    BY <2>3, FinishesBooks
<1>. QED
  BY <1>1, <1>2, TaskExecutedEffect

LEMMA BookStep ==
  ASSUME BrokerInv, ConnectInv, BookInv, [Next]_vars
  PROVE  BookInv'
<1>1. BrokerInv' /\ Ages
  BY BrokerStep
<1>2. ASSUME UNCHANGED <<tasks, taskTimer, status, link, toBroker>>,
             \A o \in Offer : \A x \in Runner :
               Cancel(o) \in ToSet(toRunner'[x]) => Cancel(o) \in ToSet(toRunner[x])
      PROVE  BookInv'
  BY <1>1, <1>2, QuietBooks DEF BookInv
<1>3. ASSUME NEW r \in Runner, RunnerNext(r) PROVE BookInv'
  <2>1. CASE BrokerReceives(r)
    BY <1>1, <2>1, RegisterRunnerBooks, TaskOfferedBooks, NoTaskTakenBooks, TaskAcceptedBooks,
       TaskEndedBooks DEF BrokerReceives
  <2>2. CASE SwitchOffers(r)
    <3>1. TypeOK /\ MessageInv
      BY DEF BrokerInv
    <3>2. PICK type \in {"runnerregistered", "drain", "close"} :
            FromBroker(r, type) /\ PopFromBroker(r)
            /\ UNCHANGED <<tasks, taskTimer, status, link, toBroker>>
      BY <2>2 DEF SwitchOffers
    <3>. QED
      BY <1>2, <3>1, <3>2, ReceivedByRunner
  <2>3. CASE RunnerReceives(r)
    BY <1>1, <2>2, <2>3, OfferAcceptedBooks, TaskCancelledBooks, ReceivedSettingsBooks
       DEF RunnerReceives
  <2>. QED
    BY <1>1, <1>3, <2>1, <2>3, RemoveConnectionBooks, ConnectBooks, SendOffersBooks, CrashBooks
       DEF RunnerNext
<1>4. ASSUME NEW q \in Request, RequestNext(q) PROVE BookInv'
  <2>1. CASE StartTask(q) /\ ~isDraining
    <3>1. UNCHANGED <<tasks, taskTimer, status, link, toBroker>>
      BY <2>1 DEF StartTask
    <3>. QED
      BY <1>2, <2>1, <3>1, StartTaskSettles, SettlesNoCancel DEF BrokerInv
  <2>2. CASE StartTask(q) /\ isDraining
    BY <1>2, <2>2 DEF StartTask
  <2>3. CASE RequestTimeout(q)
    BY <1>2, <2>3 DEF RequestTimeout
  <2>. QED
    BY <1>4, <2>1, <2>2, <2>3 DEF RequestNext
<1>5. ASSUME NEW o \in Offer, TaskNext(o) PROVE BookInv'
  <2>1. CASE AcceptTimeout(o)
    BY <1>2, <2>1 DEF AcceptTimeout
  <2>. QED
    BY <1>1, <1>5, <2>1, CancelTaskBooks, TaskTimeoutBooks, TaskTimedOutBooks, TaskExecutedBooks
       DEF TaskNext
<1>6. CASE UNCHANGED vars
  BY <1>2, <1>6 DEF vars
<1>. QED
  BY <1>1, <1>3, <1>4, <1>5, <1>6, StartDrainingBooks DEF Next

\* The broker never has more tasks on a runner than the runner has slots: though a
\* runner offers a slot again before the broker has heard that its task is over, the
\* messages arrive in the order in which they make room.
THEOREM SlotsRespected == Spec => []BookedWithinSlots
<1>1. Init => ConnectInv /\ BookInv
  BY InitConnect, InitBook
<1>2. BrokerInv /\ ConnectInv /\ BookInv /\ [Next]_vars => ConnectInv' /\ BookInv'
  BY ConnectStep, BookStep
<1>3. BrokerInv /\ BookInv => BookedWithinSlots
  <2>. SUFFICES ASSUME BrokerInv, BookInv, NEW r \in Runner
                PROVE  Cardinality(TasksOf(r)) <= SlotsOf(r)
    BY DEF BookedWithinSlots, TasksOf
  <2>1. TasksOf(r) \subseteq Offer
    BY DEF TasksOf, BrokerInv, TypeOK
  <2>2. CASE r \in Launcher
    <3>1. TasksOf(r) = {}
      BY <2>1, <2>2 DEF BookInv, ExpectInv, Expected, TasksOf
    <3>2. Cardinality(TasksOf(r)) = 0
      BY <3>1, FS_EmptySet
    <3>. QED
      BY <2>2, <3>2 DEF SlotsOf
  <2>3. CASE r \notin Launcher
    <3>1. Len(toBroker[r]) \in Nat
      BY DEF BrokerInv, TypeOK
    <3>2. BookedIn(toBroker[r], 0, TasksOf(r)) = TasksOf(r)
      BY <2>1 DEF BookedIn
    <3>. QED
      BY <2>3, <3>1, <3>2 DEF BookInv, SlotFor, SlotsOf
  <2>. QED
    BY <2>2, <2>3
<1>. QED
  BY <1>1, <1>2, <1>3, BrokerInvariant, PTL DEF Spec

-----------------------------------------------------------------------------
(* A request that somebody waits for is not held back *)

\* Who waits is in the list; who has not asked is neither in it nor matched.
PendInv ==
  /\ PendingCanSettle
  /\ \A q \in requestAcceptRejects : Contains(pending, q)
  /\ \A q \in Request : reply[q] = "unasked" => ~Contains(pending, q) /\ ~inProgress[q]
  /\ \A o \in Offer : handshake[o] # "none" => reply[matched[o]] # "unasked"

LEMMA InitPend == Init => PendInv
<1>. SUFFICES ASSUME Init PROVE PendInv
  OBVIOUS
<1>1. \A q : ~Contains(pending, q)
  BY DEF Init, Contains
<1>. QED
  BY <1>1 DEF Init, PendInv, PendingCanSettle

\* Nobody asks anew, and what somebody waits for stays open.
LEMMA PendKept ==
  ASSUME PendInv,
         requestAcceptRejects' \subseteq requestAcceptRejects,
         requestAcceptRejects \subseteq Request,
         \A q \in requestAcceptRejects' : Contains(pending', q),
         \A q \in Request :
           /\ reply'[q] = "unasked" => reply[q] = "unasked"
           /\ reply[q] = "unasked" => ~Contains(pending', q)
           /\ inProgress'[q] => inProgress[q],
         matched' = matched,
         \A o \in Offer :
           /\ handshake'[o] # "none" => handshake[o] # "none"
           /\ handshake[o] # "none" => matched[o] \in Request
           /\ handshake[o] = "open" =>
                \/ handshake'[o] = "open"
                \/ matched[o] \notin requestAcceptRejects' \/ ~inProgress'[matched[o]]
  PROVE  PendInv'
<1>1. PendingCanSettle'
  <2>. SUFFICES ASSUME NEW q \in requestAcceptRejects', inProgress'[q]
                PROVE  \E o \in Offer : matched'[o] = q /\ handshake'[o] = "open"
    BY DEF PendingCanSettle
  <2>1. PICK o \in Offer : matched[o] = q /\ handshake[o] = "open"
    BY DEF PendInv, PendingCanSettle
  <2>. QED
    BY <2>1
<1>2. \A q \in Request : reply'[q] = "unasked" => ~Contains(pending', q) /\ ~inProgress'[q]
  BY DEF PendInv
<1>3. \A o \in Offer : handshake'[o] # "none" => reply'[matched'[o]] # "unasked"
  BY DEF PendInv
<1>. QED
  BY <1>1, <1>2, <1>3 DEF PendInv

\* A request that is matched has an offer that is decided on.
LEMMA PendSettles ==
  ASSUME BrokerInv, PendInv, NEW requests \in Seq(Request), NEW offered, NEW T, NEW pick,
         NEW accepts, Settles(requests, offered, T, pick, accepts), pending' = requests,
         T \subseteq Offer, \A o \in T : handshake[o] = "none",
         \A q \in requestAcceptRejects' :
           q \in Request /\ Contains(requests, q)
             /\ (q \in requestAcceptRejects \/ ~inProgress[q]),
         \A q \in Request :
           reply'[q] = "unasked" => reply[q] = "unasked" /\ q \notin ToSet(requests)
  PROVE  PendInv'
<1>1. /\ \A o \in T : pick[o] \in ToSet(requests)
      /\ inProgress' = [q \in Request |-> inProgress[q] \/ \E o \in T : pick[o] = q]
      /\ handshake' = [o \in Offer |-> IF o \in T THEN "open" ELSE handshake[o]]
      /\ matched' = [o \in Offer |-> IF o \in T THEN pick[o] ELSE matched[o]]
  BY DEF Settles
<1>2. PendingCanSettle'
  <2>. SUFFICES ASSUME NEW q \in requestAcceptRejects', inProgress'[q]
                PROVE  \E o \in Offer : matched'[o] = q /\ handshake'[o] = "open"
    BY DEF PendingCanSettle
  <2>1. CASE inProgress[q]
    <3>1. PICK o \in Offer : matched[o] = q /\ handshake[o] = "open"
      BY <2>1 DEF PendInv, PendingCanSettle
    <3>. QED
      BY <1>1, <3>1
  <2>2. CASE ~inProgress[q]
    BY <1>1, <2>2
  <2>. QED
    BY <2>1, <2>2
<1>3. ASSUME NEW q \in Request, reply'[q] = "unasked"
      PROVE  ~Contains(pending', q) /\ ~inProgress'[q]
  <2>1. reply[q] = "unasked" /\ q \notin ToSet(requests)
    BY <1>3
  <2>2. ~Contains(requests, q)
    BY <2>1, Elements
  <2>3. ~inProgress[q]
    BY <2>1 DEF PendInv
  <2>4. ~inProgress'[q]
    BY <1>1, <2>1, <2>3
  <2>. QED
    BY <2>2, <2>4
<1>4. ASSUME NEW o \in Offer, handshake'[o] # "none" PROVE reply'[matched'[o]] # "unasked"
  <2>1. CASE o \in T
    <3>1. matched'[o] = pick[o] /\ pick[o] \in ToSet(requests) /\ pick[o] \in Request
      BY <1>1, <2>1, Elements
    <3>. QED
      BY <3>1
  <2>2. CASE o \notin T
    <3>1. handshake[o] # "none" /\ matched'[o] = matched[o]
      BY <1>1, <1>4, <2>2
    <3>2. matched[o] \in Request /\ reply[matched[o]] # "unasked"
      BY <3>1 DEF BrokerInv, MadeInv, PendInv
    <3>. QED
      BY <3>1, <3>2
  <2>. QED
    BY <2>1, <2>2
<1>. QED
  BY <1>2, <1>3, <1>4 DEF PendInv

\* Nobody who has asked comes to not have asked.
LEMMA AskedBefore ==
  ASSUME NEW ended, NEW a \in {"done", "error", "canceled"}, Answer(ended, a)
  PROVE  \A q \in Request : reply'[q] = "unasked" => reply[q] = "unasked"
  BY DEF Answer

\* A task is accepted: its request leaves the list, and nobody waits for it then.
LEMMA TaskAcceptedPends ==
  ASSUME BrokerInv, PendInv, NEW r \in Runner, TaskAccepted(r)
  PROVE  PendInv'
<1>1. TypeOK /\ MadeInv /\ pending \in Seq(Request)
  BY DEF BrokerInv, TypeOK
<1>2. PICK o \in Offer :
        /\ Decides(r, "taskaccepted", o)
        /\ TaskSettled(r, o) \/ TaskRefused(r, o) \/ TaskOrphaned(o)
        /\ UNCHANGED <<inProgress, matched, reply>>
  BY DEF TaskAccepted
<1>3. handshake' = [handshake EXCEPT ![o] = "closed"] /\ handshake[o] = "open"
  BY <1>2 DEF Decides, CloseHandshake
<1>4. \A x \in Offer : (x # o => handshake'[x] = handshake[x])
                       /\ (handshake'[x] # "none" => handshake[x] # "none")
  BY <1>1, <1>3 DEF TypeOK
<1>5. /\ \A x : Contains(RemoveFirst(pending, matched[o]), x) => Contains(pending, x)
      /\ \A x : Contains(pending, x) /\ x # matched[o]
                  => Contains(RemoveFirst(pending, matched[o]), x)
  BY <1>1, RemoveFirstProperties
<1>6. /\ requestAcceptRejects' \subseteq requestAcceptRejects
      /\ matched[o] \notin requestAcceptRejects'
      /\ pending' = RemoveFirst(pending, matched[o]) \/ pending' = pending
  <2>1. CASE TaskSettled(r, o)
    BY <2>1 DEF TaskSettled
  <2>2. CASE TaskRefused(r, o)
    BY <2>2 DEF TaskRefused
  <2>3. CASE TaskOrphaned(o)
    BY <2>3 DEF TaskOrphaned, PendInv
  <2>. QED
    BY <1>2, <2>1, <2>2, <2>3
<1>7. \A q \in requestAcceptRejects' : Contains(pending', q)
  BY <1>5, <1>6 DEF PendInv
<1>8. \A q \in Request : reply[q] = "unasked" => ~Contains(pending', q)
  BY <1>5, <1>6 DEF PendInv
<1>9. \A x \in Offer : handshake[x] # "none" => matched[x] \in Request
  BY <1>1 DEF MadeInv
<1>10. requestAcceptRejects \subseteq Request
  BY <1>1 DEF TypeOK
<1>. QED
  BY <1>2, <1>4, <1>6, <1>7, <1>8, <1>9, <1>10, PendKept

LEMMA PendStep ==
  ASSUME BrokerInv, PendInv, [Next]_vars
  PROVE  PendInv'
<1>1. TypeOK /\ MadeInv /\ MessageInv
  BY DEF BrokerInv
<1>2. /\ pending \in Seq(Request) /\ requestAcceptRejects \subseteq Request
      /\ \A x \in Offer : handshake[x] # "none" => matched[x] \in Request
  BY <1>1 DEF TypeOK, MadeInv
<1>3. ASSUME UNCHANGED <<pending, inProgress, matched, handshake, requestAcceptRejects>>,
             \A q \in Request : reply'[q] = "unasked" => reply[q] = "unasked"
      PROVE  PendInv'
  <2>1. /\ \A q \in requestAcceptRejects' : Contains(pending', q)
        /\ \A q \in Request : reply[q] = "unasked" => ~Contains(pending', q)
    BY <1>3 DEF PendInv
  <2>. QED
    BY <1>2, <1>3, <2>1, PendKept
\* A promise is settled, and the request may be matched again; it may have been pushed.
<1>4. ASSUME NEW o \in Offer, handshake[o] = "open", CloseHandshake(o), Retry(matched[o]),
             pending' = pending \/ pending' = Append(pending, matched[o]),
             UNCHANGED <<matched, reply, requestAcceptRejects>>
      PROVE  PendInv'
  <2>1. matched[o] \in Request /\ reply[matched[o]] # "unasked"
    BY <1>2, <1>4 DEF PendInv
  <2>2. \A x \in Offer : (x # o => handshake'[x] = handshake[x])
                         /\ (handshake'[x] # "none" => handshake[x] # "none")
    BY <1>1, <1>4 DEF CloseHandshake, TypeOK
  <2>3. /\ ~inProgress'[matched[o]]
        /\ \A q \in Request : inProgress'[q] => inProgress[q]
    BY <1>1, <1>4, <2>1 DEF Retry, TypeOK
  <2>4. \A x : Contains(Append(pending, matched[o]), x) <=> Contains(pending, x) \/ x = matched[o]
    BY <1>2, <2>1, AppendElements
  <2>5. /\ \A q \in requestAcceptRejects' : Contains(pending', q)
        /\ \A q \in Request : reply[q] = "unasked" => ~Contains(pending', q)
    BY <1>4, <2>1, <2>4 DEF PendInv
  <2>. QED
    BY <1>2, <1>4, <2>2, <2>3, <2>5, PendKept
<1>5. ASSUME NEW r \in Runner, RunnerNext(r) PROVE PendInv'
  <2>1. CASE RegisterRunner(r)
    BY <1>3, <2>1 DEF RegisterRunner
  <2>2. CASE TaskOffered(r)
    <3>1. PICK T, pick, accepts :
            /\ Settles(pending, Append(offers, Head(toBroker[r]).offer), T, pick, accepts)
            /\ T \subseteq Offer /\ \A o \in T : handshake[o] = "none" /\ maker[o] # None
      BY <2>2, TaskOfferedSettles
    <3>2. UNCHANGED <<pending, reply, requestAcceptRejects>>
      BY <2>2 DEF TaskOffered
    <3>3. \A q \in Request : reply[q] = "unasked" => q \notin ToSet(pending)
      BY <1>2, Elements DEF PendInv
    <3>4. \A q \in requestAcceptRejects' : q \in Request /\ Contains(pending, q)
                                           /\ q \in requestAcceptRejects
      BY <1>2, <3>2 DEF PendInv
    <3>. QED
      BY <1>2, <3>1, <3>2, <3>3, <3>4, PendSettles
  <2>3. CASE AnswersTooLate(r)
    BY <1>3, <2>3 DEF AnswersTooLate
  <2>4. CASE TaskAccepted(r)
    BY <2>4, TaskAcceptedPends
  <2>5. CASE TaskRejected(r)
    BY <1>4, <2>5 DEF TaskRejected, Decides
  <2>6. CASE TaskDeferred(r)
    BY <1>4, <2>6 DEF TaskDeferred, Decides
  <2>7. CASE TaskEnded(r)
    BY <1>3, <2>7, AskedBefore DEF TaskEnded
  <2>8. CASE RemoveConnection(r)
    BY <1>3, <2>8, AskedBefore DEF RemoveConnection
  <2>9. CASE Connect(r) \/ RunnerReceives(r) \/ SendOffers(r) \/ Crash(r)
    BY <1>3, <2>9 DEF Connect, RunnerReceives, SendOffers, Crash, SwitchOffers, OfferAccepted,
                      TaskCancelled, ReceivedSettings
  <2>. QED
    BY <1>5, <2>1, <2>2, <2>3, <2>4, <2>5, <2>6, <2>7, <2>8, <2>9 DEF RunnerNext, BrokerReceives
<1>6. ASSUME NEW q \in Request, RequestNext(q) PROVE PendInv'
  <2>1. CASE StartTask(q) /\ ~isDraining
    <3>1. PICK T, pick, accepts :
            /\ Settles(Append(pending, q), offers, T, pick, accepts)
            /\ T \subseteq Offer /\ \A o \in T : handshake[o] = "none" /\ maker[o] # None
      BY <2>1, StartTaskSettles
    <3>2. /\ pending' = Append(pending, q) /\ reply[q] = "unasked"
          /\ reply' = [reply EXCEPT ![q] = "asked"]
          /\ requestAcceptRejects' = requestAcceptRejects \union {q}
      BY <2>1 DEF StartTask
    <3>3. ~Contains(pending, q) /\ ~inProgress[q]
      BY <3>2 DEF PendInv
    <3>4. /\ Append(pending, q) \in Seq(Request)
          /\ ToSet(Append(pending, q)) = ToSet(pending) \cup {q}
          /\ \A x : Contains(Append(pending, q), x) <=> Contains(pending, x) \/ x = q
      BY <1>2, AppendElements
    <3>5. \A x \in Request : reply'[x] = "unasked" =>
            reply[x] = "unasked" /\ x # q /\ x \notin ToSet(pending)
      BY <1>1, <1>2, <3>2, Elements DEF TypeOK, PendInv
    <3>6. \A x \in Request : reply'[x] = "unasked" =>
            reply[x] = "unasked" /\ x \notin ToSet(Append(pending, q))
      BY <3>4, <3>5
    <3>7. \A x \in requestAcceptRejects' :
            x \in Request /\ Contains(Append(pending, q), x)
              /\ (x \in requestAcceptRejects \/ ~inProgress[x])
      BY <1>2, <3>2, <3>3, <3>4 DEF PendInv
    <3>. QED
      BY <3>1, <3>2, <3>4, <3>6, <3>7, PendSettles
  <2>2. CASE StartTask(q) /\ isDraining
    <3>1. \A x \in Request : reply'[x] = "unasked" => reply[x] = "unasked"
      BY <1>1, <2>2 DEF StartTask, TypeOK
    <3>. QED
      BY <1>3, <2>2, <3>1 DEF StartTask
  <2>3. CASE RequestTimeout(q)
    <3>1. /\ pending' = RemoveFirst(pending, q) /\ UNCHANGED <<inProgress, matched, handshake>>
          /\ requestAcceptRejects' \subseteq requestAcceptRejects
          /\ Contains(pending, q) => q \notin requestAcceptRejects'
      BY <2>3 DEF RequestTimeout
    <3>2. /\ \A x : Contains(pending', x) => Contains(pending, x)
          /\ \A x : Contains(pending, x) /\ x # q => Contains(pending', x)
      BY <1>2, <3>1, RemoveFirstProperties
    <3>3. \A x \in Request : reply'[x] = "unasked" => reply[x] = "unasked"
      BY <1>1, <2>3 DEF RequestTimeout, TypeOK
    <3>4. /\ \A x \in requestAcceptRejects' : Contains(pending', x)
          /\ \A x \in Request : reply[x] = "unasked" => ~Contains(pending', x)
      BY <3>1, <3>2 DEF PendInv
    <3>. QED
      BY <1>2, <3>1, <3>3, <3>4, PendKept
  <2>. QED
    BY <1>6, <2>1, <2>2, <2>3 DEF RequestNext
<1>7. ASSUME NEW o \in Offer, TaskNext(o) PROVE PendInv'
  <2>1. CASE CancelTask(o) \/ TaskTimeout(o)
    BY <1>3, <2>1, AskedBefore DEF CancelTask, TaskTimeout
  <2>2. CASE AcceptTimeout(o)
    BY <1>4, <2>2 DEF AcceptTimeout
  <2>3. CASE TaskTimedOut(o) \/ TaskExecuted(o)
    BY <1>3, <2>3 DEF TaskTimedOut, TaskExecuted
  <2>. QED
    BY <1>7, <2>1, <2>2, <2>3 DEF TaskNext
<1>8. CASE StartDraining
  BY <1>3, <1>8 DEF StartDraining
<1>9. CASE UNCHANGED vars
  BY <1>3, <1>9 DEF vars
<1>. QED
  BY <1>5, <1>6, <1>7, <1>8, <1>9 DEF Next

\* A request that somebody waits for, however often it has been deferred, refused or
\* left without an answer, is marked as in progress only while a runner decides on it:
\* it is not held back for good by a mark that nobody resets.
THEOREM PendingSettles == Spec => []PendingCanSettle
<1>1. Init => PendInv
  BY InitPend
<1>2. BrokerInv /\ PendInv /\ [Next]_vars => PendInv'
  BY PendStep
<1>3. PendInv => PendingCanSettle
  BY DEF PendInv
<1>. QED
  BY <1>1, <1>2, <1>3, BrokerInvariant, PTL DEF Spec

-----------------------------------------------------------------------------
(* What the service promises *)

Working == {"running", "aborting:cancelled", "aborting:timeout"}
Started == Working \cup {"ended"}

\* The requester has taken the task, or its settings are on their way, or it has
\* started: the task that its request has been given.
Settled(o) ==
  \/ o \in taskAcceptRejects \/ status[o] \in Started
  \/ \E r \in Runner : Settings(o) \in ToSet(toRunner[r])

\* A request is given one task, and its caller waits for either of them.
ServeInv ==
  /\ \A q \in requestAcceptRejects : reply[q] = "asked"
  /\ \A o \in taskAcceptRejects : reply[matched[o]] = "asked"
  /\ \A o \in Offer : Settled(o) =>
       /\ matched[o] \in Request \ requestAcceptRejects
       /\ reply[matched[o]] \notin {"unasked", "expired"}
  /\ \A o1, o2 \in Offer : Settled(o1) /\ Settled(o2) /\ matched[o1] = matched[o2] => o1 = o2

LEMMA WorkIs ==
  ASSUME NEW q
  PROVE  Work(q) = IF \E o \in Offer : matched[o] = q /\ status[o] \in Working THEN "running"
                   ELSE IF \E o \in Offer : matched[o] = q /\ status[o] = "ended" THEN "finished"
                   ELSE "none"
  BY DEF Work, Working

\* The actions of the service, of the work of this system.
LEMMA ServiceActions ==
  ASSUME NEW q \in Request
  PROVE  /\ (reply'[q] = reply[q] /\ Work(q)' = Work(q)) => Service!Rests(q)
         /\ (/\ reply[q] = "unasked" /\ reply'[q] \in {"asked", "expired"}
             /\ Work(q)' = Work(q))
            => Service!Asks(q)
         /\ (/\ Work(q) = "none" /\ Work(q)' = "running"
             /\ reply[q] \notin {"unasked", "expired"} /\ reply'[q] = reply[q])
            => Service!Begins(q)
         /\ (Work(q) = "running" /\ Work(q)' = "finished" /\ reply'[q] = reply[q])
            => Service!Ends(q)
         /\ (/\ reply[q] = "asked" /\ reply'[q] \in {"done", "error", "canceled", "expired"}
             /\ reply'[q] = "done" => Work(q) = "finished"
             /\ reply'[q] = "expired" => Work(q) = "none"
             /\ Work(q)' = Work(q))
            => Service!Answered(q)
<1>1. [x \in Request |-> Work(x)][q] = Work(q)
  OBVIOUS
<1>2. [x \in Request |-> Work(x)]'[q] = Work(q)'
  OBVIOUS
<1>3. (reply'[q] = reply[q] /\ Work(q)' = Work(q)) => Service!Rests(q)
  BY <1>1, <1>2 DEF Service!Rests
<1>4. (/\ reply[q] = "unasked" /\ reply'[q] \in {"asked", "expired"}
       /\ Work(q)' = Work(q))
      => Service!Asks(q)
  BY <1>1, <1>2 DEF Service!Asks
<1>5. (/\ Work(q) = "none" /\ Work(q)' = "running"
       /\ reply[q] \notin {"unasked", "expired"} /\ reply'[q] = reply[q])
      => Service!Begins(q)
  BY <1>1, <1>2 DEF Service!Begins
<1>6. (Work(q) = "running" /\ Work(q)' = "finished" /\ reply'[q] = reply[q])
      => Service!Ends(q)
  BY <1>1, <1>2 DEF Service!Ends
<1>7. (/\ reply[q] = "asked" /\ reply'[q] \in {"done", "error", "canceled", "expired"}
       /\ reply'[q] = "done" => Work(q) = "finished"
       /\ reply'[q] = "expired" => Work(q) = "none"
       /\ Work(q)' = Work(q))
      => Service!Answered(q)
  BY <1>1, <1>2 DEF Service!Answered, Service!Answers
<1>. QED
  BY <1>3, <1>4, <1>5, <1>6, <1>7

\* A promise is kept by a step that neither starts nor answers anything.
LEMMA WorkKept ==
  ASSUME ServeInv,
         \A o \in Offer : status[o] \in Started \/ status'[o] \in Started =>
           /\ status'[o] = status[o] \/ {status[o], status'[o]} \subseteq Working
           /\ matched'[o] = matched[o]
  PROVE  \A q : Work(q)' = Work(q)
<1>. TAKE q
<1>1. "ended" \notin Working /\ "ended" \in Started /\ Working \subseteq Started
  BY DEF Working, Started
<1>2. \A o \in Offer : status'[o] \in Working /\ matched'[o] = q
                       <=> status[o] \in Working /\ matched[o] = q
  BY <1>1
<1>3. \A o \in Offer : status'[o] = "ended" /\ matched'[o] = q
                       <=> status[o] = "ended" /\ matched[o] = q
  BY <1>1
<1>4. Work(q)' = IF \E o \in Offer : matched'[o] = q /\ status'[o] \in Working THEN "running"
                 ELSE IF \E o \in Offer : matched'[o] = q /\ status'[o] = "ended" THEN "finished"
                 ELSE "none"
  BY DEF Work, Working
<1>. QED
  BY <1>2, <1>3, <1>4, WorkIs

\* No task is given to a request, and whoever gets an answer waits for no other.
LEMMA ServeKept ==
  ASSUME BrokerInv, ServeInv,
         \A o \in Offer : Settled(o) => matched'[o] = matched[o],
         \A o \in Offer : status'[o] \in Started => Settled(o),
         \A o \in Offer : \A r \in Runner :
           Settings(o) \in ToSet(toRunner'[r]) => Settings(o) \in ToSet(toRunner[r]),
         taskAcceptRejects' \subseteq taskAcceptRejects,
         requestAcceptRejects' \subseteq requestAcceptRejects,
         \A q \in Request : reply'[q] # reply[q] =>
           /\ reply'[q] \notin {"unasked", "expired"}
           /\ q \notin requestAcceptRejects'
           /\ \A o \in taskAcceptRejects' : matched[o] # q
  PROVE  ServeInv'
<1>1. \A o \in Offer : Settled(o)' => Settled(o) /\ matched'[o] = matched[o]
  BY DEF Settled
<1>2. \A o \in taskAcceptRejects : o \in Offer /\ Settled(o)
  BY DEF BrokerInv, TypeOK, Settled
<1>3. \A q \in requestAcceptRejects : q \in Request
  BY DEF BrokerInv, TypeOK
<1>4. \A q \in requestAcceptRejects' : reply'[q] = "asked"
  BY <1>3 DEF ServeInv
<1>5. \A o \in taskAcceptRejects' : reply'[matched'[o]] = "asked"
  BY <1>2 DEF ServeInv
<1>6. \A o \in Offer : Settled(o)' =>
       /\ matched'[o] \in Request \ requestAcceptRejects'
       /\ reply'[matched'[o]] \notin {"unasked", "expired"}
  BY <1>1 DEF ServeInv
<1>7. \A o1, o2 \in Offer : Settled(o1)' /\ Settled(o2)' /\ matched'[o1] = matched'[o2] => o1 = o2
  BY <1>1 DEF ServeInv
<1>. QED
  BY <1>4, <1>5, <1>6, <1>7 DEF ServeInv

LEMMA ServesIdle ==
  ASSUME BrokerInv, ServeInv,
         UNCHANGED <<reply, requestAcceptRejects, taskAcceptRejects>>,
         \A o \in Offer : Settled(o) => matched'[o] = matched[o],
         \A o \in Offer : status[o] \in Started \/ status'[o] \in Started =>
           status'[o] = status[o] \/ {status[o], status'[o]} \subseteq Working,
         \A o \in Offer : \A r \in Runner :
           Settings(o) \in ToSet(toRunner'[r]) => Settings(o) \in ToSet(toRunner[r])
  PROVE  ServeInv' /\ Service!ServiceNext
<1>1. Working \subseteq Started
  BY DEF Started
<1>2. \A o \in Offer : status[o] \in Started \/ status'[o] \in Started =>
         status[o] \in Started /\ Settled(o)
  BY <1>1 DEF Settled
<1>3. ServeInv'
  BY <1>2, ServeKept
<1>4. \A q \in Request : Work(q)' = Work(q)
  BY <1>2, WorkKept
<1>. QED
  BY <1>3, <1>4, ServiceActions DEF Service!ServiceNext

\* Tasks end for the broker, and their callers are answered.
LEMMA ServesAnswers ==
  ASSUME BrokerInv, ServeInv, NEW ended, ended \subseteq Offer,
         NEW a \in {"done", "error", "canceled"}, Answer(ended, a),
         a = "done" => \A o \in ended : status[o] = "ended",
         UNCHANGED <<requestAcceptRejects, matched, status>>,
         \A o \in Offer : \A r \in Runner :
           Settings(o) \in ToSet(toRunner'[r]) => Settings(o) \in ToSet(toRunner[r])
  PROVE  ServeInv' /\ Service!ServiceNext
<1>. DEFINE answered == {matched[o] : o \in ended \cap taskAcceptRejects}
<1>1. /\ \A q \in Request : reply'[q] = IF q \in answered THEN a ELSE reply[q]
      /\ taskAcceptRejects' = taskAcceptRejects \ ended
  BY DEF Answer
<1>2. \A o \in taskAcceptRejects : o \in Offer /\ Settled(o)
  BY DEF BrokerInv, TypeOK, Settled
<1>3. \A o \in Offer : status[o] \in Started => Settled(o)
  BY DEF Settled
<1>4. \A q \in answered : reply[q] = "asked"
  BY DEF ServeInv
<1>5. ASSUME NEW q \in Request, reply'[q] # reply[q]
      PROVE  /\ reply'[q] \notin {"unasked", "expired"}
             /\ q \notin requestAcceptRejects'
             /\ \A o \in taskAcceptRejects' : matched[o] # q
  <2>1. PICK x \in ended \cap taskAcceptRejects : matched[x] = q
    BY <1>1, <1>5
  <2>2. q \notin requestAcceptRejects
    BY <1>2, <2>1 DEF ServeInv
  <2>3. \A o \in taskAcceptRejects' : matched[o] # q
    BY <1>1, <1>2, <2>1 DEF ServeInv
  <2>. QED
    BY <1>1, <2>1, <2>2, <2>3
<1>6. ServeInv'
  BY <1>1, <1>3, <1>5, ServeKept
<1>7. \A q \in Request : Work(q)' = Work(q)
  BY WorkKept
<1>8. ASSUME NEW q \in answered, a = "done" PROVE Work(q) = "finished"
  <2>1. PICK x \in ended \cap taskAcceptRejects : matched[x] = q
    OBVIOUS
  <2>2. x \in Offer /\ status[x] = "ended" /\ Settled(x)
    BY <1>2, <1>8, <2>1
  <2>3. "ended" \notin Working /\ Working \subseteq Started
    BY DEF Working, Started
  <2>4. \A o \in Offer : matched[o] = q => status[o] \notin Working
    BY <1>3, <2>1, <2>2, <2>3 DEF ServeInv
  <2>. QED
    BY <2>1, <2>2, <2>4, WorkIs
<1>9. ASSUME NEW q \in Request
      PROVE  Service!Asks(q) \/ Service!Begins(q) \/ Service!Ends(q) \/ Service!Answered(q)
             \/ Service!Rests(q)
  <2>1. CASE q \in answered
    <3>1. /\ reply[q] = "asked" /\ reply'[q] \in {"done", "error", "canceled", "expired"}
          /\ reply'[q] = "done" => Work(q) = "finished"
          /\ reply'[q] # "expired"
      BY <1>1, <1>4, <1>8, <2>1
    <3>. QED
      BY <1>7, <3>1, ServiceActions
  <2>2. CASE q \notin answered
    BY <1>1, <1>7, <2>2, ServiceActions
  <2>. QED
    BY <2>1, <2>2
<1>. QED
  BY <1>6, <1>9 DEF Service!ServiceNext

\* Work ends in the runners.
LEMMA ServesEnds ==
  ASSUME BrokerInv, ServeInv,
         UNCHANGED <<reply, requestAcceptRejects, taskAcceptRejects, matched>>,
         \A o \in Offer :
           \/ status'[o] = status[o]
           \/ status[o] \in Working /\ status'[o] = "ended"
           \/ {status[o], status'[o]} \cap Started = {},
         \A o \in Offer : \A r \in Runner :
           Settings(o) \in ToSet(toRunner'[r]) => Settings(o) \in ToSet(toRunner[r])
  PROVE  ServeInv' /\ Service!ServiceNext
<1>1. Working \subseteq Started /\ "ended" \notin Working /\ "ended" \in Started
  BY DEF Started, Working
<1>2. \A o \in Offer : status'[o] \in Started => status[o] \in Started
  BY <1>1
<1>3. \A o \in Offer : status[o] \in Started => Settled(o)
  BY DEF Settled
<1>4. ServeInv'
  BY <1>2, <1>3, ServeKept
<1>5. ASSUME NEW q \in Request
      PROVE  Work(q)' = Work(q) \/ (Work(q) = "running" /\ Work(q)' = "finished")
  <2>1. Work(q)' = IF \E o \in Offer : matched[o] = q /\ status'[o] \in Working THEN "running"
                   ELSE IF \E o \in Offer : matched[o] = q /\ status'[o] = "ended" THEN "finished"
                   ELSE "none"
    BY DEF Work, Working
  <2>2. \A o \in Offer : status'[o] \in Working => status'[o] = status[o]
    BY <1>1
  <2>3. \A o \in Offer : status[o] = "ended" => status'[o] = "ended"
    BY <1>1
  <2>4. \A o \in Offer : status[o] \in Working => status'[o] = status[o] \/ status'[o] = "ended"
    BY <1>1
  <2>5. \A o \in Offer : status'[o] = "ended" => status[o] = "ended" \/ status[o] \in Working
    BY <1>1
  <2>6. CASE \E o \in Offer : matched[o] = q /\ status[o] \in Working
    BY <2>1, <2>4, <2>6, WorkIs
  <2>7. CASE ~ \E o \in Offer : matched[o] = q /\ status[o] \in Working
    BY <2>1, <2>2, <2>3, <2>5, <2>7, WorkIs
  <2>. QED
    BY <2>6, <2>7
<1>. QED
  BY <1>4, <1>5, ServiceActions DEF Service!ServiceNext

-----------------------------------------------------------------------------
(* The steps of the broker, as steps of the service *)

\* No task gets its settings.
NothingSettled ==
  \A o \in Offer : \A r \in Runner :
    Settings(o) \in ToSet(toRunner'[r]) => Settings(o) \in ToSet(toRunner[r])

LEMMA NothingSettledSending ==
  ASSUME TypeOK, NEW r \in Runner, NEW ms \in Seq(Messages), Send(r, ms),
         \A o \in Offer : Settings(o) \notin ToSet(ms)
  PROVE  NothingSettled
  BY Sent DEF NothingSettled

LEMMA SettledIsTaken ==
  ASSUME BrokerInv, NEW o \in Offer, Settled(o)
  PROVE  handshake[o] # "none" /\ status[o] # "none"
<1>1. TypeOK /\ MadeInv /\ MessageInv
  BY DEF BrokerInv
<1>2. ASSUME NEW r \in Runner, Settings(o) \in ToSet(toRunner[r])
      PROVE  handshake[o] # "none" /\ status[o] # "none"
  <2>1. Settings(o).type = "tasksettings" /\ Settings(o).offer = o
    BY MessageTypes DEF Settings
  <2>2. ToOK(Settings(o), r, maker, handshake, status)
    BY <1>1, <1>2 DEF MessageInv
  <2>. QED
    BY <2>1, <2>2 DEF ToOK
<1>3. "none" \notin Started
  BY DEF Started, Working
<1>. QED
  BY <1>1, <1>2, <1>3 DEF Settled, MadeInv

\* Matching gives no request the task of another.
LEMMA SettledIsNotMatched ==
  ASSUME BrokerInv, NEW requests, NEW offered, NEW T, NEW pick, NEW accepts,
         Settles(requests, offered, T, pick, accepts),
         \A o \in T : handshake[o] = "none"
  PROVE  NothingSettled /\ \A o \in Offer : Settled(o) => matched'[o] = matched[o]
<1>1. \A o \in Offer : Settled(o) => matched'[o] = matched[o]
  BY SettledIsTaken DEF Settles
<1>2. ASSUME NEW o \in Offer, NEW r \in Runner, Settings(o) \in ToSet(toRunner'[r])
      PROVE  Settings(o) \in ToSet(toRunner[r])
  <2>1. /\ accepts[r] \in Seq(Messages) /\ toRunner'[r] = toRunner[r] \o accepts[r]
        /\ \A m \in ToSet(accepts[r]) : m.type = "taskofferaccept"
    BY DEF Settles
  <2>2. toRunner[r] \in Seq(Messages)
    BY DEF BrokerInv, TypeOK
  <2>3. Settings(o).type # "taskofferaccept"
    BY MessageTypes DEF Settings
  <2>. QED
    BY <1>2, <2>1, <2>2, <2>3, ConcatElements
<1>. QED
  BY <1>1, <1>2 DEF NothingSettled

LEMMA GoesOnServes ==
  ASSUME BrokerInv, ServeInv, NEW o \in Offer, NEW s, GoesOn(o, s),
         s = status[o] \/ {s, status[o]} \subseteq Working
  PROVE  ServeInv' /\ Service!ServiceNext
<1>1. status \in [Offer -> ActiveStatus \union {"none", "dropped", "ended"}]
  BY DEF BrokerInv, TypeOK
<1>2. \A x \in Offer : status'[x] = status[x] \/ {status[x], status'[x]} \subseteq Working
  BY <1>1 DEF GoesOn
<1>3. UNCHANGED <<reply, requestAcceptRejects, taskAcceptRejects, matched>> /\ NothingSettled
  BY DEF GoesOn, NothingSettled
<1>. QED
  BY <1>2, <1>3, ServesIdle DEF NothingSettled

\* A task that has got no settings is dropped, or one that has started ends.
LEMMA FinishesServes ==
  ASSUME BrokerInv, ServeInv, NEW o \in Offer, NEW ended, NEW ms, Finishes(o, ended, ms),
         \/ status[o] = "waitingForSettings" /\ ended = "dropped"
         \/ status[o] \in Working /\ ended = "ended"
  PROVE  ServeInv' /\ Service!ServiceNext
<1>1. status \in [Offer -> ActiveStatus \union {"none", "dropped", "ended"}]
  BY DEF BrokerInv, TypeOK
<1>2. status' = [status EXCEPT ![o] = ended]
  BY DEF Finishes, FinishTask
<1>3. {"waitingForSettings", "dropped"} \cap Started = {}
  BY DEF Started, Working
<1>4. \A x \in Offer :
           \/ status'[x] = status[x]
           \/ status[x] \in Working /\ status'[x] = "ended"
           \/ {status[x], status'[x]} \cap Started = {}
  BY <1>1, <1>2, <1>3
<1>5. UNCHANGED <<reply, requestAcceptRejects, taskAcceptRejects, matched>> /\ NothingSettled
  BY DEF Finishes, NothingSettled
<1>. QED
  BY <1>4, <1>5, ServesEnds DEF NothingSettled

LEMMA CrashServes ==
  ASSUME BrokerInv, ServeInv, NEW r \in Runner, Crash(r)
  PROVE  ServeInv' /\ Service!ServiceNext
<1>1. TypeOK
  BY DEF BrokerInv
<1>2. "waitingForSettings" \notin Started /\ "dropped" \notin Started
  BY DEF Started, Working
<1>3. \A o \in RunningTasks(r) : status[o] # "waitingForSettings" => status[o] \in Working
  BY DEF RunningTasks, ActiveStatus, Working
<1>4. \A o \in Offer :
        status'[o] = IF o \notin RunningTasks(r) THEN status[o]
                     ELSE IF status[o] = "waitingForSettings" THEN "dropped" ELSE "ended"
  BY DEF Crash
<1>5. \A o \in Offer :
        \/ status'[o] = status[o]
        \/ status[o] \in Working /\ status'[o] = "ended"
        \/ {status[o], status'[o]} \cap Started = {}
  BY <1>2, <1>3, <1>4
<1>6. NothingSettled
  <2>1. toRunner'[r] = <<>> /\ \A x \in Runner : x # r => toRunner'[x] = toRunner[x]
    BY <1>1 DEF Crash, TypeOK
  <2>. QED
    BY <2>1, OthersSent DEF NothingSettled
<1>7. UNCHANGED <<reply, requestAcceptRejects, taskAcceptRejects, matched>>
  BY DEF Crash
<1>. QED
  BY <1>5, <1>6, <1>7, ServesEnds DEF NothingSettled

LEMMA OfferAcceptedServes ==
  ASSUME BrokerInv, ServeInv, NEW r \in Runner, OfferAccepted(r)
  PROVE  ServeInv' /\ Service!ServiceNext
<1>1. TypeOK /\ MessageInv /\ MadeInv
  BY DEF BrokerInv
<1>. DEFINE o == Head(toRunner[r]).offer
<1>2. FromBroker(r, "taskofferaccept") /\ PopFromBroker(r)
      /\ UNCHANGED <<reply, requestAcceptRejects, taskAcceptRejects, matched>>
  BY DEF OfferAccepted
<1>3. NothingSettled
  BY <1>1, <1>2, ReceivedByRunner DEF NothingSettled
<1>4. {"none", "waitingForSettings"} \cap Started = {}
  BY DEF Started, Working
<1>5. \A x \in Offer :
        status'[x] = status[x] \/ {status[x], status'[x]} \cap Started = {}
  <2>1. CASE OfferTaken(r, o)
    <3>1. o \in openOffers[r] /\ status' = [status EXCEPT ![o] = "waitingForSettings"]
      BY <2>1 DEF OfferTaken
    <3>. HIDE DEF o
    <3>2. o \in Offer /\ status[o] = "none"
      BY <1>1, <3>1 DEF MadeInv, TypeOK
    <3>3. status \in [Offer -> ActiveStatus \union {"none", "dropped", "ended"}]
      BY <1>1 DEF TypeOK
    <3>. QED
      BY <1>4, <3>1, <3>2, <3>3
  <2>2. CASE UNCHANGED status
    BY <2>2
  <2>. QED
    BY <2>1, <2>2 DEF OfferAccepted, OfferDeferred, OfferRefused
<1>. HIDE DEF o
<1>. QED
  BY <1>2, <1>3, <1>5, ServesEnds DEF NothingSettled

\* The settings start the task, the only one of its request.
LEMMA TaskStartsServes ==
  ASSUME BrokerInv, ServeInv, NEW o \in Offer, status[o] = "waitingForSettings",
         GoesOn(o, "running"), Settled(o)
  PROVE  ServeInv' /\ Service!ServiceNext
<1>1. TypeOK /\ status \in [Offer -> ActiveStatus \union {"none", "dropped", "ended"}]
  BY DEF BrokerInv, TypeOK
<1>2. /\ "waitingForSettings" \notin Started /\ "running" \in Working
      /\ Working \subseteq Started /\ "ended" \in Started
  BY DEF Started, Working
<1>3. UNCHANGED <<reply, requestAcceptRejects, taskAcceptRejects, matched>>
  BY DEF GoesOn
<1>4. status'[o] = "running" /\ \A x \in Offer : x # o => status'[x] = status[x]
  BY <1>1 DEF GoesOn
<1>5. \A x \in Offer : status[x] \in Started => Settled(x)
  BY DEF Settled
<1>6. ServeInv'
  BY <1>3, <1>4, <1>5, ServeKept DEF GoesOn
<1>7. PICK m \in Request : m = matched[o] /\ reply[m] \notin {"unasked", "expired"}
  BY DEF ServeInv
<1>8. \A x \in Offer : matched[x] = m => x = o \/ status[x] \notin Started
  BY <1>5, <1>7 DEF ServeInv
<1>9. \A q : Work(q)' = IF \E x \in Offer : matched[x] = q /\ status'[x] \in Working THEN "running"
                   ELSE IF \E x \in Offer : matched[x] = q /\ status'[x] = "ended" THEN "finished"
                   ELSE "none"
  BY <1>3 DEF Work, Working
<1>10. Work(m) = "none" /\ Work(m)' = "running"
  <2>1. Work(m) = "none"
    BY <1>2, <1>8, WorkIs
  <2>2. Work(m)' = "running"
    BY <1>2, <1>4, <1>7, <1>9
  <2>. QED
    BY <2>1, <2>2
<1>11. \A q \in Request : q # m => Work(q)' = Work(q)
  BY <1>4, <1>7, <1>9, WorkIs
<1>12. \A q \in Request : Service!Begins(q) \/ Service!Rests(q)
  BY <1>3, <1>7, <1>10, <1>11, ServiceActions
<1>. QED
  BY <1>6, <1>12 DEF Service!ServiceNext

LEMMA ReceivedSettingsServes ==
  ASSUME BrokerInv, ServeInv, NEW r \in Runner, ReceivedSettings(r)
  PROVE  ServeInv' /\ Service!ServiceNext
<1>1. TypeOK /\ MessageInv
  BY DEF BrokerInv
<1>2. PICK o \in Offer :
           /\ o = Head(toRunner[r]).offer /\ maker[o] = r
           /\ \/ status[o] = "waitingForSettings" /\ GoesOn(o, "running")
              \/ status[o] # "waitingForSettings" /\ GoesOn(o, status[o])
  BY ReceivedSettingsEffect
<1>3. FromBroker(r, "tasksettings") /\ PopFromBroker(r)
  BY DEF ReceivedSettings
<1>4. Head(toRunner[r]) = Settings(o) /\ Head(toRunner[r]) \in ToSet(toRunner[r])
  <2>1. Head(toRunner[r]).type = "tasksettings" /\ Head(toRunner[r]) \in Messages
        /\ toRunner[r] # <<>>
    BY <1>1, <1>3, ReceivedByRunner
  <2>2. Head(toRunner[r]) \in ToSet(toRunner[r])
    BY <1>1, <1>3, <2>1, PoppedToRunner
  <2>. QED
    BY <1>2, <2>1, <2>2, MessageTypes DEF Settings
<1>5. Settled(o)
  BY <1>4 DEF Settled
<1>. QED
  BY <1>2, <1>5, TaskStartsServes, GoesOnServes

LEMMA StartTaskServes ==
  ASSUME BrokerInv, ServeInv, NEW q \in Request, StartTask(q)
  PROVE  ServeInv' /\ Service!ServiceNext
<1>1. TypeOK
  BY DEF BrokerInv
<1>2. \A o \in Offer : status[o] \in Started => Settled(o)
  BY DEF Settled
<1>3. /\ reply[q] = "unasked" /\ reply'[q] \in {"asked", "expired"}
      /\ \A x \in Request : x # q => reply'[x] = reply[x]
      /\ UNCHANGED <<taskAcceptRejects, status>>
      /\ requestAcceptRejects' = requestAcceptRejects
           \/ (requestAcceptRejects' = requestAcceptRejects \cup {q} /\ reply'[q] = "asked")
  BY <1>1 DEF StartTask, TypeOK
<1>4. NothingSettled /\ \A o \in Offer : Settled(o) => matched'[o] = matched[o]
  <2>1. CASE isDraining
    BY <2>1 DEF StartTask, NothingSettled
  <2>2. CASE ~isDraining
    BY <2>2, StartTaskSettles, SettledIsNotMatched
  <2>. QED
    BY <2>1, <2>2
<1>5. \A o \in Offer : Settled(o)' => Settled(o) /\ matched'[o] = matched[o]
  BY <1>3, <1>4 DEF Settled, NothingSettled
<1>6. \A o \in Offer : Settled(o) => matched[o] \in Request \ {q}
  BY <1>3 DEF ServeInv
<1>7. \A o \in taskAcceptRejects : o \in Offer /\ Settled(o)
  BY <1>1 DEF TypeOK, Settled
<1>8. requestAcceptRejects \subseteq Request
  BY <1>1 DEF TypeOK
<1>9. ServeInv'
  <2>1. \A x \in requestAcceptRejects' : reply'[x] = "asked"
    <3>1. \A x \in requestAcceptRejects : x # q /\ x \in Request
      BY <1>3, <1>8 DEF ServeInv
    <3>. QED
      BY <1>3, <3>1 DEF ServeInv
  <2>2. \A o \in taskAcceptRejects' : reply'[matched'[o]] = "asked"
    BY <1>3, <1>4, <1>6, <1>7 DEF ServeInv
  <2>3. \A o \in Offer : Settled(o)' =>
          /\ matched'[o] \in Request \ requestAcceptRejects'
          /\ reply'[matched'[o]] \notin {"unasked", "expired"}
    BY <1>3, <1>5, <1>6 DEF ServeInv
  <2>4. \A o1, o2 \in Offer :
          Settled(o1)' /\ Settled(o2)' /\ matched'[o1] = matched'[o2] => o1 = o2
    BY <1>5 DEF ServeInv
  <2>. QED
    BY <2>1, <2>2, <2>3, <2>4 DEF ServeInv
<1>10. \A x : Work(x)' = Work(x)
  BY <1>2, <1>3, <1>4, WorkKept
<1>11. \A x \in Request : Service!Asks(x) \/ Service!Rests(x)
  BY <1>3, <1>10, ServiceActions
<1>. QED
  BY <1>9, <1>11 DEF Service!ServiceNext

\* A request that expires has not been given a task.
LEMMA RequestTimeoutServes ==
  ASSUME BrokerInv, ServeInv, NEW q \in Request, RequestTimeout(q)
  PROVE  ServeInv' /\ Service!ServiceNext
<1>1. TypeOK
  BY DEF BrokerInv
<1>2. UNCHANGED <<taskAcceptRejects, status, matched, toRunner>>
  BY DEF RequestTimeout
<1>3. CASE UNCHANGED <<requestAcceptRejects, reply>>
  BY <1>2, <1>3, ServesIdle
<1>4. CASE /\ q \in requestAcceptRejects
           /\ requestAcceptRejects' = requestAcceptRejects \ {q}
           /\ reply' = [reply EXCEPT ![q] = "expired"]
  <2>1. reply'[q] = "expired" /\ \A x \in Request : x # q => reply'[x] = reply[x]
    BY <1>1, <1>4 DEF TypeOK
  <2>2. \A o \in Offer : Settled(o) => matched[o] \in Request \ {q}
    BY <1>4 DEF ServeInv
  <2>3. \A o \in Offer : Settled(o)' <=> Settled(o)
    BY <1>2 DEF Settled
  <2>4. \A o \in taskAcceptRejects : o \in Offer /\ Settled(o)
    BY <1>1 DEF TypeOK, Settled
  <2>5. requestAcceptRejects \subseteq Request
    BY <1>1 DEF TypeOK
  <2>6. ServeInv'
    <3>1. \A x \in requestAcceptRejects' : reply'[x] = "asked"
      BY <1>4, <2>1, <2>5 DEF ServeInv
    <3>2. \A o \in taskAcceptRejects' : reply'[matched'[o]] = "asked"
      BY <1>2, <2>1, <2>2, <2>4 DEF ServeInv
    <3>3. \A o \in Offer : Settled(o)' =>
            /\ matched'[o] \in Request \ requestAcceptRejects'
            /\ reply'[matched'[o]] \notin {"unasked", "expired"}
      BY <1>2, <1>4, <2>1, <2>2, <2>3 DEF ServeInv
    <3>4. \A o1, o2 \in Offer :
            Settled(o1)' /\ Settled(o2)' /\ matched'[o1] = matched'[o2] => o1 = o2
      BY <1>2, <2>3 DEF ServeInv
    <3>. QED
      BY <3>1, <3>2, <3>3, <3>4 DEF ServeInv
  <2>7. \A x \in Request : Work(x)' = Work(x)
    BY <1>2, WorkKept
  <2>8. Work(q) = "none"
    <3>1. \A o \in Offer : matched[o] = q => status[o] \notin Started
      BY <2>2 DEF Settled
    <3>. QED
      BY <3>1, WorkIs DEF Started
  <2>9. reply[q] = "asked"
    BY <1>4 DEF ServeInv
  <2>10. Service!Answered(q)
    BY <2>1, <2>7, <2>8, <2>9, ServiceActions
  <2>11. \A x \in Request : x # q => Service!Rests(x)
    BY <2>1, <2>7, ServiceActions
  <2>. QED
    BY <2>6, <2>10, <2>11 DEF Service!ServiceNext
<1>. QED
  BY <1>3, <1>4 DEF RequestTimeout

\* A request is given a task when it has none, and does not wait for another.
LEMMA TaskSettledServes ==
  ASSUME BrokerInv, ServeInv, NEW r \in Runner, NEW o \in Offer, TaskSettled(r, o),
         matched[o] \in Request, UNCHANGED <<matched, status, reply>>
  PROVE  ServeInv' /\ Service!ServiceNext
<1>1. TypeOK
  BY DEF BrokerInv
<1>2. PICK m \in Request : m = matched[o]
  OBVIOUS
<1>3. /\ m \in requestAcceptRejects
      /\ requestAcceptRejects' = requestAcceptRejects \ {m}
      /\ taskAcceptRejects' = taskAcceptRejects \cup {o}
      /\ Send(r, <<Settings(o)>>)
  BY <1>2 DEF TaskSettled, Settings
<1>4. \A x \in Offer : \A y \in Runner :
        Settings(x) \in ToSet(toRunner'[y]) => Settings(x) \in ToSet(toRunner[y]) \/ x = o
  BY <1>1, <1>3, OthersSent, Sent
<1>5. \A x \in Offer : Settled(x)' => Settled(x) \/ x = o
  BY <1>3, <1>4 DEF Settled
<1>6. \A x \in Offer : Settled(x) => matched[x] \in Request \ {m}
  BY <1>3 DEF ServeInv
<1>7. reply[m] = "asked"
  BY <1>3 DEF ServeInv
<1>8. ServeInv'
  <2>1. \A x \in requestAcceptRejects' : reply'[x] = "asked"
    BY <1>3 DEF ServeInv
  <2>2. \A x \in taskAcceptRejects' : reply'[matched'[x]] = "asked"
    BY <1>2, <1>3, <1>7 DEF ServeInv
  <2>3. \A x \in Offer : Settled(x)' =>
          /\ matched'[x] \in Request \ requestAcceptRejects'
          /\ reply'[matched'[x]] \notin {"unasked", "expired"}
    BY <1>2, <1>3, <1>5, <1>6, <1>7 DEF ServeInv
  <2>4. \A o1, o2 \in Offer :
          Settled(o1)' /\ Settled(o2)' /\ matched'[o1] = matched'[o2] => o1 = o2
    <3>. SUFFICES ASSUME NEW o1 \in Offer, NEW o2 \in Offer, Settled(o1)', Settled(o2)',
                         matched[o1] = matched[o2]
                  PROVE  o1 = o2
      OBVIOUS
    <3>1. CASE Settled(o1) /\ Settled(o2)
      BY <3>1 DEF ServeInv
    <3>2. CASE ~Settled(o1) \/ ~Settled(o2)
      BY <1>2, <1>5, <1>6, <3>2
    <3>. QED
      BY <3>1, <3>2
  <2>. QED
    BY <2>1, <2>2, <2>3, <2>4 DEF ServeInv
<1>9. \A q \in Request : Work(q)' = Work(q)
  BY WorkKept
<1>. QED
  BY <1>8, <1>9, ServiceActions DEF Service!ServiceNext

LEMMA TaskAcceptedServes ==
  ASSUME BrokerInv, ServeInv, NEW r \in Runner, TaskAccepted(r)
  PROVE  ServeInv' /\ Service!ServiceNext
<1>1. TypeOK /\ MadeInv
  BY DEF BrokerInv
<1>2. PICK o \in Offer : /\ Decides(r, "taskaccepted", o)
                         /\ TaskSettled(r, o) \/ TaskRefused(r, o) \/ TaskOrphaned(o)
                         /\ UNCHANGED <<matched, status, reply>>
  BY DEF TaskAccepted
<1>3. CASE TaskSettled(r, o)
  <2>1. matched[o] \in Request
    BY <1>1, <1>2 DEF Decides, MadeInv
  <2>. QED
    BY <1>2, <1>3, <2>1, TaskSettledServes
<1>4. CASE TaskRefused(r, o)
  <2>1. Send(r, <<Cancel(o)>>) /\ UNCHANGED <<requestAcceptRejects, taskAcceptRejects>>
    BY <1>4 DEF TaskRefused, Cancel
  <2>2. NothingSettled
    BY <1>1, <2>1, OthersSent, NothingSettledSending
  <2>. QED
    BY <1>2, <2>1, <2>2, ServesIdle DEF NothingSettled
<1>5. CASE TaskOrphaned(o)
  <2>1. UNCHANGED <<requestAcceptRejects, taskAcceptRejects, toRunner>>
    BY <1>5 DEF TaskOrphaned
  <2>. QED
    BY <1>2, <2>1, ServesIdle
<1>. QED
  BY <1>2, <1>3, <1>4, <1>5

LEMMA TaskEndedServes ==
  ASSUME BrokerInv, ServeInv, NEW r \in Runner, TaskEnded(r)
  PROVE  ServeInv' /\ Service!ServiceNext
<1>1. TypeOK /\ MessageInv
  BY DEF BrokerInv
<1>. DEFINE o == Head(toBroker[r]).offer
<1>2. PICK type \in {"taskdone", "taskerror"} :
        /\ FromRunner(r, type) /\ PopFromRunner(r)
        /\ Answer({o} \cap tasks, IF type = "taskdone" THEN "done" ELSE "error")
  BY DEF TaskEnded
<1>3. UNCHANGED <<requestAcceptRejects, matched, status, toRunner>>
  BY DEF TaskEnded
<1>4. type = "taskdone" => status[o] = "ended"
  BY <1>1, <1>2, Received DEF FromOK
<1>5. {o} \cap tasks \subseteq Offer
  BY <1>1 DEF TypeOK
<1>. HIDE DEF o
<1>6. CASE type = "taskdone"
  <2>1. Answer({o} \cap tasks, "done")
    BY <1>2, <1>6
  <2>. QED
    BY <1>3, <1>4, <1>5, <1>6, <2>1, ServesAnswers
<1>7. CASE type = "taskerror"
  <2>1. Answer({o} \cap tasks, "error")
    BY <1>2, <1>7
  <2>. QED
    BY <1>3, <1>5, <2>1, ServesAnswers
<1>. QED
  BY <1>2, <1>6, <1>7

LEMMA RemoveConnectionServes ==
  ASSUME BrokerInv, ServeInv, NEW r \in Runner, RemoveConnection(r)
  PROVE  ServeInv' /\ Service!ServiceNext
<1>. DEFINE failed == {o \in tasks : maker[o] = r}
<1>1. /\ Answer(failed, "error") /\ Send(r, <<Signal("close")>>)
      /\ UNCHANGED <<requestAcceptRejects, matched, status>>
  BY DEF RemoveConnection
<1>2. TypeOK /\ failed \subseteq Offer
  BY DEF BrokerInv, TypeOK
<1>3. NothingSettled
  BY <1>1, <1>2, OthersSent, NothingSettledSending
<1>. HIDE DEF failed
<1>. QED
  BY <1>1, <1>2, <1>3, ServesAnswers DEF NothingSettled

LEMMA CancelTaskServes ==
  ASSUME BrokerInv, ServeInv, NEW o \in Offer, CancelTask(o)
  PROVE  ServeInv' /\ Service!ServiceNext
<1>. DEFINE ms == IF o \in tasks THEN <<Cancel(o)>> ELSE <<>>
<1>1. /\ Answer({o}, "canceled") /\ Send(maker[o], ms)
      /\ UNCHANGED <<requestAcceptRejects, matched, status>>
  BY DEF CancelTask, Cancel
<1>2. TypeOK /\ maker[o] \in Runner
  BY TasksTaken DEF CancelTask, BrokerInv
<1>3. ms \in Seq(Messages) /\ \A x \in Offer : Settings(x) \notin ToSet(ms)
  BY OthersSent
<1>. HIDE DEF ms
<1>4. NothingSettled
  BY <1>1, <1>2, <1>3, NothingSettledSending
<1>. QED
  BY <1>1, <1>4, ServesAnswers DEF NothingSettled

LEMMA TaskTimeoutServes ==
  ASSUME BrokerInv, ServeInv, NEW o \in Offer, TaskTimeout(o)
  PROVE  ServeInv' /\ Service!ServiceNext
<1>. DEFINE ms == IF Mode = "external" THEN <<Cancel(o)>> ELSE <<>>
<1>1. /\ Answer({o}, "error") /\ Send(maker[o], ms)
      /\ UNCHANGED <<requestAcceptRejects, matched, status>>
  BY DEF TaskTimeout, Cancel
<1>2. TypeOK /\ maker[o] \in Runner
  BY DEF TaskTimeout, BrokerInv, MadeInv
<1>3. ms \in Seq(Messages) /\ \A x \in Offer : Settings(x) \notin ToSet(ms)
  BY OthersSent
<1>. HIDE DEF ms
<1>4. NothingSettled
  BY <1>1, <1>2, <1>3, NothingSettledSending
<1>. QED
  BY <1>1, <1>4, ServesAnswers DEF NothingSettled

LEMMA StartDrainingServes ==
  ASSUME BrokerInv, ServeInv, StartDraining
  PROVE  ServeInv' /\ Service!ServiceNext
<1>1. UNCHANGED <<reply, requestAcceptRejects, taskAcceptRejects, matched, status>>
  BY DEF StartDraining
<1>2. ASSUME NEW r \in Runner, NEW o \in Offer, Settings(o) \in ToSet(toRunner'[r])
      PROVE  Settings(o) \in ToSet(toRunner[r])
  <2>1. toRunner[r] \in Seq(Messages) /\ Signal("drain") \in Messages
    BY Signals DEF BrokerInv, TypeOK
  <2>2. toRunner'[r] = toRunner[r] \/ toRunner'[r] = Append(toRunner[r], Signal("drain"))
    BY DEF StartDraining
  <2>3. Settings(o) # Signal("drain")
    BY MessageTypes DEF Settings
  <2>4. CASE toRunner'[r] = Append(toRunner[r], Signal("drain"))
    <3>1. ToSet(toRunner'[r]) = ToSet(toRunner[r]) \cup {Signal("drain")}
      BY <2>1, <2>4, AppendElements
    <3>. QED
      BY <1>2, <2>3, <3>1
  <2>. QED
    BY <1>2, <2>2, <2>4
<1>. QED
  BY <1>1, <1>2, ServesIdle

\* Every step is one of the service, or no step for it.
LEMMA ServeStep ==
  ASSUME BrokerInv, ServeInv, [Next]_vars
  PROVE  ServeInv' /\ Service!ServiceNext
<1>1. TypeOK
  BY DEF BrokerInv
<1>2. ASSUME UNCHANGED <<reply, requestAcceptRejects, taskAcceptRejects, matched, status>>,
             NothingSettled
      PROVE  ServeInv' /\ Service!ServiceNext
  BY <1>2, ServesIdle DEF NothingSettled
<1>3. ASSUME UNCHANGED <<reply, requestAcceptRejects, taskAcceptRejects, matched, status>>,
             UNCHANGED toRunner
      PROVE  ServeInv' /\ Service!ServiceNext
  BY <1>2, <1>3 DEF NothingSettled
<1>4. ASSUME NEW r \in Runner, RunnerNext(r) PROVE ServeInv' /\ Service!ServiceNext
  <2>1. CASE RegisterRunner(r)
    <3>1. NothingSettled
      BY <1>1, <2>1, OthersSent, NothingSettledSending DEF RegisterRunner
    <3>. QED
      BY <1>2, <2>1, <3>1 DEF RegisterRunner
  <2>2. CASE TaskOffered(r)
    <3>1. NothingSettled /\ \A o \in Offer : Settled(o) => matched'[o] = matched[o]
      BY <2>2, TaskOfferedSettles, SettledIsNotMatched
    <3>2. UNCHANGED <<reply, requestAcceptRejects, taskAcceptRejects, status>>
      BY <2>2 DEF TaskOffered
    <3>. QED
      BY <3>1, <3>2, ServesIdle DEF NothingSettled
  <2>3. CASE AnswersTooLate(r) \/ TaskRejected(r) \/ TaskDeferred(r)
    BY <1>3, <2>3 DEF AnswersTooLate, TaskRejected, TaskDeferred
  <2>4. CASE Connect(r) \/ SendOffers(r)
    BY <1>3, <2>4 DEF Connect, SendOffers
  <2>5. CASE SwitchOffers(r)
    <3>1. PICK type \in {"runnerregistered", "drain", "close"} :
            FromBroker(r, type) /\ PopFromBroker(r)
      BY <2>5 DEF SwitchOffers
    <3>2. NothingSettled
      BY <1>1, <3>1, ReceivedByRunner DEF NothingSettled, BrokerInv
    <3>. QED
      BY <1>2, <2>5, <3>2 DEF SwitchOffers
  <2>6. CASE TaskCancelled(r)
    <3>1. PICK o \in Offer :
           \/ status[o] = "waitingForSettings" /\ Finishes(o, "dropped", <<>>)
           \/ status[o] = "running" /\ GoesOn(o, "aborting:cancelled")
           \/ status[o] \notin {"waitingForSettings", "running"} /\ GoesOn(o, status[o])
      BY <2>6, TaskCancelledEffect
    <3>2. {"running", "aborting:cancelled"} \subseteq Working
      BY DEF Working
    <3>. QED
      BY <3>1, <3>2, FinishesServes, GoesOnServes
  <2>7. CASE BrokerReceives(r)
    BY <2>1, <2>2, <2>3, <2>7, TaskAcceptedServes, TaskEndedServes DEF BrokerReceives
  <2>8. CASE RunnerReceives(r)
    BY <2>5, <2>6, <2>8, OfferAcceptedServes, ReceivedSettingsServes DEF RunnerReceives
  <2>. QED
    BY <1>4, <2>4, <2>7, <2>8, RemoveConnectionServes, CrashServes DEF RunnerNext
<1>5. ASSUME NEW q \in Request, RequestNext(q) PROVE ServeInv' /\ Service!ServiceNext
  BY <1>5, StartTaskServes, RequestTimeoutServes DEF RequestNext
<1>6. ASSUME NEW o \in Offer, TaskNext(o) PROVE ServeInv' /\ Service!ServiceNext
  <2>1. CASE AcceptTimeout(o)
    BY <1>3, <2>1 DEF AcceptTimeout
  <2>2. CASE TaskTimedOut(o)
    <3>1. {"running", "aborting:timeout"} \subseteq Working
      BY DEF Working
    <3>. QED
      BY <2>2, <3>1, TaskTimedOutEffect, FinishesServes, GoesOnServes
  <2>3. CASE TaskExecuted(o)
    <3>1. status[o] \in Working
      BY <2>3, TaskExecutedEffect DEF Working
    <3>. QED
      BY <2>3, <3>1, TaskExecutedEffect, FinishesServes
  <2>. QED
    BY <1>6, <2>1, <2>2, <2>3, CancelTaskServes, TaskTimeoutServes DEF TaskNext
<1>7. CASE UNCHANGED vars
  BY <1>3, <1>7 DEF vars
<1>. QED
  BY <1>4, <1>5, <1>6, <1>7, StartDrainingServes DEF Next

LEMMA InitServe == Init => ServeInv /\ Service!ServiceInit
<1>. SUFFICES ASSUME Init PROVE ServeInv /\ Service!ServiceInit
  OBVIOUS
<1>1. \A o \in Offer : status[o] \notin Started
  BY DEF Init, Started, Working
<1>2. \A o \in Offer : ~Settled(o)
  BY <1>1, OthersSent DEF Init, Settled
<1>3. ServeInv
  BY <1>2 DEF Init, ServeInv
<1>4. \A q \in Request : Work(q) = "none"
  BY <1>1, WorkIs DEF Started
<1>5. [q \in Request |-> Work(q)] = [q \in Request |-> "none"]
  BY <1>4
<1>6. reply = [q \in Request |-> "unasked"]
  BY DEF Init
<1>. QED
  BY <1>3, <1>5, <1>6 DEF Service!ServiceInit

\* The broker, the requester and the runners implement the service: a node gets one
\* answer, its code is run at most once, a result is the result of a finished run and
\* an expired request is never run, for any number of runners, requests, slots and
\* offers and in whatever order messages arrive, timers fire, connections close and
\* runners die.
THEOREM ServiceImplemented == Spec => ImplementsTaskService
<1>1. Init => ServeInv /\ Service!ServiceInit
  BY InitServe
<1>2. BrokerInv /\ ServeInv /\ [Next]_vars => ServeInv' /\ [Service!ServiceNext]_(Service!serviceVars)
  BY ServeStep
<1>. QED
  BY <1>1, <1>2, BrokerInvariant, PTL DEF Spec, ImplementsTaskService, Service!ServiceSpec

=============================================================================
