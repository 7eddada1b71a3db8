------------------------- MODULE ConcurrencyControl -------------------------
(***************************************************************************)
(* Concurrency control of production and evaluation executions in regular  *)
(* mode: ConcurrencyControlService, its ConcurrencyQueues and the          *)
(* ConcurrencyCapacityReservation each run of a workflow makes.            *)
(*                                                                         *)
(* A call is one run of a workflow that reserves capacity for an           *)
(* execution (WorkflowRunner.run -> ActiveExecutions.add), and stands for  *)
(* the promise the queue holds while the call is throttled.  Everything    *)
(* below is synchronous JavaScript, so every operation is one atomic step. *)
(***************************************************************************)
EXTENDS Integers, Sequences, FiniteSets

CONSTANTS Call,             \* runs that ask for capacity
          Execution,        \* execution ids
          ModeOf,           \* [Execution -> Mode], IExecutionDb.mode
          ProductionLimit,  \* N8N_CONCURRENCY_PRODUCTION_LIMIT
          EvaluationLimit,  \* N8N_CONCURRENCY_EVALUATION_LIMIT
          ExecutionsMode,   \* EXECUTIONS_MODE, "regular" or "queue"
          None

ProductionModes == {"webhook", "trigger", "chat"}
UnlimitedModes == {"error", "integrated", "cli", "internal", "manual", "retry"}
Mode == ProductionModes \cup UnlimitedModes \cup {"evaluation"}

\* Two kinds of queue; a limit of 0 makes the constructor throw.
QueueType == {"production", "evaluation"}

ASSUME ModeAssumption == ModeOf \in [Execution -> Mode]
ASSUME LimitAssumption == /\ ProductionLimit \in Int \ {0}
                          /\ EvaluationLimit \in Int \ {0}
ASSUME NoneAssumption == None \notin Execution /\ None \notin Call
ASSUME CallAssumption == IsFiniteSet(Call)

Configured(t) == IF t = "production" THEN ProductionLimit ELSE EvaluationLimit

\* Limits below -1 are normalised to -1, "unlimited".
Limit == [t \in QueueType |-> IF Configured(t) < -1 THEN -1 ELSE Configured(t)]

\* The queue of a type exists only when its limit is positive.
LimitedType == {t \in QueueType : Limit[t] > 0}

InitiallyEnabled ==
  /\ ExecutionsMode # "queue"
  /\ \E t \in QueueType : Limit[t] # -1

QueueTypeOf(e) ==
  IF ModeOf[e] \in ProductionModes THEN "production"
  ELSE IF ModeOf[e] = "evaluation" THEN "evaluation" ELSE None

IsUnlimited(e) == QueueTypeOf(e) \notin LimitedType

VARIABLES
  isEnabled,    \* ConcurrencyControlService.isEnabled
  capacity,     \* per queue type, ConcurrencyQueue.capacity
  queue,        \* per queue type, the throttled calls, oldest first
  target,       \* per call, the execution its CapacityTarget names
  reservation   \* per call, the state of its capacity reservation

controlVars == <<isEnabled, capacity, queue, target, reservation>>

ControlInit ==
  /\ isEnabled = InitiallyEnabled
  /\ capacity = Limit
  /\ queue = [t \in QueueType |-> <<>>]
  /\ target = [c \in Call |-> None]
  /\ reservation = [c \in Call |-> "none"]

-----------------------------------------------------------------------------
(* Mutants: plausible mistakes in the operations below.  None is part of the *)
(* specification; each stands in for one operation to show that a property  *)
(* would notice the mistake.                                                *)

\* enqueue() tests the capacity before it takes its unit.
MutantEnqueueOffByOne(t, c) ==
  /\ capacity[t] >= 0
  /\ capacity' = [capacity EXCEPT ![t] = @ - 1]
  /\ reservation' = [reservation EXCEPT ![c] = "acquired"]
  /\ UNCHANGED queue

\* The next call is let through, but its unit of capacity is not given back.
MutantNoCapacityBack(t, q, res) ==
  /\ UNCHANGED capacity
  /\ queue' = [queue EXCEPT ![t] = IF q = <<>> THEN q ELSE Tail(q)]
  /\ reservation' = IF q = <<>> THEN res ELSE [res EXCEPT ![Head(q)] = "acquired"]

\* Capacity is given back, but nobody is let through.
MutantNobodyResolved(t, q, res) ==
  /\ capacity' = [capacity EXCEPT ![t] = @ + 1]
  /\ queue' = [queue EXCEPT ![t] = q]
  /\ reservation' = res

\* The youngest throttled call is let through (pop for shift).
MutantLastFirst(t, q, res) ==
  /\ capacity' = [capacity EXCEPT ![t] = @ + 1]
  /\ queue' = [queue EXCEPT ![t] = SubSeq(q, 1, Len(q) - 1)]
  /\ reservation' = IF q = <<>> THEN res ELSE [res EXCEPT ![q[Len(q)]] = "acquired"]

\* splice() removes the wrong number of elements.
MutantSpliceTwo(q, i) == SubSeq(q, 1, i - 1) \o SubSeq(q, i + 2, Len(q))

-----------------------------------------------------------------------------
(* ConcurrencyQueue *)

\* enqueue(): takes a unit of capacity, and waits when none was left.
EnqueueAdmitted(t, c) ==
  /\ capacity[t] > 0
  /\ capacity' = [capacity EXCEPT ![t] = @ - 1]
  /\ reservation' = [reservation EXCEPT ![c] = "acquired"]
  /\ UNCHANGED queue

EnqueueThrottled(t, c) ==
  /\ capacity[t] <= 0
  /\ capacity' = [capacity EXCEPT ![t] = @ - 1]
  /\ queue' = [queue EXCEPT ![t] = Append(@, c)]
  /\ reservation' = [reservation EXCEPT ![c] = "throttled"]

\* Gives a unit of capacity back and resolves the promise at the head of q, the
\* throttled calls that remain; res is the state of all reservations before it.
ResolveNext(t, q, res) ==
  /\ capacity' = [capacity EXCEPT ![t] = @ + 1]
  /\ \/ /\ q = <<>>
        /\ queue' = [queue EXCEPT ![t] = q]
        /\ reservation' = res
     \/ /\ q # <<>>
        /\ queue' = [queue EXCEPT ![t] = Tail(q)]
        /\ reservation' = [res EXCEPT ![Head(q)] = "acquired"]

Dequeue(t, res) == ResolveNext(t, queue[t], res)

\* The position remove() finds: the first throttled call for the execution.
IsFirstFor(e, t, i) ==
  /\ i \in DOMAIN queue[t]
  /\ target[queue[t][i]] = e
  /\ \A j \in 1..(i - 1) : target[queue[t][j]] # e

Without(q, i) == SubSeq(q, 1, i - 1) \o SubSeq(q, i + 1, Len(q))

InQueue(e, t) == \E i \in DOMAIN queue[t] : target[queue[t][i]] = e

-----------------------------------------------------------------------------
(* ConcurrencyControlService and ConcurrencyCapacityReservation *)

Has(e) == isEnabled /\ \E t \in LimitedType : InQueue(e, t)

\* reserve(), where throttle() lets the call through without looking at a queue.
ReserveUnlimited(c) ==
  /\ ~isEnabled \/ IsUnlimited(target[c])
  /\ reservation' = [reservation EXCEPT ![c] = "acquired"]
  /\ UNCHANGED <<capacity, queue>>

ReserveLimited(c) ==
  /\ isEnabled /\ ~IsUnlimited(target[c])
  /\ LET t == QueueTypeOf(target[c]) IN EnqueueAdmitted(t, c) \/ EnqueueThrottled(t, c)

Reserve(c) ==
  /\ reservation[c] = "none"
  /\ ReserveUnlimited(c) \/ ReserveLimited(c)
  /\ UNCHANGED <<isEnabled, target>>

\* release() of the reservation of c, a no-op for a call that holds none.
Release(c) ==
  /\ \/ /\ reservation[c] # "acquired"
        /\ UNCHANGED <<capacity, queue, reservation>>
     \/ /\ reservation[c] = "acquired"
        /\ ~isEnabled \/ IsUnlimited(target[c])
        /\ reservation' = [reservation EXCEPT ![c] = "released"]
        /\ UNCHANGED <<capacity, queue>>
     \/ /\ reservation[c] = "acquired"
        /\ isEnabled /\ ~IsUnlimited(target[c])
        /\ Dequeue(QueueTypeOf(target[c]), [reservation EXCEPT ![c] = "released"])
  /\ UNCHANGED <<isEnabled, target>>

\* remove(): drops a throttled call, whose promise then never settles, gives the
\* capacity it took back and lets the next throttled call through.
Remove(e) ==
  /\ isEnabled /\ ~IsUnlimited(e)
  /\ LET t == QueueTypeOf(e) IN
       \E i \in DOMAIN queue[t] :
         /\ IsFirstFor(e, t, i)
         /\ ResolveNext(t, Without(queue[t], i),
                        [reservation EXCEPT ![queue[t][i]] = "dropped"])
  /\ UNCHANGED <<isEnabled, target>>

\* A new process has a new service: nothing of the old one survives.
ControlRestart ==
  /\ isEnabled' = InitiallyEnabled
  /\ capacity' = Limit
  /\ queue' = [t \in QueueType |-> <<>>]
  /\ target' = [c \in Call |-> None]
  /\ reservation' = [c \in Call |-> "none"]

\* The service is disabled when the process stops, and never enabled again.
Disable ==
  /\ isEnabled' = FALSE
  /\ UNCHANGED <<capacity, queue, target, reservation>>

-----------------------------------------------------------------------------
(* The service on its own: any call asks for capacity for any execution,   *)
(* holds it as long as it likes and gives it back; any throttled execution *)
(* is removed at any time; the process stops and starts again.             *)

Ask(c, e) ==
  /\ reservation[c] = "none" /\ target[c] = None
  /\ target' = [target EXCEPT ![c] = e]
  /\ UNCHANGED <<isEnabled, capacity, queue, reservation>>

AskedReserve(c) == target[c] # None /\ Reserve(c)

GiveBack(c) == reservation[c] = "acquired" /\ Release(c)

\* The run is over, and the call stands for a new one.
Renew(c) ==
  /\ reservation[c] \in {"released", "dropped"}
  /\ reservation' = [reservation EXCEPT ![c] = "none"]
  /\ target' = [target EXCEPT ![c] = None]
  /\ UNCHANGED <<isEnabled, capacity, queue>>

ControlNext ==
  \/ \E c \in Call, e \in Execution : Ask(c, e)
  \/ \E c \in Call : AskedReserve(c)
  \/ \E c \in Call : GiveBack(c)
  \/ \E c \in Call : Renew(c)
  \/ \E e \in Execution : Remove(e)
  \/ isEnabled /\ Disable
  \/ ControlRestart

ControlSpec == ControlInit /\ [][ControlNext]_controlVars

\* Every run that was let through ends some day and gives its capacity back.
ControlFairness == \A c \in Call : WF_controlVars(GiveBack(c))

FairControlSpec == ControlSpec /\ ControlFairness
-----------------------------------------------------------------------------
(* Properties *)

ReservationState == {"none", "throttled", "acquired", "released", "dropped"}

\* The variables have their types, and a call has a target when it has asked.
ControlTypeOK ==
  /\ isEnabled \in BOOLEAN
  /\ capacity \in [QueueType -> Int]
  /\ queue \in [QueueType -> Seq(Call)]
  /\ target \in [Call -> Execution \cup {None}]
  /\ reservation \in [Call -> ReservationState]
  /\ \A c \in Call : reservation[c] # "none" => target[c] # None

CallsIn(t, state) ==
  {c \in Call : reservation[c] = state /\ QueueTypeOf(target[c]) = t}

\* The runs of a type that hold capacity, and those that wait for it.
Occupying(t) == CallsIn(t, "acquired")
Throttled(t) == CallsIn(t, "throttled")

\* A queue lists the throttled calls of its type, each of them once: no promise
\* is lost or resolved twice, whatever enqueue, dequeue and remove do.
QueueIsThrottled ==
  \A t \in QueueType :
    /\ \A i \in DOMAIN queue[t] : queue[t][i] \in Throttled(t)
    /\ \A c \in Throttled(t) : \E i \in DOMAIN queue[t] : queue[t][i] = c
    /\ \A i, j \in DOMAIN queue[t] : queue[t][i] = queue[t][j] => i = j

\* The counter agrees with the runs: what is left of the limit is what no run
\* holds and no throttled call has taken in advance.  No path through enqueue,
\* dequeue and remove leaks a unit of capacity or gives it back twice.
CapacityAccounted ==
  isEnabled =>
    \A t \in LimitedType :
      capacity[t] = Limit[t] - Cardinality(Occupying(t)) - Len(queue[t])

\* No run waits while there is room: a throttled call means the limit is used up.
NoIdleCapacity ==
  isEnabled =>
    \A t \in QueueType : queue[t] # <<>> => Cardinality(Occupying(t)) >= Limit[t]

\* Throttled calls are let through in the order they came, and none once the
\* service is disabled ("throttled executions cannot resume during shutdown").
AdmittedNow(c) == reservation[c] = "throttled" /\ reservation'[c] = "acquired"
StillQueued(c) == reservation'[c] = "throttled"

AdmissionInOrder ==
  [][\A t \in QueueType : \A j \in DOMAIN queue[t] :
       AdmittedNow(queue[t][j]) =>
         /\ isEnabled
         /\ \A i \in 1..(j - 1) : ~StillQueued(queue[t][i])]_controlVars

\* Only the removal of a throttled call can take the number of runs above the
\* limit: enqueue and dequeue never do.
RemovalNow == \E c \in Call : reservation[c] = "throttled" /\ reservation'[c] = "dropped"

OverLimitOnlyByRemoval ==
  [][\A t \in LimitedType :
       /\ isEnabled /\ ~RemovalNow
       /\ Cardinality(Occupying(t)') > Limit[t]
       => Cardinality(Occupying(t)') <= Cardinality(Occupying(t))]_controlVars

\* Once runs end, no call stays throttled: it is let through, it is removed, or
\* the process is stopping.
ThrottledLeaves ==
  \A c \in Call :
    reservation[c] = "throttled" ~> (reservation[c] # "throttled" \/ ~isEnabled)
=============================================================================
