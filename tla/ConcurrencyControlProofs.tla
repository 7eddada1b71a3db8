---------------------- MODULE ConcurrencyControlProofs ----------------------
(***************************************************************************)
(* Proofs about ConcurrencyControl, for any number of calls, executions    *)
(* and any limits.  The inductive invariant is                             *)
(*                                                                         *)
(*    ControlTypeOK /\ QueueIsThrottled /\ CapacityAccounted               *)
(*                                                 /\ NoIdleCapacity       *)
(*                                                                         *)
(* The queue must be known to list the throttled calls, each of them once, *)
(* before anything can be said about the counter: the call that dequeue()  *)
(* resolves has to be one that did not hold capacity yet.                  *)
(***************************************************************************)
EXTENDS ConcurrencyControl, FiniteSetTheorems, SequenceTheorems, TLAPS

\* A state of all reservations that has its type.
WellFormed(res) ==
  /\ res \in [Call -> ReservationState]
  /\ \A c \in Call : res[c] # "none" => target[c] # None

\* q lists the calls of type t that res has throttled, each of them once.
Lists(t, q, res) ==
  /\ \A i \in DOMAIN q : res[q[i]] = "throttled" /\ QueueTypeOf(target[q[i]]) = t
  /\ \A c \in Call : res[c] = "throttled" /\ QueueTypeOf(target[c]) = t
                       => \E i \in DOMAIN q : q[i] = c
  /\ \A i, j \in DOMAIN q : q[i] = q[j] => i = j

\* The calls of type t that hold capacity in res.
Held(t, res) == {c \in Call : res[c] = "acquired" /\ QueueTypeOf(target[c]) = t}

Structure == ControlTypeOK /\ QueueIsThrottled

\* Only the types with a positive limit have a queue that throttle() uses.
LEMMA LimitFacts ==
  /\ Limit \in [QueueType -> Int]
  /\ LimitedType \subseteq QueueType
  /\ \A t \in LimitedType : Limit[t] > 0
  /\ \A t \in QueueType \ LimitedType : Limit[t] <= 0
  /\ \A e \in Execution : ~IsUnlimited(e) => QueueTypeOf(e) \in LimitedType
<1>1. \A t \in QueueType : Configured(t) \in Int
  BY LimitAssumption DEF QueueType, Configured
<1>2. Limit \in [QueueType -> Int]
  BY <1>1 DEF Limit
<1>3. \A t \in QueueType : Limit[t] \in Int
  BY <1>2
<1>. QED
  BY <1>2, <1>3 DEF LimitedType, IsUnlimited

\* The invariant Structure in terms of Lists and WellFormed.
LEMMA StructureLists ==
  Structure <=> /\ isEnabled \in BOOLEAN
                /\ capacity \in [QueueType -> Int]
                /\ queue \in [QueueType -> Seq(Call)]
                /\ target \in [Call -> Execution \cup {None}]
                /\ WellFormed(reservation)
                /\ \A t \in QueueType : Lists(t, queue[t], reservation)
<1>1. ASSUME queue \in [QueueType -> Seq(Call)], NEW t \in QueueType
      PROVE  \A i \in DOMAIN queue[t] : queue[t][i] \in Call
  BY <1>1, ElementOfSeq
<1>. QED
  BY <1>1, Zenon DEF Structure, ControlTypeOK, QueueIsThrottled, WellFormed, Lists, Throttled, CallsIn

\* The same of the state after a step.
LEMMA StructureListsPrime ==
  ASSUME target' = target
  PROVE  Structure' <=> /\ isEnabled' \in BOOLEAN
                        /\ capacity' \in [QueueType -> Int]
                        /\ queue' \in [QueueType -> Seq(Call)]
                        /\ target' \in [Call -> Execution \cup {None}]
                        /\ WellFormed(reservation')
                        /\ \A t \in QueueType : Lists(t, queue'[t], reservation')
<1>1. ASSUME queue' \in [QueueType -> Seq(Call)], NEW t \in QueueType
      PROVE  \A i \in DOMAIN queue'[t] : queue'[t][i] \in Call
  BY <1>1, ElementOfSeq
<1>. QED
  BY <1>1, Zenon DEF Structure, ControlTypeOK, QueueIsThrottled, WellFormed, Lists, Throttled, CallsIn

-----------------------------------------------------------------------------
(* resolveNext(), the end of dequeue() and of remove() *)

\* Letting the head of the queue through keeps the queues complete.
LEMMA ResolveNextLists ==
  ASSUME capacity \in [QueueType -> Int], queue \in [QueueType -> Seq(Call)],
         NEW t \in QueueType, NEW q \in Seq(Call), NEW res, WellFormed(res), Lists(t, q, res),
         \A u \in QueueType \ {t} : Lists(u, queue[u], res),
         ResolveNext(t, q, res)
  PROVE  /\ capacity' \in [QueueType -> Int]
         /\ queue' \in [QueueType -> Seq(Call)]
         /\ WellFormed(reservation')
         /\ \A u \in QueueType : Lists(u, queue'[u], reservation')
<1>1. CASE q = <<>>
  <2>1. /\ capacity' = [capacity EXCEPT ![t] = @ + 1]
        /\ queue' = [queue EXCEPT ![t] = q]
        /\ reservation' = res
    BY <1>1 DEF ResolveNext
  <2>. QED
    BY <2>1
<1>2. CASE q # <<>>
  <2>1. /\ capacity' = [capacity EXCEPT ![t] = @ + 1]
        /\ queue' = [queue EXCEPT ![t] = Tail(q)]
        /\ reservation' = [res EXCEPT ![q[1]] = "acquired"]
    BY <1>2 DEF ResolveNext
  <2>2. /\ q[1] \in Call /\ 1 \in DOMAIN q
        /\ Tail(q) \in Seq(Call)
        /\ Len(Tail(q)) = Len(q) - 1
        /\ \A i \in 1..Len(Tail(q)) : Tail(q)[i] = q[i + 1]
    BY <1>2, HeadTailProperties
  <2>3. /\ capacity' \in [QueueType -> Int]
        /\ queue' \in [QueueType -> Seq(Call)]
    BY <2>1, <2>2
  <2>4. res[q[1]] = "throttled" /\ QueueTypeOf(target[q[1]]) = t
    BY <2>2 DEF Lists
  <2>5. WellFormed(reservation')
    BY <2>1, <2>2, <2>4 DEF WellFormed, ReservationState
  <2>6. \A c \in Call : reservation'[c] = IF c = q[1] THEN "acquired" ELSE res[c]
    BY <2>1, <2>2 DEF WellFormed
  <2>7. ASSUME NEW u \in QueueType \ {t}
        PROVE  Lists(u, queue'[u], reservation')
    <3>1. queue'[u] = queue[u] /\ queue[u] \in Seq(Call)
      BY <2>1
    <3>2. \A i \in DOMAIN queue[u] : queue[u][i] \in Call /\ queue[u][i] # q[1]
      BY <2>4, <3>1, ElementOfSeq DEF Lists
    <3>3. \A c \in Call : QueueTypeOf(target[c]) = u => reservation'[c] = res[c]
      BY <2>4, <2>6
    <3>4. Lists(u, queue[u], res)
      OBVIOUS
    <3>5. \A i \in DOMAIN queue[u] : /\ reservation'[queue[u][i]] = "throttled"
                                      /\ QueueTypeOf(target[queue[u][i]]) = u
      BY <3>2, <3>4, <2>6 DEF Lists
    <3>6. \A c \in Call : reservation'[c] = "throttled" /\ QueueTypeOf(target[c]) = u
                            => \E i \in DOMAIN queue[u] : queue[u][i] = c
      BY <3>3, <3>4 DEF Lists
    <3>. QED
      BY <3>1, <3>4, <3>5, <3>6 DEF Lists
  <2>8. Lists(t, queue'[t], reservation')
    <3>1. queue'[t] = Tail(q)
      BY <2>1
    <3>2. \A i \in DOMAIN Tail(q) : /\ i + 1 \in DOMAIN q
                                    /\ Tail(q)[i] = q[i + 1]
                                    /\ q[i + 1] \in Call /\ q[i + 1] # q[1]
      <4>1. \A i \in 2..Len(q) : q[i] \in Call /\ q[i] # q[1]
        <5>1. \A i \in 2..Len(q) : i \in DOMAIN q /\ i \in 1..Len(q) /\ i # 1
          OBVIOUS
        <5>2. \A i \in 2..Len(q) : q[i] \in Call
          BY <5>1, ElementOfSeq
        <5>3. \A i, j \in DOMAIN q : q[i] = q[j] => i = j
          BY DEF Lists
        <5>. QED
          BY <5>1, <5>2, <5>3, <2>2
      <4>. QED
        BY <2>2, <4>1
    <3>3. \A c \in Call : reservation'[c] = "throttled" /\ QueueTypeOf(target[c]) = t
                            => \E i \in DOMAIN Tail(q) : Tail(q)[i] = c
      <4>. SUFFICES ASSUME NEW c \in Call,
                           reservation'[c] = "throttled", QueueTypeOf(target[c]) = t
                    PROVE  \E i \in DOMAIN Tail(q) : Tail(q)[i] = c
        OBVIOUS
      <4>1. c # q[1] /\ res[c] = "throttled"
        BY <2>6
      <4>2. PICK j \in DOMAIN q : q[j] = c
        BY <4>1 DEF Lists
      <4>3. j \in 2..Len(q)
        BY <4>1, <4>2
      <4>4. j - 1 \in 1..Len(Tail(q)) /\ (j - 1) + 1 = j
        BY <2>2, <4>3
      <4>5. Tail(q)[j - 1] = c /\ j - 1 \in DOMAIN Tail(q)
        BY <2>2, <4>2, <4>4
      <4>. QED
        BY <4>5
    <3>4. \A i, j \in DOMAIN Tail(q) : Tail(q)[i] = Tail(q)[j] => i = j
      <4>. SUFFICES ASSUME NEW i \in DOMAIN Tail(q), NEW j \in DOMAIN Tail(q),
                           Tail(q)[i] = Tail(q)[j]
                    PROVE  i = j
        OBVIOUS
      <4>1. q[i + 1] = q[j + 1] /\ i + 1 \in DOMAIN q /\ j + 1 \in DOMAIN q
        BY <3>2
      <4>2. i + 1 = j + 1
        BY <4>1 DEF Lists
      <4>. QED
        BY <4>2, <2>2
    <3>5. \A i \in DOMAIN Tail(q) : /\ reservation'[Tail(q)[i]] = "throttled"
                                    /\ QueueTypeOf(target[Tail(q)[i]]) = t
      BY <3>2, <2>6, SMTT(30) DEF Lists
    <3>. QED
      BY <3>1, <3>3, <3>4, <3>5 DEF Lists
  <2>. QED
    BY <2>3, <2>5, <2>7, <2>8
<1>. QED
  BY <1>1, <1>2

\* One unit of capacity comes back, and goes to the head of the queue if there is
\* one; nothing changes for the other type.
LEMMA ResolveNextCounts ==
  ASSUME capacity \in [QueueType -> Int], queue \in [QueueType -> Seq(Call)],
         NEW t \in QueueType, NEW q \in Seq(Call), NEW res, WellFormed(res), Lists(t, q, res),
         ResolveNext(t, q, res)
  PROVE  /\ capacity'[t] = capacity[t] + 1
         /\ \A u \in QueueType \ {t} : /\ capacity'[u] = capacity[u]
                                       /\ queue'[u] = queue[u]
                                       /\ Held(u, reservation') = Held(u, res)
         /\ q = <<>> => queue'[t] = <<>> /\ Held(t, reservation') = Held(t, res)
         /\ q # <<>> => /\ Len(queue'[t]) = Len(q) - 1
                        /\ Cardinality(Held(t, reservation')) = Cardinality(Held(t, res)) + 1
<1>1. CASE q = <<>>
  <2>1. /\ capacity' = [capacity EXCEPT ![t] = @ + 1]
        /\ queue' = [queue EXCEPT ![t] = q]
        /\ reservation' = res
    BY <1>1 DEF ResolveNext
  <2>. QED
    BY <1>1, <2>1
<1>2. CASE q # <<>>
  <2>1. /\ capacity' = [capacity EXCEPT ![t] = @ + 1]
        /\ queue' = [queue EXCEPT ![t] = Tail(q)]
        /\ reservation' = [res EXCEPT ![q[1]] = "acquired"]
    BY <1>2 DEF ResolveNext
  <2>2. q[1] \in Call /\ 1 \in DOMAIN q /\ Len(Tail(q)) = Len(q) - 1
    BY <1>2, HeadTailProperties
  <2>3. res[q[1]] = "throttled" /\ QueueTypeOf(target[q[1]]) = t
    BY <2>2 DEF Lists
  <2>4. \A c \in Call : reservation'[c] = IF c = q[1] THEN "acquired" ELSE res[c]
    BY <2>1, <2>2 DEF WellFormed
  <2>5. Held(t, reservation') = Held(t, res) \cup {q[1]} /\ q[1] \notin Held(t, res)
    BY <2>2, <2>3, <2>4 DEF Held
  <2>6. \A u \in QueueType \ {t} : Held(u, reservation') = Held(u, res)
    BY <2>2, <2>3, <2>4 DEF Held
  <2>7. IsFiniteSet(Held(t, res))
    BY CallAssumption, FS_Subset DEF Held
  <2>8. Cardinality(Held(t, reservation')) = Cardinality(Held(t, res)) + 1
    BY <2>5, <2>7, FS_AddElement
  <2>. QED
    BY <1>2, <2>1, <2>2, <2>6, <2>8
<1>. QED
  BY <1>1, <1>2

-----------------------------------------------------------------------------
(* remove() *)

\* What is left of a queue without its element at position i.
LEMMA WithoutFacts ==
  ASSUME NEW q \in Seq(Call), NEW i \in DOMAIN q
  PROVE  /\ Without(q, i) \in Seq(Call)
         /\ Len(Without(q, i)) = Len(q) - 1
         /\ \A k \in 1..Len(q) - 1 : Without(q, i)[k] = IF k < i THEN q[k] ELSE q[k + 1]
<1>. DEFINE a == SubSeq(q, 1, i - 1)
            b == SubSeq(q, i + 1, Len(q))
<1>1. i \in 1..Len(q) /\ Len(q) \in Nat /\ \A k \in 1..Len(q) : q[k] \in Call
  BY ElementOfSeq
<1>2. /\ a \in Seq(Call)
      /\ Len(a) = i - 1
      /\ \A k \in 1..i - 1 : a[k] = q[k]
  BY <1>1, SubSeqProperties
<1>3. /\ b \in Seq(Call)
      /\ Len(b) = Len(q) - i
      /\ \A k \in 1..Len(q) - i : b[k] = q[i + k]
  BY <1>1, SubSeqProperties
<1>. HIDE DEF a, b
<1>4. /\ a \o b \in Seq(Call)
      /\ Len(a \o b) = Len(a) + Len(b)
      /\ \A k \in 1..Len(a) + Len(b) : (a \o b)[k] = IF k <= Len(a) THEN a[k] ELSE b[k - Len(a)]
  BY <1>2, <1>3, ConcatProperties
<1>5. Len(a \o b) = Len(q) - 1
  BY <1>1, <1>2, <1>3, <1>4
<1>6. ASSUME NEW k \in 1..Len(q) - 1
      PROVE  (a \o b)[k] = IF k < i THEN q[k] ELSE q[k + 1]
  <2>1. CASE k < i
    <3>1. k \in 1..Len(a) + Len(b) /\ k <= Len(a) /\ k \in 1..i - 1
      BY <2>1, <1>1, <1>2, <1>3
    <3>2. (a \o b)[k] = a[k]
      BY <3>1, <1>4
    <3>. QED
      BY <2>1, <3>1, <3>2, <1>2
  <2>2. CASE ~(k < i)
    <3>1. (a \o b)[k] = b[k - (i - 1)]
      <4>1. k \in 1..Len(a) + Len(b) /\ ~(k <= Len(a)) /\ Len(a) = i - 1
        BY <2>2, <1>1, <1>2, <1>3
      <4>. QED
        BY <4>1, <1>4
    <3>2. k - (i - 1) \in 1..Len(q) - i /\ i + (k - (i - 1)) = k + 1
      BY <2>2, <1>1
    <3>. QED
      BY <2>2, <3>1, <3>2, <1>3
  <2>. QED
    BY <2>1, <2>2
<1>. QED
  BY <1>4, <1>5, <1>6 DEF Without, a, b

\* Dropping the call at position i from the queue of its type.
LEMMA DropLists ==
  ASSUME NEW t \in QueueType, NEW q \in Seq(Call), NEW res, WellFormed(res), Lists(t, q, res),
         NEW i \in DOMAIN q
  PROVE  LET res2 == [res EXCEPT ![q[i]] = "dropped"] IN
         /\ WellFormed(res2)
         /\ Lists(t, Without(q, i), res2)
         /\ \A u \in QueueType \ {t}, p \in Seq(Call) : Lists(u, p, res) => Lists(u, p, res2)
         /\ \A u \in QueueType : Held(u, res2) = Held(u, res)
<1>. DEFINE res2 == [res EXCEPT ![q[i]] = "dropped"]
<1>1. i \in 1..Len(q) /\ Len(q) \in Nat /\ \A k \in 1..Len(q) : q[k] \in Call
  BY ElementOfSeq
<1>2. res[q[i]] = "throttled" /\ QueueTypeOf(target[q[i]]) = t
  BY DEF Lists
<1>3. \A c \in Call : res2[c] = IF c = q[i] THEN "dropped" ELSE res[c]
  BY <1>1 DEF WellFormed
<1>4. WellFormed(res2)
  BY <1>1, <1>2 DEF WellFormed, ReservationState
<1>. HIDE DEF res2
<1>5. \A u \in QueueType : Held(u, res2) = Held(u, res)
  BY <1>1, <1>2, <1>3 DEF Held
<1>6. ASSUME NEW u \in QueueType \ {t}, NEW p \in Seq(Call), Lists(u, p, res)
      PROVE  Lists(u, p, res2)
  <2>1. \A k \in DOMAIN p : /\ p[k] \in Call /\ p[k] # q[i]
                            /\ res[p[k]] = "throttled" /\ QueueTypeOf(target[p[k]]) = u
    BY <1>2, <1>6, ElementOfSeq DEF Lists
  <2>2. \A k \in DOMAIN p : res2[p[k]] = "throttled"
    BY <2>1, <1>3
  <2>3. \A c \in Call : res2[c] = "throttled" => res[c] = "throttled"
    BY <1>3
  <2>. QED
    BY <1>6, <2>1, <2>2, <2>3 DEF Lists
<1>7. Lists(t, Without(q, i), res2)
  <2>1. /\ Without(q, i) \in Seq(Call)
        /\ Len(Without(q, i)) = Len(q) - 1
        /\ \A k \in 1..Len(q) - 1 : Without(q, i)[k] = IF k < i THEN q[k] ELSE q[k + 1]
    BY WithoutFacts
  <2>2. DOMAIN Without(q, i) = 1..Len(q) - 1
    BY <2>1
  <2>3. \A k \in 1..Len(q) : k # i => q[k] # q[i]
    BY <1>1 DEF Lists
  <2>4. \A k \in 1..Len(q) : k # i => res2[q[k]] = "throttled" /\ QueueTypeOf(target[q[k]]) = t
    BY <1>1, <1>3, <2>3 DEF Lists
  <2>5. \A k \in DOMAIN Without(q, i) : /\ res2[Without(q, i)[k]] = "throttled"
                                        /\ QueueTypeOf(target[Without(q, i)[k]]) = t
    BY <1>1, <2>1, <2>2, <2>4
  <2>6. ASSUME NEW c \in Call, res2[c] = "throttled", QueueTypeOf(target[c]) = t
        PROVE  \E k \in DOMAIN Without(q, i) : Without(q, i)[k] = c
    <3>1. c # q[i] /\ res[c] = "throttled"
      BY <1>3, <2>6
    <3>2. PICK j \in 1..Len(q) : q[j] = c
      BY <2>6, <3>1 DEF Lists
    <3>3. CASE j < i
      <4>1. j \in 1..Len(q) - 1
        BY <3>3, <1>1
      <4>. QED
        BY <3>2, <3>3, <4>1, <2>1, <2>2
    <3>4. CASE j > i
      <4>1. j - 1 \in 1..Len(q) - 1 /\ ~(j - 1 < i) /\ (j - 1) + 1 = j
        BY <3>4, <1>1
      <4>2. Without(q, i)[j - 1] = c
        BY <3>2, <4>1, <2>1
      <4>. QED
        BY <4>1, <4>2, <2>2
    <3>. QED
      BY <3>1, <3>2, <3>3, <3>4, <1>1
  <2>7. ASSUME NEW j \in DOMAIN Without(q, i), NEW k \in DOMAIN Without(q, i),
               Without(q, i)[j] = Without(q, i)[k]
        PROVE  j = k
    <3>1. \A m, n \in 1..Len(q) : q[m] = q[n] => m = n
      BY DEF Lists
    <3>. QED
      BY <1>1, <2>1, <2>2, <2>7, <3>1
  <2>. QED
    BY <2>5, <2>6, <2>7 DEF Lists
<1>. QED
  BY <1>4, <1>5, <1>6, <1>7 DEF res2

-----------------------------------------------------------------------------
(* The inductive invariant *)

ControlInv == Structure /\ CapacityAccounted /\ NoIdleCapacity

\* The calls that hold capacity can be counted.
LEMMA HeldFinite ==
  ASSUME NEW t, NEW res
  PROVE  IsFiniteSet(Held(t, res)) /\ Cardinality(Held(t, res)) \in Nat
BY CallAssumption, FS_Subset, FS_CardinalityType DEF Held

\* What the counter must satisfy for one type that has a limit.
Balanced(t, cap, q, res) ==
  /\ cap = Limit[t] - Cardinality(Held(t, res)) - Len(q)
  /\ q # <<>> => Cardinality(Held(t, res)) >= Limit[t]

\* What the invariant says of the queues, as the lemmas above take it.
LEMMA ControlInvLists ==
  ASSUME ControlInv
  PROVE  /\ isEnabled \in BOOLEAN
         /\ capacity \in [QueueType -> Int]
         /\ queue \in [QueueType -> Seq(Call)]
         /\ target \in [Call -> Execution \cup {None}]
         /\ WellFormed(reservation)
         /\ \A t \in QueueType : Lists(t, queue[t], reservation)
         /\ isEnabled => \A t \in LimitedType : Balanced(t, capacity[t], queue[t], reservation)
<1>1. \A t : Occupying(t) = Held(t, reservation)
  BY DEF Occupying, CallsIn, Held
<1>2. isEnabled => \A t \in LimitedType : Balanced(t, capacity[t], queue[t], reservation)
  BY <1>1, LimitFacts DEF ControlInv, CapacityAccounted, NoIdleCapacity, Balanced
<1>. QED
  BY <1>2, StructureLists DEF ControlInv

\* How the invariant is established by a step that asks for no new target.
LEMMA ControlInvStep ==
  ASSUME isEnabled' \in BOOLEAN,
         target' = target,
         target \in [Call -> Execution \cup {None}],
         capacity' \in [QueueType -> Int],
         queue' \in [QueueType -> Seq(Call)],
         WellFormed(reservation'),
         \A t \in QueueType : Lists(t, queue'[t], reservation'),
         isEnabled' => \A t \in LimitedType : Balanced(t, capacity'[t], queue'[t], reservation')
  PROVE  ControlInv'
<1>1. Structure'
  BY StructureListsPrime
<1>2. \A t : Occupying(t)' = Held(t, reservation')
  BY DEF Occupying, CallsIn, Held
<1>3. CapacityAccounted'
  BY <1>2 DEF CapacityAccounted, Balanced
<1>4. ASSUME isEnabled', NEW t \in QueueType, queue'[t] # <<>>
      PROVE  Cardinality(Occupying(t)') >= Limit[t]
  <2>1. CASE t \in LimitedType
    BY <1>2, <1>4, <2>1 DEF Balanced
  <2>2. CASE t \notin LimitedType
    <3>1. Limit[t] \in Int /\ Limit[t] <= 0
      BY <2>2, LimitFacts
    <3>2. Cardinality(Occupying(t)') \in Nat
      BY <1>2, HeldFinite
    <3>. QED
      BY <3>1, <3>2
  <2>. QED
    BY <2>1, <2>2
<1>5. NoIdleCapacity'
  BY <1>4 DEF NoIdleCapacity
<1>. QED
  BY <1>1, <1>3, <1>5 DEF ControlInv

\* Moving one call that is not throttled to another state that is not throttled.
LEMMA MoveLists ==
  ASSUME NEW res, WellFormed(res), NEW c \in Call, target[c] # None,
         res[c] # "throttled", NEW s \in ReservationState, s # "throttled"
  PROVE  /\ WellFormed([res EXCEPT ![c] = s])
         /\ \A t \in QueueType, q \in Seq(Call) :
               Lists(t, q, res) => Lists(t, q, [res EXCEPT ![c] = s])
         /\ \A t \in QueueType :
               QueueTypeOf(target[c]) # t => Held(t, [res EXCEPT ![c] = s]) = Held(t, res)
<1>. DEFINE res2 == [res EXCEPT ![c] = s]
<1>1. WellFormed(res2)
  BY DEF WellFormed
<1>2. \A d \in Call : res2[d] = IF d = c THEN s ELSE res[d]
  BY DEF WellFormed
<1>. HIDE DEF res2
<1>3. \A d \in Call : res2[d] = "throttled" <=> res[d] = "throttled"
  BY <1>2
<1>4. ASSUME NEW t \in QueueType, NEW q \in Seq(Call), Lists(t, q, res)
      PROVE  Lists(t, q, res2)
  <2>1. \A i \in DOMAIN q : q[i] \in Call
    BY ElementOfSeq
  <2>. QED
    BY <1>3, <1>4, <2>1 DEF Lists
<1>5. \A t \in QueueType : QueueTypeOf(target[c]) # t => Held(t, res2) = Held(t, res)
  BY <1>2 DEF Held
<1>. QED
  BY <1>1, <1>4, <1>5 DEF res2

-----------------------------------------------------------------------------
(* Every operation preserves it *)

\* A call that needs no capacity is let through.
LEMMA ReserveUnlimitedInv ==
  ASSUME ControlInv, NEW c \in Call, target[c] # None, reservation[c] = "none",
         ReserveUnlimited(c), UNCHANGED <<isEnabled, target>>
  PROVE  ControlInv'
<1>1. /\ reservation' = [reservation EXCEPT ![c] = "acquired"]
      /\ capacity' = capacity /\ queue' = queue
      /\ ~isEnabled \/ IsUnlimited(target[c])
  BY DEF ReserveUnlimited
<1>2. /\ WellFormed(reservation')
      /\ \A t \in QueueType, q \in Seq(Call) :
            Lists(t, q, reservation) => Lists(t, q, reservation')
      /\ \A t \in QueueType : QueueTypeOf(target[c]) # t
                                => Held(t, reservation') = Held(t, reservation)
  <2>1. "acquired" \in ReservationState
    BY DEF ReservationState
  <2>2. WellFormed(reservation) /\ reservation[c] # "throttled"
    BY ControlInvLists
  <2>. QED
    BY <1>1, <2>1, <2>2, MoveLists
<1>3. isEnabled => \A t \in LimitedType : t # QueueTypeOf(target[c])
  BY <1>1 DEF IsUnlimited
<1>4. isEnabled' => \A t \in LimitedType : Balanced(t, capacity'[t], queue'[t], reservation')
  BY <1>1, <1>2, <1>3, ControlInvLists, LimitFacts DEF Balanced
<1>5. \A t \in QueueType : Lists(t, queue'[t], reservation')
  BY <1>1, <1>2, ControlInvLists
<1>. QED
  BY <1>1, <1>2, <1>4, <1>5, ControlInvLists, ControlInvStep

\* enqueue() with capacity left: nobody was waiting.
LEMMA EnqueueAdmittedInv ==
  ASSUME ControlInv, NEW c \in Call, target[c] # None, reservation[c] = "none",
         isEnabled, NEW t \in LimitedType, t = QueueTypeOf(target[c]),
         EnqueueAdmitted(t, c), UNCHANGED <<isEnabled, target>>
  PROVE  ControlInv' /\ Cardinality(Held(t, reservation')) <= Limit[t]
<1>1. /\ capacity[t] > 0
      /\ capacity' = [capacity EXCEPT ![t] = @ - 1]
      /\ reservation' = [reservation EXCEPT ![c] = "acquired"]
      /\ queue' = queue
      /\ t \in QueueType
  BY LimitFacts DEF EnqueueAdmitted
<1>2. /\ WellFormed(reservation) /\ capacity \in [QueueType -> Int]
      /\ \A u \in LimitedType : Balanced(u, capacity[u], queue[u], reservation)
      /\ queue \in [QueueType -> Seq(Call)]
  BY ControlInvLists
<1>3. /\ WellFormed(reservation')
      /\ \A u \in QueueType, q \in Seq(Call) :
            Lists(u, q, reservation) => Lists(u, q, reservation')
      /\ \A u \in QueueType : u # t => Held(u, reservation') = Held(u, reservation)
  <2>1. "acquired" \in ReservationState /\ reservation[c] # "throttled"
    BY DEF ReservationState
  <2>. QED
    BY <1>1, <1>2, <2>1, MoveLists
<1>4. Held(t, reservation') = Held(t, reservation) \cup {c} /\ c \notin Held(t, reservation)
  BY <1>1, <1>2 DEF WellFormed, Held
<1>5. Cardinality(Held(t, reservation')) = Cardinality(Held(t, reservation)) + 1
  BY <1>4, HeldFinite, FS_AddElement
<1>6. Limit[t] \in Int /\ Cardinality(Held(t, reservation)) \in Nat /\ Len(queue[t]) \in Nat
  BY <1>1, <1>2, LimitFacts, HeldFinite
<1>7. Balanced(t, capacity[t], queue[t], reservation)
  BY <1>2
<1>8. queue[t] = <<>>
  <2>1. SUFFICES ASSUME queue[t] # <<>> PROVE FALSE
    OBVIOUS
  <2>2. Cardinality(Held(t, reservation)) >= Limit[t]
    BY <1>7, <2>1 DEF Balanced
  <2>3. capacity[t] = Limit[t] - Cardinality(Held(t, reservation)) - Len(queue[t])
    BY <1>7 DEF Balanced
  <2>. QED
    BY <1>1, <1>6, <2>2, <2>3
<1>9. capacity[t] = Limit[t] - Cardinality(Held(t, reservation)) /\ capacity'[t] = capacity[t] - 1
  <2>1. capacity[t] = Limit[t] - Cardinality(Held(t, reservation)) - Len(queue[t])
    BY <1>7 DEF Balanced
  <2>. QED
    BY <1>1, <1>2, <1>6, <1>8, <2>1
<1>10. capacity'[t] = Limit[t] - Cardinality(Held(t, reservation')) - Len(queue'[t])
  BY <1>1, <1>5, <1>6, <1>8, <1>9
<1>11. ASSUME NEW u \in LimitedType
       PROVE  Balanced(u, capacity'[u], queue'[u], reservation')
  <2>1. CASE u = t
    BY <2>1, <1>1, <1>8, <1>10 DEF Balanced
  <2>2. CASE u # t
    BY <2>2, <1>1, <1>2, <1>3, LimitFacts DEF Balanced
  <2>. QED
    BY <2>1, <2>2
<1>12. \A u \in QueueType : Lists(u, queue'[u], reservation')
  BY <1>1, <1>2, <1>3, ControlInvLists
<1>13. /\ isEnabled' \in BOOLEAN /\ target \in [Call -> Execution \cup {None}]
       /\ capacity' \in [QueueType -> Int] /\ queue' \in [QueueType -> Seq(Call)]
  BY <1>1, <1>2, ControlInvLists
<1>14. ControlInv'
  BY <1>3, <1>11, <1>12, <1>13, ControlInvStep
<1>. QED
  BY <1>1, <1>5, <1>6, <1>9, <1>14

\* enqueue() without capacity left: the call waits at the end of the queue.
LEMMA EnqueueThrottledInv ==
  ASSUME ControlInv, NEW c \in Call, target[c] # None, reservation[c] = "none",
         isEnabled, NEW t \in LimitedType, t = QueueTypeOf(target[c]),
         EnqueueThrottled(t, c), UNCHANGED <<isEnabled, target>>
  PROVE  ControlInv' /\ \A u : Held(u, reservation') = Held(u, reservation)
<1>1. /\ capacity[t] <= 0
      /\ capacity' = [capacity EXCEPT ![t] = @ - 1]
      /\ queue' = [queue EXCEPT ![t] = Append(@, c)]
      /\ reservation' = [reservation EXCEPT ![c] = "throttled"]
      /\ t \in QueueType
  BY LimitFacts DEF EnqueueThrottled
<1>2. /\ WellFormed(reservation) /\ capacity \in [QueueType -> Int]
      /\ queue \in [QueueType -> Seq(Call)]
      /\ \A u \in LimitedType : Balanced(u, capacity[u], queue[u], reservation)
      /\ \A u \in QueueType : Lists(u, queue[u], reservation)
  BY ControlInvLists
<1>3. WellFormed(reservation')
  BY <1>1, <1>2 DEF WellFormed, ReservationState
<1>4. \A d \in Call : reservation'[d] = IF d = c THEN "throttled" ELSE reservation[d]
  BY <1>1, <1>2 DEF WellFormed
<1>5. \A u : Held(u, reservation') = Held(u, reservation)
  BY <1>4 DEF Held
<1>6. /\ queue'[t] = Append(queue[t], c)
      /\ queue' \in [QueueType -> Seq(Call)]
      /\ Len(queue'[t]) = Len(queue[t]) + 1 /\ Len(queue[t]) \in Nat
      /\ DOMAIN queue[t] = 1..Len(queue[t]) /\ DOMAIN queue'[t] = 1..Len(queue[t]) + 1
      /\ \A i \in 1..Len(queue[t]) : queue'[t][i] = queue[t][i] /\ queue[t][i] \in Call
      /\ queue'[t][Len(queue[t]) + 1] = c
  BY <1>1, <1>2, AppendProperties, ElementOfSeq
<1>7. Lists(t, queue'[t], reservation')
  <2>1. Lists(t, queue[t], reservation)
    BY <1>1, <1>2
  <2>2. \A i \in 1..Len(queue[t]) : queue[t][i] # c
    BY <1>6, <2>1 DEF Lists
  <2>3. \A i \in DOMAIN queue'[t] : /\ reservation'[queue'[t][i]] = "throttled"
                                    /\ QueueTypeOf(target[queue'[t][i]]) = t
    BY <1>4, <1>6, <2>1 DEF Lists
  <2>4. ASSUME NEW d \in Call, reservation'[d] = "throttled", QueueTypeOf(target[d]) = t
        PROVE  \E i \in DOMAIN queue'[t] : queue'[t][i] = d
    <3>1. CASE d = c
      <4>1. Len(queue[t]) + 1 \in DOMAIN queue'[t]
        BY <1>6
      <4>. QED
        BY <3>1, <4>1, <1>6
    <3>2. CASE d # c
      <4>1. PICK i \in DOMAIN queue[t] : queue[t][i] = d
        BY <3>2, <2>1, <2>4, <1>4 DEF Lists
      <4>2. i \in DOMAIN queue'[t] /\ queue'[t][i] = d
        BY <4>1, <1>6
      <4>. QED
        BY <4>2
    <3>. QED
      BY <3>1, <3>2
  <2>5. \A i, j \in DOMAIN queue[t] : queue[t][i] = queue[t][j] => i = j
    BY <2>1 DEF Lists
  <2>6. \A i, j \in DOMAIN queue'[t] : queue'[t][i] = queue'[t][j] => i = j
    BY <1>6, <2>2, <2>5
  <2>. QED
    BY <2>3, <2>4, <2>6 DEF Lists
<1>8. ASSUME NEW u \in QueueType, u # t
      PROVE  Lists(u, queue'[u], reservation') /\ capacity'[u] = capacity[u] /\ queue'[u] = queue[u]
  <2>1. queue'[u] = queue[u] /\ Lists(u, queue[u], reservation) /\ queue[u] \in Seq(Call)
    BY <1>1, <1>2, <1>8
  <2>2. \A i \in DOMAIN queue[u] : queue[u][i] \in Call /\ queue[u][i] # c
    BY <2>1, ElementOfSeq DEF Lists
  <2>3. \A i \in DOMAIN queue[u] : /\ reservation'[queue[u][i]] = "throttled"
                                   /\ QueueTypeOf(target[queue[u][i]]) = u
    BY <2>1, <2>2, <1>4 DEF Lists
  <2>4. \A d \in Call : QueueTypeOf(target[d]) = u => reservation'[d] = reservation[d]
    BY <1>4, <1>8
  <2>5. Lists(u, queue[u], reservation')
    BY <2>1, <2>3, <2>4 DEF Lists
  <2>. QED
    BY <2>1, <2>5, <1>1, <1>2, <1>8
<1>9. Limit[t] \in Int /\ Cardinality(Held(t, reservation)) \in Nat
  BY <1>1, LimitFacts, HeldFinite
<1>10. Balanced(t, capacity'[t], queue'[t], reservation')
  <2>1. capacity[t] = Limit[t] - Cardinality(Held(t, reservation)) - Len(queue[t])
    BY <1>2 DEF Balanced
  <2>2. queue[t] # <<>> => Cardinality(Held(t, reservation)) >= Limit[t]
    BY <1>2 DEF Balanced
  <2>3. queue[t] = <<>> => Len(queue[t]) = 0
    OBVIOUS
  <2>4. Cardinality(Held(t, reservation)) >= Limit[t]
    BY <1>1, <1>6, <1>9, <2>1, <2>2, <2>3
  <2>5. capacity'[t] = capacity[t] - 1
    BY <1>1, <1>2
  <2>6. capacity'[t] = Limit[t] - Cardinality(Held(t, reservation)) - Len(queue'[t])
    BY <1>6, <1>9, <2>1, <2>5
  <2>. QED
    BY <1>5, <2>4, <2>6 DEF Balanced
<1>11. \A u \in LimitedType : Balanced(u, capacity'[u], queue'[u], reservation')
  BY <1>2, <1>5, <1>8, <1>10, LimitFacts DEF Balanced
<1>12. /\ capacity' \in [QueueType -> Int]
       /\ \A u \in QueueType : Lists(u, queue'[u], reservation')
  <2>1. capacity' \in [QueueType -> Int]
    BY <1>1, <1>2
  <2>2. \A u \in QueueType : Lists(u, queue'[u], reservation')
    BY <1>7, <1>8
  <2>. QED
    BY <2>1, <2>2
<1>13. /\ isEnabled' \in BOOLEAN /\ target \in [Call -> Execution \cup {None}]
       /\ target' = target /\ queue' \in [QueueType -> Seq(Call)]
  BY <1>6, ControlInvLists
<1>14. ControlInv'
  BY <1>3, <1>11, <1>12, <1>13, ControlInvStep
<1>. QED
  BY <1>5, <1>14

\* dequeue() and remove() after their first half, res and q, has taken a call out
\* of those that hold capacity or of those that wait for it.
LEMMA ResolveNextInv ==
  ASSUME ControlInv, isEnabled, NEW t \in LimitedType, NEW q \in Seq(Call), NEW res,
         WellFormed(res), Lists(t, q, res),
         \A u \in QueueType \ {t} : /\ Lists(u, queue[u], res)
                                    /\ Held(u, res) = Held(u, reservation),
         Cardinality(Held(t, res)) + Len(q)
           = Cardinality(Held(t, reservation)) + Len(queue[t]) - 1,
         q # <<>> => Cardinality(Held(t, res)) + 1 >= Limit[t],
         ResolveNext(t, q, res), UNCHANGED <<isEnabled, target>>
  PROVE  /\ ControlInv'
         /\ Cardinality(Held(t, reservation')) <= Cardinality(Held(t, res)) + 1
         /\ q = <<>> => Cardinality(Held(t, reservation')) = Cardinality(Held(t, res))
         /\ \A u \in QueueType \ {t} : Held(u, reservation') = Held(u, reservation)
<1>1. /\ capacity \in [QueueType -> Int] /\ queue \in [QueueType -> Seq(Call)]
      /\ t \in QueueType /\ target' = target
  BY ControlInvLists, LimitFacts
<1>2. /\ capacity' \in [QueueType -> Int]
      /\ queue' \in [QueueType -> Seq(Call)]
      /\ WellFormed(reservation')
      /\ \A u \in QueueType : Lists(u, queue'[u], reservation')
  <2>1. \A u \in QueueType \ {t} : Lists(u, queue[u], res)
    OBVIOUS
  <2>. QED
    BY <1>1, <2>1, ResolveNextLists
<1>3. /\ capacity'[t] = capacity[t] + 1
      /\ \A u \in QueueType \ {t} : /\ capacity'[u] = capacity[u]
                                    /\ queue'[u] = queue[u]
                                    /\ Held(u, reservation') = Held(u, res)
      /\ q = <<>> => queue'[t] = <<>> /\ Held(t, reservation') = Held(t, res)
      /\ q # <<>> => /\ Len(queue'[t]) = Len(q) - 1
                     /\ Cardinality(Held(t, reservation')) = Cardinality(Held(t, res)) + 1
  BY <1>1, ResolveNextCounts
<1>4. \A u \in LimitedType : Balanced(u, capacity[u], queue[u], reservation)
  BY ControlInvLists
<1>. DEFINE h == Cardinality(Held(t, res))
            h0 == Cardinality(Held(t, reservation))
            h1 == Cardinality(Held(t, reservation'))
<1>5. /\ h \in Nat /\ h0 \in Nat /\ h1 \in Nat /\ Limit[t] \in Int /\ capacity[t] \in Int
      /\ Len(q) \in Nat /\ Len(queue[t]) \in Nat /\ Len(queue'[t]) \in Nat
  BY <1>1, <1>2, HeldFinite, LimitFacts
<1>6. capacity[t] = Limit[t] - h0 - Len(queue[t])
  BY <1>4 DEF Balanced
<1>7. h + Len(q) = h0 + Len(queue[t]) - 1
  OBVIOUS
<1>8. Balanced(t, capacity'[t], queue'[t], reservation')
  <2>1. CASE q = <<>>
    <3>1. h1 = h /\ Len(queue'[t]) = 0 /\ Len(q) = 0 /\ queue'[t] = <<>>
      BY <2>1, <1>3
    <3>. HIDE DEF h, h0, h1
    <3>2. capacity'[t] = Limit[t] - h1 - Len(queue'[t])
      BY <3>1, <1>3, <1>5, <1>6, <1>7, SMTT(30)
    <3>. QED
      BY <3>1, <3>2 DEF Balanced, h1
  <2>2. CASE q # <<>>
    <3>1. /\ h1 = h + 1 /\ Len(queue'[t]) = Len(q) - 1 /\ h + 1 >= Limit[t]
          /\ capacity'[t] = capacity[t] + 1
      BY <2>2, <1>3
    <3>. HIDE DEF h, h0, h1
    <3>2. capacity'[t] = Limit[t] - h1 - Len(queue'[t])
      <4>1. capacity'[t] = Limit[t] - h0 - Len(queue[t]) + 1
        BY <3>1, <1>5, <1>6
      <4>2. h0 + Len(queue[t]) = h1 + Len(queue'[t]) + 1
        BY <3>1, <1>5, <1>7
      <4>. DEFINE n0 == Len(queue[t])
                  n1 == Len(queue'[t])
      <4>3. /\ n0 \in Nat /\ n1 \in Nat /\ h0 \in Nat /\ h1 \in Nat /\ Limit[t] \in Int
            /\ capacity'[t] = Limit[t] - h0 - n0 + 1 /\ h0 + n0 = h1 + n1 + 1
        BY <4>1, <4>2, <1>5
      <4>. HIDE DEF n0, n1
      <4>4. capacity'[t] = Limit[t] - h1 - n1
        BY <4>3, SMTT(30)
      <4>. QED
        BY <4>4 DEF n1
    <3>3. h1 >= Limit[t]
      BY <3>1
    <3>. QED
      BY <3>2, <3>3 DEF Balanced, h1
  <2>. QED
    BY <2>1, <2>2
<1>9. ASSUME NEW u \in LimitedType
      PROVE  Balanced(u, capacity'[u], queue'[u], reservation')
  <2>1. CASE u = t
    BY <2>1, <1>8
  <2>2. CASE u # t
    <3>1. /\ capacity'[u] = capacity[u] /\ queue'[u] = queue[u]
          /\ Held(u, reservation') = Held(u, reservation)
      BY <2>2, <1>3, LimitFacts
    <3>. QED
      BY <3>1, <1>4 DEF Balanced
  <2>. QED
    BY <2>1, <2>2
<1>10. isEnabled' \in BOOLEAN /\ target \in [Call -> Execution \cup {None}]
  BY ControlInvLists
<1>11. ControlInv'
  BY <1>1, <1>2, <1>9, <1>10, ControlInvStep
<1>12. h1 <= h + 1 /\ (q = <<>> => h1 = h)
  <2>1. (q = <<>> => h1 = h) /\ (q # <<>> => h1 = h + 1)
    BY <1>3
  <2>. HIDE DEF h, h0, h1
  <2>. QED
    BY <1>5, <2>1
<1>. QED
  BY <1>3, <1>11, <1>12

\* release() of a run whose type has a limit.
LEMMA DequeueInv ==
  ASSUME ControlInv, isEnabled, NEW c \in Call, reservation[c] = "acquired",
         NEW t \in LimitedType, t = QueueTypeOf(target[c]),
         Dequeue(t, [reservation EXCEPT ![c] = "released"]), UNCHANGED <<isEnabled, target>>
  PROVE  /\ ControlInv'
         /\ \A u \in QueueType :
              Cardinality(Held(u, reservation')) <= Cardinality(Held(u, reservation))
<1>. DEFINE res == [reservation EXCEPT ![c] = "released"]
<1>1. /\ WellFormed(reservation) /\ queue \in [QueueType -> Seq(Call)] /\ t \in QueueType
      /\ \A u \in QueueType : Lists(u, queue[u], reservation)
      /\ Balanced(t, capacity[t], queue[t], reservation)
  BY ControlInvLists, LimitFacts
<1>2. "released" \in ReservationState /\ target[c] # None /\ reservation[c] # "throttled"
  BY <1>1 DEF ReservationState, WellFormed
<1>3. /\ WellFormed(res)
      /\ \A u \in QueueType, q \in Seq(Call) : Lists(u, q, reservation) => Lists(u, q, res)
      /\ \A u \in QueueType : t # u => Held(u, res) = Held(u, reservation)
  BY <1>1, <1>2, MoveLists
<1>4. /\ Held(t, res) = Held(t, reservation) \ {c} /\ c \in Held(t, reservation)
  BY <1>1 DEF WellFormed, Held
<1>. HIDE DEF res
<1>5. /\ Cardinality(Held(t, res)) = Cardinality(Held(t, reservation)) - 1
      /\ Cardinality(Held(t, reservation)) \in Nat
      /\ Limit[t] \in Int
  BY <1>1, <1>4, HeldFinite, FS_RemoveElement, LimitFacts, ZenonT(30)
<1>6. queue[t] \in Seq(Call) /\ Lists(t, queue[t], res) /\ Len(queue[t]) \in Nat
  BY <1>1, <1>3
<1>7. \A u \in QueueType \ {t} : Lists(u, queue[u], res) /\ Held(u, res) = Held(u, reservation)
  BY <1>1, <1>3
<1>8. Cardinality(Held(t, res)) + Len(queue[t])
        = Cardinality(Held(t, reservation)) + Len(queue[t]) - 1
  BY <1>5, <1>6, SMTT(30)
<1>9. queue[t] # <<>> => Cardinality(Held(t, res)) + 1 >= Limit[t]
  BY <1>1, <1>5 DEF Balanced
<1>10. ResolveNext(t, queue[t], res)
  BY DEF Dequeue, res
<1>11. /\ ControlInv'
       /\ Cardinality(Held(t, reservation')) <= Cardinality(Held(t, res)) + 1
       /\ \A u \in QueueType \ {t} : Held(u, reservation') = Held(u, reservation)
  BY <1>3, <1>6, <1>7, <1>8, <1>9, <1>10, ResolveNextInv
<1>12. \A u \in QueueType : Cardinality(Held(u, reservation')) <= Cardinality(Held(u, reservation))
  <2>1. Cardinality(Held(t, reservation')) <= Cardinality(Held(t, reservation))
    BY <1>5, <1>11
  <2>2. \A u \in QueueType : Cardinality(Held(u, reservation)) \in Nat
    BY HeldFinite
  <2>. QED
    BY <1>11, <2>1, <2>2
<1>. QED
  BY <1>11, <1>12

\* remove() of a throttled execution.
LEMMA RemoveInv ==
  ASSUME ControlInv, NEW e \in Execution, Remove(e)
  PROVE  /\ ControlInv'
         /\ \E c \in Call : reservation[c] = "throttled" /\ reservation'[c] = "dropped"
<1>. DEFINE t == QueueTypeOf(e)
<1>1. isEnabled /\ t \in LimitedType /\ t \in QueueType /\ UNCHANGED <<isEnabled, target>>
  BY LimitFacts DEF Remove
<1>2. PICK i \in DOMAIN queue[t] :
        ResolveNext(t, Without(queue[t], i), [reservation EXCEPT ![queue[t][i]] = "dropped"])
  BY DEF Remove
<1>. DEFINE q == queue[t]
            res == [reservation EXCEPT ![q[i]] = "dropped"]
<1>3. /\ WellFormed(reservation) /\ queue \in [QueueType -> Seq(Call)]
      /\ \A u \in QueueType : Lists(u, queue[u], reservation)
      /\ Balanced(t, capacity[t], queue[t], reservation)
  BY <1>1, ControlInvLists
<1>. HIDE DEF t
<1>4. q \in Seq(Call) /\ q[i] \in Call /\ i \in DOMAIN q /\ Lists(t, q, reservation)
  BY <1>1, <1>3, ElementOfSeq
<1>. HIDE DEF q
<1>5. /\ WellFormed(res)
      /\ Lists(t, Without(q, i), res)
      /\ \A u \in QueueType \ {t}, p \in Seq(Call) : Lists(u, p, reservation) => Lists(u, p, res)
      /\ \A u \in QueueType : Held(u, res) = Held(u, reservation)
  BY <1>1, <1>3, <1>4, DropLists, ZenonT(30)
<1>6. /\ Without(q, i) \in Seq(Call)
      /\ Len(Without(q, i)) = Len(q) - 1
  BY <1>4, WithoutFacts
<1>7. \A u \in QueueType \ {t} : Lists(u, queue[u], res) /\ Held(u, res) = Held(u, reservation)
  BY <1>3, <1>5
<1>8. res[q[i]] = "dropped" /\ reservation[q[i]] = "throttled"
  BY <1>3, <1>4 DEF Lists, WellFormed
<1>. HIDE DEF res
<1>9. Cardinality(Held(t, res)) \in Nat /\ Limit[t] \in Int /\ Len(q) \in Nat
  BY <1>1, <1>4, HeldFinite, LimitFacts
<1>10. Cardinality(Held(t, res)) + Len(Without(q, i))
         = Cardinality(Held(t, reservation)) + Len(queue[t]) - 1
  <2>1. Held(t, res) = Held(t, reservation)
    BY <1>1, <1>5
  <2>2. Cardinality(Held(t, res)) + Len(Without(q, i)) = Cardinality(Held(t, res)) + Len(q) - 1
    BY <1>6, <1>9
  <2>. QED
    BY <2>1, <2>2 DEF q
<1>11. Cardinality(Held(t, res)) + 1 >= Limit[t]
  <2>1. q # <<>>
    BY <1>4
  <2>2. Held(t, res) = Held(t, reservation)
    BY <1>1, <1>5
  <2>3. Cardinality(Held(t, res)) >= Limit[t]
    BY <1>3, <2>1, <2>2 DEF Balanced, q
  <2>. QED
    BY <1>9, <2>3
<1>12. ResolveNext(t, Without(q, i), res)
  BY <1>2 DEF q, res
<1>13. ControlInv'
  BY <1>1, <1>5, <1>6, <1>7, <1>10, <1>11, <1>12, ResolveNextInv
<1>14. reservation'[q[i]] = "dropped"
  <2>1. CASE Without(q, i) = <<>>
    BY <2>1, <1>8, <1>12 DEF ResolveNext
  <2>2. CASE Without(q, i) # <<>>
    <3>. DEFINE h == Head(Without(q, i))
    <3>1. h \in Call /\ 1 \in DOMAIN Without(q, i) /\ h = Without(q, i)[1]
      BY <2>2, <1>6, HeadTailProperties
    <3>2. res[h] = "throttled"
      BY <3>1, <1>5 DEF Lists
    <3>3. reservation' = [res EXCEPT ![h] = "acquired"]
      BY <2>2, <1>12 DEF ResolveNext
    <3>. HIDE DEF h
    <3>4. h # q[i]
      BY <3>2, <1>8
    <3>. QED
      BY <3>3, <3>4, <1>4, <1>5, <1>8 DEF WellFormed
  <2>. QED
    BY <2>1, <2>2
<1>. QED
  BY <1>4, <1>8, <1>13, <1>14

\* Neither asking for a target nor renewing a call touches the calls that count.
LEMMA TargetInv ==
  ASSUME ControlInv, NEW c \in Call, reservation[c] \in {"none", "released", "dropped"},
         NEW e \in Execution \cup {None},
         reservation' \in {reservation, [reservation EXCEPT ![c] = "none"]},
         target' = [target EXCEPT ![c] = e],
         reservation'[c] = "none",
         UNCHANGED <<isEnabled, capacity, queue>>
  PROVE  ControlInv' /\ \A t \in QueueType : Occupying(t)' = Occupying(t)
<1>1. ControlTypeOK /\ QueueIsThrottled /\ CapacityAccounted /\ NoIdleCapacity
  BY DEF ControlInv, Structure
<1>2. \A d \in Call : /\ d # c => reservation'[d] = reservation[d] /\ target'[d] = target[d]
                      /\ reservation'[d] \in ReservationState
  BY <1>1 DEF ControlTypeOK, ReservationState
<1>3. ControlTypeOK'
  BY <1>1, <1>2 DEF ControlTypeOK, ReservationState
<1>4. \A t \in QueueType : /\ Occupying(t)' = Occupying(t)
                           /\ Throttled(t)' = Throttled(t)
  BY <1>2 DEF Occupying, Throttled, CallsIn
<1>5. QueueIsThrottled'
  BY <1>1, <1>4 DEF QueueIsThrottled
<1>6. CapacityAccounted'
  BY <1>1, <1>4, LimitFacts DEF CapacityAccounted
<1>7. NoIdleCapacity'
  BY <1>1, <1>4 DEF NoIdleCapacity
<1>. QED
  BY <1>3, <1>4, <1>5, <1>6, <1>7 DEF ControlInv, Structure

\* The counter means nothing any more once the service is disabled.
LEMMA DisableInv ==
  ASSUME ControlInv, Disable
  PROVE  ControlInv'
<1>1. Structure'
  BY ZenonT(30) DEF ControlInv, Structure, Disable, ControlTypeOK, QueueIsThrottled, Throttled, CallsIn
<1>2. CapacityAccounted' /\ NoIdleCapacity'
  BY DEF Disable, CapacityAccounted, NoIdleCapacity
<1>. QED
  BY <1>1, <1>2 DEF ControlInv

\* A new service, of the first process or of the next one.
LEMMA InitInv ==
  ASSUME ControlInit
  PROVE  ControlInv
<1>1. \A t : Occupying(t) = {} /\ Throttled(t) = {}
  BY DEF ControlInit, Occupying, Throttled, CallsIn
<1>2. InitiallyEnabled \in BOOLEAN
  BY DEF InitiallyEnabled
<1>3. ControlTypeOK
  BY <1>2, LimitFacts DEF ControlInit, ControlTypeOK, ReservationState
<1>4. \A t \in QueueType : queue[t] = <<>>
  BY DEF ControlInit
<1>5. QueueIsThrottled /\ NoIdleCapacity
  BY <1>1, <1>4 DEF QueueIsThrottled, NoIdleCapacity
<1>6. CapacityAccounted
  <2>1. ASSUME NEW t \in LimitedType
        PROVE  capacity[t] = Limit[t] - Cardinality(Occupying(t)) - Len(queue[t])
    <3>1. Limit[t] \in Int /\ capacity[t] = Limit[t] /\ Len(queue[t]) = 0
      BY <1>4, LimitFacts DEF ControlInit
    <3>2. Cardinality(Occupying(t)) = 0
      BY <1>1, FS_EmptySet
    <3>. QED
      BY <3>1, <3>2
  <2>. QED
    BY <2>1 DEF CapacityAccounted
<1>. QED
  BY <1>3, <1>5, <1>6 DEF ControlInv, Structure

\* A new process starts from a state like the first.
LEMMA RestartInv ==
  ASSUME ControlRestart
  PROVE  ControlInv' /\ \A t : Occupying(t)' = {}
<1>1. \A t : Occupying(t)' = {} /\ Throttled(t)' = {}
  BY DEF ControlRestart, Occupying, Throttled, CallsIn
<1>2. InitiallyEnabled \in BOOLEAN
  BY DEF InitiallyEnabled
<1>3. ControlTypeOK'
  BY <1>2, LimitFacts DEF ControlRestart, ControlTypeOK, ReservationState
<1>4. \A t \in QueueType : queue'[t] = <<>>
  BY DEF ControlRestart
<1>5. QueueIsThrottled' /\ NoIdleCapacity'
  BY <1>1, <1>4 DEF QueueIsThrottled, NoIdleCapacity
<1>6. CapacityAccounted'
  <2>1. ASSUME NEW t \in LimitedType
        PROVE  capacity'[t] = Limit[t] - Cardinality(Occupying(t)') - Len(queue'[t])
    <3>1. Limit[t] \in Int /\ capacity'[t] = Limit[t] /\ Len(queue'[t]) = 0
      BY <1>4, LimitFacts DEF ControlRestart
    <3>2. Cardinality(Occupying(t)') = 0
      BY <1>1, FS_EmptySet
    <3>. QED
      BY <3>1, <3>2
  <2>. QED
    BY <2>1 DEF CapacityAccounted
<1>. QED
  BY <1>1, <1>3, <1>5, <1>6 DEF ControlInv, Structure

\* release() of a run whose type has no limit, or when the service is disabled.
LEMMA ReleaseUnlimitedInv ==
  ASSUME ControlInv, NEW c \in Call, reservation[c] = "acquired",
         ~isEnabled \/ IsUnlimited(target[c]),
         reservation' = [reservation EXCEPT ![c] = "released"],
         UNCHANGED <<isEnabled, target, capacity, queue>>
  PROVE  /\ ControlInv'
         /\ isEnabled => \A t \in LimitedType : Held(t, reservation') = Held(t, reservation)
<1>1. /\ WellFormed(reservation) /\ queue \in [QueueType -> Seq(Call)]
      /\ capacity \in [QueueType -> Int]
      /\ \A t \in QueueType : Lists(t, queue[t], reservation)
      /\ isEnabled => \A t \in LimitedType : Balanced(t, capacity[t], queue[t], reservation)
      /\ isEnabled \in BOOLEAN /\ target \in [Call -> Execution \cup {None}]
  BY ControlInvLists
<1>2. /\ WellFormed(reservation')
      /\ \A t \in QueueType, q \in Seq(Call) :
            Lists(t, q, reservation) => Lists(t, q, reservation')
      /\ \A t \in QueueType : QueueTypeOf(target[c]) # t
                                => Held(t, reservation') = Held(t, reservation)
  <2>1. /\ "released" \in ReservationState /\ target[c] # None
        /\ reservation[c] # "throttled"
    BY <1>1 DEF ReservationState, WellFormed
  <2>. QED
    BY <1>1, <2>1, MoveLists
<1>3. isEnabled => \A t \in LimitedType : t # QueueTypeOf(target[c])
  BY DEF IsUnlimited
<1>4. isEnabled => \A t \in LimitedType : Held(t, reservation') = Held(t, reservation)
  BY <1>2, <1>3, LimitFacts
<1>5. isEnabled' => \A t \in LimitedType : Balanced(t, capacity'[t], queue'[t], reservation')
  BY <1>1, <1>4 DEF Balanced
<1>6. \A t \in QueueType : Lists(t, queue'[t], reservation')
  BY <1>1, <1>2
<1>7. /\ isEnabled' \in BOOLEAN /\ target' = target
      /\ capacity' \in [QueueType -> Int] /\ queue' \in [QueueType -> Seq(Call)]
  BY <1>1
<1>8. ControlInv'
  BY <1>1, <1>2, <1>5, <1>6, <1>7, ControlInvStep
<1>. QED
  BY <1>4, <1>8

\* No step but a removal brings more runs than the limit.
KeepsLimit ==
  \A t \in LimitedType :
    /\ isEnabled /\ ~RemovalNow
    /\ Cardinality(Occupying(t)') > Limit[t]
    => Cardinality(Occupying(t)') <= Cardinality(Occupying(t))

\* Without new targets, Occupying is the set Held of each state.
LEMMA SameTargetHeld ==
  ASSUME target' = target
  PROVE  \A t : Occupying(t) = Held(t, reservation) /\ Occupying(t)' = Held(t, reservation')
BY DEF Occupying, CallsIn, Held

\* The numbers that the limit is compared with.
LEMMA OccupyingCount ==
  \A t : Cardinality(Occupying(t)) \in Nat /\ Cardinality(Occupying(t)') \in Nat
<1>1. \A t : Occupying(t) \in SUBSET Call /\ Occupying(t)' \in SUBSET Call
  BY DEF Occupying, CallsIn
<1>. QED
  BY <1>1, CallAssumption, FS_Subset, FS_CardinalityType

\* Every step of the service preserves the invariant.
LEMMA ControlStep ==
  ASSUME ControlInv, [ControlNext]_controlVars
  PROVE  ControlInv' /\ KeepsLimit
<1>. SUFFICES ControlInv' /\ \A t \in LimitedType :
                isEnabled /\ ~RemovalNow
                  => \/ Cardinality(Occupying(t)') <= Cardinality(Occupying(t))
                     \/ Cardinality(Occupying(t)') <= Limit[t]
  <2>1. \A t \in LimitedType : Limit[t] \in Int
    BY LimitFacts
  <2>. QED
    BY <2>1, OccupyingCount DEF KeepsLimit
<1>1. /\ target \in [Call -> Execution \cup {None}]
      /\ isEnabled \in BOOLEAN /\ WellFormed(reservation)
  BY ControlInvLists
<1>2. \A t : Cardinality(Occupying(t)) \in Nat
  BY OccupyingCount
<1>3. ASSUME NEW c \in Call, NEW e \in Execution, Ask(c, e)
      PROVE  ControlInv' /\ \A t \in QueueType : Occupying(t)' = Occupying(t)
  BY <1>3, TargetInv DEF Ask
<1>4. ASSUME NEW c \in Call, Renew(c)
      PROVE  ControlInv' /\ \A t \in QueueType : Occupying(t)' = Occupying(t)
  <2>1. reservation'[c] = "none"
    BY <1>1, <1>4 DEF Renew, WellFormed
  <2>. QED
    BY <1>4, <2>1, TargetInv DEF Renew
<1>5. ASSUME NEW c \in Call, AskedReserve(c)
      PROVE  /\ ControlInv' /\ target' = target
             /\ isEnabled => \A t \in LimitedType :
                  \/ Held(t, reservation') = Held(t, reservation)
                  \/ Cardinality(Held(t, reservation')) <= Limit[t]
  <2>1. /\ target[c] # None /\ reservation[c] = "none" /\ target[c] \in Execution
        /\ UNCHANGED <<isEnabled, target>>
        /\ ReserveUnlimited(c) \/ ReserveLimited(c)
    BY <1>1, <1>5 DEF AskedReserve, Reserve
  <2>2. CASE ReserveUnlimited(c)
    <3>1. ControlInv'
      BY <2>1, <2>2, ReserveUnlimitedInv
    <3>2. isEnabled => \A t \in LimitedType : t # QueueTypeOf(target[c])
      BY <2>2 DEF ReserveUnlimited, IsUnlimited
    <3>3. "acquired" \in ReservationState
      BY DEF ReservationState
    <3>4. reservation' = [reservation EXCEPT ![c] = "acquired"]
      BY <2>2 DEF ReserveUnlimited
    <3>5. \A t \in QueueType : QueueTypeOf(target[c]) # t
                                 => Held(t, reservation') = Held(t, reservation)
      BY <1>1, <2>1, <3>3, <3>4, MoveLists
    <3>6. isEnabled => \A t \in LimitedType : Held(t, reservation') = Held(t, reservation)
      BY <3>2, <3>5, LimitFacts
    <3>. QED
      BY <2>1, <3>1, <3>6
  <2>3. CASE ReserveLimited(c)
    <3>. DEFINE t == QueueTypeOf(target[c])
    <3>1. isEnabled /\ ~IsUnlimited(target[c]) /\ (EnqueueAdmitted(t, c) \/ EnqueueThrottled(t, c))
      BY <2>3 DEF ReserveLimited
    <3>2. isEnabled /\ t \in LimitedType
      BY <2>1, <3>1, LimitFacts
    <3>0. t = QueueTypeOf(target[c])
      OBVIOUS
    <3>. HIDE DEF t
    <3>3. CASE EnqueueAdmitted(t, c)
      <4>1. ControlInv' /\ Cardinality(Held(t, reservation')) <= Limit[t]
        BY <2>1, <3>0, <3>2, <3>3, EnqueueAdmittedInv
      <4>2. "acquired" \in ReservationState
        BY DEF ReservationState
      <4>3. reservation' = [reservation EXCEPT ![c] = "acquired"]
        BY <3>3 DEF EnqueueAdmitted
      <4>4. \A u \in QueueType : t # u => Held(u, reservation') = Held(u, reservation)
        BY <1>1, <2>1, <3>0, <4>2, <4>3, MoveLists
      <4>. QED
        BY <2>1, <4>1, <4>4, LimitFacts
    <3>4. CASE EnqueueThrottled(t, c)
      BY <2>1, <3>0, <3>2, <3>4, EnqueueThrottledInv
    <3>. QED
      BY <3>1, <3>3, <3>4
  <2>. QED
    BY <2>1, <2>2, <2>3
<1>6. ASSUME NEW c \in Call, GiveBack(c)
      PROVE  /\ ControlInv' /\ target' = target
             /\ isEnabled => \A t \in LimitedType :
                  Cardinality(Held(t, reservation')) <= Cardinality(Held(t, reservation))
  <2>1. /\ reservation[c] = "acquired" /\ target[c] # None /\ target[c] \in Execution
        /\ UNCHANGED <<isEnabled, target>>
    BY <1>1, <1>6 DEF GiveBack, Release, WellFormed
  <2>2. CASE /\ ~isEnabled \/ IsUnlimited(target[c])
             /\ reservation' = [reservation EXCEPT ![c] = "released"]
             /\ UNCHANGED <<capacity, queue>>
    <3>1. /\ ControlInv'
          /\ isEnabled => \A t \in LimitedType : Held(t, reservation') = Held(t, reservation)
      BY <2>1, <2>2, ReleaseUnlimitedInv
    <3>2. \A t : Cardinality(Held(t, reservation)) \in Nat
      BY HeldFinite
    <3>. QED
      BY <2>1, <3>1, <3>2
  <2>3. CASE /\ isEnabled /\ ~IsUnlimited(target[c])
             /\ Dequeue(QueueTypeOf(target[c]), [reservation EXCEPT ![c] = "released"])
    BY <2>1, <2>3, LimitFacts, DequeueInv
  <2>. QED
    BY <1>6, <2>1, <2>2, <2>3 DEF GiveBack, Release
<1>7. ASSUME NEW e \in Execution, Remove(e)
      PROVE  ControlInv' /\ RemovalNow
  BY <1>7, RemoveInv DEF RemovalNow
<1>8. CASE isEnabled /\ Disable
  <2>1. \A t : Occupying(t)' = Occupying(t)
    BY <1>8 DEF Disable, Occupying, CallsIn
  <2>. QED
    BY <1>2, <1>8, <2>1, DisableInv
<1>9. CASE ControlRestart
  <2>1. \A t : Cardinality(Occupying(t)') = 0
    BY <1>9, RestartInv, FS_EmptySet
  <2>. QED
    BY <1>2, <1>9, <2>1, RestartInv
<1>10. CASE UNCHANGED controlVars
  <2>1. \A t : Occupying(t)' = Occupying(t) /\ Throttled(t)' = Throttled(t)
    BY <1>10 DEF controlVars, Occupying, Throttled, CallsIn
  <2>2. ControlInv'
    BY <1>10, <2>1 DEF controlVars, ControlInv, Structure, ControlTypeOK, QueueIsThrottled,
                       CapacityAccounted, NoIdleCapacity
  <2>. QED
    BY <1>2, <2>1, <2>2
<1>11. \A t : target' = target => Occupying(t) = Held(t, reservation) /\ Occupying(t)' = Held(t, reservation')
  BY SameTargetHeld
<1>. QED
  BY <1>2, <1>3, <1>4, <1>5, <1>6, <1>7, <1>8, <1>9, <1>10, <1>11, LimitFacts DEF ControlNext

-----------------------------------------------------------------------------
(* The order of admission *)

\* What AdmissionInOrder says of a step.
InOrder ==
  \A t \in QueueType : \A j \in DOMAIN queue[t] :
    AdmittedNow(queue[t][j]) =>
      /\ isEnabled
      /\ \A i \in 1..(j - 1) : ~StillQueued(queue[t][i])

\* Only the head of the queue is let through: of what remains when a call is removed.
LEMMA AdmittedIsHead ==
  ASSUME ControlInv, NEW t \in QueueType, NEW q \in Seq(Call), NEW c \in Call,
         NEW s \in {"released", "dropped"},
         ResolveNext(t, q, [reservation EXCEPT ![c] = s])
  PROVE  /\ \A d \in Call : AdmittedNow(d) => q # <<>> /\ d = q[1]
         /\ ~StillQueued(c)
<1>. DEFINE res == [reservation EXCEPT ![c] = s]
<1>1. WellFormed(reservation)
  BY ControlInvLists
<1>2. \A d \in Call : res[d] = IF d = c THEN s ELSE reservation[d]
  BY <1>1 DEF WellFormed
<1>3. DOMAIN res = Call
  BY <1>1 DEF WellFormed
<1>. HIDE DEF res
<1>4. CASE q = <<>>
  <2>1. reservation' = res
    BY <1>4 DEF ResolveNext, res
  <2>. QED
    BY <1>2, <2>1 DEF AdmittedNow, StillQueued
<1>5. CASE q # <<>>
  <2>1. reservation' = [res EXCEPT ![Head(q)] = "acquired"] /\ Head(q) = q[1]
    BY <1>5 DEF ResolveNext, res
  <2>2. \A d \in Call : d # q[1] => reservation'[d] = res[d]
    BY <1>3, <2>1
  <2>3. reservation'[c] \in {res[c], "acquired"}
    BY <1>3, <2>1
  <2>. QED
    BY <1>2, <1>5, <2>2, <2>3 DEF AdmittedNow, StillQueued
<1>. QED
  BY <1>4, <1>5

\* The calls of a queue have its type and stand in it once.
LEMMA PlaceInQueue ==
  ASSUME ControlInv, NEW t \in QueueType, NEW i \in DOMAIN queue[t],
         NEW u \in QueueType, NEW j \in DOMAIN queue[u], queue[u][j] = queue[t][i]
  PROVE  u = t /\ j = i
<1>1. Lists(t, queue[t], reservation) /\ Lists(u, queue[u], reservation)
  BY ControlInvLists
<1>2. u = t
  BY <1>1 DEF Lists
<1>. QED
  BY <1>1, <1>2 DEF Lists

LEMMA DequeueInOrder ==
  ASSUME ControlInv, isEnabled, NEW c \in Call, NEW t \in QueueType,
         Dequeue(t, [reservation EXCEPT ![c] = "released"])
  PROVE  InOrder
<1>. SUFFICES ASSUME NEW u \in QueueType, NEW j \in DOMAIN queue[u], AdmittedNow(queue[u][j])
              PROVE  \A i \in 1..(j - 1) : ~StillQueued(queue[u][i])
  BY DEF InOrder
<1>1. queue[t] \in Seq(Call) /\ queue[u] \in Seq(Call)
  BY ControlInvLists
<1>2. queue[u][j] \in Call
  BY <1>1, ElementOfSeq
<1>3. queue[t] # <<>> /\ queue[u][j] = queue[t][1]
  BY <1>1, <1>2, AdmittedIsHead DEF Dequeue
<1>4. 1 \in DOMAIN queue[t]
  BY <1>1, <1>3
<1>5. j = 1
  BY <1>3, <1>4, PlaceInQueue
<1>. QED
  BY <1>5

LEMMA RemoveInOrder ==
  ASSUME ControlInv, NEW e \in Execution, Remove(e)
  PROVE  InOrder
<1>. DEFINE t == QueueTypeOf(e)
<1>1. isEnabled /\ ~IsUnlimited(e) /\ t \in QueueType
  BY LimitFacts DEF Remove
<1>2. PICK k \in DOMAIN queue[t] :
        ResolveNext(t, Without(queue[t], k), [reservation EXCEPT ![queue[t][k]] = "dropped"])
  BY DEF Remove
<1>. HIDE DEF t
<1>. SUFFICES ASSUME NEW u \in QueueType, NEW j \in DOMAIN queue[u], AdmittedNow(queue[u][j]),
                     NEW i \in 1..(j - 1), StillQueued(queue[u][i])
              PROVE  FALSE
  BY <1>1 DEF InOrder
<1>3. queue[t] \in Seq(Call) /\ queue[u] \in Seq(Call)
  BY <1>1, ControlInvLists
<1>4. queue[u][j] \in Call /\ queue[t][k] \in Call
  BY <1>3, ElementOfSeq
<1>. DEFINE q == Without(queue[t], k)
<1>5. /\ q \in Seq(Call) /\ Len(q) = Len(queue[t]) - 1
      /\ \A n \in 1..Len(queue[t]) - 1 :
           q[n] = IF n < k THEN queue[t][n] ELSE queue[t][n + 1]
  BY <1>3, WithoutFacts
<1>. HIDE DEF q
<1>6. q # <<>> /\ queue[u][j] = q[1]
  BY <1>1, <1>2, <1>4, <1>5, AdmittedIsHead DEF q
<1>7. k \in 1..Len(queue[t]) /\ 1 \in 1..Len(queue[t]) - 1 /\ DOMAIN queue[t] = 1..Len(queue[t])
  BY <1>3, <1>5, <1>6
<1>8. CASE 1 < k
  <2>1. queue[u][j] = queue[t][1] /\ 1 \in DOMAIN queue[t]
    BY <1>5, <1>6, <1>7, <1>8
  <2>2. j = 1
    BY <1>1, <2>1, PlaceInQueue
  <2>. QED
    BY <2>2
<1>9. CASE k = 1
  <2>1. queue[u][j] = queue[t][2] /\ 2 \in DOMAIN queue[t]
    BY <1>3, <1>5, <1>6, <1>7, <1>9
  <2>2. u = t /\ j = 2
    BY <1>1, <2>1, PlaceInQueue
  <2>3. queue[u][i] = queue[t][k]
    BY <1>9, <2>2
  <2>4. ~StillQueued(queue[t][k])
    BY <1>1, <1>2, <1>4, <1>5, AdmittedIsHead DEF q
  <2>. QED
    BY <2>3, <2>4
<1>. QED
  BY <1>7, <1>8, <1>9

LEMMA InOrderStep ==
  ASSUME ControlInv, [ControlNext]_controlVars
  PROVE  InOrder
<1>1. /\ WellFormed(reservation) /\ target \in [Call -> Execution \cup {None}]
      /\ \A t \in QueueType : Lists(t, queue[t], reservation) /\ queue[t] \in Seq(Call)
  BY ControlInvLists
<1>2. \A t \in QueueType : \A j \in DOMAIN queue[t] : queue[t][j] \in Call
  BY <1>1, ElementOfSeq
<1>3. ASSUME \A c \in Call : reservation[c] = "throttled" => reservation'[c] # "acquired"
      PROVE  InOrder
  BY <1>2, <1>3 DEF InOrder, AdmittedNow
<1>4. CASE \/ \E c \in Call, e \in Execution : Ask(c, e)
           \/ \E c \in Call : Renew(c)
           \/ isEnabled /\ Disable
           \/ ControlRestart
           \/ UNCHANGED controlVars
  <2>1. \A c \in Call : reservation[c] = "throttled" => reservation'[c] # "acquired"
    BY <1>1, <1>4 DEF Ask, Renew, Disable, ControlRestart, controlVars, WellFormed
  <2>. QED
    BY <1>3, <2>1
<1>5. ASSUME NEW c \in Call, AskedReserve(c) PROVE InOrder
  <2>1. reservation[c] = "none" /\ \E s : reservation' = [reservation EXCEPT ![c] = s]
    BY <1>5 DEF AskedReserve, Reserve, ReserveUnlimited, ReserveLimited, EnqueueAdmitted,
                EnqueueThrottled
  <2>2. \A d \in Call : d # c => reservation'[d] = reservation[d]
    BY <1>1, <2>1 DEF WellFormed
  <2>. QED
    BY <1>3, <2>1, <2>2
<1>6. ASSUME NEW c \in Call, GiveBack(c) PROVE InOrder
  <2>1. CASE reservation' = [reservation EXCEPT ![c] = "released"]
    <3>1. \A d \in Call : reservation[d] = "throttled" => reservation'[d] # "acquired"
      BY <1>1, <2>1 DEF WellFormed
    <3>. QED
      BY <1>3, <3>1
  <2>2. CASE /\ isEnabled /\ ~IsUnlimited(target[c])
             /\ Dequeue(QueueTypeOf(target[c]), [reservation EXCEPT ![c] = "released"])
    <3>1. target[c] \in Execution
      BY <1>1, <1>6 DEF GiveBack, WellFormed
    <3>2. QueueTypeOf(target[c]) \in QueueType
      BY <2>2, <3>1, LimitFacts
    <3>. QED
      BY <2>2, <3>2, DequeueInOrder
  <2>. QED
    BY <1>6, <2>1, <2>2 DEF GiveBack, Release
<1>. QED
  BY <1>4, <1>5, <1>6, RemoveInOrder DEF ControlNext

-----------------------------------------------------------------------------
(* Theorems *)

\* The invariant holds for ever.
THEOREM ControlInvariance == ControlSpec => []ControlInv
<1>1. ControlInit => ControlInv
  BY InitInv
<1>2. ControlInv /\ [ControlNext]_controlVars => ControlInv'
  BY ControlStep
<1>. QED
  BY <1>1, <1>2, PTL DEF ControlSpec

\* The state of concurrency control keeps its types.
THEOREM ControlTypeCorrect == ControlSpec => []ControlTypeOK
<1>1. ControlInv => ControlTypeOK
  BY DEF ControlInv, Structure
<1>. QED
  BY <1>1, ControlInvariance, PTL

\* Every throttled call is in its queue once, for any number of calls: no promise
\* is lost or resolved twice.
THEOREM QueueCorrect == ControlSpec => []QueueIsThrottled
<1>1. ControlInv => QueueIsThrottled
  BY DEF ControlInv, Structure
<1>. QED
  BY <1>1, ControlInvariance, PTL

\* Capacity is neither lost nor given back twice, for any limits and any calls.
THEOREM CapacityCorrect == ControlSpec => []CapacityAccounted
<1>1. ControlInv => CapacityAccounted
  BY DEF ControlInv
<1>. QED
  BY <1>1, ControlInvariance, PTL

\* Nobody waits while there is room.
THEOREM NoIdleCapacityCorrect == ControlSpec => []NoIdleCapacity
<1>1. ControlInv => NoIdleCapacity
  BY DEF ControlInv
<1>. QED
  BY <1>1, ControlInvariance, PTL

\* Only remove() takes the number of runs above the limit.
THEOREM OverLimitCorrect == ControlSpec => OverLimitOnlyByRemoval
<1>1. ControlInv /\ [ControlNext]_controlVars => [KeepsLimit]_controlVars
  BY ControlStep
<1>. QED
  BY <1>1, ControlInvariance, PTL DEF ControlSpec, OverLimitOnlyByRemoval, KeepsLimit

\* First come, first served, however many calls wait and whichever of them are removed,
\* and nobody is let through once the service is disabled.
THEOREM AdmissionCorrect == ControlSpec => AdmissionInOrder
<1>1. ControlInv /\ [ControlNext]_controlVars => [InOrder]_controlVars
  BY InOrderStep
<1>. QED
  BY <1>1, ControlInvariance, PTL DEF ControlSpec, AdmissionInOrder, InOrder
=============================================================================
