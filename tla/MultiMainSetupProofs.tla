------------------------ MODULE MultiMainSetupProofs ------------------------
(***************************************************************************)
(* Proofs about MultiMainSetup, for any number of processes, of overlapping *)
(* checks, of restarts and of crashes.                                     *)
(*                                                                         *)
(* As long as no key lapses, whatever makes a process take itself for the  *)
(* leader - its role, a reply that is still under way - comes with the key *)
(* being its own, and the key cannot be taken from a living process except *)
(* by its own shutdown.                                                    *)
(***************************************************************************)
EXTENDS MultiMainSetup, TLAPS

\* A process before stopProcess.
Starting == {"booting", "orchestrated", "initialized", "running"}

\* The replies that make a leader.
Elects == {"own", "set"}

Holds(q, x) == \E i \in DOMAIN q : q[i] = x

\* The key is cleared once, and it is taken only by a process that has not heard
\* before that the key is its own.
ClearsOnce(q) == \A i, j \in DOMAIN q : q[i] = "del" /\ q[j] = "del" => i = j

TakesFirst(q) ==
  \A i \in DOMAIN q : q[i] = "set" => \A j \in 1..(i - 1) : q[j] \notin Elects

\* What ends with a process, and what only its shutdown begins.
ProcessInv ==
  \A h \in Host :
    /\ proc[h] = "down" =>
         role[h] = "unset" /\ \A x : ~Holds(sent[h], x) /\ ~Holds(replies[h], x)
    /\ proc[h] \in {"down", "booting", "orchestrated"} => intervals[h] = 0
    /\ Holds(sent[h], "del") => proc[h] = "clearing"
    /\ ClearsOnce(sent[h])

\* The key of a process that leads, is about to, or is about to clear the key.
KeyInv ==
  \A h \in Host :
    /\ proc[h] # "clearing" /\ role[h] = "leader" => leaderKey = h
    /\ proc[h] # "clearing" => \A x \in Elects : Holds(replies[h], x) => leaderKey = h
    /\ Holds(sent[h], "del") => leaderKey = h

\* A process whose tracker polls holds the key, and one that has just got the
\* key does not poll yet.
PollInv ==
  \A h \in Host :
    proc[h] \in Starting =>
      /\ intervals[h] > 0 => leaderKey = h /\ intervals[h] = 1
      /\ Holds(replies[h], "set") =>
           role[h] # "leader" /\ intervals[h] = 0 /\ TakesFirst(replies[h])

LeaderInv == TypeOK /\ ProcessInv /\ (lapses = 0 => KeyInv /\ PollInv)

-----------------------------------------------------------------------------
(* Connections *)

\* Taking the head of a queue moves the rest up by one.
LEMMA TailMoves ==
  ASSUME NEW S, NEW q \in Seq(S), q # <<>>
  PROVE  /\ Tail(q) \in Seq(S) /\ Head(q) = q[1] /\ 1 \in DOMAIN q
         /\ \A i \in DOMAIN q : i \in Nat \ {0}
         /\ \A i \in DOMAIN Tail(q) :
              i \in Nat \ {0} /\ i + 1 \in DOMAIN q /\ Tail(q)[i] = q[i + 1]
  OBVIOUS

\* A new element comes last.
LEMMA AppendMoves ==
  ASSUME NEW S, NEW q \in Seq(S), NEW x \in S
  PROVE  /\ Append(q, x) \in Seq(S)
         /\ \A i \in DOMAIN Append(q, x) :
              /\ i \in Nat \ {0}
              /\ \/ i \in DOMAIN q /\ Append(q, x)[i] = q[i]
                 \/ i = Len(q) + 1 /\ Append(q, x)[i] = x
         /\ \A i \in DOMAIN Append(q, x) : \A j \in 1..(i - 1) :
              j \in DOMAIN q /\ Append(q, x)[j] = q[j]
  OBVIOUS

\* What is left of a queue holds nothing else, and the key is not taken or
\* cleared a second time.
LEMMA TailHolds ==
  ASSUME NEW S, NEW q \in Seq(S), q # <<>>
  PROVE  /\ Tail(q) \in Seq(S) /\ Holds(q, Head(q))
         /\ \A x : Holds(Tail(q), x) => Holds(q, x)
         /\ ClearsOnce(q) => ClearsOnce(Tail(q))
         /\ ClearsOnce(q) /\ Head(q) = "del" => ~Holds(Tail(q), "del")
         /\ TakesFirst(q) => TakesFirst(Tail(q))
         /\ TakesFirst(q) /\ Head(q) \in Elects => ~Holds(Tail(q), "set")
<1>1. Tail(q) \in Seq(S) /\ Holds(q, Head(q)) /\ \A x : Holds(Tail(q), x) => Holds(q, x)
  BY TailMoves DEF Holds
<1>2. ClearsOnce(q) => ClearsOnce(Tail(q))
  <2>1. SUFFICES ASSUME ClearsOnce(q), NEW i \in DOMAIN Tail(q), NEW j \in DOMAIN Tail(q),
                        Tail(q)[i] = "del", Tail(q)[j] = "del"
                 PROVE  i = j
    BY DEF ClearsOnce
  <2>2. /\ i \in Nat /\ i + 1 \in DOMAIN q /\ q[i + 1] = "del"
        /\ j \in Nat /\ j + 1 \in DOMAIN q /\ q[j + 1] = "del"
    BY <2>1, TailMoves
  <2>3. i + 1 = j + 1
    BY <2>1, <2>2 DEF ClearsOnce
  <2>. QED
    BY <2>2, <2>3
<1>3. ClearsOnce(q) /\ Head(q) = "del" => ~Holds(Tail(q), "del")
  <2>1. SUFFICES ASSUME ClearsOnce(q), Head(q) = "del", NEW i \in DOMAIN Tail(q),
                        Tail(q)[i] = "del"
                 PROVE  FALSE
    BY DEF Holds
  <2>2. i \in Nat \ {0} /\ i + 1 \in DOMAIN q /\ q[i + 1] = "del" /\ 1 \in DOMAIN q /\ q[1] = "del"
    BY <2>1, TailMoves
  <2>3. i + 1 = 1
    BY <2>1, <2>2 DEF ClearsOnce
  <2>. QED
    BY <2>2, <2>3
<1>4. TakesFirst(q) => TakesFirst(Tail(q))
  <2>1. SUFFICES ASSUME TakesFirst(q), NEW i \in DOMAIN Tail(q), Tail(q)[i] = "set",
                        NEW j \in 1..(i - 1)
                 PROVE  Tail(q)[j] \notin Elects
    BY DEF TakesFirst
  <2>2. i \in Nat \ {0} /\ i + 1 \in DOMAIN q /\ q[i + 1] = "set" /\ j + 1 \in 1..((i + 1) - 1)
    BY <2>1, TailMoves
  <2>3. j \in DOMAIN Tail(q)
    BY <2>2
  <2>. QED
    BY <2>1, <2>2, <2>3, TailMoves DEF TakesFirst
<1>5. TakesFirst(q) /\ Head(q) \in Elects => ~Holds(Tail(q), "set")
  <2>1. SUFFICES ASSUME TakesFirst(q), Head(q) \in Elects, NEW i \in DOMAIN Tail(q),
                        Tail(q)[i] = "set"
                 PROVE  FALSE
    BY DEF Holds
  <2>2. /\ i \in Nat \ {0} /\ i + 1 \in DOMAIN q /\ q[i + 1] = "set" /\ 1 \in 1..((i + 1) - 1)
        /\ q[1] \in Elects
    BY <2>1, TailMoves
  <2>. QED
    BY <2>1, <2>2 DEF TakesFirst
<1>. QED
  BY <1>1, <1>2, <1>3, <1>4, <1>5

\* What a queue holds after a new element.
LEMMA AppendHolds ==
  ASSUME NEW S, NEW q \in Seq(S), NEW x \in S
  PROVE  /\ Append(q, x) \in Seq(S)
         /\ \A y : Holds(Append(q, x), y) => Holds(q, y) \/ y = x
         /\ ClearsOnce(q) /\ (x # "del" \/ ~Holds(q, "del")) => ClearsOnce(Append(q, x))
         /\ TakesFirst(q) /\ x # "set" => TakesFirst(Append(q, x))
         /\ (\A y \in Elects : ~Holds(q, y)) => TakesFirst(Append(q, x))
<1>1. Append(q, x) \in Seq(S) /\ \A y : Holds(Append(q, x), y) => Holds(q, y) \/ y = x
  BY AppendMoves DEF Holds
<1>2. ClearsOnce(q) /\ (x # "del" \/ ~Holds(q, "del")) => ClearsOnce(Append(q, x))
  <2>. DEFINE r == Append(q, x)
  <2>1. \A i \in DOMAIN r : (i \in DOMAIN q /\ r[i] = q[i]) \/ (i = Len(q) + 1 /\ r[i] = x)
    BY AppendMoves
  <2>. HIDE DEF r
  <2>2. ClearsOnce(q) /\ (x # "del" \/ ~Holds(q, "del")) => ClearsOnce(r)
    BY <2>1 DEF ClearsOnce, Holds
  <2>. QED
    BY <2>2 DEF r
<1>3. /\ TakesFirst(q) /\ x # "set" => TakesFirst(Append(q, x))
      /\ (\A y \in Elects : ~Holds(q, y)) => TakesFirst(Append(q, x))
  <2>. DEFINE r == Append(q, x)
  <2>1. /\ \A i \in DOMAIN r : (i \in DOMAIN q /\ r[i] = q[i]) \/ (i = Len(q) + 1 /\ r[i] = x)
        /\ \A i \in DOMAIN r : \A j \in 1..(i - 1) : j \in DOMAIN q /\ r[j] = q[j]
    BY AppendMoves
  <2>. HIDE DEF r
  <2>2. TakesFirst(q) /\ x # "set" => TakesFirst(r)
    BY <2>1 DEF TakesFirst
  <2>3. (\A y \in Elects : ~Holds(q, y)) => TakesFirst(r)
    BY <2>1 DEF TakesFirst, Holds
  <2>. QED
    BY <2>2, <2>3 DEF r
<1>. QED
  BY <1>1, <1>2, <1>3

\* Sending a command.
Sent(h, command) ==
  /\ sent' \in [Host -> Seq(Command)]
  /\ \A g \in Host \ {h} : sent'[g] = sent[g]
  /\ \A x : Holds(sent'[h], x) => Holds(sent[h], x) \/ x = command
  /\ ClearsOnce(sent[h]) /\ (command # "del" \/ ~Holds(sent[h], "del")) => ClearsOnce(sent'[h])

\* Send does that.
LEMMA SendFacts ==
  ASSUME TypeOK, NEW h \in Host, NEW command \in Command, Send(h, command)
  PROVE  Sent(h, command)
<1>1. sent \in [Host -> Seq(Command)] /\ sent' = [sent EXCEPT ![h] = Append(sent[h], command)]
  BY DEF TypeOK, Send
<1>2. sent[h] \in Seq(Command) /\ sent'[h] = Append(sent[h], command)
  BY <1>1
<1>3. sent'[h] \in Seq(Command)
  BY <1>2, AppendHolds
<1>. QED
  BY <1>1, <1>2, <1>3, AppendHolds DEF Sent

\* Handling a reply.
Taken(h, reply) ==
  /\ replies' \in [Host -> Seq(Reply)]
  /\ \A g \in Host \ {h} : replies'[g] = replies[g]
  /\ Holds(replies[h], reply)
  /\ \A x : Holds(replies'[h], x) => Holds(replies[h], x)
  /\ TakesFirst(replies[h]) => TakesFirst(replies'[h])
  /\ TakesFirst(replies[h]) /\ reply \in Elects => ~Holds(replies'[h], "set")

\* Takes does that.
LEMMA TakesFacts ==
  ASSUME TypeOK, NEW h \in Host, NEW reply, Takes(h, reply)
  PROVE  Taken(h, reply)
<1>1. /\ replies \in [Host -> Seq(Reply)] /\ replies' = [replies EXCEPT ![h] = Tail(replies[h])]
      /\ replies[h] # <<>> /\ Head(replies[h]) = reply
  BY DEF TypeOK, Takes
<1>2. replies[h] \in Seq(Reply) /\ replies'[h] = Tail(replies[h])
  BY <1>1
<1>3. replies'[h] \in Seq(Reply)
  BY <1>1, <1>2, TailHolds
<1>4. /\ Holds(replies[h], reply)
      /\ \A x : Holds(replies'[h], x) => Holds(replies[h], x)
      /\ TakesFirst(replies[h]) => TakesFirst(replies'[h])
      /\ TakesFirst(replies[h]) /\ reply \in Elects => ~Holds(replies'[h], "set")
  BY <1>1, <1>2, TailHolds
<1>. QED
  BY <1>1, <1>3, <1>4 DEF Taken

\* Redis runs a command.
Ran(h, command, reply) ==
  /\ sent' \in [Host -> Seq(Command)] /\ replies' \in [Host -> Seq(Reply)]
  /\ \A g \in Host \ {h} : sent'[g] = sent[g] /\ replies'[g] = replies[g]
  /\ Holds(sent[h], command)
  /\ \A x : Holds(sent'[h], x) => Holds(sent[h], x)
  /\ ClearsOnce(sent[h]) => ClearsOnce(sent'[h])
  /\ ClearsOnce(sent[h]) /\ command = "del" => ~Holds(sent'[h], "del")
  /\ \A x : Holds(replies'[h], x) => Holds(replies[h], x) \/ x = reply
  /\ TakesFirst(replies[h]) /\ reply # "set" => TakesFirst(replies'[h])
  /\ (\A x \in Elects : ~Holds(replies[h], x)) => TakesFirst(replies'[h])
  /\ UNCHANGED <<proc, role, trackerVars, countVars>>

\* Runs does that.
LEMMA RunsFacts ==
  ASSUME TypeOK, NEW h \in Host, NEW command, NEW reply \in Reply, Runs(h, command, reply)
  PROVE  Ran(h, command, reply)
<1>1. /\ sent \in [Host -> Seq(Command)] /\ replies \in [Host -> Seq(Reply)]
      /\ sent' = [sent EXCEPT ![h] = Tail(sent[h])]
      /\ replies' = [replies EXCEPT ![h] = Append(replies[h], reply)]
      /\ sent[h] # <<>> /\ Head(sent[h]) = command
      /\ UNCHANGED <<proc, role, trackerVars, countVars>>
  BY DEF TypeOK, Runs
<1>2. /\ sent[h] \in Seq(Command) /\ sent'[h] = Tail(sent[h])
      /\ replies[h] \in Seq(Reply) /\ replies'[h] = Append(replies[h], reply)
  BY <1>1
<1>3. sent'[h] \in Seq(Command) /\ replies'[h] \in Seq(Reply)
  BY <1>1, <1>2, TailHolds, AppendHolds
<1>4. /\ sent' \in [Host -> Seq(Command)] /\ replies' \in [Host -> Seq(Reply)]
      /\ \A g \in Host \ {h} : sent'[g] = sent[g] /\ replies'[g] = replies[g]
  BY <1>1, <1>3
<1>5. /\ Holds(sent[h], command)
      /\ \A x : Holds(sent'[h], x) => Holds(sent[h], x)
      /\ ClearsOnce(sent[h]) => ClearsOnce(sent'[h])
      /\ ClearsOnce(sent[h]) /\ command = "del" => ~Holds(sent'[h], "del")
  BY <1>1, <1>2, TailHolds
<1>6. /\ \A x : Holds(replies'[h], x) => Holds(replies[h], x) \/ x = reply
      /\ TakesFirst(replies[h]) /\ reply # "set" => TakesFirst(replies'[h])
      /\ (\A x \in Elects : ~Holds(replies[h], x)) => TakesFirst(replies'[h])
  BY <1>2, AppendHolds
<1>. QED
  BY <1>1, <1>4, <1>5, <1>6 DEF Ran

-----------------------------------------------------------------------------
(* The wait tracker *)

\* One process starts or stops to poll.
Tracked(h) ==
  /\ intervals' \in [Host -> Nat] /\ mainTimer' \in [Host -> BOOLEAN]
  /\ \A g \in Host : mainTimer'[g] => intervals'[g] > 0
  /\ \A g \in Host \ {h} : intervals'[g] = intervals[g]

\* startTracking adds an interval, and mainTimer is one of them.
LEMMA StartFacts ==
  ASSUME TypeOK, NEW h \in Host, StartTracking(h)
  PROVE  Tracked(h) /\ intervals'[h] = intervals[h] + 1
<1>1. /\ intervals \in [Host -> Nat] /\ mainTimer \in [Host -> BOOLEAN]
      /\ \A g \in Host : mainTimer[g] => intervals[g] > 0
      /\ intervals' = [intervals EXCEPT ![h] = intervals[h] + 1]
      /\ mainTimer' = [mainTimer EXCEPT ![h] = TRUE]
  BY DEF TypeOK, StartTracking
<1>. QED
  BY <1>1 DEF Tracked

\* stopTracking takes at most one away.
LEMMA StopFacts ==
  ASSUME TypeOK, NEW h \in Host, StopTracking(h)
  PROVE  Tracked(h) /\ intervals'[h] <= intervals[h]
<1>1. /\ intervals \in [Host -> Nat] /\ mainTimer \in [Host -> BOOLEAN]
      /\ \A g \in Host : mainTimer[g] => intervals[g] > 0
      /\ intervals' = [intervals EXCEPT ![h] = IF mainTimer[h] THEN intervals[h] - 1 ELSE intervals[h]]
      /\ mainTimer' = [mainTimer EXCEPT ![h] = FALSE]
  BY DEF TypeOK, StopTracking
<1>2. (IF mainTimer[h] THEN intervals[h] - 1 ELSE intervals[h]) \in Nat
  BY <1>1
<1>. QED
  BY <1>1, <1>2 DEF Tracked

\* The event that a process steps down.
LEMMA StepdownFacts ==
  ASSUME TypeOK, NEW h \in Host, EmitStepdown(h)
  PROVE  /\ Tracked(h) /\ intervals'[h] <= intervals[h]
         /\ proc[h] \notin Listening => intervals'[h] = intervals[h]
<1>1. CASE proc[h] \in Listening /\ StopTracking(h)
  BY <1>1, StopFacts
<1>2. CASE proc[h] \notin Listening /\ UNCHANGED trackerVars
  BY <1>2 DEF TypeOK, Tracked, trackerVars
<1>. QED
  BY <1>1, <1>2 DEF EmitStepdown

\* The event that it takes over.
LEMMA TakeoverFacts ==
  ASSUME TypeOK, NEW h \in Host, EmitTakeover(h)
  PROVE  /\ Tracked(h) /\ intervals'[h] \in {intervals[h], intervals[h] + 1}
         /\ proc[h] \notin Listening => intervals'[h] = intervals[h]
<1>1. CASE proc[h] \in Listening /\ StartTracking(h)
  BY <1>1, StartFacts
<1>2. CASE proc[h] \notin Listening /\ UNCHANGED trackerVars
  BY <1>2 DEF TypeOK, Tracked, trackerVars
<1>. QED
  BY <1>1, <1>2 DEF EmitTakeover

-----------------------------------------------------------------------------
(* Every step preserves the invariant *)

\* GET answers "own" only to the process that holds the key.
LEMMA RunGetKeeps ==
  ASSUME LeaderInv, NEW h \in Host, RunGet(h)
  PROVE  LeaderInv'
<1>1. TypeOK /\ ProcessInv /\ (lapses = 0 => KeyInv /\ PollInv)
  BY DEF LeaderInv
<1>. DEFINE reply == IF leaderKey = h THEN "own" ELSE IF leaderKey = None THEN "vacant" ELSE "other"
<1>2. Ran(h, "get", reply) /\ leaderKey' = leaderKey /\ reply # "set" /\ (reply = "own" => leaderKey = h)
  BY <1>1, RunsFacts DEF RunGet, Reply
<1>. HIDE DEF reply
<1>3. TypeOK'
  BY <1>1, <1>2 DEF TypeOK, Ran, trackerVars, countVars
<1>4. ProcessInv'
  BY <1>1, <1>2 DEF ProcessInv, Ran, trackerVars, countVars
<1>5. lapses' = 0 => KeyInv'
  BY <1>1, <1>2 DEF KeyInv, Elects, Ran, trackerVars, countVars
<1>6. lapses' = 0 => PollInv'
  BY <1>1, <1>2 DEF PollInv, Ran, trackerVars, countVars
<1>. QED
  BY <1>3, <1>4, <1>5, <1>6 DEF LeaderInv

\* SET takes a key that nobody has, so nobody leads or polls by then.
LEMMA RunSetKeeps ==
  ASSUME LeaderInv, NEW h \in Host, RunSet(h)
  PROVE  LeaderInv'
<1>1. TypeOK /\ ProcessInv /\ (lapses = 0 => KeyInv /\ PollInv)
  BY DEF LeaderInv
<1>2. \/ leaderKey = None /\ leaderKey' = h /\ Ran(h, "set", "set")
      \/ leaderKey' = leaderKey /\ Ran(h, "set", "refused")
  BY <1>1, RunsFacts DEF RunSet, Reply
<1>3. TypeOK'
  BY <1>1, <1>2, SetupAssumption DEF TypeOK, Process, Ran, trackerVars, countVars
<1>4. ProcessInv'
  BY <1>1, <1>2 DEF TypeOK, ProcessInv, Ran, trackerVars, countVars
<1>5. lapses' = 0 => KeyInv'
  BY <1>1, <1>2, HostAssumption
     DEF TypeOK, ProcessInv, KeyInv, Elects, Ran, trackerVars, countVars
<1>6. lapses' = 0 => PollInv'
  <2>1. SUFFICES ASSUME lapses = 0, NEW g \in Host, proc[g] \in Starting
                 PROVE  /\ intervals[g] > 0 => leaderKey' = g /\ intervals[g] = 1
                        /\ Holds(replies'[g], "set") =>
                             role[g] # "leader" /\ intervals[g] = 0 /\ TakesFirst(replies'[g])
    BY <1>2 DEF PollInv, Ran, trackerVars, countVars
  <2>2. CASE leaderKey = None /\ leaderKey' = h /\ Ran(h, "set", "set")
    <3>1. leaderKey # g /\ proc[g] # "clearing" /\ intervals[g] \in Nat
      BY <1>1, <2>1, <2>2, HostAssumption DEF TypeOK, Starting
    <3>2. role[g] # "leader" /\ \A x \in Elects : ~Holds(replies[g], x)
      BY <1>1, <2>1, <3>1 DEF KeyInv
    <3>3. intervals[g] = 0
      BY <1>1, <2>1, <3>1 DEF PollInv
    <3>4. Holds(replies'[g], "set") => TakesFirst(replies'[g])
      BY <2>2, <3>2 DEF Ran, Elects
    <3>. QED
      BY <3>2, <3>3, <3>4
  <2>3. CASE leaderKey' = leaderKey /\ Ran(h, "set", "refused")
    BY <1>1, <2>1, <2>3 DEF PollInv, Ran
  <2>. QED
    BY <1>2, <2>2, <2>3
<1>. QED
  BY <1>3, <1>4, <1>5, <1>6 DEF LeaderInv

\* EXPIRE changes nothing that is modelled.
LEMMA RunExpireKeeps ==
  ASSUME LeaderInv, NEW h \in Host, RunExpire(h)
  PROVE  LeaderInv'
<1>1. TypeOK /\ ProcessInv /\ (lapses = 0 => KeyInv /\ PollInv)
  BY DEF LeaderInv
<1>2. Ran(h, "expire", "done") /\ leaderKey' = leaderKey
  BY <1>1, RunsFacts DEF RunExpire, Reply
<1>3. TypeOK'
  BY <1>1, <1>2, SetupAssumption DEF TypeOK, Process, Ran, trackerVars, countVars
<1>4. ProcessInv'
  BY <1>1, <1>2 DEF TypeOK, ProcessInv, Ran, trackerVars, countVars
<1>5. lapses' = 0 => KeyInv'
  BY <1>1, <1>2, HostAssumption
     DEF TypeOK, ProcessInv, KeyInv, Elects, Ran, trackerVars, countVars
<1>6. lapses' = 0 => PollInv'
  BY <1>1, <1>2, HostAssumption
     DEF TypeOK, ProcessInv, KeyInv, PollInv, Elects, Starting, Ran, trackerVars, countVars
<1>. QED
  BY <1>3, <1>4, <1>5, <1>6 DEF LeaderInv

\* DEL takes the key from the process that shuts down.
LEMMA RunDelKeeps ==
  ASSUME LeaderInv, NEW h \in Host, RunDel(h)
  PROVE  LeaderInv'
<1>1. TypeOK /\ ProcessInv /\ (lapses = 0 => KeyInv /\ PollInv)
  BY DEF LeaderInv
<1>2. Ran(h, "del", "deleted") /\ leaderKey' = None
  BY <1>1, RunsFacts DEF RunDel, Reply
<1>3. TypeOK'
  BY <1>1, <1>2, SetupAssumption DEF TypeOK, Process, Ran, trackerVars, countVars
<1>4. ProcessInv'
  BY <1>1, <1>2 DEF TypeOK, ProcessInv, Ran, trackerVars, countVars
<1>5. lapses' = 0 => KeyInv'
  BY <1>1, <1>2, HostAssumption
     DEF TypeOK, ProcessInv, KeyInv, Elects, Ran, trackerVars, countVars
<1>6. lapses' = 0 => PollInv'
  BY <1>1, <1>2, HostAssumption
     DEF TypeOK, ProcessInv, KeyInv, PollInv, Elects, Starting, Ran, trackerVars, countVars
<1>. QED
  BY <1>3, <1>4, <1>5, <1>6 DEF LeaderInv

\* The holder of the key marks itself.
LEMMA GotOwnKeeps ==
  ASSUME LeaderInv, NEW h \in Host, GotOwn(h)
  PROVE  LeaderInv'
<1>1. TypeOK /\ ProcessInv /\ (lapses = 0 => KeyInv /\ PollInv)
  BY DEF LeaderInv
<1>2. /\ Taken(h, "own") /\ Sent(h, "expire") /\ Mark(h, "leader")
      /\ UNCHANGED <<leaderKey, proc, trackerVars, countVars>>
  BY <1>1, TakesFacts, SendFacts DEF GotOwn, Command
<1>3. TypeOK'
  BY <1>1, <1>2, SetupAssumption DEF TypeOK, Process, Sent, Taken, Mark, trackerVars, countVars
<1>4. ProcessInv'
  BY <1>1, <1>2 DEF TypeOK, ProcessInv, Sent, Taken, Mark, trackerVars, countVars
<1>5. lapses' = 0 => KeyInv'
  BY <1>1, <1>2, HostAssumption
     DEF TypeOK, ProcessInv, KeyInv, Elects, Sent, Taken, Mark, trackerVars, countVars
<1>6. lapses' = 0 => PollInv'
  BY <1>1, <1>2, HostAssumption
     DEF TypeOK, ProcessInv, KeyInv, PollInv, Elects, Starting, Sent, Taken, Mark,
         trackerVars, countVars
<1>. QED
  BY <1>3, <1>4, <1>5, <1>6 DEF LeaderInv

\* A leader without the key steps down.
LEMMA GotOtherKeeps ==
  ASSUME LeaderInv, NEW h \in Host, GotOther(h)
  PROVE  LeaderInv'
<1>1. TypeOK /\ ProcessInv /\ (lapses = 0 => KeyInv /\ PollInv)
  BY DEF LeaderInv
<1>2. /\ Taken(h, "other") /\ UNCHANGED <<leaderKey, sent, proc, countVars>>
      /\ \/ Mark(h, "follower") /\ Tracked(h) /\ intervals'[h] <= intervals[h]
            /\ (proc[h] \notin Listening => intervals'[h] = intervals[h])
         \/ UNCHANGED <<role, trackerVars>>
  BY <1>1, TakesFacts, StepdownFacts DEF GotOther
<1>3. TypeOK'
  BY <1>1, <1>2, SetupAssumption
     DEF TypeOK, Process, Listening, Tracked, Taken, Mark, trackerVars, countVars
<1>4. ProcessInv'
  BY <1>1, <1>2, ZenonT(30) DEF TypeOK, ProcessInv, Listening, Tracked, Taken, Mark, trackerVars, countVars
<1>5. lapses' = 0 => KeyInv'
  BY <1>1, <1>2, HostAssumption, ZenonT(30)
     DEF TypeOK, ProcessInv, KeyInv, Elects, Listening, Tracked, Taken, Mark, trackerVars,
         countVars
<1>6. lapses' = 0 => PollInv'
  <2>1. SUFFICES ASSUME lapses = 0, NEW g \in Host, proc[g] \in Starting
                 PROVE  /\ intervals'[g] > 0 => leaderKey = g /\ intervals'[g] = 1
                        /\ Holds(replies'[g], "set") =>
                             role'[g] # "leader" /\ intervals'[g] = 0 /\ TakesFirst(replies'[g])
    BY <1>2 DEF PollInv, countVars
  <2>2. /\ intervals[g] > 0 => leaderKey = g /\ intervals[g] = 1
        /\ Holds(replies[g], "set") =>
             role[g] # "leader" /\ intervals[g] = 0 /\ TakesFirst(replies[g])
        /\ intervals[g] \in Nat /\ role \in [Host -> {"unset", "leader", "follower"}]
    BY <1>1, <2>1 DEF PollInv, TypeOK
  <2>3. /\ Holds(replies'[g], "set") => Holds(replies[g], "set")
        /\ TakesFirst(replies[g]) => TakesFirst(replies'[g])
    BY <1>2 DEF Taken
  <2>4. intervals'[g] \in Nat /\ intervals'[g] <= intervals[g]
    BY <1>2, <2>2 DEF Tracked, trackerVars
  <2>5. role'[g] = "leader" => role[g] = "leader"
    BY <1>2, <2>2 DEF Mark
  <2>. QED
    BY <2>2, <2>3, <2>4, <2>5
<1>. QED
  BY <1>3, <1>4, <1>5, <1>6 DEF LeaderInv

\* A process that saw no key steps down, and its attempt changes nothing yet.
LEMMA GotVacantKeeps ==
  ASSUME LeaderInv, NEW h \in Host, GotVacant(h)
  PROVE  LeaderInv'
<1>1. TypeOK /\ ProcessInv /\ (lapses = 0 => KeyInv /\ PollInv)
  BY DEF LeaderInv
<1>2. /\ Taken(h, "vacant") /\ Sent(h, "set") /\ Mark(h, "follower") /\ Tracked(h)
      /\ intervals'[h] <= intervals[h] /\ (proc[h] \notin Listening => intervals'[h] = intervals[h])
      /\ UNCHANGED <<leaderKey, proc, countVars>>
  BY <1>1, TakesFacts, SendFacts, StepdownFacts DEF GotVacant, Command
<1>3. TypeOK'
  BY <1>1, <1>2, SetupAssumption
     DEF TypeOK, Process, Listening, Sent, Tracked, Taken, Mark, trackerVars, countVars
<1>4. ProcessInv'
  BY <1>1, <1>2
     DEF TypeOK, ProcessInv, Listening, Sent, Tracked, Taken, Mark, trackerVars, countVars
<1>5. lapses' = 0 => KeyInv'
  BY <1>1, <1>2, HostAssumption, SMTT(30)
     DEF TypeOK, ProcessInv, KeyInv, Elects, Listening, Sent, Tracked, Taken, Mark,
         trackerVars, countVars
<1>6. lapses' = 0 => PollInv'
  BY <1>1, <1>2, HostAssumption, SMTT(30)
     DEF TypeOK, ProcessInv, KeyInv, PollInv, Elects, Starting, Listening, Sent, Tracked,
         Taken, Mark, trackerVars, countVars
<1>. QED
  BY <1>3, <1>4, <1>5, <1>6 DEF LeaderInv

\* The process that has taken the key starts to poll, once.
LEMMA SetSucceededKeeps ==
  ASSUME LeaderInv, NEW h \in Host, SetSucceeded(h)
  PROVE  LeaderInv'
<1>1. TypeOK /\ ProcessInv /\ (lapses = 0 => KeyInv /\ PollInv)
  BY DEF LeaderInv
<1>2. /\ Taken(h, "set") /\ Mark(h, "leader") /\ Orchestrated(h) /\ Tracked(h)
      /\ intervals'[h] \in {intervals[h], intervals[h] + 1}
      /\ (proc[h] \notin Listening => intervals'[h] = intervals[h])
      /\ UNCHANGED <<leaderKey, sent, countVars>>
  BY <1>1, TakesFacts, TakeoverFacts DEF SetSucceeded
<1>3. TypeOK'
  BY <1>1, <1>2, SetupAssumption
     DEF TypeOK, Process, Listening, Checking, Orchestrated, Tracked, Taken, Mark,
         trackerVars, countVars
<1>4. ProcessInv'
  BY <1>1, <1>2
     DEF TypeOK, ProcessInv, Listening, Checking, Orchestrated, Tracked, Taken, Mark,
         trackerVars, countVars
<1>5. lapses' = 0 => KeyInv'
  BY <1>1, <1>2, HostAssumption
     DEF TypeOK, ProcessInv, KeyInv, Elects, Listening, Checking, Orchestrated, Tracked,
         Taken, Mark, trackerVars, countVars
<1>6. lapses' = 0 => PollInv'
  BY <1>1, <1>2, HostAssumption
     DEF TypeOK, ProcessInv, KeyInv, PollInv, Elects, Starting, Listening, Checking,
         Orchestrated, Tracked, Taken, Mark, trackerVars, countVars
<1>. QED
  BY <1>3, <1>4, <1>5, <1>6 DEF LeaderInv

\* A process that could not take the key follows.
LEMMA SetRefusedKeeps ==
  ASSUME LeaderInv, NEW h \in Host, SetRefused(h)
  PROVE  LeaderInv'
<1>1. TypeOK /\ ProcessInv /\ (lapses = 0 => KeyInv /\ PollInv)
  BY DEF LeaderInv
<1>2. /\ Taken(h, "refused") /\ Mark(h, "follower") /\ Orchestrated(h)
      /\ UNCHANGED <<leaderKey, sent, trackerVars, countVars>>
  BY <1>1, TakesFacts DEF SetRefused
<1>3. TypeOK'
  BY <1>1, <1>2, SetupAssumption
     DEF TypeOK, Process, Checking, Orchestrated, Taken, Mark, trackerVars, countVars
<1>4. ProcessInv'
  BY <1>1, <1>2
     DEF TypeOK, ProcessInv, Checking, Orchestrated, Taken, Mark, trackerVars, countVars
<1>5. lapses' = 0 => KeyInv'
  BY <1>1, <1>2, HostAssumption
     DEF TypeOK, ProcessInv, KeyInv, Elects, Checking, Orchestrated, Taken, Mark,
         trackerVars, countVars
<1>6. lapses' = 0 => PollInv'
  BY <1>1, <1>2, HostAssumption
     DEF TypeOK, ProcessInv, KeyInv, PollInv, Elects, Starting, Checking, Orchestrated,
         Taken, Mark, trackerVars, countVars
<1>. QED
  BY <1>3, <1>4, <1>5, <1>6 DEF LeaderInv

\* The other replies change nothing.
LEMMA AcknowledgedKeeps ==
  ASSUME LeaderInv, NEW h \in Host, Acknowledged(h)
  PROVE  LeaderInv'
<1>1. TypeOK /\ ProcessInv /\ (lapses = 0 => KeyInv /\ PollInv)
  BY DEF LeaderInv
<1>2. /\ Taken(h, "done") \/ Taken(h, "deleted")
      /\ UNCHANGED <<leaderKey, sent, proc, role, trackerVars, countVars>>
  BY <1>1, TakesFacts DEF Acknowledged
<1>3. TypeOK'
  BY <1>1, <1>2, SetupAssumption DEF TypeOK, Process, Taken, trackerVars, countVars
<1>4. ProcessInv'
  BY <1>1, <1>2 DEF TypeOK, ProcessInv, Taken, trackerVars, countVars
<1>5. lapses' = 0 => KeyInv'
  BY <1>1, <1>2, HostAssumption
     DEF TypeOK, ProcessInv, KeyInv, Elects, Taken, trackerVars, countVars
<1>6. lapses' = 0 => PollInv'
  BY <1>1, <1>2, HostAssumption
     DEF TypeOK, ProcessInv, KeyInv, PollInv, Elects, Starting, Taken, trackerVars,
         countVars
<1>. QED
  BY <1>3, <1>4, <1>5, <1>6 DEF LeaderInv

\* A check begins.
LEMMA TickKeeps ==
  ASSUME LeaderInv, NEW h \in Host, Tick(h)
  PROVE  LeaderInv'
<1>1. TypeOK /\ ProcessInv /\ (lapses = 0 => KeyInv /\ PollInv)
  BY DEF LeaderInv
<1>2. /\ Sent(h, "get") /\ proc[h] \in Checking
      /\ UNCHANGED <<leaderKey, replies, proc, role, trackerVars, countVars>>
  BY <1>1, SendFacts DEF Tick, Command
<1>3. TypeOK'
  BY <1>1, <1>2, SetupAssumption DEF TypeOK, Process, Sent, Checking, trackerVars, countVars
<1>4. ProcessInv'
  BY <1>1, <1>2 DEF TypeOK, ProcessInv, Sent, Checking, trackerVars, countVars
<1>5. lapses' = 0 => KeyInv'
  BY <1>1, <1>2, HostAssumption
     DEF TypeOK, ProcessInv, KeyInv, Elects, Sent, Checking, trackerVars, countVars
<1>6. lapses' = 0 => PollInv'
  BY <1>1, <1>2, HostAssumption
     DEF TypeOK, ProcessInv, KeyInv, PollInv, Elects, Starting, Sent, Checking,
         trackerVars, countVars
<1>. QED
  BY <1>3, <1>4, <1>5, <1>6 DEF LeaderInv

\* A process starts without any command under way.
LEMMA BootKeeps ==
  ASSUME LeaderInv, NEW h \in Host, Boot(h)
  PROVE  LeaderInv'
<1>1. TypeOK /\ ProcessInv /\ (lapses = 0 => KeyInv /\ PollInv)
  BY DEF LeaderInv
<1>2. /\ Sent(h, "set") /\ proc[h] = "down" /\ Enter(h, "booting")
      /\ boots < MaxBoots /\ boots' = boots + 1
      /\ UNCHANGED <<leaderKey, replies, role, trackerVars, lapses>>
  BY <1>1, SendFacts DEF Boot, Command
<1>3. TypeOK'
  BY <1>1, <1>2, SetupAssumption DEF TypeOK, Process, Sent, Enter, trackerVars
<1>4. ProcessInv'
  BY <1>1, <1>2 DEF TypeOK, ProcessInv, Sent, Enter, trackerVars
<1>5. lapses' = 0 => KeyInv'
  BY <1>1, <1>2, HostAssumption DEF TypeOK, ProcessInv, KeyInv, Elects, Sent, Enter, trackerVars
<1>6. lapses' = 0 => PollInv'
  BY <1>1, <1>2, HostAssumption
     DEF TypeOK, ProcessInv, KeyInv, PollInv, Elects, Starting, Sent, Enter, trackerVars
<1>. QED
  BY <1>3, <1>4, <1>5, <1>6 DEF LeaderInv

\* The tracker of a leader starts at boot, when it cannot be polling yet.
LEMMA TrackerInitKeeps ==
  ASSUME LeaderInv, NEW h \in Host, TrackerInit(h)
  PROVE  LeaderInv'
<1>1. TypeOK /\ ProcessInv /\ (lapses = 0 => KeyInv /\ PollInv)
  BY DEF LeaderInv
<1>2. /\ proc[h] = "orchestrated" /\ Enter(h, "initialized")
      /\ \/ role[h] = "leader" /\ Tracked(h) /\ intervals'[h] = intervals[h] + 1
         \/ UNCHANGED trackerVars
      /\ UNCHANGED <<redisVars, role, countVars>>
  BY <1>1, StartFacts DEF TrackerInit
<1>3. TypeOK'
  BY <1>1, <1>2, SetupAssumption
     DEF TypeOK, Process, Checking, Enter, Tracked, redisVars, trackerVars, countVars
<1>4. ProcessInv'
  BY <1>1, <1>2
     DEF TypeOK, ProcessInv, Checking, Enter, Tracked, redisVars, trackerVars, countVars
<1>5. lapses' = 0 => KeyInv'
  BY <1>1, <1>2, HostAssumption
     DEF TypeOK, ProcessInv, KeyInv, Elects, Checking, Enter, Tracked, redisVars,
         trackerVars, countVars
<1>6. lapses' = 0 => PollInv'
  BY <1>1, <1>2, HostAssumption
     DEF TypeOK, ProcessInv, KeyInv, PollInv, Elects, Starting, Checking, Enter, Tracked,
         redisVars, trackerVars, countVars
<1>. QED
  BY <1>3, <1>4, <1>5, <1>6 DEF LeaderInv

\* The handlers of the two events are there from now on.
LEMMA RegisterEventHandlersKeeps ==
  ASSUME LeaderInv, NEW h \in Host, RegisterEventHandlers(h)
  PROVE  LeaderInv'
<1>1. TypeOK /\ ProcessInv /\ (lapses = 0 => KeyInv /\ PollInv)
  BY DEF LeaderInv
<1>2. /\ proc[h] = "initialized" /\ Enter(h, "running")
      /\ UNCHANGED <<redisVars, role, trackerVars, countVars>>
  BY DEF RegisterEventHandlers
<1>3. TypeOK'
  BY <1>1, <1>2, SetupAssumption
     DEF TypeOK, Process, Checking, Enter, redisVars, trackerVars, countVars
<1>4. ProcessInv'
  BY <1>1, <1>2 DEF TypeOK, ProcessInv, Checking, Enter, redisVars, trackerVars, countVars
<1>5. lapses' = 0 => KeyInv'
  BY <1>1, <1>2, HostAssumption
     DEF TypeOK, ProcessInv, KeyInv, Elects, Checking, Enter, redisVars, trackerVars,
         countVars
<1>6. lapses' = 0 => PollInv'
  BY <1>1, <1>2, HostAssumption
     DEF TypeOK, ProcessInv, KeyInv, PollInv, Elects, Starting, Checking, Enter, redisVars,
         trackerVars, countVars
<1>. QED
  BY <1>3, <1>4, <1>5, <1>6 DEF LeaderInv

\* The process stops, and its tracker with it.
LEMMA StopKeeps ==
  ASSUME LeaderInv, NEW h \in Host, Stop(h)
  PROVE  LeaderInv'
<1>1. TypeOK /\ ProcessInv /\ (lapses = 0 => KeyInv /\ PollInv)
  BY DEF LeaderInv
<1>2. /\ proc[h] = "running" /\ Enter(h, "stopping") /\ Tracked(h)
      /\ UNCHANGED <<redisVars, role, countVars>>
  BY <1>1, StopFacts DEF Stop
<1>3. TypeOK'
  BY <1>1, <1>2, SetupAssumption
     DEF TypeOK, Process, Checking, Enter, Tracked, redisVars, trackerVars, countVars
<1>4. ProcessInv'
  BY <1>1, <1>2
     DEF TypeOK, ProcessInv, Checking, Enter, Tracked, redisVars, trackerVars, countVars
<1>5. lapses' = 0 => KeyInv'
  BY <1>1, <1>2, HostAssumption
     DEF TypeOK, ProcessInv, KeyInv, Elects, Checking, Enter, Tracked, redisVars,
         trackerVars, countVars
<1>6. lapses' = 0 => PollInv'
  BY <1>1, <1>2, HostAssumption
     DEF TypeOK, ProcessInv, KeyInv, PollInv, Elects, Starting, Checking, Enter, Tracked,
         redisVars, trackerVars, countVars
<1>. QED
  BY <1>3, <1>4, <1>5, <1>6 DEF LeaderInv

\* A leader that shuts down still holds the key it is going to clear.
LEMMA ShutdownKeeps ==
  ASSUME LeaderInv, NEW h \in Host, Shutdown(h)
  PROVE  LeaderInv'
<1>1. TypeOK /\ ProcessInv /\ (lapses = 0 => KeyInv /\ PollInv)
  BY DEF LeaderInv
<1>2. /\ proc[h] = "stopping" /\ Enter(h, "clearing")
      /\ \/ role[h] = "leader" /\ Sent(h, "del")
         \/ sent' = sent
      /\ UNCHANGED <<leaderKey, replies, role, trackerVars, countVars>>
  BY <1>1, SendFacts DEF Shutdown, Command
<1>3. TypeOK'
  BY <1>1, <1>2, SetupAssumption DEF TypeOK, Process, Enter, Sent, trackerVars, countVars
<1>4. ProcessInv'
  BY <1>1, <1>2 DEF TypeOK, ProcessInv, Enter, Sent, trackerVars, countVars
<1>5. lapses' = 0 => KeyInv'
  BY <1>1, <1>2, HostAssumption
     DEF TypeOK, ProcessInv, KeyInv, Elects, Enter, Sent, trackerVars, countVars
<1>6. lapses' = 0 => PollInv'
  BY <1>1, <1>2, HostAssumption
     DEF TypeOK, ProcessInv, KeyInv, PollInv, Elects, Starting, Enter, Sent, trackerVars,
         countVars
<1>. QED
  BY <1>3, <1>4, <1>5, <1>6 DEF LeaderInv

\* Nothing of a process outlives it that could make it a leader.
LEMMA EndKeeps ==
  ASSUME LeaderInv, NEW h \in Host, End(h)
  PROVE  LeaderInv'
<1>1. TypeOK /\ ProcessInv /\ (lapses = 0 => KeyInv /\ PollInv)
  BY DEF LeaderInv
<1>2. \A x : ~Holds(sent'[h], x) /\ ~Holds(replies'[h], x)
  BY <1>1 DEF TypeOK, End, Holds
<1>3. TypeOK'
  BY <1>1, <1>2, SetupAssumption DEF TypeOK, Process, End, Enter, Mark, ClearsOnce, countVars
<1>4. ProcessInv'
  BY <1>1, <1>2 DEF TypeOK, ProcessInv, End, Enter, Mark, ClearsOnce, countVars
<1>5. lapses' = 0 => KeyInv'
  BY <1>1, <1>2, HostAssumption
     DEF TypeOK, ProcessInv, KeyInv, Elects, End, Enter, Mark, ClearsOnce, countVars
<1>6. lapses' = 0 => PollInv'
  BY <1>1, <1>2, HostAssumption
     DEF TypeOK, ProcessInv, KeyInv, PollInv, Elects, Starting, End, Enter, Mark,
         ClearsOnce, countVars
<1>. QED
  BY <1>3, <1>4, <1>5, <1>6 DEF LeaderInv

\* Only the key of a process that is no more expires.
LEMMA ExpireKeeps ==
  ASSUME LeaderInv, Expire
  PROVE  LeaderInv'
<1>1. TypeOK /\ ProcessInv /\ (lapses = 0 => KeyInv /\ PollInv)
  BY DEF LeaderInv
<1>2. /\ leaderKey \in Host => proc[leaderKey] = "down"
      /\ leaderKey' = None
      /\ UNCHANGED <<sent, replies, proc, role, trackerVars, countVars>>
  BY DEF Expire
<1>3. TypeOK'
  BY <1>1, <1>2, SetupAssumption DEF TypeOK, Process, trackerVars, countVars
<1>4. ProcessInv'
  BY <1>1, <1>2 DEF TypeOK, ProcessInv, trackerVars, countVars
<1>5. lapses' = 0 => KeyInv'
  BY <1>1, <1>2, HostAssumption DEF TypeOK, ProcessInv, KeyInv, Elects, trackerVars, countVars
<1>6. lapses' = 0 => PollInv'
  BY <1>1, <1>2, HostAssumption
     DEF TypeOK, ProcessInv, KeyInv, PollInv, Elects, Starting, trackerVars, countVars
<1>. QED
  BY <1>3, <1>4, <1>5, <1>6 DEF LeaderInv

\* After a lapse nothing is claimed any more.
LEMMA LapseKeeps ==
  ASSUME LeaderInv, Lapse
  PROVE  LeaderInv'
<1>1. TypeOK /\ ProcessInv
  BY DEF LeaderInv
<1>2. TypeOK' /\ lapses' # 0
  BY <1>1, SetupAssumption DEF TypeOK, Lapse, trackerVars
<1>3. ProcessInv'
  BY <1>1 DEF ProcessInv, Lapse, trackerVars
<1>. QED
  BY <1>2, <1>3 DEF LeaderInv

\* Every step preserves the invariant.
LEMMA LeaderStep ==
  ASSUME LeaderInv, [Next]_vars
  PROVE  LeaderInv'
<1>1. CASE UNCHANGED vars
  BY <1>1
     DEF vars, redisVars, trackerVars, countVars, LeaderInv, TypeOK, ProcessInv, KeyInv,
         PollInv
<1>2. CASE Expire \/ Lapse
  BY <1>2, ExpireKeeps, LapseKeeps
<1>3. ASSUME NEW h \in Host, RunCommand(h) \/ Continue(h)
      PROVE  LeaderInv'
  BY <1>3, RunGetKeeps, RunSetKeeps, RunExpireKeeps, RunDelKeeps, GotOwnKeeps, GotOtherKeeps,
     GotVacantKeeps, SetSucceededKeeps, SetRefusedKeeps, AcknowledgedKeeps
     DEF RunCommand, Continue
<1>4. ASSUME NEW h \in Host, Tick(h) \/ Boot(h) \/ TrackerInit(h) \/ RegisterEventHandlers(h)
      PROVE  LeaderInv'
  BY <1>4, TickKeeps, BootKeeps, TrackerInitKeeps, RegisterEventHandlersKeeps
<1>5. ASSUME NEW h \in Host, Stop(h) \/ Shutdown(h) \/ Exit(h) \/ Crash(h)
      PROVE  LeaderInv'
  BY <1>5, StopKeeps, ShutdownKeeps, EndKeeps DEF Exit, Crash
<1>. QED
  BY <1>1, <1>2, <1>3, <1>4, <1>5 DEF Next

-----------------------------------------------------------------------------
(* Theorems *)

\* The invariant holds for ever.
THEOREM LeaderInvariance == Spec => []LeaderInv
<1>1. ASSUME Init
      PROVE  LeaderInv
  <2>1. TypeOK
    BY <1>1, SetupAssumption DEF Init, TypeOK, Process
  <2>2. \A h \in Host : \A x : ~Holds(sent[h], x) /\ ~Holds(replies[h], x)
    BY <1>1 DEF Init, Holds
  <2>3. ProcessInv
    BY <1>1, <2>2 DEF Init, ProcessInv, ClearsOnce
  <2>4. KeyInv /\ PollInv
    BY <1>1, <2>2 DEF Init, KeyInv, PollInv
  <2>. QED
    BY <2>1, <2>3, <2>4 DEF LeaderInv
<1>2. LeaderInv /\ [Next]_vars => LeaderInv'
  BY LeaderStep
<1>. QED
  BY <1>1, <1>2, PTL DEF Spec

\* The state of the setup keeps its types.
THEOREM SetupTypeCorrect == Spec => []TypeOK
<1>1. LeaderInv => TypeOK
  BY DEF LeaderInv
<1>. QED
  BY <1>1, LeaderInvariance, PTL

\* Two processes that both lead would both hold the one key.
THEOREM OneLeader == Spec => []AtMostOneLeader
<1>1. LeaderInv => AtMostOneLeader
  BY DEF LeaderInv, KeyInv, AtMostOneLeader, Leads, Checking
<1>. QED
  BY <1>1, LeaderInvariance, PTL

\* Waiting executions are polled by the holder of the key alone, once.
THEOREM OnePoller == Spec => []AtMostOnePoller
<1>1. LeaderInv => AtMostOnePoller
  BY DEF LeaderInv, PollInv, AtMostOnePoller, Serves, Checking, Starting
<1>. QED
  BY <1>1, LeaderInvariance, PTL

=============================================================================
