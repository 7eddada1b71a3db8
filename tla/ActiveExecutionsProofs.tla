----------------------- MODULE ActiveExecutionsProofs -----------------------
(***************************************************************************)
(* Proofs about ActiveExecutions, for any number of runs, executions, stop *)
(* requests and restarts.                                                  *)
(*                                                                         *)
(* A run owns its execution from the creation of the row, or from its      *)
(* claim of a waiting row, until it has written the status it ends with.   *)
(* Two runs never own the same execution, and the row of an owned          *)
(* execution is not waiting and has no final status but "canceled", or the *)
(* recovery has marked it: this is why the writes that check nothing do no *)
(* more harm than the recovery does.                                       *)
(***************************************************************************)
EXTENDS ActiveExecutions, ConcurrencyControlProofs

Owner(c) ==
  \/ phase[c] \in {"claimed", "registered", "starting", "executing", "saving", "failing"}
  \/ phase[c] \in {"adding", "reserving"} /\ ~existing[c]

OwnersDiffer ==
  \A c, d \in Call :
    Owner(c) /\ Owner(d) /\ target[c] # None /\ target[c] = target[d] => c = d

OwnedIsUnfinished ==
  \A c \in Call :
    Owner(c) => \/ db[target[c]] \in {"new", "running", "canceled"}
                \/ db[target[c]] = "crashed" /\ target[c] \in unfinished

\* The recovery of a process has not found anything before it has looked.
FoundLater == startup = "starting" => unfinished = {}

\* A call nobody has made yet has asked for nothing.
IdleIsFresh ==
  \A c \in Call : phase[c] = "idle" => reservation[c] = "none" /\ target[c] = None

SavingHasOutcome == \A c \in Call : phase[c] = "saving" => outcome[c] # "none"

\* The entry of a call is in the map after its registration only.
Unregistered == {"idle", "adding", "reserving", "claimed"}

EntryIsRegistered ==
  /\ \A e \in Execution : active[e] # None => phase[active[e]] \notin Unregistered
  /\ \A c \in Call : phase[c] \in Unregistered => post[c] = "pending"

\* The types of what ActiveExecutions adds to ConcurrencyControl.
LifeTypeOK ==
  /\ db \in [Execution -> ExecutionStatus]
  /\ phase \in [Call -> Phase]
  /\ existing \in [Call -> BOOLEAN]
  /\ active \in [Execution -> Call \cup {None}]
  /\ status \in [Call -> {"running", "waiting"}]
  /\ workflow \in [Call -> Call \cup {None}]
  /\ post \in [Call -> {"pending", "settled"}]
  /\ outcome \in [Call -> Outcome]
  /\ attached \in [Call -> BOOLEAN]
  /\ cancel \in [Call -> {"no", "requested", "written"}]
  /\ timer \in [Call -> BOOLEAN]
  /\ stop \in [Execution -> {"none", "read", "acted", "done"}]
  /\ boot \in SUBSET Execution
  /\ shutdown \in {"no", "waiting", "done"}
  /\ restarts \in 0..MaxRestarts
  /\ startup \in {"up", "starting", "marking", "marked"}
  /\ unfinished \in SUBSET Execution

HasTarget ==
  \A c \in Call : phase[c] \notin {"idle", "gone"} \/ timer[c] => target[c] # None

LifeInv ==
  /\ LifeTypeOK
  /\ HasTarget
  /\ OwnersDiffer
  /\ OwnedIsUnfinished
  /\ SavingHasOutcome
  /\ EntryIsRegistered
  /\ EntryCanLeave

USE DEF startVars

ExecutionsInv == ControlInv /\ IdleIsFresh /\ FoundLater /\ LifeInv

-----------------------------------------------------------------------------
(* What the operations on entries and on capacity do *)

\* A step of concurrency control that no call asks for.
Internal ==
  /\ [ControlNext]_controlVars
  /\ target' = target
  /\ \A c \in Call : reservation[c] = "none" => reservation'[c] = "none"

\* Letting a throttled call through gives no reservation to a call that asked for none.
LEMMA ResolveNextKeepsNone ==
  ASSUME NEW t \in QueueType, NEW q \in Seq(Call), NEW res, WellFormed(res), Lists(t, q, res),
         ResolveNext(t, q, res)
  PROVE  \A c \in Call : res[c] = "none" => reservation'[c] = "none"
<1>1. CASE q = <<>>
  BY <1>1 DEF ResolveNext
<1>2. CASE q # <<>>
  <2>1. reservation' = [res EXCEPT ![q[1]] = "acquired"]
    BY <1>2 DEF ResolveNext
  <2>2. q[1] \in Call /\ 1 \in DOMAIN q
    BY <1>2, HeadTailProperties
  <2>3. res[q[1]] = "throttled"
    BY <2>2 DEF Lists
  <2>. QED
    BY <2>1, <2>2, <2>3 DEF WellFormed
<1>. QED
  BY <1>1, <1>2

\* release() is a step the service allows, and asks for nothing.
LEMMA ReleaseInternal ==
  ASSUME ControlInv, NEW k \in Call, Release(k)
  PROVE  Internal
<1>1. target' = target /\ isEnabled' = isEnabled
  BY DEF Release
<1>2. CASE reservation[k] # "acquired"
  BY <1>1, <1>2 DEF Release, Internal, controlVars
<1>3. CASE reservation[k] = "acquired"
  <2>1. ControlNext
    BY <1>3 DEF ControlNext, GiveBack
  <2>2. \A c \in Call : reservation[c] = "none" => reservation'[c] = "none"
    <3>. DEFINE t == QueueTypeOf(target[k])
                res == [reservation EXCEPT ![k] = "released"]
    <3>1. /\ WellFormed(reservation) /\ queue \in [QueueType -> Seq(Call)]
          /\ target \in [Call -> Execution \cup {None}]
          /\ \A u \in QueueType : Lists(u, queue[u], reservation)
      BY ControlInvLists
    <3>2. target[k] # None /\ "released" \in ReservationState
      BY <1>3, <3>1 DEF WellFormed, ReservationState
    <3>3. /\ WellFormed(res)
          /\ \A u \in QueueType, q \in Seq(Call) : Lists(u, q, reservation) => Lists(u, q, res)
      BY <1>3, <3>1, <3>2, MoveLists
    <3>4. \A c \in Call : reservation[c] = "none" => res[c] = "none"
      BY <1>3, <3>1 DEF WellFormed
    <3>5. CASE reservation' = res
      BY <3>4, <3>5
    <3>6. CASE ~IsUnlimited(target[k]) /\ Dequeue(t, res)
      <4>1. t \in QueueType
        BY <3>1, <3>2, <3>6, LimitFacts
      <4>. HIDE DEF t, res
      <4>2. ResolveNext(t, queue[t], res) /\ queue[t] \in Seq(Call) /\ Lists(t, queue[t], res)
        BY <3>1, <3>3, <3>6, <4>1 DEF Dequeue
      <4>3. \A c \in Call : res[c] = "none" => reservation'[c] = "none"
        BY <3>3, <4>1, <4>2, ResolveNextKeepsNone
      <4>. QED
        BY <3>4, <4>3
    <3>. QED
      BY <1>3, <3>5, <3>6 DEF Release
  <2>. QED
    BY <1>1, <2>1, <2>2 DEF Internal
<1>. QED
  BY <1>2, <1>3

\* So is remove().
LEMMA RemoveInternal ==
  ASSUME ControlInv, NEW e \in Execution, Remove(e)
  PROVE  Internal
<1>. DEFINE t == QueueTypeOf(e)
<1>1. ControlNext /\ target' = target
  BY DEF ControlNext, Remove
<1>2. t \in QueueType
  BY LimitFacts DEF Remove
<1>3. PICK i \in DOMAIN queue[t] :
        ResolveNext(t, Without(queue[t], i), [reservation EXCEPT ![queue[t][i]] = "dropped"])
  BY DEF Remove
<1>. HIDE DEF t
<1>. DEFINE q == queue[t]
            res == [reservation EXCEPT ![q[i]] = "dropped"]
<1>4. WellFormed(reservation) /\ q \in Seq(Call) /\ i \in DOMAIN q /\ Lists(t, q, reservation)
  BY <1>2, ControlInvLists
<1>. HIDE DEF q
<1>5. WellFormed(res) /\ Lists(t, Without(q, i), res) /\ Without(q, i) \in Seq(Call)
  BY <1>2, <1>4, DropLists, WithoutFacts
<1>6. \A c \in Call : reservation[c] = "none" => res[c] = "none"
  BY <1>4, ElementOfSeq DEF WellFormed, Lists
<1>. HIDE DEF res
<1>7. ResolveNext(t, Without(q, i), res)
  BY <1>3 DEF q, res
<1>8. \A c \in Call : res[c] = "none" => reservation'[c] = "none"
  BY <1>2, <1>5, <1>7, ResolveNextKeepsNone
<1>. QED
  BY <1>1, <1>6, <1>8 DEF Internal

\* What settling or dropping the entry of an execution does to the entries.
EntryEffect ==
  /\ Internal
  /\ active' \in [Execution -> Call \cup {None}]
  /\ workflow' \in [Call -> Call \cup {None}]
  /\ post' \in [Call -> {"pending", "settled"}]
  /\ \A e \in Execution : active'[e] \in {active[e], None}
  /\ \A c \in Call : phase[c] \in Unregistered => post'[c] = "pending"
  /\ \A e \in Execution :
       active'[e] # None /\ status[active'[e]] # "waiting" => post'[active'[e]] = "pending"

\* Leaving entries and capacity alone is a special case of EntryEffect.
LEMMA NoEntryEffect ==
  ASSUME LifeInv, UNCHANGED <<controlVars, active, workflow, post>>
  PROVE  EntryEffect
<1>1. Internal
  BY DEF Internal, controlVars
<1>. QED
  BY <1>1 DEF EntryEffect, LifeInv, LifeTypeOK, EntryIsRegistered, EntryCanLeave

\* The handler of a settled postExecutePromise releases the capacity of its run and
\* takes at most the entry of its own execution out of the map.
LEMMA SettleEffect ==
  ASSUME ControlInv, LifeInv, NEW e \in Execution, active[e] # None, Settle(active[e])
  PROVE  EntryEffect
<1>. DEFINE k == active[e]
<1>1. /\ k \in Call /\ target[k] = e /\ phase[k] \notin Unregistered
      /\ status[k] # "waiting" => post[k] = "pending"
  BY DEF LifeInv, LifeTypeOK, EntryCanLeave, EntryIsRegistered
<1>2. CASE post[k] = "settled"
  <2>1. UNCHANGED <<controlVars, active, workflow, post>>
    BY <1>2 DEF Settle
  <2>. QED
    BY <2>1, NoEntryEffect
<1>3. CASE /\ post[k] = "pending"
           /\ post' = [post EXCEPT ![k] = "settled"]
           /\ Release(k)
           /\ \/ /\ status[k] = "waiting"
                 /\ workflow' = [workflow EXCEPT ![k] = None]
                 /\ UNCHANGED active
              \/ /\ status[k] # "waiting"
                 /\ active' = [active EXCEPT ![target[k]] = None]
                 /\ UNCHANGED workflow
  <2>1. Internal
    BY <1>1, <1>3, ReleaseInternal
  <2>2. /\ active \in [Execution -> Call \cup {None}]
        /\ workflow \in [Call -> Call \cup {None}]
        /\ post \in [Call -> {"pending", "settled"}]
        /\ \A c \in Call : phase[c] \in Unregistered => post[c] = "pending"
    BY DEF LifeInv, LifeTypeOK, EntryIsRegistered
  <2>3. \A x \in Execution : active[x] # None => target[active[x]] = x
                             /\ (status[active[x]] # "waiting" => post[active[x]] = "pending")
    BY DEF LifeInv, EntryCanLeave
  <2>. HIDE DEF k
  <2>4. \A x \in Execution : active'[x] \in {active[x], None}
    BY <1>1, <1>3, <2>2
  <2>5. \A c \in Call : phase[c] \in Unregistered => post'[c] = "pending"
    BY <1>1, <1>3, <2>2
  <2>6. ASSUME NEW x \in Execution, active'[x] # None, status[active'[x]] # "waiting"
        PROVE  post'[active'[x]] = "pending"
    <3>1. active'[x] = active[x]
      BY <2>4, <2>6
    <3>2. active[x] # k
      BY <1>1, <1>3, <2>2, <2>3, <2>6, <3>1
    <3>. QED
      BY <1>1, <1>3, <2>2, <2>3, <2>6, <3>1, <3>2
  <2>7. active' \in [Execution -> Call \cup {None}] /\ workflow' \in [Call -> Call \cup {None}]
    BY <1>1, <1>3, <2>2
  <2>8. post' \in [Call -> {"pending", "settled"}]
    BY <1>3, <2>2
  <2>. QED
    BY <2>1, <2>4, <2>5, <2>6, <2>7, <2>8 DEF EntryEffect
<1>. QED
  BY <1>2, <1>3 DEF Settle

\* finalizeExecution() settles an entry or does nothing.
LEMMA FinalizeEntryEffect ==
  ASSUME ControlInv, LifeInv, NEW e \in Execution, FinalizeEntry(e)
  PROVE  EntryEffect
BY NoEntryEffect, SettleEffect DEF FinalizeEntry

\* stopExecution() drops a waiting entry, or cancels and settles it.
LEMMA StopEntryEffect ==
  ASSUME ControlInv, LifeInv, NEW e \in Execution, StopEntry(e)
  PROVE  EntryEffect /\ cancel' \in [Call -> {"no", "requested", "written"}]
<1>1. /\ cancel \in [Call -> {"no", "requested", "written"}]
      /\ workflow \in [Call -> Call \cup {None}]
      /\ active \in [Execution -> Call \cup {None}]
  BY DEF LifeInv, LifeTypeOK
<1>2. CASE active[e] = None
  BY <1>1, <1>2, NoEntryEffect DEF StopEntry
<1>3. CASE active[e] # None /\ status[active[e]] = "waiting"
  <2>1. /\ active' = [active EXCEPT ![e] = None]
        /\ UNCHANGED <<controlVars, workflow, post, cancel>>
    BY <1>3 DEF StopEntry
  <2>2. Internal
    BY <2>1 DEF Internal, controlVars
  <2>3. EntryEffect
    BY <1>1, <2>1, <2>2 DEF EntryEffect, LifeInv, LifeTypeOK, EntryIsRegistered, EntryCanLeave
  <2>. QED
    BY <1>1, <2>1, <2>3
<1>4. CASE active[e] # None /\ status[active[e]] # "waiting"
  <2>. DEFINE w == workflow[active[e]]
  <2>1. /\ IF w # None /\ phase[w] \in Executing THEN RequestCancel(w) ELSE UNCHANGED cancel
        /\ Settle(active[e])
    BY <1>4 DEF StopEntry
  <2>2. cancel' \in [Call -> {"no", "requested", "written"}]
    <3>1. CASE w # None /\ phase[w] \in Executing
      BY <1>1, <2>1, <3>1 DEF RequestCancel
    <3>2. CASE ~(w # None /\ phase[w] \in Executing)
      BY <1>1, <2>1, <3>2
    <3>. QED
      BY <3>1, <3>2
  <2>. QED
    BY <1>4, <2>1, <2>2, SettleEffect
<1>. QED
  BY <1>2, <1>3, <1>4

-----------------------------------------------------------------------------
(* The inductive invariant: what a step leaves alone *)

\* A step that changes no row and no phase keeps the ownership of executions.
LEMMA SameRows ==
  ASSUME LifeInv, UNCHANGED <<db, phase, existing, target, unfinished>>,
         \A c \in Call : timer'[c] => timer[c]
  PROVE  HasTarget' /\ OwnersDiffer' /\ OwnedIsUnfinished'
BY DEF LifeInv, HasTarget, OwnersDiffer, OwnedIsUnfinished, Owner

\* Entries keep their invariants when a step only settles or drops some of them.
LEMMA SameEntries ==
  ASSUME LifeInv, EntryEffect, UNCHANGED <<target, status>>,
         \A c \in Call : phase'[c] \in Unregistered => phase[c] \in Unregistered
  PROVE  EntryIsRegistered' /\ EntryCanLeave'
<1>1. \A e \in Execution : active'[e] # None => active'[e] = active[e] /\ active[e] \in Call
  BY DEF EntryEffect, LifeInv, LifeTypeOK
<1>2. EntryIsRegistered'
  BY <1>1 DEF EntryEffect, LifeInv, EntryIsRegistered
<1>3. EntryCanLeave'
  BY <1>1 DEF EntryEffect, LifeInv, EntryCanLeave
<1>. QED
  BY <1>2, <1>3

\* The owner of a new execution marks its row as running.
LEMMA ClaimNewKeeps ==
  ASSUME ExecutionsInv, NEW c \in Call, ClaimNew(c)
  PROVE  LifeInv'
<1>1. LifeInv /\ ControlInv /\ LifeTypeOK /\ HasTarget /\ OwnersDiffer /\ OwnedIsUnfinished /\ SavingHasOutcome
  BY DEF ExecutionsInv, LifeInv
<1>2. EntryEffect /\ target' = target
  BY <1>1, NoEntryEffect DEF ClaimNew, controlVars
<1>3. LifeTypeOK'
  BY <1>1, <1>2 DEF ClaimNew, Write, Goto, EntryEffect, LifeTypeOK, Phase, ExecutionStatus, Outcome, SavingHasOutcome
<1>4. HasTarget' /\ OwnersDiffer' /\ OwnedIsUnfinished'
  BY <1>1, <1>2 DEF ClaimNew, Write, Goto, LifeTypeOK, HasTarget, OwnersDiffer, OwnedIsUnfinished, Owner
<1>5. SavingHasOutcome'
  BY <1>1 DEF ClaimNew, Goto, SavingHasOutcome, LifeTypeOK
<1>6. EntryIsRegistered' /\ EntryCanLeave'
  BY <1>1, <1>2, SameEntries DEF ClaimNew, Goto, LifeTypeOK, Unregistered
<1>. QED
  BY <1>3, <1>4, <1>5, <1>6 DEF LifeInv

\* A call claims a waiting row: no owner has it, because owned rows do not wait.
LEMMA ClaimExistingKeeps ==
  ASSUME ExecutionsInv, NEW c \in Call, ClaimExisting(c)
  PROVE  LifeInv'
<1>1. LifeInv /\ ControlInv /\ LifeTypeOK /\ HasTarget /\ OwnersDiffer /\ OwnedIsUnfinished /\ SavingHasOutcome
  BY DEF ExecutionsInv, LifeInv
<1>2. EntryEffect /\ target' = target
  BY <1>1, NoEntryEffect DEF ClaimExisting, controlVars
<1>3. LifeTypeOK'
  BY <1>1, <1>2 DEF ClaimExisting, Write, Goto, EntryEffect, LifeTypeOK, Phase, ExecutionStatus, Outcome, SavingHasOutcome
<1>4. HasTarget' /\ OwnersDiffer' /\ OwnedIsUnfinished'
  <2>1. /\ phase' = [phase EXCEPT ![c] = "claimed"] /\ existing' = existing /\ timer' = timer
        /\ unfinished' = unfinished
        /\ db' = [db EXCEPT ![target[c]] = "running"] /\ db[target[c]] = "waiting"
        /\ target[c] \in Execution /\ phase[c] = "reserving" /\ existing[c]
        /\ phase \in [Call -> Phase] /\ db \in [Execution -> ExecutionStatus]
    <3>1. target \in [Call -> Execution \cup {None}]
      BY <1>1, ControlInvLists
    <3>. QED
      BY <1>1, <3>1 DEF ClaimExisting, Write, Goto, LifeTypeOK, HasTarget
  <2>2. \A d \in Call : Owner(d) => target[d] # target[c]
    BY <1>1, <2>1 DEF OwnedIsUnfinished
  <2>3. \A d \in Call : Owner(d)' => d = c \/ Owner(d)
    BY <2>1 DEF Owner
  <2>4. OwnersDiffer'
    BY <1>1, <1>2, <2>2, <2>3 DEF OwnersDiffer
  <2>5. OwnedIsUnfinished'
    BY <1>1, <1>2, <2>1, <2>2, <2>3 DEF OwnedIsUnfinished
  <2>6. HasTarget'
    BY <1>1, <1>2, <2>1 DEF HasTarget
  <2>. QED
    BY <2>4, <2>5, <2>6
<1>5. SavingHasOutcome'
  BY <1>1 DEF ClaimExisting, Goto, SavingHasOutcome, LifeTypeOK
<1>6. EntryIsRegistered' /\ EntryCanLeave'
  BY <1>1, <1>2, SameEntries DEF ClaimExisting, Goto, LifeTypeOK, Unregistered
<1>. QED
  BY <1>3, <1>4, <1>5, <1>6 DEF LifeInv

\* A failed check writes the final status and gives up the ownership at once.
LEMMA CheckFailsKeeps ==
  ASSUME ExecutionsInv, NEW c \in Call, CheckFails(c)
  PROVE  LifeInv'
<1>1. LifeInv /\ ControlInv /\ LifeTypeOK /\ HasTarget /\ OwnersDiffer /\ OwnedIsUnfinished /\ SavingHasOutcome
  BY DEF ExecutionsInv, LifeInv
<1>2. EntryEffect /\ target' = target
  BY <1>1, NoEntryEffect DEF CheckFails, controlVars
<1>3. LifeTypeOK'
  BY <1>1, <1>2 DEF CheckFails, Write, Goto, EntryEffect, LifeTypeOK, Phase, ExecutionStatus, Outcome, SavingHasOutcome
<1>4. HasTarget' /\ OwnersDiffer' /\ OwnedIsUnfinished'
  BY <1>1, <1>2 DEF CheckFails, Write, Goto, LifeTypeOK, HasTarget, OwnersDiffer, OwnedIsUnfinished, Owner
<1>5. SavingHasOutcome'
  BY <1>1 DEF CheckFails, Goto, SavingHasOutcome, LifeTypeOK
<1>6. EntryIsRegistered' /\ EntryCanLeave'
  BY <1>1, <1>2, SameEntries DEF CheckFails, Goto, LifeTypeOK, Unregistered
<1>. QED
  BY <1>3, <1>4, <1>5, <1>6 DEF LifeInv

\* A call whose entry is gone gives up.
LEMMA AttachResponseFailsKeeps ==
  ASSUME ExecutionsInv, NEW c \in Call, AttachResponseFails(c)
  PROVE  LifeInv'
<1>1. LifeInv /\ ControlInv /\ LifeTypeOK /\ HasTarget /\ OwnersDiffer /\ OwnedIsUnfinished /\ SavingHasOutcome
  BY DEF ExecutionsInv, LifeInv
<1>2. EntryEffect /\ target' = target
  BY <1>1, NoEntryEffect DEF AttachResponseFails, controlVars
<1>3. LifeTypeOK'
  BY <1>1, <1>2 DEF AttachResponseFails, Write, Goto, EntryEffect, LifeTypeOK, Phase, ExecutionStatus, Outcome, SavingHasOutcome
<1>4. HasTarget' /\ OwnersDiffer' /\ OwnedIsUnfinished'
  BY <1>1, <1>2 DEF AttachResponseFails, Write, Goto, LifeTypeOK, HasTarget, OwnersDiffer, OwnedIsUnfinished, Owner
<1>5. SavingHasOutcome'
  BY <1>1 DEF AttachResponseFails, Goto, SavingHasOutcome, LifeTypeOK
<1>6. EntryIsRegistered' /\ EntryCanLeave'
  BY <1>1, <1>2, SameEntries DEF AttachResponseFails, Goto, LifeTypeOK, Unregistered
<1>. QED
  BY <1>3, <1>4, <1>5, <1>6 DEF LifeInv

\* A run that is abandoned leaves its row and its entry as they are.
LEMMA PrepareFailsKeeps ==
  ASSUME ExecutionsInv, NEW c \in Call, PrepareFails(c)
  PROVE  LifeInv'
<1>1. LifeInv /\ ControlInv /\ LifeTypeOK /\ HasTarget /\ OwnersDiffer /\ OwnedIsUnfinished /\ SavingHasOutcome
  BY DEF ExecutionsInv, LifeInv
<1>2. EntryEffect /\ target' = target
  BY <1>1, NoEntryEffect DEF PrepareFails, controlVars
<1>3. LifeTypeOK'
  BY <1>1, <1>2 DEF PrepareFails, Write, Goto, EntryEffect, LifeTypeOK, Phase, ExecutionStatus, Outcome, SavingHasOutcome
<1>4. HasTarget' /\ OwnersDiffer' /\ OwnedIsUnfinished'
  BY <1>1, <1>2 DEF PrepareFails, Write, Goto, LifeTypeOK, HasTarget, OwnersDiffer, OwnedIsUnfinished, Owner
<1>5. SavingHasOutcome'
  BY <1>1 DEF PrepareFails, Goto, SavingHasOutcome, LifeTypeOK
<1>6. EntryIsRegistered' /\ EntryCanLeave'
  BY <1>1, <1>2, SameEntries DEF PrepareFails, Goto, LifeTypeOK, Unregistered
<1>. QED
  BY <1>3, <1>4, <1>5, <1>6 DEF LifeInv

\* The owner marks its row as running once more.
LEMMA SetRunningKeeps ==
  ASSUME ExecutionsInv, NEW c \in Call, SetRunning(c)
  PROVE  LifeInv'
<1>1. LifeInv /\ ControlInv /\ LifeTypeOK /\ HasTarget /\ OwnersDiffer /\ OwnedIsUnfinished /\ SavingHasOutcome
  BY DEF ExecutionsInv, LifeInv
<1>2. EntryEffect /\ target' = target
  BY <1>1, NoEntryEffect DEF SetRunning, controlVars
<1>3. LifeTypeOK'
  BY <1>1, <1>2 DEF SetRunning, Write, Goto, EntryEffect, LifeTypeOK, Phase, ExecutionStatus, Outcome, SavingHasOutcome
<1>4. HasTarget' /\ OwnersDiffer' /\ OwnedIsUnfinished'
  BY <1>1, <1>2 DEF SetRunning, Write, Goto, LifeTypeOK, HasTarget, OwnersDiffer, OwnedIsUnfinished, Owner
<1>5. SavingHasOutcome'
  BY <1>1 DEF SetRunning, Goto, SavingHasOutcome, LifeTypeOK
<1>6. EntryIsRegistered' /\ EntryCanLeave'
  BY <1>1, <1>2, SameEntries DEF SetRunning, Goto, LifeTypeOK, Unregistered
<1>. QED
  BY <1>3, <1>4, <1>5, <1>6 DEF LifeInv

\* The owner of a run that failed to start writes its final status.
LEMMA SaveFailureKeeps ==
  ASSUME ExecutionsInv, NEW c \in Call, SaveFailure(c)
  PROVE  LifeInv'
<1>1. LifeInv /\ ControlInv /\ LifeTypeOK /\ HasTarget /\ OwnersDiffer /\ OwnedIsUnfinished /\ SavingHasOutcome
  BY DEF ExecutionsInv, LifeInv
<1>2. EntryEffect /\ target' = target
  BY <1>1, NoEntryEffect DEF SaveFailure, controlVars
<1>3. LifeTypeOK'
  BY <1>1, <1>2 DEF SaveFailure, Write, Goto, EntryEffect, LifeTypeOK, Phase, ExecutionStatus, Outcome, SavingHasOutcome
<1>4. HasTarget' /\ OwnersDiffer' /\ OwnedIsUnfinished'
  BY <1>1, <1>2 DEF SaveFailure, Write, Goto, LifeTypeOK, HasTarget, OwnersDiffer, OwnedIsUnfinished, Owner
<1>5. SavingHasOutcome'
  BY <1>1 DEF SaveFailure, Goto, SavingHasOutcome, LifeTypeOK
<1>6. EntryIsRegistered' /\ EntryCanLeave'
  BY <1>1, <1>2, SameEntries DEF SaveFailure, Goto, LifeTypeOK, Unregistered
<1>. QED
  BY <1>3, <1>4, <1>5, <1>6 DEF LifeInv

\* The owner writes the status its run ended with, and owns the row no longer.
LEMMA SaveRunKeeps ==
  ASSUME ExecutionsInv, NEW c \in Call, SaveRun(c)
  PROVE  LifeInv'
<1>1. LifeInv /\ ControlInv /\ LifeTypeOK /\ HasTarget /\ OwnersDiffer /\ OwnedIsUnfinished /\ SavingHasOutcome
  BY DEF ExecutionsInv, LifeInv
<1>2. EntryEffect /\ target' = target
  BY <1>1, NoEntryEffect DEF SaveRun, controlVars
<1>3. LifeTypeOK'
  BY <1>1, <1>2 DEF SaveRun, Write, Goto, EntryEffect, LifeTypeOK, Phase, ExecutionStatus, Outcome, SavingHasOutcome
<1>4. HasTarget' /\ OwnersDiffer' /\ OwnedIsUnfinished'
  BY <1>1, <1>2 DEF SaveRun, Write, Goto, LifeTypeOK, HasTarget, OwnersDiffer, OwnedIsUnfinished, Owner
<1>5. SavingHasOutcome'
  BY <1>1 DEF SaveRun, Goto, SavingHasOutcome, LifeTypeOK
<1>6. EntryIsRegistered' /\ EntryCanLeave'
  BY <1>1, <1>2, SameEntries DEF SaveRun, Goto, LifeTypeOK, Unregistered
<1>. QED
  BY <1>3, <1>4, <1>5, <1>6 DEF LifeInv

\* The owner saves its progress.
LEMMA SaveProgressKeeps ==
  ASSUME ExecutionsInv, NEW c \in Call, SaveProgress(c)
  PROVE  LifeInv'
<1>1. LifeInv /\ ControlInv /\ LifeTypeOK /\ HasTarget /\ OwnersDiffer /\ OwnedIsUnfinished /\ SavingHasOutcome
  BY DEF ExecutionsInv, LifeInv
<1>2. EntryEffect /\ target' = target
  BY <1>1, NoEntryEffect DEF SaveProgress, controlVars
<1>3. LifeTypeOK'
  BY <1>1, <1>2 DEF SaveProgress, Write, Goto, EntryEffect, LifeTypeOK, Phase, ExecutionStatus, Outcome, SavingHasOutcome
<1>4. HasTarget' /\ OwnersDiffer' /\ OwnedIsUnfinished'
  BY <1>1, <1>2 DEF SaveProgress, Write, Goto, LifeTypeOK, HasTarget, OwnersDiffer, OwnedIsUnfinished, Owner
<1>5. SavingHasOutcome'
  BY <1>1 DEF SaveProgress, Goto, SavingHasOutcome, LifeTypeOK
<1>6. EntryIsRegistered' /\ EntryCanLeave'
  BY <1>1, <1>2, SameEntries DEF SaveProgress, Goto, LifeTypeOK, Unregistered
<1>. QED
  BY <1>3, <1>4, <1>5, <1>6 DEF LifeInv

\* The run loop ends; a canceled run has left its row to onCancel.
LEMMA EndLoopKeeps ==
  ASSUME ExecutionsInv, NEW c \in Call, NEW s, EndLoop(c, s)
  PROVE  LifeInv'
<1>1. LifeInv /\ ControlInv /\ LifeTypeOK /\ HasTarget /\ OwnersDiffer /\ OwnedIsUnfinished /\ SavingHasOutcome
  BY DEF ExecutionsInv, LifeInv
<1>2. EntryEffect /\ target' = target
  BY <1>1, NoEntryEffect DEF EndLoop, Ending, controlVars
<1>3. LifeTypeOK'
  BY <1>1, <1>2 DEF EndLoop, Ending, Write, Goto, EntryEffect, LifeTypeOK, Phase, ExecutionStatus, Outcome, SavingHasOutcome
<1>4. HasTarget' /\ OwnersDiffer' /\ OwnedIsUnfinished'
  BY <1>1, <1>2, SMTT(30) DEF EndLoop, Ending, Write, Goto, LifeTypeOK, HasTarget, OwnersDiffer, OwnedIsUnfinished, Owner
<1>5. SavingHasOutcome'
  BY <1>1 DEF EndLoop, Ending, Goto, SavingHasOutcome, LifeTypeOK
<1>6. EntryIsRegistered' /\ EntryCanLeave'
  BY <1>1, <1>2, SameEntries DEF EndLoop, Ending, Goto, LifeTypeOK, Unregistered
<1>. QED
  BY <1>3, <1>4, <1>5, <1>6 DEF LifeInv

\* onCancel writes "canceled", which is allowed of any row.
LEMMA SaveCanceledKeeps ==
  ASSUME ExecutionsInv, NEW c \in Call, SaveCanceled(c)
  PROVE  LifeInv'
<1>1. LifeInv /\ ControlInv /\ LifeTypeOK /\ HasTarget /\ OwnersDiffer /\ OwnedIsUnfinished /\ SavingHasOutcome
  BY DEF ExecutionsInv, LifeInv
<1>2. EntryEffect /\ target' = target
  BY <1>1, NoEntryEffect DEF SaveCanceled, controlVars
<1>3. LifeTypeOK'
  BY <1>1, <1>2 DEF SaveCanceled, Write, Goto, EntryEffect, LifeTypeOK, Phase, ExecutionStatus, Outcome, SavingHasOutcome
<1>4. HasTarget' /\ OwnersDiffer' /\ OwnedIsUnfinished'
  BY <1>1, <1>2 DEF SaveCanceled, Write, Goto, LifeTypeOK, HasTarget, OwnersDiffer, OwnedIsUnfinished, Owner
<1>5. SavingHasOutcome'
  BY <1>1 DEF SaveCanceled, Goto, SavingHasOutcome, LifeTypeOK
<1>6. EntryIsRegistered' /\ EntryCanLeave'
  BY <1>1, <1>2, SameEntries DEF SaveCanceled, Goto, LifeTypeOK, Unregistered
<1>. QED
  BY <1>3, <1>4, <1>5, <1>6 DEF LifeInv

\* A stop request reads the row.
LEMMA StopReadKeeps ==
  ASSUME ExecutionsInv, NEW e \in Execution, StopRead(e)
  PROVE  LifeInv'
<1>1. LifeInv /\ ControlInv /\ LifeTypeOK /\ HasTarget /\ OwnersDiffer /\ OwnedIsUnfinished /\ SavingHasOutcome
  BY DEF ExecutionsInv, LifeInv
<1>2. EntryEffect /\ target' = target
  BY <1>1, NoEntryEffect DEF StopRead, controlVars
<1>3. LifeTypeOK'
  BY <1>1, <1>2 DEF StopRead, Write, Goto, EntryEffect, LifeTypeOK, Phase, ExecutionStatus, Outcome, SavingHasOutcome
<1>4. HasTarget' /\ OwnersDiffer' /\ OwnedIsUnfinished'
  BY <1>1, <1>2, SameRows DEF StopRead, LifeTypeOK
<1>5. SavingHasOutcome'
  BY <1>1 DEF StopRead, SavingHasOutcome, LifeTypeOK
<1>6. EntryIsRegistered' /\ EntryCanLeave'
  BY <1>1, <1>2, SameEntries DEF StopRead, Goto, LifeTypeOK, Unregistered
<1>. QED
  BY <1>3, <1>4, <1>5, <1>6 DEF LifeInv

\* A stop request writes "canceled", which is allowed of any row.
LEMMA StopWriteKeeps ==
  ASSUME ExecutionsInv, NEW e \in Execution, StopWrite(e)
  PROVE  LifeInv'
<1>1. LifeInv /\ ControlInv /\ LifeTypeOK /\ HasTarget /\ OwnersDiffer /\ OwnedIsUnfinished /\ SavingHasOutcome
  BY DEF ExecutionsInv, LifeInv
<1>2. EntryEffect /\ target' = target
  BY <1>1, NoEntryEffect DEF StopWrite, controlVars
<1>3. LifeTypeOK'
  BY <1>1, <1>2 DEF StopWrite, Write, Goto, EntryEffect, LifeTypeOK, Phase, ExecutionStatus, Outcome, SavingHasOutcome
<1>4. HasTarget' /\ OwnersDiffer' /\ OwnedIsUnfinished'
  BY <1>1, <1>2 DEF StopWrite, Write, Goto, LifeTypeOK, HasTarget, OwnersDiffer, OwnedIsUnfinished, Owner
<1>5. SavingHasOutcome'
  BY <1>1 DEF StopWrite, Goto, SavingHasOutcome, LifeTypeOK
<1>6. EntryIsRegistered' /\ EntryCanLeave'
  BY <1>1, <1>2, SameEntries DEF StopWrite, Goto, LifeTypeOK, Unregistered
<1>. QED
  BY <1>3, <1>4, <1>5, <1>6 DEF LifeInv

\* The shutdown ends.
LEMMA ShutdownEndKeeps ==
  ASSUME ExecutionsInv, ShutdownEnd
  PROVE  LifeInv'
<1>1. LifeInv /\ ControlInv /\ LifeTypeOK /\ HasTarget /\ OwnersDiffer /\ OwnedIsUnfinished /\ SavingHasOutcome
  BY DEF ExecutionsInv, LifeInv
<1>2. EntryEffect /\ target' = target
  BY <1>1, NoEntryEffect DEF ShutdownEnd, controlVars
<1>3. LifeTypeOK'
  BY <1>1, <1>2 DEF ShutdownEnd, Write, Goto, EntryEffect, LifeTypeOK, Phase, ExecutionStatus, Outcome, SavingHasOutcome
<1>4. HasTarget' /\ OwnersDiffer' /\ OwnedIsUnfinished'
  BY <1>1, <1>2, SameRows DEF ShutdownEnd, LifeTypeOK
<1>5. SavingHasOutcome'
  BY <1>1 DEF ShutdownEnd, SavingHasOutcome, LifeTypeOK
<1>6. EntryIsRegistered' /\ EntryCanLeave'
  BY <1>1, <1>2, SameEntries DEF ShutdownEnd, Goto, LifeTypeOK, Unregistered
<1>. QED
  BY <1>3, <1>4, <1>5, <1>6 DEF LifeInv

\* The enqueued executions are found.
LEMMA FindEnqueuedKeeps ==
  ASSUME ExecutionsInv, FindEnqueued
  PROVE  LifeInv'
<1>1. LifeInv /\ ControlInv /\ LifeTypeOK /\ HasTarget /\ OwnersDiffer /\ OwnedIsUnfinished /\ SavingHasOutcome
  BY DEF ExecutionsInv, LifeInv
<1>2. EntryEffect /\ target' = target
  BY <1>1, NoEntryEffect DEF FindEnqueued, controlVars
<1>3. LifeTypeOK'
  BY <1>1, <1>2 DEF FindEnqueued, Write, Goto, EntryEffect, LifeTypeOK, Phase, ExecutionStatus, Outcome, SavingHasOutcome
<1>4. HasTarget' /\ OwnersDiffer' /\ OwnedIsUnfinished'
  BY <1>1, <1>2, SameRows DEF FindEnqueued, LifeTypeOK
<1>5. SavingHasOutcome'
  BY <1>1 DEF FindEnqueued, SavingHasOutcome, LifeTypeOK
<1>6. EntryIsRegistered' /\ EntryCanLeave'
  BY <1>1, <1>2, SameEntries DEF FindEnqueued, Goto, LifeTypeOK, Unregistered
<1>. QED
  BY <1>3, <1>4, <1>5, <1>6 DEF LifeInv

\* A run that fails to start settles its entry.
LEMMA StartFailsKeeps ==
  ASSUME ExecutionsInv, NEW c \in Call, StartFails(c)
  PROVE  LifeInv'
<1>1. LifeInv /\ ControlInv /\ LifeTypeOK /\ HasTarget /\ OwnersDiffer /\ OwnedIsUnfinished /\ SavingHasOutcome
  BY DEF ExecutionsInv, LifeInv
<1>2. EntryEffect /\ target' = target
  <2>1. target[c] \in Execution
    BY <1>1, ControlInvLists DEF StartFails, HasTarget
  <2>. QED
    BY <1>1, <2>1, FinalizeEntryEffect DEF StartFails, EntryEffect, Internal
<1>3. LifeTypeOK'
  BY <1>1, <1>2 DEF StartFails, Write, Goto, EntryEffect, LifeTypeOK, Phase, ExecutionStatus, Outcome, SavingHasOutcome
<1>4. HasTarget' /\ OwnersDiffer' /\ OwnedIsUnfinished'
  BY <1>1, <1>2 DEF StartFails, Write, Goto, LifeTypeOK, HasTarget, OwnersDiffer, OwnedIsUnfinished, Owner
<1>5. SavingHasOutcome'
  BY <1>1 DEF StartFails, Goto, SavingHasOutcome, LifeTypeOK
<1>6. EntryIsRegistered' /\ EntryCanLeave'
  BY <1>1, <1>2, SameEntries DEF StartFails, Goto, LifeTypeOK, Unregistered
<1>. QED
  BY <1>3, <1>4, <1>5, <1>6 DEF LifeInv

\* A stop request stops the active entry.
LEMMA StopActiveKeeps ==
  ASSUME ExecutionsInv, NEW e \in Execution, StopActive(e)
  PROVE  LifeInv'
<1>1. LifeInv /\ ControlInv /\ LifeTypeOK /\ HasTarget /\ OwnersDiffer /\ OwnedIsUnfinished /\ SavingHasOutcome
  BY DEF ExecutionsInv, LifeInv
<1>2. EntryEffect /\ target' = target
  BY <1>1, StopEntryEffect DEF StopActive, EntryEffect, Internal
<1>3. LifeTypeOK'
  <2>1. cancel' \in [Call -> {"no", "requested", "written"}]
    BY <1>1, StopEntryEffect DEF StopActive
  <2>. QED
    BY <1>1, <1>2, <2>1 DEF StopActive, EntryEffect, LifeTypeOK
<1>4. HasTarget' /\ OwnersDiffer' /\ OwnedIsUnfinished'
  BY <1>1, <1>2, SameRows DEF StopActive, LifeTypeOK
<1>5. SavingHasOutcome'
  BY <1>1 DEF StopActive, SavingHasOutcome, LifeTypeOK
<1>6. EntryIsRegistered' /\ EntryCanLeave'
  BY <1>1, <1>2, SameEntries DEF StopActive, Goto, LifeTypeOK, Unregistered
<1>. QED
  BY <1>3, <1>4, <1>5, <1>6 DEF LifeInv

\* A stop request takes a throttled call out of the queue.
LEMMA StopThrottledKeeps ==
  ASSUME ExecutionsInv, NEW e \in Execution, StopThrottled(e)
  PROVE  LifeInv'
<1>1. LifeInv /\ ControlInv /\ LifeTypeOK /\ HasTarget /\ OwnersDiffer /\ OwnedIsUnfinished /\ SavingHasOutcome
  BY DEF ExecutionsInv, LifeInv
<1>2. EntryEffect /\ target' = target
  <2>1. Internal
    BY <1>1, RemoveInternal DEF StopThrottled
  <2>. QED
    BY <1>1, <2>1 DEF StopThrottled, EntryEffect, Internal, LifeInv, LifeTypeOK, EntryIsRegistered, EntryCanLeave
<1>3. LifeTypeOK'
  BY <1>1, <1>2 DEF StopThrottled, Write, Goto, EntryEffect, LifeTypeOK, Phase, ExecutionStatus, Outcome, SavingHasOutcome
<1>4. HasTarget' /\ OwnersDiffer' /\ OwnedIsUnfinished'
  BY <1>1, <1>2, SameRows DEF StopThrottled, LifeTypeOK
<1>5. SavingHasOutcome'
  BY <1>1 DEF StopThrottled, SavingHasOutcome, LifeTypeOK
<1>6. EntryIsRegistered' /\ EntryCanLeave'
  BY <1>1, <1>2, SameEntries DEF StopThrottled, Goto, LifeTypeOK, Unregistered
<1>. QED
  BY <1>3, <1>4, <1>5, <1>6 DEF LifeInv

\* A call that comes too late is rejected.
LEMMA RejectExistingKeeps ==
  ASSUME ExecutionsInv, NEW c \in Call, RejectExisting(c)
  PROVE  LifeInv'
<1>1. LifeInv /\ ControlInv /\ LifeTypeOK /\ HasTarget /\ OwnersDiffer /\ OwnedIsUnfinished /\ SavingHasOutcome
  BY DEF ExecutionsInv, LifeInv
<1>2. EntryEffect /\ target' = target
  <2>1. Internal
    BY <1>1, ReleaseInternal DEF RejectExisting
  <2>. QED
    BY <1>1, <2>1 DEF RejectExisting, EntryEffect, Internal, LifeInv, LifeTypeOK, EntryIsRegistered, EntryCanLeave
<1>3. LifeTypeOK'
  BY <1>1, <1>2 DEF RejectExisting, Write, Goto, EntryEffect, LifeTypeOK, Phase, ExecutionStatus, Outcome, SavingHasOutcome
<1>4. HasTarget' /\ OwnersDiffer' /\ OwnedIsUnfinished'
  BY <1>1, <1>2 DEF RejectExisting, Write, Goto, LifeTypeOK, HasTarget, OwnersDiffer, OwnedIsUnfinished, Owner
<1>5. SavingHasOutcome'
  BY <1>1 DEF RejectExisting, Goto, SavingHasOutcome, LifeTypeOK
<1>6. EntryIsRegistered' /\ EntryCanLeave'
  BY <1>1, <1>2, SameEntries DEF RejectExisting, Goto, LifeTypeOK, Unregistered
<1>. QED
  BY <1>3, <1>4, <1>5, <1>6 DEF LifeInv

\* A call whose claim fails gives up, whether it owns its row or not.
LEMMA AddFailsKeeps ==
  ASSUME ExecutionsInv, NEW c \in Call, AddFails(c)
  PROVE  LifeInv'
<1>1. LifeInv /\ ControlInv /\ LifeTypeOK /\ HasTarget /\ OwnersDiffer /\ OwnedIsUnfinished /\ SavingHasOutcome
  BY DEF ExecutionsInv, LifeInv
<1>2. EntryEffect /\ target' = target
  <2>1. Internal
    BY <1>1, ReleaseInternal DEF AddFails
  <2>. QED
    BY <1>1, <2>1 DEF AddFails, EntryEffect, Internal, LifeInv, LifeTypeOK, EntryIsRegistered, EntryCanLeave
<1>3. LifeTypeOK'
  BY <1>1, <1>2 DEF AddFails, Write, Goto, EntryEffect, LifeTypeOK, Phase, ExecutionStatus, Outcome, SavingHasOutcome
<1>4. HasTarget' /\ OwnersDiffer' /\ OwnedIsUnfinished'
  BY <1>1, <1>2 DEF AddFails, Write, Goto, LifeTypeOK, HasTarget, OwnersDiffer, OwnedIsUnfinished, Owner
<1>5. SavingHasOutcome'
  BY <1>1 DEF AddFails, Goto, SavingHasOutcome, LifeTypeOK
<1>6. EntryIsRegistered' /\ EntryCanLeave'
  BY <1>1, <1>2, SameEntries DEF AddFails, Goto, LifeTypeOK, Unregistered
<1>. QED
  BY <1>3, <1>4, <1>5, <1>6 DEF LifeInv

\* The workflow starts, and is attached if the entry is still there.
LEMMA StartWorkflowKeeps ==
  ASSUME ExecutionsInv, NEW c \in Call, StartWorkflow(c)
  PROVE  LifeInv'
<1>1. LifeInv /\ ControlInv /\ LifeTypeOK /\ HasTarget /\ OwnersDiffer /\ OwnedIsUnfinished /\ SavingHasOutcome
  BY DEF ExecutionsInv, LifeInv
<1>2. EntryEffect /\ target' = target
  <2>1. Internal
    BY DEF StartWorkflow, Internal, controlVars
  <2>2. target[c] \in Execution
    BY <1>1, ControlInvLists DEF StartWorkflow, HasTarget
  <2>. QED
    BY <1>1, <2>1, <2>2 DEF StartWorkflow, EntryEffect, Internal, LifeInv, LifeTypeOK, EntryIsRegistered, EntryCanLeave
<1>3. LifeTypeOK'
  <2>1. /\ attached' \in [Call -> BOOLEAN] /\ timer' \in [Call -> BOOLEAN]
        /\ phase' \in [Call -> Phase]
    BY <1>1, ZenonT(30) DEF StartWorkflow, Goto, LifeTypeOK, Phase
  <2>. QED
    BY <1>1, <1>2, <2>1 DEF StartWorkflow, EntryEffect, LifeTypeOK
<1>4. HasTarget' /\ OwnersDiffer' /\ OwnedIsUnfinished'
  BY <1>1, <1>2 DEF StartWorkflow, Write, Goto, LifeTypeOK, HasTarget, OwnersDiffer, OwnedIsUnfinished, Owner
<1>5. SavingHasOutcome'
  BY <1>1 DEF StartWorkflow, Goto, SavingHasOutcome, LifeTypeOK
<1>6. EntryIsRegistered' /\ EntryCanLeave'
  BY <1>1, <1>2, SameEntries DEF StartWorkflow, Goto, LifeTypeOK, Unregistered
<1>. QED
  BY <1>3, <1>4, <1>5, <1>6 DEF LifeInv

\* The end of a run settles the entry its execution has by now.
LEMMA FinalizeKeeps ==
  ASSUME ExecutionsInv, NEW c \in Call, Finalize(c)
  PROVE  LifeInv'
<1>1. LifeInv /\ ControlInv /\ LifeTypeOK /\ HasTarget /\ OwnersDiffer /\ OwnedIsUnfinished /\ SavingHasOutcome
  BY DEF ExecutionsInv, LifeInv
<1>2. EntryEffect /\ target' = target
  <2>1. target[c] \in Execution
    BY <1>1, ControlInvLists DEF Finalize, HasTarget
  <2>2. CASE FinalizeEntry(target[c])
    BY <1>1, <2>1, <2>2, FinalizeEntryEffect DEF EntryEffect, Internal
  <2>3. CASE UNCHANGED <<controlVars, active, workflow, post>>
    BY <1>1, <2>3, NoEntryEffect DEF EntryEffect, Internal
  <2>. QED
    BY <2>2, <2>3 DEF Finalize
<1>3. LifeTypeOK'
  BY <1>1, <1>2 DEF Finalize, Write, Goto, EntryEffect, LifeTypeOK, Phase, ExecutionStatus, Outcome, SavingHasOutcome
<1>4. HasTarget' /\ OwnersDiffer' /\ OwnedIsUnfinished'
  BY <1>1, <1>2 DEF Finalize, Write, Goto, LifeTypeOK, HasTarget, OwnersDiffer, OwnedIsUnfinished, Owner
<1>5. SavingHasOutcome'
  BY <1>1 DEF Finalize, Goto, SavingHasOutcome, LifeTypeOK
<1>6. EntryIsRegistered' /\ EntryCanLeave'
  BY <1>1, <1>2, SameEntries DEF Finalize, Goto, LifeTypeOK, Unregistered
<1>. QED
  BY <1>3, <1>4, <1>5, <1>6 DEF LifeInv

\* A timeout stops the entry its execution has by now.
LEMMA TimeoutKeeps ==
  ASSUME ExecutionsInv, NEW c \in Call, Timeout(c)
  PROVE  LifeInv'
<1>1. LifeInv /\ ControlInv /\ LifeTypeOK /\ HasTarget /\ OwnersDiffer /\ OwnedIsUnfinished /\ SavingHasOutcome
  BY DEF ExecutionsInv, LifeInv
<1>2. EntryEffect /\ target' = target
  <2>1. target[c] \in Execution
    BY <1>1, ControlInvLists DEF Timeout, HasTarget
  <2>. QED
    BY <1>1, <2>1, StopEntryEffect DEF Timeout, EntryEffect, Internal
<1>3. LifeTypeOK'
  <2>1. cancel' \in [Call -> {"no", "requested", "written"}] /\ timer' \in [Call -> BOOLEAN]
    <3>1. target[c] \in Execution
      BY <1>1, ControlInvLists DEF Timeout, HasTarget
    <3>. QED
      BY <1>1, <3>1, StopEntryEffect DEF Timeout, LifeTypeOK
  <2>. QED
    BY <1>1, <1>2, <2>1 DEF Timeout, EntryEffect, LifeTypeOK
<1>4. HasTarget' /\ OwnersDiffer' /\ OwnedIsUnfinished'
  BY <1>1, <1>2, SameRows DEF Timeout, LifeTypeOK
<1>5. SavingHasOutcome'
  BY <1>1 DEF Timeout, SavingHasOutcome, LifeTypeOK
<1>6. EntryIsRegistered' /\ EntryCanLeave'
  BY <1>1, <1>2, SameEntries DEF Timeout, Goto, LifeTypeOK, Unregistered
<1>. QED
  BY <1>3, <1>4, <1>5, <1>6 DEF LifeInv

\* A call asks for capacity.
LEMMA ReserveCapacityKeeps ==
  ASSUME ExecutionsInv, NEW c \in Call, ReserveCapacity(c)
  PROVE  LifeInv'
<1>1. LifeInv /\ LifeTypeOK /\ HasTarget /\ OwnersDiffer /\ OwnedIsUnfinished /\ SavingHasOutcome
  BY DEF ExecutionsInv, LifeInv
<1>2. target' = target
  BY DEF ReserveCapacity, Reserve
<1>3. LifeTypeOK'
  BY <1>1 DEF ReserveCapacity, Goto, LifeTypeOK, Phase
<1>4. HasTarget' /\ OwnersDiffer' /\ OwnedIsUnfinished'
  BY <1>1, <1>2 DEF ReserveCapacity, Goto, LifeTypeOK, HasTarget, OwnersDiffer, OwnedIsUnfinished, Owner
<1>5. SavingHasOutcome'
  BY <1>1 DEF ReserveCapacity, Goto, SavingHasOutcome, LifeTypeOK
<1>6. EntryIsRegistered' /\ EntryCanLeave'
  BY <1>1, <1>2 DEF ReserveCapacity, Goto, LifeTypeOK, LifeInv, EntryIsRegistered, EntryCanLeave, Unregistered
<1>. QED
  BY <1>3, <1>4, <1>5, <1>6 DEF LifeInv

\* The owner registers its entry, whose promise is pending.
LEMMA RegisterKeeps ==
  ASSUME ExecutionsInv, NEW c \in Call, Register(c)
  PROVE  LifeInv'
<1>1. /\ LifeInv /\ ControlInv /\ LifeTypeOK /\ HasTarget /\ OwnersDiffer /\ OwnedIsUnfinished
      /\ SavingHasOutcome /\ EntryIsRegistered /\ EntryCanLeave
  BY DEF ExecutionsInv, LifeInv
<1>2. target' = target /\ target[c] \in Execution
  BY <1>1, ControlInvLists DEF Register, controlVars, HasTarget
<1>3. LifeTypeOK'
  BY <1>1, <1>2 DEF Register, Goto, LifeTypeOK, Phase
<1>4. HasTarget' /\ OwnersDiffer' /\ OwnedIsUnfinished'
  BY <1>1, <1>2 DEF Register, Goto, LifeTypeOK, HasTarget, OwnersDiffer, OwnedIsUnfinished, Owner
<1>5. SavingHasOutcome'
  BY <1>1 DEF Register, Goto, SavingHasOutcome, LifeTypeOK
<1>6. /\ active' = [active EXCEPT ![target[c]] = c] /\ active \in [Execution -> Call \cup {None}]
      /\ phase' = [phase EXCEPT ![c] = "registered"] /\ phase[c] = "claimed"
      /\ phase \in [Call -> Phase] /\ post' = post /\ status' = status
  BY <1>1 DEF Register, Goto, LifeTypeOK
<1>7. EntryIsRegistered'
  BY <1>1, <1>2, <1>6 DEF EntryIsRegistered, Unregistered
<1>8. EntryCanLeave'
  BY <1>1, <1>2, <1>6 DEF EntryIsRegistered, EntryCanLeave, Unregistered
<1>. QED
  BY <1>3, <1>4, <1>5, <1>7, <1>8 DEF LifeInv

\* A node puts its execution to wait: the entry may be settled from now on.
LEMMA PutToWaitKeeps ==
  ASSUME ExecutionsInv, NEW c \in Call, PutToWait(c)
  PROVE  LifeInv'
<1>1. /\ LifeInv /\ LifeTypeOK /\ SavingHasOutcome /\ EntryIsRegistered /\ EntryCanLeave
  BY DEF ExecutionsInv, LifeInv
<1>2. UNCHANGED <<db, phase, existing, target, timer, active, post, workflow, unfinished>>
  BY DEF PutToWait, controlVars
<1>3. /\ status' \in [Call -> {"running", "waiting"}] /\ outcome' \in [Call -> Outcome]
      /\ \A k \in Call : status'[k] # "waiting" => status[k] # "waiting"
      /\ \A k \in Call : outcome[k] # "none" => outcome'[k] # "none"
  BY <1>1 DEF PutToWait, LifeTypeOK, Outcome
<1>4. LifeTypeOK'
  BY <1>1, <1>3 DEF PutToWait, LifeTypeOK
<1>5. HasTarget' /\ OwnersDiffer' /\ OwnedIsUnfinished'
  BY <1>1, <1>2, SameRows
<1>6. SavingHasOutcome' /\ EntryIsRegistered' /\ EntryCanLeave'
  BY <1>1, <1>2, <1>3 DEF LifeTypeOK, SavingHasOutcome, EntryIsRegistered, EntryCanLeave
<1>. QED
  BY <1>4, <1>5, <1>6 DEF LifeInv

\* The shutdown forgets the entries that wait.
LEMMA ShutdownBeginKeeps ==
  ASSUME ExecutionsInv, ShutdownBegin
  PROVE  LifeInv'
<1>1. LifeInv /\ LifeTypeOK /\ SavingHasOutcome /\ EntryIsRegistered /\ EntryCanLeave
  BY DEF ExecutionsInv, LifeInv
<1>2. UNCHANGED <<db, phase, existing, target, timer, status, post, outcome, unfinished>>
  BY DEF ShutdownBegin, Disable
<1>3. /\ active' \in [Execution -> Call \cup {None}]
      /\ \A e \in Execution : active'[e] \in {active[e], None}
  BY <1>1 DEF ShutdownBegin, LifeTypeOK
<1>4. LifeTypeOK'
  BY <1>1, <1>3 DEF ShutdownBegin, LifeTypeOK
<1>5. HasTarget' /\ OwnersDiffer' /\ OwnedIsUnfinished'
  BY <1>1, <1>2, SameRows
<1>6. SavingHasOutcome' /\ EntryIsRegistered' /\ EntryCanLeave'
  BY <1>1, <1>2, <1>3 DEF SavingHasOutcome, EntryIsRegistered, EntryCanLeave
<1>. QED
  BY <1>4, <1>5, <1>6 DEF LifeInv

\* A call that begins: no entry is its own, and nobody owns the new row.
LEMMA CreateKeeps ==
  ASSUME ExecutionsInv, NEW c \in Call, NEW e \in Execution, Create(c, e)
  PROVE  LifeInv'
<1>1. /\ LifeInv /\ ControlInv /\ LifeTypeOK /\ HasTarget /\ OwnersDiffer /\ OwnedIsUnfinished
      /\ SavingHasOutcome /\ EntryIsRegistered /\ EntryCanLeave
      /\ target \in [Call -> Execution \cup {None}]
  BY ControlInvLists DEF ExecutionsInv, LifeInv
<1>2. /\ phase' = [phase EXCEPT ![c] = "adding"] /\ phase[c] = "idle"
      /\ db' = [db EXCEPT ![e] = "new"] /\ db[e] = "absent"
      /\ target' = [target EXCEPT ![c] = e] /\ target[c] = None
      /\ UNCHANGED <<existing, active, status, post, timer, outcome, unfinished>>
  BY DEF Create, Goto, Write, ExecutionsInv, IdleIsFresh
<1>3. LifeTypeOK'
  BY <1>1, <1>2 DEF Create, LifeTypeOK, Phase, ExecutionStatus
<1>4. \A d \in Call : Owner(d) => target[d] # e
  BY <1>1, <1>2 DEF OwnedIsUnfinished
<1>5. \A d \in Call : d # c => (Owner(d)' <=> Owner(d)) /\ target'[d] = target[d]
  BY <1>1, <1>2 DEF Owner, LifeTypeOK
<1>6. target'[c] = e /\ e # None
  BY <1>1, <1>2, NoneAssumption
<1>7. OwnersDiffer'
  BY <1>1, <1>4, <1>5, <1>6 DEF OwnersDiffer
<1>8. OwnedIsUnfinished'
  BY <1>1, <1>2, <1>4, <1>5, <1>6 DEF OwnedIsUnfinished, LifeTypeOK
<1>9. HasTarget' /\ SavingHasOutcome'
  BY <1>1, <1>2, <1>6 DEF HasTarget, SavingHasOutcome, LifeTypeOK
<1>10. EntryIsRegistered' /\ EntryCanLeave'
  BY <1>1, <1>2 DEF LifeTypeOK, EntryIsRegistered, EntryCanLeave, Unregistered
<1>. QED
  BY <1>3, <1>7, <1>8, <1>9, <1>10 DEF LifeInv

\* A call for an existing execution owns nothing until it has claimed the row.
LEMMA CallExistingKeeps ==
  ASSUME ExecutionsInv, NEW c \in Call, NEW e \in Execution, CallExisting(c, e),
         boot' \in SUBSET Execution
  PROVE  LifeInv'
<1>1. /\ LifeInv /\ ControlInv /\ LifeTypeOK /\ HasTarget /\ OwnersDiffer /\ OwnedIsUnfinished
      /\ SavingHasOutcome /\ EntryIsRegistered /\ EntryCanLeave
      /\ target \in [Call -> Execution \cup {None}]
  BY ControlInvLists DEF ExecutionsInv, LifeInv
<1>2. /\ phase' = [phase EXCEPT ![c] = "adding"] /\ phase[c] = "idle"
      /\ existing' = [existing EXCEPT ![c] = TRUE]
      /\ target' = [target EXCEPT ![c] = e]
      /\ UNCHANGED <<db, active, status, post, timer, outcome, unfinished>>
  BY DEF CallExisting, Goto
<1>3. LifeTypeOK'
  BY <1>1, <1>2 DEF CallExisting, LifeTypeOK, Phase
<1>4. ~Owner(c)'
  BY <1>1, <1>2 DEF Owner, LifeTypeOK
<1>5. \A d \in Call : d # c => (Owner(d)' <=> Owner(d)) /\ target'[d] = target[d]
  BY <1>1, <1>2 DEF Owner, LifeTypeOK
<1>6. target'[c] = e /\ e # None
  BY <1>1, <1>2, NoneAssumption
<1>7. OwnersDiffer'
  BY <1>1, <1>4, <1>5 DEF OwnersDiffer
<1>8. OwnedIsUnfinished'
  BY <1>1, <1>2, <1>4, <1>5 DEF OwnedIsUnfinished
<1>9. HasTarget' /\ SavingHasOutcome'
  BY <1>1, <1>2, <1>6 DEF HasTarget, SavingHasOutcome, LifeTypeOK
<1>10. EntryIsRegistered' /\ EntryCanLeave'
  BY <1>1, <1>2 DEF LifeTypeOK, EntryIsRegistered, EntryCanLeave, Unregistered
<1>. QED
  BY <1>3, <1>7, <1>8, <1>9, <1>10 DEF LifeInv

\* After a restart nobody owns anything.
LEMMA RestartKeeps ==
  ASSUME ExecutionsInv, Restart
  PROVE  LifeInv'
<1>1. LifeTypeOK
  BY DEF ExecutionsInv, LifeInv
<1>2. \A c \in Call : /\ phase'[c] \in {"idle", "gone"} /\ ~timer'[c]
                      /\ post'[c] = "pending"
  BY <1>1 DEF Restart, LifeTypeOK
<1>3. \A e \in Execution : active'[e] = None
  BY DEF Restart
<1>4. LifeTypeOK'
  <2>1. restarts' \in 0..MaxRestarts
    BY <1>1, BoundAssumption DEF Restart, LifeTypeOK
  <2>2. db' \in [Execution -> ExecutionStatus]
    BY <1>1 DEF Restart, LifeTypeOK, ExecutionStatus
  <2>3. phase' \in [Call -> Phase] /\ stop' \in [Execution -> {"none", "read", "acted", "done"}]
    BY <1>1 DEF Restart, LifeTypeOK, Phase
  <2>. QED
    BY <2>1, <2>2, <2>3 DEF Restart, LifeTypeOK, Outcome
<1>5. HasTarget' /\ OwnersDiffer' /\ OwnedIsUnfinished' /\ SavingHasOutcome'
  BY <1>2 DEF HasTarget, OwnersDiffer, OwnedIsUnfinished, Owner, SavingHasOutcome
<1>6. EntryIsRegistered' /\ EntryCanLeave'
  BY <1>2, <1>3 DEF EntryIsRegistered, EntryCanLeave
<1>. QED
  BY <1>4, <1>5, <1>6 DEF LifeInv

\* The recovery looks for unfinished executions: it has found nothing before.
LEMMA FindUnfinishedKeeps ==
  ASSUME ExecutionsInv, FindUnfinished
  PROVE  LifeInv'
<1>1. LifeInv /\ LifeTypeOK /\ OwnedIsUnfinished /\ FoundLater
  BY DEF ExecutionsInv, LifeInv
<1>2. /\ UNCHANGED <<target, db, phase, existing, active, status, workflow, post, outcome,
                     attached, cancel, timer, stop, boot, shutdown, restarts>>
      /\ startup' = "marking" /\ unfinished' \in SUBSET Execution /\ unfinished = {}
  BY <1>1 DEF FindUnfinished, controlVars, FoundLater
<1>3. LifeTypeOK'
  BY <1>1, <1>2 DEF LifeTypeOK
<1>4. OwnedIsUnfinished'
  BY <1>1, <1>2 DEF OwnedIsUnfinished, Owner
<1>5. HasTarget' /\ OwnersDiffer' /\ SavingHasOutcome' /\ EntryIsRegistered' /\ EntryCanLeave'
  BY <1>1, <1>2 DEF LifeInv, HasTarget, OwnersDiffer, Owner, SavingHasOutcome,
                    EntryIsRegistered, EntryCanLeave
<1>. QED
  BY <1>3, <1>4, <1>5 DEF LifeInv

\* The recovery marks the executions it has found, whoever owns them by now.
LEMMA MarkAsCrashedKeeps ==
  ASSUME ExecutionsInv, MarkAsCrashed
  PROVE  LifeInv'
<1>1. /\ LifeInv /\ LifeTypeOK /\ OwnedIsUnfinished /\ HasTarget
      /\ target \in [Call -> Execution \cup {None}]
  BY ControlInvLists DEF ExecutionsInv, LifeInv
<1>2. /\ UNCHANGED <<target, phase, existing, active, status, workflow, post, outcome,
                     attached, cancel, timer, stop, boot, shutdown, restarts, unfinished>>
      /\ db' = [e \in Execution |-> IF e \in unfinished THEN "crashed" ELSE db[e]]
      /\ startup' = "marked"
  BY DEF MarkAsCrashed, controlVars
<1>3. LifeTypeOK'
  BY <1>1, <1>2 DEF LifeTypeOK, ExecutionStatus
<1>4. OwnedIsUnfinished'
  <2>1. \A c \in Call : Owner(c) => target[c] \in Execution
    BY <1>1 DEF Owner, HasTarget
  <2>. QED
    BY <1>1, <1>2, <2>1 DEF OwnedIsUnfinished, Owner
<1>5. HasTarget' /\ OwnersDiffer' /\ SavingHasOutcome' /\ EntryIsRegistered' /\ EntryCanLeave'
  BY <1>1, <1>2 DEF LifeInv, HasTarget, OwnersDiffer, Owner, SavingHasOutcome,
                    EntryIsRegistered, EntryCanLeave
<1>. QED
  BY <1>3, <1>4, <1>5 DEF LifeInv

\* The recovery has found nothing before it has looked: the steps of calls and stop
\* requests do not touch what it knows.
LEMMA FoundLaterStep ==
  ASSUME ExecutionsInv, [Next]_vars
  PROVE  FoundLater'
<1>1. FoundLater
  BY DEF ExecutionsInv
<1>2. CASE UNCHANGED startVars
  BY <1>1, <1>2 DEF FoundLater
<1>3. CASE \E c \in Call, e \in Execution : Begin(c, e)
  BY <1>2, <1>3 DEF Begin, Create, Resume, RunEnqueued, CallExisting
<1>4. CASE \E c \in Call : Step(c)
  BY <1>2, <1>4 DEF Step, Progress, ReserveCapacity, ClaimNew, ClaimExisting, RejectExisting,
       AddFails, Register, CheckFails, AttachResponseFails, PrepareFails, SetRunning,
       StartWorkflow, StartFails, SaveFailure, EndLoop, SaveRun, SaveCanceled, Finalize,
       PutToWait, SaveProgress, Timeout
<1>5. CASE \E e \in Execution : StopStep(e)
  BY <1>2, <1>5 DEF StopStep, StopRead, StopThrottled, StopActive, StopWrite
<1>6. CASE ShutdownBegin \/ ShutdownEnd
  BY <1>2, <1>6 DEF ShutdownBegin, ShutdownEnd
<1>7. CASE StartStep \/ Restart
  BY <1>7 DEF StartStep, FindUnfinished, MarkAsCrashed, FindEnqueued, Restart, FoundLater
<1>8. CASE UNCHANGED vars
  BY <1>2, <1>8 DEF vars, lifeVars
<1>. QED
  BY <1>3, <1>4, <1>5, <1>6, <1>7, <1>8 DEF Next

-----------------------------------------------------------------------------
(* What every step does to concurrency control *)

\* A step that does not touch the service is one the service allows.
LEMMA QuietStep ==
  ASSUME controlVars' = controlVars
  PROVE  Internal
BY DEF Internal, controlVars

\* The steps of a run after its beginning, except the one that reserves capacity.
LEMMA RunIsInternal ==
  ASSUME ExecutionsInv, NEW c \in Call, Step(c), ~ReserveCapacity(c)
  PROVE  Internal
<1>1. LifeInv /\ ControlInv /\ HasTarget /\ target \in [Call -> Execution \cup {None}]
  BY ControlInvLists DEF ExecutionsInv, LifeInv
<1>2. CASE \/ ClaimNew(c) \/ ClaimExisting(c) \/ Register(c) \/ CheckFails(c)
           \/ AttachResponseFails(c) \/ PrepareFails(c) \/ SetRunning(c) \/ StartWorkflow(c)
           \/ SaveFailure(c)
           \/ SaveRun(c) \/ SaveCanceled(c) \/ PutToWait(c) \/ SaveProgress(c)
           \/ \E s \in Ending : EndLoop(c, s)
  <2>1. controlVars' = controlVars
    BY <1>2 DEF ClaimNew, ClaimExisting, Register, CheckFails, AttachResponseFails,
                PrepareFails, SetRunning, StartWorkflow, SaveFailure, SaveRun, SaveCanceled, PutToWait, SaveProgress, EndLoop
  <2>. QED
    BY <2>1, QuietStep
<1>3. CASE RejectExisting(c) \/ AddFails(c)
  BY <1>1, <1>3, ReleaseInternal DEF RejectExisting, AddFails
<1>4. CASE StartFails(c)
  <2>1. target[c] \in Execution /\ FinalizeEntry(target[c])
    BY <1>1, <1>4 DEF StartFails, HasTarget
  <2>. QED
    BY <1>1, <2>1, FinalizeEntryEffect DEF EntryEffect
<1>5. CASE Finalize(c)
  <2>1. target[c] \in Execution
    BY <1>1, <1>5 DEF Finalize, HasTarget
  <2>2. CASE FinalizeEntry(target[c])
    BY <1>1, <2>1, <2>2, FinalizeEntryEffect DEF EntryEffect
  <2>3. CASE controlVars' = controlVars
    BY <2>3, QuietStep
  <2>. QED
    BY <1>5, <2>2, <2>3 DEF Finalize
<1>6. CASE Timeout(c)
  <2>1. target[c] \in Execution /\ StopEntry(target[c])
    BY <1>1, <1>6 DEF Timeout, HasTarget
  <2>. QED
    BY <1>1, <2>1, StopEntryEffect DEF EntryEffect
<1>. QED
  BY <1>2, <1>3, <1>4, <1>5, <1>6 DEF Step, Progress

\* The steps of a stop request.
LEMMA StopIsInternal ==
  ASSUME ExecutionsInv, NEW e \in Execution, StopStep(e)
  PROVE  Internal
<1>1. LifeInv /\ ControlInv
  BY DEF ExecutionsInv
<1>2. CASE StopRead(e) \/ StopWrite(e)
  BY <1>2, QuietStep DEF StopRead, StopWrite
<1>3. CASE StopThrottled(e)
  BY <1>1, <1>3, RemoveInternal DEF StopThrottled
<1>4. CASE StopActive(e)
  BY <1>1, <1>4, StopEntryEffect DEF StopActive, EntryEffect
<1>. QED
  BY <1>2, <1>3, <1>4 DEF StopStep

\* A run that begins asks for capacity.
LEMMA BeginAsks ==
  ASSUME ExecutionsInv, NEW c \in Call, NEW e \in Execution, Begin(c, e)
  PROVE  Ask(c, e) /\ IdleIsFresh'
<1>1. /\ phase[c] = "idle" /\ phase' = [phase EXCEPT ![c] = "adding"]
      /\ target' = [target EXCEPT ![c] = e]
      /\ UNCHANGED <<isEnabled, capacity, queue, reservation>>
  BY DEF Begin, Create, Resume, RunEnqueued, CallExisting, Goto
<1>2. phase \in [Call -> Phase] /\ target \in [Call -> Execution \cup {None}] /\ IdleIsFresh
  BY ControlInvLists DEF ExecutionsInv, LifeInv, LifeTypeOK
<1>. QED
  BY <1>1, <1>2 DEF Ask, IdleIsFresh

\* Reserving capacity is the service's own step for a call that has a target.
LEMMA ReserveAsks ==
  ASSUME ExecutionsInv, NEW c \in Call, ReserveCapacity(c)
  PROVE  AskedReserve(c) /\ IdleIsFresh'
<1>1. /\ phase[c] = "adding" /\ phase' = [phase EXCEPT ![c] = "reserving"]
      /\ Reserve(c) /\ target' = target
  BY DEF ReserveCapacity, Reserve, Goto
<1>2. /\ phase \in [Call -> Phase] /\ IdleIsFresh /\ HasTarget
      /\ reservation \in [Call -> ReservationState]
  BY ControlInvLists DEF ExecutionsInv, LifeInv, LifeTypeOK, WellFormed
<1>3. \E s : reservation' = [reservation EXCEPT ![c] = s]
  BY <1>1 DEF Reserve, ReserveUnlimited, ReserveLimited, EnqueueAdmitted, EnqueueThrottled
<1>4. AskedReserve(c)
  BY <1>1, <1>2 DEF AskedReserve, HasTarget
<1>5. IdleIsFresh'
  BY <1>1, <1>2, <1>3 DEF IdleIsFresh
<1>. QED
  BY <1>4, <1>5

\* No step makes a call idle again.
LEMMA StaysBegun ==
  ASSUME ExecutionsInv, [Next]_vars
  PROVE  \A c \in Call : phase'[c] = "idle" => phase[c] = "idle"
<1>1. phase \in [Call -> Phase]
  BY DEF ExecutionsInv, LifeInv, LifeTypeOK
<1>2. CASE UNCHANGED vars
  BY <1>2 DEF vars, lifeVars
<1>3. CASE \E c \in Call, e \in Execution : Begin(c, e)
  BY <1>1, <1>3 DEF Begin, Create, Resume, RunEnqueued, CallExisting, Goto
<1>4. CASE \E c \in Call : Step(c)
  BY <1>1, <1>4 DEF Step, Progress, ReserveCapacity, ClaimNew, ClaimExisting, RejectExisting,
       AddFails, Register, CheckFails, AttachResponseFails, PrepareFails, SetRunning,
       StartWorkflow, StartFails,
       SaveFailure, EndLoop, SaveRun, SaveCanceled, Finalize, PutToWait, SaveProgress, Timeout, Goto
<1>5. CASE \E e \in Execution : StopStep(e)
  BY <1>5 DEF StopStep, StopRead, StopThrottled, StopActive, StopWrite
<1>6. CASE ShutdownBegin \/ ShutdownEnd
  BY <1>6 DEF ShutdownBegin, ShutdownEnd
<1>7. CASE StartStep \/ Restart
  BY <1>1, <1>7 DEF StartStep, FindUnfinished, MarkAsCrashed, FindEnqueued, Restart
<1>. QED
  BY <1>2, <1>3, <1>4, <1>5, <1>6, <1>7 DEF Next

\* Every step is a step of ConcurrencyControl, or leaves its state alone.
LEMMA CapacityStep ==
  ASSUME ExecutionsInv, [Next]_vars
  PROVE  [ControlNext]_controlVars /\ IdleIsFresh'
<1>1. IdleIsFresh /\ ControlInv /\ isEnabled \in BOOLEAN
  BY ControlInvLists DEF ExecutionsInv
<1>2. Internal => [ControlNext]_controlVars /\ IdleIsFresh'
  BY <1>1, StaysBegun DEF Internal, IdleIsFresh
<1>3. CASE UNCHANGED vars
  <2>1. controlVars' = controlVars
    BY <1>3 DEF vars
  <2>. QED
    BY <1>2, <2>1, QuietStep
<1>4. ASSUME NEW c \in Call, NEW e \in Execution, Begin(c, e)
      PROVE  ControlNext /\ IdleIsFresh'
  BY <1>4, BeginAsks DEF ControlNext
<1>5. ASSUME NEW c \in Call, Step(c)
      PROVE  [ControlNext]_controlVars /\ IdleIsFresh'
  <2>1. CASE ReserveCapacity(c)
    BY <2>1, ReserveAsks DEF ControlNext
  <2>2. CASE ~ReserveCapacity(c)
    BY <1>2, <1>5, <2>2, RunIsInternal
  <2>. QED
    BY <2>1, <2>2
<1>6. ASSUME NEW e \in Execution, StopStep(e)
      PROVE  [ControlNext]_controlVars /\ IdleIsFresh'
  BY <1>2, <1>6, StopIsInternal
<1>7. CASE ShutdownBegin
  <2>1. /\ isEnabled' = FALSE /\ UNCHANGED <<capacity, queue, target, reservation, phase>>
        /\ Disable
    BY <1>7 DEF ShutdownBegin, Disable
  <2>2. [ControlNext]_controlVars
    <3>1. CASE isEnabled
      BY <2>1, <3>1 DEF ControlNext
    <3>2. CASE ~isEnabled
      BY <1>1, <2>1, <3>2 DEF controlVars
    <3>. QED
      BY <3>1, <3>2
  <2>3. IdleIsFresh'
    BY <1>1, <2>1 DEF IdleIsFresh
  <2>. QED
    BY <2>2, <2>3
<1>8. CASE ShutdownEnd \/ StartStep
  BY <1>2, <1>8, QuietStep DEF ShutdownEnd, StartStep, FindUnfinished, MarkAsCrashed,
                               FindEnqueued
<1>9. CASE Restart
  <2>1. ControlRestart
    BY <1>9 DEF Restart
  <2>2. IdleIsFresh'
    BY <2>1 DEF ControlRestart, IdleIsFresh
  <2>. QED
    BY <2>1, <2>2 DEF ControlNext
<1>. QED
  BY <1>3, <1>4, <1>5, <1>6, <1>7, <1>8, <1>9 DEF Next

-----------------------------------------------------------------------------
(* The inductive invariant: initial states and steps *)

\* The invariant holds when the process starts for the first time.
LEMMA InitExecutions ==
  ASSUME Init
  PROVE  ExecutionsInv
<1>1. ControlInv
  BY InitInv DEF Init
<1>2. IdleIsFresh /\ FoundLater
  BY DEF Init, ControlInit, IdleIsFresh, FoundLater
<1>3. LifeTypeOK
  <2>1. restarts \in 0..MaxRestarts
    BY BoundAssumption DEF Init
  <2>. QED
    BY <2>1 DEF Init, LifeTypeOK, ExecutionStatus, Phase, Outcome
<1>4. HasTarget /\ OwnersDiffer /\ OwnedIsUnfinished /\ SavingHasOutcome
  BY DEF Init, HasTarget, OwnersDiffer, OwnedIsUnfinished, Owner, SavingHasOutcome
<1>5. EntryIsRegistered /\ EntryCanLeave
  BY DEF Init, EntryIsRegistered, EntryCanLeave
<1>. QED
  BY <1>1, <1>2, <1>3, <1>4, <1>5 DEF ExecutionsInv, LifeInv

\* Every step of calls, stop requests, shutdown and restarts preserves it.
LEMMA StepExecutions ==
  ASSUME ExecutionsInv, [Next]_vars
  PROVE  ExecutionsInv'
<1>1. IdleIsFresh' /\ ControlInv' /\ FoundLater'
  BY CapacityStep, ControlStep, FoundLaterStep DEF ExecutionsInv
<1>2. ASSUME NEW c \in Call, NEW e \in Execution, Begin(c, e)
      PROVE  LifeInv'
  <2>1. CASE Create(c, e)
    BY <2>1, CreateKeeps
  <2>2. CASE Resume(c, e) \/ RunEnqueued(c, e)
    <3>1. boot \in SUBSET Execution
      BY DEF ExecutionsInv, LifeInv, LifeTypeOK
    <3>2. CallExisting(c, e) /\ boot' \in SUBSET Execution
      BY <2>2, <3>1 DEF Resume, RunEnqueued
    <3>. QED
      BY <3>2, CallExistingKeeps
  <2>. QED
    BY <1>2, <2>1, <2>2 DEF Begin
<1>3. ASSUME NEW c \in Call, Step(c)
      PROVE  LifeInv'
  BY <1>3, ReserveCapacityKeeps, ClaimNewKeeps, ClaimExistingKeeps, RejectExistingKeeps,
     AddFailsKeeps, RegisterKeeps, CheckFailsKeeps, AttachResponseFailsKeeps,
     PrepareFailsKeeps, SetRunningKeeps,
     StartWorkflowKeeps, StartFailsKeeps, SaveFailureKeeps, EndLoopKeeps, SaveRunKeeps,
     SaveCanceledKeeps, FinalizeKeeps, PutToWaitKeeps, SaveProgressKeeps, TimeoutKeeps
     DEF Step, Progress
<1>4. ASSUME NEW e \in Execution, StopStep(e)
      PROVE  LifeInv'
  BY <1>4, StopReadKeeps, StopThrottledKeeps, StopActiveKeeps, StopWriteKeeps DEF StopStep
<1>5. ASSUME UNCHANGED vars
      PROVE  LifeInv'
  <2>1. LifeInv
    BY DEF ExecutionsInv
  <2>2. UNCHANGED <<target, db, phase, existing, active, status, workflow, post, outcome,
                    attached, cancel, timer, stop, boot, shutdown, restarts, startVars>>
    BY <1>5 DEF vars, lifeVars, controlVars
  <2>3. LifeTypeOK'
    BY <2>1, <2>2 DEF LifeInv, LifeTypeOK
  <2>4. HasTarget' /\ OwnersDiffer' /\ OwnedIsUnfinished'
    BY <2>1, <2>2, SameRows
  <2>5. SavingHasOutcome' /\ EntryIsRegistered' /\ EntryCanLeave'
    BY <2>1, <2>2 DEF LifeInv, SavingHasOutcome, EntryIsRegistered, EntryCanLeave
  <2>. QED
    BY <2>3, <2>4, <2>5 DEF LifeInv
<1>6. ASSUME ShutdownBegin \/ ShutdownEnd \/ Restart \/ StartStep
      PROVE  LifeInv'
  BY <1>6, ShutdownBeginKeeps, ShutdownEndKeeps, RestartKeeps, FindUnfinishedKeeps,
     MarkAsCrashedKeeps, FindEnqueuedKeeps DEF StartStep
<1>7. LifeInv'
  BY <1>2, <1>3, <1>4, <1>5, <1>6 DEF Next
<1>. QED
  BY <1>1, <1>7 DEF ExecutionsInv

-----------------------------------------------------------------------------
(* Theorems *)

\* The invariant holds for ever.
THEOREM ExecutionsInvariance == Spec => []ExecutionsInv
<1>1. Init => ExecutionsInv
  BY InitExecutions
<1>2. ExecutionsInv /\ [Next]_vars => ExecutionsInv'
  BY StepExecutions
<1>. QED
  BY <1>1, <1>2, PTL DEF Spec

\* The life of executions keeps its types, for any number of runs and restarts.
THEOREM TypeCorrect == Spec => []TypeOK
<1>1. ExecutionsInv => TypeOK
  BY DEF ExecutionsInv, ControlInv, Structure, LifeInv, LifeTypeOK, HasTarget, TypeOK
<1>. QED
  BY <1>1, ExecutionsInvariance, PTL

\* Whatever happens to runs, capacity is used as ConcurrencyControl allows: the
\* detailed specification implements the service's own.
THEOREM CapacityUse == Spec => UsesCapacityProperly
<1>1. Init => ControlInit
  BY DEF Init
<1>2. ExecutionsInv /\ [Next]_vars => [ControlNext]_controlVars
  BY CapacityStep
<1>. QED
  BY <1>1, <1>2, ExecutionsInvariance, PTL DEF Spec, UsesCapacityProperly

\* At most one of the calls for an execution, new or resuming, runs its workflow.
THEOREM OneRun == Spec => []OneRunPerExecution
<1>1. ExecutionsInv => OneRunPerExecution
  BY DEF ExecutionsInv, LifeInv, OwnersDiffer, Owner, OneRunPerExecution, Running
<1>. QED
  BY <1>1, ExecutionsInvariance, PTL

\* Every entry that is not waiting can still be settled and leave the map.
THEOREM EntriesCanLeave == Spec => []EntryCanLeave
<1>1. ExecutionsInv => EntryCanLeave
  BY DEF ExecutionsInv, LifeInv
<1>. QED
  BY <1>1, ExecutionsInvariance, PTL

\* Whoever writes a status without looking at the row owns the execution, or
\* writes "canceled", or is the recovery.
LEMMA FinalStep ==
  ASSUME ExecutionsInv, [Next]_vars, NEW e \in Execution,
         db[e] \in {"success", "error", "crashed"}, db'[e] \notin {db[e], "canceled"}
  PROVE  /\ e \in unfinished
         /\ \/ startup = "marking" /\ db'[e] = "crashed"
            \/ db[e] = "crashed" /\ \E c \in Call : target[c] = e /\ UnderWay(c)
<1>1. /\ db \in [Execution -> ExecutionStatus] /\ OwnedIsUnfinished
  BY DEF ExecutionsInv, LifeInv, LifeTypeOK
<1>2. ~UNCHANGED db
  OBVIOUS
<1>3. CASE UNCHANGED vars
  BY <1>2, <1>3 DEF vars, lifeVars
<1>4. ASSUME NEW c \in Call, NEW x \in Execution, Begin(c, x)
      PROVE  FALSE
  BY <1>1, <1>4 DEF Begin, Create, Resume, RunEnqueued, CallExisting, Write
<1>5. ASSUME NEW c \in Call, Step(c)
      PROVE  e \in unfinished /\ db[e] = "crashed" /\ target[c] = e /\ UnderWay(c)
  <2>1. CASE \/ ReserveCapacity(c) \/ RejectExisting(c) \/ AddFails(c) \/ Register(c)
             \/ AttachResponseFails(c) \/ PrepareFails(c) \/ StartWorkflow(c) \/ StartFails(c)
             \/ Finalize(c) \/ PutToWait(c) \/ Timeout(c) \/ \E s \in Ending : EndLoop(c, s)
    BY <1>2, <2>1 DEF ReserveCapacity, RejectExisting, AddFails, Register, AttachResponseFails,
                PrepareFails, StartWorkflow, StartFails, Finalize, PutToWait, Timeout, EndLoop
  <2>2. CASE \/ ClaimNew(c) \/ CheckFails(c) \/ SetRunning(c) \/ SaveFailure(c) \/ SaveRun(c)
             \/ SaveProgress(c)
    <3>1. Owner(c) /\ UnderWay(c) /\ \E s : db' = [db EXCEPT ![target[c]] = s]
      BY <2>2 DEF ClaimNew, CheckFails, SetRunning, SaveFailure, SaveRun, SaveProgress, Owner,
                  UnderWay, Write
    <3>2. target[c] = e
      BY <1>1, <3>1
    <3>. QED
      BY <1>1, <3>1, <3>2 DEF OwnedIsUnfinished
  <2>3. CASE ClaimExisting(c)
    BY <1>1, <2>3 DEF ClaimExisting, Write
  <2>4. CASE SaveCanceled(c)
    BY <1>1, <2>4 DEF SaveCanceled, Write
  <2>. QED
    BY <1>5, <2>1, <2>2, <2>3, <2>4 DEF Step, Progress
<1>6. ASSUME NEW x \in Execution, StopStep(x)
      PROVE  FALSE
  BY <1>1, <1>2, <1>6 DEF StopStep, StopRead, StopThrottled, StopActive, StopWrite, Write
<1>7. CASE ShutdownBegin \/ ShutdownEnd \/ Restart \/ FindUnfinished \/ FindEnqueued
  BY <1>2, <1>7 DEF ShutdownBegin, ShutdownEnd, Restart, FindUnfinished, FindEnqueued
<1>8. CASE MarkAsCrashed
  BY <1>1, <1>8 DEF MarkAsCrashed
<1>. QED
  BY <1>3, <1>4, <1>5, <1>6, <1>7, <1>8 DEF Next, StartStep

\* A final status is overwritten by a cancellation, or by the recovery and by the
\* run the recovery has marked under way, and by nothing else.
THEOREM FinalStatus == Spec => FinishedStaysFinished
<1>1. ExecutionsInv /\ [Next]_vars
        => [\A e \in Execution :
              db[e] \in {"success", "error", "crashed"} /\ db'[e] \notin {db[e], "canceled"}
                => /\ e \in unfinished
                   /\ \/ startup = "marking" /\ db'[e] = "crashed"
                      \/ db[e] = "crashed" /\ \E c \in Call : target[c] = e /\ UnderWay(c)]_vars
  BY FinalStep
<1>. QED
  BY <1>1, ExecutionsInvariance, PTL DEF Spec, FinishedStaysFinished
=============================================================================
