# A TLA+ model of the execution core of n8n

This directory holds a formal model of the parts of this repository (a fork of
the n8n workflow automation platform, with a small proxy in front of it) that
decide *when a workflow execution runs, how often, and what becomes of it*.
Source paths below are relative to the repository; `cli/` stands for
`src/packages/cli/src/`.

## 1. Inventory

| Component | State it keeps | Operations | Talks to |
|---|---|---|---|
| Concurrency control (`cli/concurrency/`) | two counters of free capacity, two queues of throttled promises, per run a reservation | reserve/throttle, release, remove, removeAll, disable, has | called by active executions and by stop requests |
| Active executions (`cli/active-executions.ts`) | map execution id -> entry (status, workflow, promises) | add, attachWorkflowExecution, attachResponsePromise, stopExecution, finalizeExecution, setStatus, shutdown | database, concurrency control |
| Workflow runner (`cli/workflow-runner.ts`) | nothing of its own; one asynchronous call per run, a timeout timer per run | run, runMainProcess, processError, enqueueExecution | active executions, execution engine, lifecycle hooks, queue |
| Execution service, stop (`cli/executions/execution.service.ts`) | the row it read | stop in regular and in scaling mode | concurrency control, active executions, wait tracker, database |
| Lifecycle hooks (`cli/execution-lifecycle/`) | execution row | save progress, save the final status | database, event log |
| Wait tracker (`cli/wait-tracker.ts`) | map of timers | poll, start at the wait time, stop, follow leadership | database, workflow runner |
| Multi-main setup (`cli/scaling/multi-main-setup.ee.ts`) | leader key in Redis, local role | periodic check, takeover, step-down, shutdown | all services that only the leader runs |
| Task broker, runner, requester (`cli/task-runners/`, `@n8n/task-runner`) | runners, offers, requests, tasks, accept handshakes with timeouts | offer, request, accept, reject, defer, done, error, cancel, time out, drain | WebSocket messages between three parties |
| Scaling service (`cli/scaling/`) | Bull jobs, running jobs of a worker | enqueue, process, abort, recover the queue | Redis, database |
| Execution recovery (`cli/eventbus/`, `cli/executions/execution-recovery.service.ts`) | event log on disk | replay of the log at startup, marking executions as crashed | database, hooks |
| Execution engine (`packages/core`) | node execution stack, waiting nodes | run loop, retries, pausing, cancel | hooks |
| Active workflow manager, test webhooks | activation queue with back-off; webhook registrations with expiry | activate, deactivate, retry; register, expire, cancel | database, cache |
| Repositories, push, cache, HTTP layer, editor, integrations, authentication, proxy | rows, connections | request scoped | - |

How they interact. A trigger, a webhook, a form, a timer or a parent execution
calls `WorkflowRunner.run`; that asks `ActiveExecutions.add` for an entry, which
reserves capacity (and may be throttled), claims the row in the database and
registers the entry. The workflow runs, saves its progress and its final status
through hooks, and `finalizeExecution` settles the entry's promise, which
releases the capacity. Stop requests, the workflow timeout, the shutdown and a
crash may come between any two of these steps.

What is hard. All of this is single-threaded JavaScript, so the trouble is
*between* awaits: many callers resume the same execution at once; the status of
the row is written at seven places and checked at two; entries are looked up by
execution id long after they were made, when another run may own the id; a
queue counter, a queue and the reservations record one fact three times; and
whatever a process held in memory is gone after a crash. A process that starts
takes webhooks and resumes waits before its recovery has looked for what an earlier one
left unfinished. Between processes, a leader key with a time to live decides who polls
and who waits.

What makes each part correct:

* *concurrency control* - capacity is conserved; nobody waits while there is
  room; first come, first served; no more runs than the limit; every throttled
  call leaves the queue;
* *active executions* - at most one run of an execution at a time; final
  statuses are final; capacity is released exactly once on each path; no entry
  stays for ever; shutdown ends; a stopped execution stops;
* *wait tracker* - a waiting execution resumes, once, and not before its time;
* *multi-main* - at most one leader holds the key; a leader's services run;
  leadership is found again after a crash;
* *task broker* - a task is given to one runner; a request is answered or
  fails; no offer is used twice; late answers are harmless;
* *recovery* - executions cut off by a crash become crashed, waiting ones keep
  waiting.

## 2. Plan

1. `ConcurrencyControl` - done. The abstract service every run must use correctly.
2. `ActiveExecutions` (extends it) - done: the life of executions in a main
   process in regular mode, shown to use the service as `ConcurrencyControl`
   allows (`UsesCapacityProperly`, a refinement whose mapping is the identity).
3. `ConcurrencyControlProofs` - done: the inductive invariant of the service.
4. `ActiveExecutionsProofs` - done: type correctness, one run per execution,
   final statuses, and the refinement, which transfers the theorems of 3.
5. `MultiMainSetup` - done, with `MultiMainSetupProofs`: who leads, and whether
   the wait tracker of a process follows its role.
6. `TaskService` and `TaskBroker` - done, with `TaskBrokerInvariant` and
   `TaskBrokerProofs`: what a task promises to the node that asks for it, and broker,
   requester and runners as its implementation.
7. `WaitTracker` - done, with `WaitTrackerProofs`: the timers of single executions, who
   resumes them while leadership moves, and how a sub-workflow resumes its parent.
8. `ScalingService` - done, with `ScalingServiceProofs`: jobs, workers, stopping and
   the queue recovery.
9. `ExecutionRecovery` - done, with `ExecutionRecoveryProofs`: the event log, its
   writer thread, and what a start makes of the executions an earlier process left
   behind.

Left: the supervision of the runner process, the activation of workflows. Every
invariant and every action property of a passing run is proved; what is not proved is
liveness, which is beyond the prover.

## 3. Modules

### `ConcurrencyControl`

`ConcurrencyControlService`, two `ConcurrencyQueue`s and the
`ConcurrencyCapacityReservation` of each run. A *call* is a run that asks for
capacity and stands for the promise its throttling made. `capacity`, `queue` and
`isEnabled` are the fields of the same names; `reservation[c]` is where the
reservation of call `c` has got to: `throttled` while the promise is pending,
`acquired`, `released`, or `dropped` when `remove()` took it out of the queue
and its promise will never settle.

`Reserve`, `Release`, `Remove` and `Disable` are the four operations. All are
synchronous, so each is one step, with the `resolveNext` at its end.
`ResolveNext` takes the queue and reservations as the first half of the caller
has left them. Limits below -1 become -1, a type without a positive limit has no
queue, and `queue` execution mode leaves the service disabled, as in the
constructor. The loop of `removeAll` is not modelled: its one caller has
disabled the service just before, and the method then returns at once.
`ControlNext` adds the most general user: any call for any execution, at any
time, and a restart of the process.

### `ActiveExecutions`

Extends `ConcurrencyControl` with what uses it. A call is one invocation of
`WorkflowRunner.run`; `phase[c]` is the await it has reached:

    idle -> adding -> reserving -> claimed -> registered -> starting
         -> executing -> saving -> saved -> ended
    (rejected: the row was not waiting; failing: the workflow could not be started;
     abandoned: something threw outside of every try, and nobody finalizes)

Each action is the code between two awaits, and each statement that changes the
row in the database is an action. `active` maps an execution to the call whose entry
is in the map; `status`, `workflow` and `post` are the entry's fields, kept by
the call that made the entry, because the code keeps references to entries that
have left the map. `FinalizeEntry` and `StopEntry` look the entry up by
execution, as the code does, so they can meet the entry of a later run. `stop[e]`
follows a stop request through its read, its action and its write; `Timeout` is the
timer set after the workflow was attached; `ShutdownBegin` and `ShutdownEnd`
frame the polling loop; `Restart` is a crash or restart at any point.

Failures: `AddFails` is a database that fails in `add()`, `PrepareFails` a throw
between the registration of the entry and the `try` of `runMainProcess` (lines 226, 245,
257 and 274 of `workflow-runner.ts`, or a hook of a failed credentials check), after which
entry and reservation stay. `EndLoop` ends a run with success, with a failure, which may
come after a node has put the execution to wait, or with the time run out.

What follows a restart is not one step: `FindUnfinished`, `MarkAsCrashed` and
`FindEnqueued` are the accesses of `MessageEventBus.initialize` and
`runEnqueuedExecutions` to the database, and the server and the wait tracker are at work
from the first moment on, so that runs begin, are resumed, stopped and saved between
them. The recovery mode is "simple" here; the extensive one is in `ExecutionRecovery`.

Not modelled here: queue mode (see `ScalingService`), deletion of rows, streaming
responses, push messages; data, which only shows as the status a run ends with.

### `MultiMainSetup`

The main processes, the leader key in Redis and, as the service that only the
leader runs, the polling of the wait tracker (`intervals`, `mainTimer`). A process has
one connection to Redis: `sent` are its commands that Redis has not run yet,
`replies` the replies it has not handled yet, both in order. `RunGet`, `RunSet`,
`RunExpire` and `RunDel` are what Redis does; `GotOwn`, `GotOther`, `GotVacant`,
`SetSucceeded` and `SetRefused` are the pieces of `checkLeader` and
`tryBecomeLeader` between their awaits. `Tick` is the interval, which does not
await the check it starts.

`proc[h]` follows `Start.init` and `stopProcess`:

    down -> booting -> orchestrated -> initialized -> running
         -> stopping -> clearing -> down

The election runs from `orchestrated` on, the wait tracker looks at the role when
it becomes `initialized`, and the handlers of `leader-takeover` and
`leader-stepdown` exist from `running` on. `Crash` is possible anywhere; the key
survives it, and so does the id of the process when it is the hostname
(`Docker`). Otherwise the key is left with an owner that is `Gone`.

Not modelled here: what the poll finds and the timers it sets; Redis commands
that fail (a process that cannot reach Redis ends itself after a while, which is
a crash).

### `TaskService`

The abstract specification of a task, seen by the node that asks for it: two
functions, the `reply` to a request and the `work` done for it. A request gets at
most one answer, its code is run at most once, a result is the result of a
finished run, and a request that has expired is never run. It does *not* promise that
the code of a request that failed, or was canceled, has not been run: after a lost
connection nobody can know.

### `TaskBroker`

The broker, the requester of its own process, the runners, and the connections
between the broker and the runners (`toRunner`, `toBroker`: in order, lost with the
connection). The variables are the fields of the same names; `handshake[o]` is the
promise of `acceptOffer` for the runner's answer, and a task, which gets a fresh id
whenever an offer is matched, is named by its offer. Each message of a runner is
one step of the broker. The step that accepts a task reaches over the requester
to the sending of the settings, because nothing in it waits for another process.
`SettleTasks` is the synchronous matching at the end of `taskRequested` and
`taskOffered`, with the choice of the offers that have expired.

    acceptOffer:  TaskSettled   the request is there and its caller waits
                  TaskRefused   the caller has its answer: the task is cancelled
                  TaskOrphaned  the request has left the list: the task stays
    status[o]:    none -> waitingForSettings -> running -> aborting:... -> ended
                                             -> dropped

Timers (`RequestTimeout`, `AcceptTimeout`, `TaskTimeout`, and `TaskTimedOut` in the
runner) may fire whenever they are set. A `Launcher` defers a task instead of
running it. `Crash` kills a runner; the broker finds out by `RemoveConnection`.
What the map attributes to a definition is the part of the code it is named
after: the steps of a handler that belong to another definition are there.

`ImplementsTaskService` is the refinement `INSTANCE TaskService WITH work <- ...`:
the reply is the broker's own, the work of a request is what has become of the
tasks made for it. Left out: the requests of a running task for data, node types
and remote calls; the timers of tasks that are gone, which find nothing; the
request for information that `Connect` answers.

### `WaitTracker`

Waiting executions in queue mode, over the rows `status`, `wait` and `waitTill`.
`wait[e]` counts the waits of an execution, so that a timer, which the code names
by execution, can be told from one made for an earlier wait. `found[m]` is the result
of a poll on its way, `waitingExecutions[m]` and `timers[m]` are the entries and the
timers, which a stepdown separates from each other; `calls` are the resumes under
way: `startExecution` and the resumption by a webhook, up to the conditional update
in `ActiveExecutions.add`, which is `Claim` or `Skip`. A claimed execution is a job that
is `queued` until a worker takes it: `run[e]` is that of the job, and `SetRunning`, the
worker's write, looks at nothing and takes a canceled row back to running. `holder[e]` is
the process that waits for the end of a run; for a sub-workflow it is the one that will
resume its parent (`Finish`). `Suspend` is the end of a segment: with a time, for ever (a
webhook), or for ever because a sub-workflow waits.

A stop is three steps: `ReadStoppable` reads the row, `StopExecution` cancels the run if
its process holds the promise, at once or too late, and drops the entry, and
`StopDuringRun` writes `canceled` whatever the row says by then. Resumes, workers and the
ends of runs come between any two of them.

One process leads at a time, which is what `MultiMainSetup` shows of keys that are renewed
in time. Whoever takes over starts to track, and may do so again after a stepdown
(`terms`); a leader that crashes and has its id again (`Docker`) may find its own key, and
then leads without `tracking` (`LeadershipAfterCrash`). Simplifications: workers do not
crash (they do in `ScalingService`); an execution has one stop request at a time, and
`Server` bounds the processes that take webhooks and stop requests; equal resumes under
way count as one; the data that a child writes into the stack of its parent is left out,
and so is the time between `WaitTracker.init` and the registration of the handlers, in
which a takeover goes unheard (that is in `MultiMainSetup`).

### `ScalingService`

The main process (`entry`, `stops`), the Bull queue (`job`, `lock`, `ended`, `aborts`),
the workers (`phase`) and the row of each execution, which all of them write without
a condition. `entry[e]` joins the entry of `ActiveExecutions` and the handler that
awaits `job.finished()`:

    none -> adding -> waits -> none            (stopped: entry gone, handler waits;
                   -> local -> none             failing: the row is still to be
                                                written; left: a success whose job
                                                was taken for stalled)
    idle -> picked -> loaded -> starting -> running -> saved -> idle
                                         (canceling; kept: its run was rejected)

`RecoverRead`, `RecoverCompare` and `RecoverMark` are the three accesses of
`recoverFromQueue`; the main process may enqueue, and the workers may end jobs,
between any two of them. A job whose lock is lost, because its worker is gone or
(`MayStall`) only busy, fails and is not tried again. Executions that wait are in
`WaitTracker`; the order of jobs, their results and metrics are left out, and the
recovery sees all executions in progress at once, not only the latest batch. A worker
that throws while it prepares a run, after its `setRunning`, is not modelled, and a main
process that adds a job for an execution whose stop has dropped the entry forgets the
handler that still awaits the first job.

### `ExecutionRecovery`

A main process in regular mode that starts after an earlier one has ended. Its state
is the rows (`status`, `waitTill`), the files (`current` and `previous` log, and
`recoveryInProgress`, the flag file), the commands posted to the writer thread that it
has not handled (`inbox`), and the local variables of `MessageEventBus.initialize`:

    down -> starting -> reading -> marking ----> up
                               |-> recovering -> up
                               `---------------> up      (nothing is unfinished)

Each step of `Initialize` is the code between two accesses to the database or the log;
`AmendFromLogs`, `UpdateExecution` and `RunHooks` are the three accesses of
`recoverFromLogs` to one row, `AmendWithoutLogs` and `ReadMarked` those it makes
before, when the log has no message of the execution. The writer is a second
actor (`Handle`, `CheckFileSize`): the main thread posts and goes on, so that a crash
(`Crash`, `DieOfData`) finds commands that were never handled. `run[e]` follows a run in
the order of its hooks: the event of its end is sent before its status is saved.

The HTTP server takes webhooks and the wait tracker is initialized before the event bus:
`SetRunning`, `Resume`, `ReadStoppable` and `StopDuringRun` are possible in every phase of
a process, and so are the steps of the runs they begin, whose events nobody logs until the
process is up (`Event`). The writes of the recovery look at no status, so that they
overwrite what these steps have written. `crossed` collects the executions to which this
may happen. A stop of a run of this process goes through its entry, which
`ActiveExecutions` models.

Of a log file only the last message of each execution is kept, which decides what the
reader returns. Simplifications: executions are saved when they end; what is sent
again is either all of the log or nothing, as one command; the reading of one log and
the check of the flag are not interrupted by the writer. `DieOfData` and `Resume` name
their bounds: an execution that the extensive recovery makes waiting again while it runs
is not resumed a second time. `crossed` and `survivors` are history variables.

### Proofs

`ConcurrencyControlProofs`, `ActiveExecutionsProofs`, `MultiMainSetupProofs`,
`TaskBrokerProofs`, `WaitTrackerProofs`, `ScalingServiceProofs` and
`ExecutionRecoveryProofs` prove the theorems of section 5, each about the module it is
named after. `TaskBrokerInvariant` holds the inductive invariant of `TaskBroker` and
what its proofs need of lists, queues and matching.

## 4. Runs

| Run | What it asks | Instance |
|---|---|---|
| `control` | capacity is conserved, nobody idles, order is kept, only removal exceeds the limit, every throttled call leaves the queue | 4 calls, 2 production executions and 1 evaluation, limits 2 and 1 |
| `executions_safety` | one run per execution, final statuses stay, entries can leave, capacity is used as allowed | 3 calls for 1 execution that waits, stops, times out and fails, a shutdown, 1 restart at any point with the recovery that follows |
| `executions_live` | runs give capacity back and shutdown ends, unless a run was abandoned | 2 calls, 3 executions, one of them manual, no waiting nodes |
| `executions_enqueued` | executions found enqueued at startup run again - **violated** | 3 calls, 2 executions, 1 restart |
| `leader` | one leader and one poller while keys are renewed in time; two leaders do not stay, one does | 2 processes, 3 starts, 1 lapse, same id after a restart |
| `broker_safety` | nobody who waits is forgotten or left unmatchable, nothing runs unwatched, tasks implement `TaskService` | a runner that may crash, a launcher that defers, 2 requests, 2 offers, external mode |
| `broker_live` | every request is answered, every task leaves the broker, no runner is overbooked | a runner that may crash, 2 requests, 2 offers, internal mode |
| `waits` | due waits end, nothing runs after its end, parents follow their children, entries have timers | 2 mains, 2 stepdowns or crashes of one of them, which may lead again or find its own key; a parent that waits for a time or a webhook and may be stopped, with a child that waits twice |
| `waits_skipped` | a skipped resume leaves nothing to resume - **violated** | 1 main, a parent and a child that wait once each |
| `queue` | one worker per execution, completed jobs are saved, every execution and every entry comes to an end | 2 workers, 1 enqueued and 1 local execution, 1 crash, stalls, a stop, recovery at any time |
| `queue_recovery` | recovery marks only dangling executions - **violated** | 1 worker, 1 execution, nothing goes wrong |
| `recovery` | nothing is left running, waits and final statuses survive, starts come to an end | an execution that waits and may be stopped, one whose data kills its reader, runs and resumes in every phase, 2 other crashes, both recovery modes, unsent logs |

Bounds. Three calls on one execution show every race of two resumptions with a first run
(different executions share nothing but the capacity, which `control` and
`executions_live` check with several); a limit of 1 or 2 with one call more than fits
makes throttling, removal and release meet. One restart suffices because a restart resets
all memory: a second one starts from the same kind of state. `Stoppable` bounds the
executions somebody asks to stop, each once; `MaxRestarts` bounds restarts; `Call` bounds
the runs, each used once in `ActiveExecutions`. Runs of `ActiveExecutions` set
`CHECK_DEADLOCK FALSE` because every call is used up some day and the process then has
nothing left to do.

In `MultiMainSetup` three starts of two processes are a restart beside another process,
and one lapse (`MaxLapses`) is a key that expires although its owner lives; the two
safety properties are stated for the time before it. `MaxInFlight = 1` is one check
under way per process: overlapping checks are covered by the theorems about both
safety properties, which hold for every `MaxInFlight`.

Two offers and two requests are a task for each, or a second attempt for one that was
rejected, deferred or too late; one crash per runner loses its connection with messages on
the way in both directions. In `WaitTracker` a parent waits once and its child twice, so
that entries, timers and calls of the child's first wait meet its second. `MaxTerms = 2`
lets a process lead again after a stepdown, and `MaxUpsets = 2` is a stepdown and a crash,
or two of either. `Mortal` names the processes that may step down or crash, `m1` only, so
that one is left to take over; `Docker` those that keep their id; `Server` those that take
webhooks and stop requests, `m2` only, because what `m1` has taken ends with it or goes on
in the same way. The type invariant, `EntryHasTimer` and `EndsOnce` are proved without any
of these bounds (section 5). In `ScalingService` one crash, of the main process or of a
worker, suffices because either forgets all that its process knows of a job; `MayReject`,
`Stoppable` and `Local` name the executions to which each of these may happen. In
`ExecutionRecovery` two executions are one that the recovery is at and one that it has
still to do or has done; two crashes are one that leaves something unfinished and one
during the recovery from it, and `Poison` adds any number of deaths by data. `MaxInbox =
1` bounds the messages of runs that wait for the writer (the commands of a start are
posted all the same), and `Resends` is what an instance without log streaming does. What
the theorems say of this module holds for every bound. Its run sets `CHECK_DEADLOCK FALSE`
because both executions may have ended and all crashes been used up.

Fairness. `control` assumes that a run that holds capacity gives it back.
`FairSpec` assumes weak fairness of every step of a run and of the shutdown's
polling: an await is answered or fails, the event loop gets round to what is ready, and a
workflow ends. It assumes nothing of what somebody may or may not do: stop
requests, timeouts, waits, resumptions, the shutdown itself and restarts.

`MultiMainSetup` assumes weak fairness of Redis, of the handling of replies, of
the interval, of the steps of start and stop once begun, and of the expiry of a
key whose owner is gone; it does not assume that anybody starts, stops or crashes.

`TaskBroker` assumes that messages on an open connection arrive and are handled, that
timers fire, and that the connection of a runner that is gone is removed (the close event
or the heartbeat). It does *not* assume that code in a runner ends, that a runner connects
or that anybody offers, asks or cancels: it is the timers that answer. A deferral sets a
new timer for its request; there are finitely many in the model (`MaxOffers`).
`WaitTracker` assumes that some process takes over when there is no leader, that polls,
timers, calls, stops begun and runs go on, and that time passes; not that webhooks come,
that anybody stops an execution, or that the leader tracks: one that has found its own key
leads on without, and `DueIsResumed` excepts it. `ScalingService` assumes that the main
process, the recovery timer and some worker go on, and that Bull notices a lock nobody
renews. `ExecutionRecovery` assumes that a process that has ended is started again and
that `initialize` goes on; not that the writer thread does, nor that anything runs or
ends.

`OverLimitOnlyByRemoval` is stated as it is because the limit itself is not an
invariant: `remove()` of a throttled execution gives back a unit of capacity,
which `enqueue` took in advance, *and* lets the next call through, although no run
has ended. The property says that nothing else exceeds the limit.

What the violated runs show:

* `executions_enqueued`: `runEnqueuedExecutions` runs executions that are
  `new`, and `add()` only accepts an existing execution that is `waiting`.
* `waits_skipped`: a child begins to wait, is resumed and ends while its parent still
  runs, as it does in "run once for each item" mode until all items have had their
  turn. The resume of the parent meets a row that is `running` and is skipped as a
  duplicate. The parent is then saved as waiting, for ever, and nothing resumes it.
* `queue_recovery`: an execution is stored before its job is added, and ends before
  recovery has written: in both cases a healthy execution is marked as crashed; in
  the first the worker then refuses it, in the second a success is lost.

Other ways the models were seen to fail the expectation one may have; the
properties of the passing runs are stated so that they hold beside them, and the
hazards in `PROJECT.json` name the lines:

* `setRunning`, or one of the three other statements before the `try` of `runMainProcess`,
  throws: the entry stays in the map with nobody to settle it, its capacity is lost, and
  the loop of the shutdown never finds the map empty. `RunReleases` and `ShutdownEnds`
  except the runs that were abandoned in this way, and no others;
* a shutdown waits for ever for an execution that starts to wait during its loop
  (`executions_live` has no waiting nodes), and a stop between `putExecutionToWait`
  and the end of the run loses the capacity of the run;
* a stop before the workflow is attached removes the entry; the workflow starts
  nevertheless, and nobody can cancel it. In queue mode an abort that arrives before
  the worker has entered the run is lost too;
* a leader that is back under the same hostname before its key expires finds its own
  key and becomes leader without the event that starts the leader's services: as long as it
  leads, no due wait is resumed (an exception in `DueIsResumed`). One that loses leadership
  before the handlers are registered goes on polling;
* a process that steps down keeps the entries of the timers it clears: when it leads
  again it sets no timer for these executions, and they wait as long as it leads (`Stranded`,
  the other exception in `DueIsResumed`; `EntryHasTimer` is stated for the first term);
* a stop reads a row that is running, the run ends with success, and the stop writes
  `canceled` over it; or it reads a row that is waiting, the execution is resumed, the stop
  writes `canceled`, and the worker's `setRunning` takes it back (`EndsOnce` allows the
  former, and says *ended* of a row without a run because of the latter);
* a runner that accepts a request which has left the list makes a task without a
  timer in the broker, which lives until the runner gives it up (`TaskOrphaned`).
  `TasksEnd` says that it does, not when: the drain at shutdown polls for
  0.8 of the graceful shutdown timeout, 24 s unless configured, and then shuts down
  with the tasks still active, while a task may take 300 s. That limit is not modelled;
* a request that a launcher defers is pushed to the list that still holds it. When one copy
  is accepted the other stays, marked as in progress with nobody deciding on it and without
  a timer, for ever. `PendingCanSettle` says that nobody who still waits is left behind so;
* an execution of which the log holds the start and nothing else is passed over by the
  recovery (`amend` returns null) and its row stays `running`: the exception in
  `NothingLeftRunning`. As long as its start is sent again it is so at every start;
* `endRecoveryProcess` is posted only when something was unfinished: a flag file whose
  removal was lost in a crash outlives later starts that had nothing to do, and a
  recovery that never failed is then skipped as one that "previously failed";
* the executions that are only marked are marked whatever their status: one that was
  waiting, or was canceled while it waited, which no event tells, becomes crashed (an
  exception in `WaitSurvives` and in `FinishedIsFinal`). A marked one keeps its time to wait
  for, and a later recovery makes it wait again;
* an execution started, by a webhook, or resumed by the wait tracker before the event bus has
  looked for unfinished ones is marked as crashed, or is made waiting again, while it runs;
  and if it ends between the query and the write, its success is lost. The exceptions in
  `FinishedIsFinal` and `FinishedStaysFinished` name these executions, and in queue mode
  the code itself warns that "running jobs may still be running";
* nobody listens to the end of a workflow that the recovery reports, so an execution
  that crashed is recovered again at each start while its messages are in the two files;
* a child that is stopped while it waits, or whose process crashes, never resumes its
  parent (`ParentFollowsChild` makes these exceptions).

## 5. Proofs

For any finite set of calls, any executions and any non-zero limits,
`ConcurrencyControlProofs` proves that `ControlSpec` implies

* `[]ControlTypeOK` (`ControlTypeCorrect`),
* `[]QueueIsThrottled` (`QueueCorrect`),
* `[]CapacityAccounted` (`CapacityCorrect`),
* `[]NoIdleCapacity` (`NoIdleCapacityCorrect`),
* `OverLimitOnlyByRemoval` (`OverLimitCorrect`),
* `AdmissionInOrder` (`AdmissionCorrect`).

The inductive invariant `ControlInv` is the conjunction of the four invariants,
and none of them is inductive without the others: a call that leaves the queue
must be one that waits (`QueueIsThrottled`), or resolving it would not add a run
to those that hold capacity; and a call that is admitted without waiting keeps
`NoIdleCapacity` only because the counter, which is positive, says by
`CapacityAccounted` that nobody can be in the queue. The proof has one lemma per
operation; `ResolveNextInv` serves both `dequeue()` and `remove()`. The order of
admission follows from `QueueIsThrottled` alone: only the head of what remains of a
queue is let through, and a call has one place in one queue. Assumed of
the constants: `LimitAssumption` (limits are integers other than 0, on which the
constructor throws), `ModeAssumption`, `NoneAssumption` and `CallAssumption`
(finitely many calls at a time, so that they can be counted).

`ActiveExecutionsProofs` proves, for the same constants and any `MayWait`,
`Stoppable` and `MaxRestarts` (`BoundAssumption`), that `Spec` implies

* `[]TypeOK` (`TypeCorrect`),
* `UsesCapacityProperly`, that is `ControlSpec` (`CapacityUse`): by transitivity
  everything proved of the service holds while real runs use it,
* `[]OneRunPerExecution` (`OneRun`),
* `[]EntryCanLeave` (`EntriesCanLeave`),
* `FinishedStaysFinished` (`FinalStatus`).

The argument is one of ownership. A call *owns* its execution from the creation of the
row, or from its claim of a waiting row, until it has written the status its run ends with
(`Owner`). The invariant `ExecutionsInv` says that no two calls own the same execution
(`OwnersDiffer`) and that the row of an owned execution is `new`, `running` or `canceled`,
or marked by the recovery (`OwnedIsUnfinished`). Each needs the other: a second call can
only become an owner by claiming a row that is waiting, which an owned row is not; and the
owner's unconditional writes take nobody else's row out of a final status, because nobody
else owns it and an unowned final row is never claimed. The one other writer is the
recovery: it may mark an owned row as crashed, which the invariant allows for the
executions it has taken for unfinished (`unfinished`), and its owner then goes on to write
the row. `FinalStatus` has exactly these two exceptions beside cancellation: the write of
the recovery, and what it has marked too early. `EntryIsRegistered` and `EntryCanLeave`
say whose entry the map holds, and `ControlInv` comes along, because the reservation of a
call decides what it may do next. There is one lemma `...Keeps` per action, and
`CapacityStep` shows that each is a step of the service or leaves it alone.

`MultiMainSetupProofs` proves, for any processes, any number of overlapping
checks and any restarts and lapses (`HostAssumption`, `SetupAssumption`), that
`Spec` implies `[]TypeOK` (`SetupTypeCorrect`), `[]AtMostOneLeader` (`OneLeader`)
and `[]AtMostOnePoller` (`OnePoller`). The invariant `LeaderInv` says that
whatever makes a process lead comes with the key being its own (`KeyInv`): its
role, a reply `own` or `set` still under way, and the `del` of its shutdown. The
last one is what keeps a shutdown from clearing somebody else's key, and it needs
`ClearsOnce`. `PollInv` adds that a process that has just taken the key does not
poll yet, which needs `TakesFirst`: replies arrive in order, and no reply before
the one that grants the key has made the process a leader.

`WaitTrackerProofs` proves, for any processes, any trees of executions and any number of
waits and terms (`WaitAssumption`), that `Spec` implies `[]TypeOK` (`WaitTypeCorrect`),
`[]EntryHasTimer` (`EntriesHaveTimers`) and `EndsOnce` (`EndsOnceOnly`). `EntryHasTimer`
needs `TermInv`: a process that has not taken over since it started does not track, even
if it leads by its own key, has polled nothing and keeps no entries, so that the entries a
leader finds in its first term are its own, each with its timer. `EndsOnce` says of an
execution that has ended *and has no run*: the row alone does not tell, because a stop may
write `canceled` while a job is queued or running, and the worker goes on. `RunInv` says
which statuses the row of a run may have, so that no run belongs to a row that is waiting
and could be claimed; `OutcomeInv`, that the outcome of a resume is only settled when the
child has ended and has no run; and `CallInv`, that the call that resumes a parent is the
only one of its child: a second one would overwrite an outcome that is settled. A late
stop may still turn a success into `canceled`. The type invariant is needed too: it says
that a row has a time to wait for exactly while it is waiting, which is what `Claim` goes
by.

`ScalingServiceProofs` proves, for any workers and executions and whatever stalls, is
stopped or crashes (`ScalingAssumption`), that `Spec` implies `[]TypeOK`
(`ScalingTypeCorrect`), `[]OneWorker` (`OneWorkerPerExecution`) and
`[]CompletedIsSaved` (`CompletedJobsAreSaved`). The type invariant includes that
exactly the active jobs are locked. The argument is that of a ticket that is used
once: a job is added when no worker has been near its execution, and one that waits
has not been picked (`FreshInv`), so whoever picks it is the only worker the
execution ever has. As nobody else writes `running`, what that worker has saved is
still there when it completes the job (`SavedInv`), and when the handler hears of it
(`EndedInv`: the end of a job is heard of once the job has left the queue, by a
handler that awaits it). The recovery writes nothing but `crashed`,
which is an end too.

`ExecutionRecoveryProofs` proves, for any executions, any number of crashes and any
messages under way (`RecoveryAssumption`), that `Spec` implies `[]TypeOK`
(`RecoveryTypeCorrect`), `[]NothingLeftRunning` (`NoneLeftRunning`), `[]WaitSurvives`
(`WaitsSurvive`) and `FinishedIsFinal` (`FinishedStays`). The invariant `RecoveryInv` says
nothing of the log and its writer thread, so the theorems hold however far the writer has
got. `RunInv` says that before the process is up only executions run that it has started
or resumed itself (`crossed`). `OrphanInv` keeps track of the rows an earlier process left
running: each is among the unfinished ones until it has been dealt with, unless the log
holds its start and nothing else. `SurvivorInv` follows a waiting execution through the
two writes of its recovery, between which its row is not waiting. `AmendInv` says that
what is being recovered, and was not started, resumed or stopped meanwhile, has not
finished: of the others the theorem `FinishedStays` promises nothing, as the code does
not.

`TaskBrokerInvariant` and `TaskBrokerProofs` prove, for any number of runners, launchers,
requests, slots and offers (`BrokerAssumption`), that `Spec` implies `[]TypeOK`
(`BrokerTypeCorrect`), `[]AnswerDue` (`AnswersDue`), `[]BookedWithinSlots`
(`SlotsRespected`), `[]PendingCanSettle` (`PendingSettles`) and `ImplementsTaskService`
(`ServiceImplemented`); and `[]WorkIsWatched` when `Mode` is external (`WorkWatched`). The
hypothesis is the code's: in internal mode nobody is told to stop a task that has timed
out, because its runner is killed.

All of them rest on `BrokerInv` (`BrokerInvariant`), which says that an offer reaches
the broker once, stands in its list once and in neither place once it has been taken
(`MadeInv`, `ListInv`, `OfferedInv`), and that a message on its way speaks of an offer
of its own runner that has come at least as far as the message says (`MessageInv`). A
message stays true while it is on its way because no step undoes what it speaks of
(`Ages`). So an offer is matched at most once, which is why a task may be named by its
offer. On top of it:

* *AnswerDue* is then inductive: the task that a caller waits for was accepted by
  the runner that made its offer, over a connection the broker has.
* *WorkIsWatched* needs `WatchInv`: a runner whose task the broker has given up, and
  which has no settings yet, either gets none or finds the cancellation behind them in
  its queue.
* *BookedWithinSlots* needs `BookInv`: after any number of the messages under way the
  broker will have booked no more than the slots of the runner, and after all of them
  no more than the runner then runs; a task the broker reckons with is not being
  cancelled, so that its end is announced before its slot is offered again.
* *PendingCanSettle* needs `PendInv`: a request somebody waits for is in the list, once or
  more often, one that was never made is neither there nor matched; so a match marks a
  request that is there, and when it ends the mark goes or nobody waits any more. It speaks
  of the requests with a caller, so that the copy of a request that has been accepted is outside
  of it.
* *ImplementsTaskService* needs `ServeInv`: the tasks whose settings are sent (`Settled`)
  have a request each that no longer waits for a task and was not answered as
  expired. Each step then maps to a step of the service or to none: only
  `ReceivedSettings` begins work, `TaskExecuted` and `Crash` end it, and the
  steps that answer change nothing of it.

The loops of the broker over its lists are folded by a recursive function; that it
picks what it should is proved from the least position at which it would go wrong
(`LeastMember`), since induction itself cannot be cited.

Only model-checked: liveness, because fairness and `ENABLED` are beyond the prover. No
run lists the type invariants `ControlTypeOK`, which is part of `TypeOK` of
`ActiveExecutions`, and `TypeOK` of `TaskBroker`, which says nothing but types.

## 6. Not modelled, and why

Execution recovery rebuilds the data of an execution from log lines, and may deactivate
workflows that crash again and again; `ExecutionRecovery` has neither, nor executions that
are deleted at their end, nor the event log in queue mode, where recovery goes by the log
alone. The supervision of the runner process and the restart-loop detector act on exits of
one child process; what an exit means for tasks is `Crash` in `TaskBroker`. The activation
of workflows and the test webhooks are timers of one process over external services. Of
the engine, only how a run ends, waits and is cancelled is modelled: its loop over nodes
is driven by data. Integrations (`packages/nodes-base`, `packages/@n8n/nodes-langchain`),
the editor, the expression language and the workflow data model are data mapping and pure
functions over unbounded documents. Authentication, users, projects and the proxy
(`src/custom`) answer one request at a time over database rows. The push service and the
cache service keep no state that other components rely on for correctness. `PROJECT.json`
lists every component with its status.
