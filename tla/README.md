# Verification of SoloCoder's concurrent services

TLA+ models, TLC runs and TLAPS proofs about programs of this repository.

The repository is a collection of about seventy independent programs, one per
top-level directory, in JavaScript, TypeScript, Go, Java, Python, Rust and
Vue/React. They share no code. Most are request handlers over one database or
web pages. A few schedule work concurrently and survive crashes; those are where
a model checker and a prover say something a test would not. This project covers
three of them: the task queue server in `4053-node-api-taskqueue`, the connection
pool of the SDK in `5012`, and the distributed job scheduler in `5044`.
`PROJECT.json` lists every program with the reason it is or is not modelled.

## 1. Inventory

### 1.1 `4053-node-api-taskqueue`

One Node.js process, seven modules, one SQLite file (better-sqlite3, synchronous).

| part | state | operations | correct if |
|---|---|---|---|
| `state.js` | none; `TRANSITIONS` | `transitionTo`, `retryTask`, `cancelTask` | a final status is final; retries are bounded; locks go with the execution |
| `database.js` | tables `tasks`, `resource_locks`, `workers`, `webhook_failures` | every SQL statement; `checkCycle` | one lock row per resource; the search for cycles finds exactly the cycles |
| `queue.js` | `pendingNotifications` | `enqueue`, `batchEnqueue`, `processNotifications`, `checkAndPromotePendingTasks` | tasks are released exactly when their dependencies are completed |
| `worker.js` | pool of workers, `currentTask`, `runningTasks`, retry timers | `assignTask`, `executeTask`, heartbeats, `recoverDeadWorkers` | no task executes twice, no two executions share a resource, no running task is forgotten |
| `scheduler.js` | `started`, timers | `start`, `poll`, `stop` | scheduled tasks run, in the order of priority and creation |
| `server.js` | `initialized` | five routes that change state, reading routes, start, `gracefulShutdown` | the routes may fall between any two callbacks |
| `webhook.js` | `retryQueue`, `processing` | `sendWebhook`, `processRetryQueue`, `executeWebhook` | nothing is lost or sent too often; the queue never sits without a callback |

How they interact: routes and timers call `queue`, `state` and `database`
synchronously. The poll assigns tasks to workers. An execution waits on a timer
and then, in a turn of the event loop of its own, writes its outcome; a further
`setImmediate` notifies dependents (`pendingNotifications`) and the webhook
queue. Retries are `setTimeout`s. Only the tables survive the process.

What is hard: turns fall between each other in any order; a task may be cancelled
or retried by a client while its execution or its retry timer is outstanding; the
process may be killed between any two SQL statements (only the insertion of a
batch is a transaction), stopped gracefully, or suspended for so long that its own
heartbeats are stale; a new process has new workers and knows the old ones only by
their rows; two promotion paths, of which one is in memory, release tasks; several
chains of callbacks may work on one webhook queue with one flag.

### 1.2 `5012` and `5044`

`5012/src/pool/ConnectionPool.ts` is one class on one event loop: a map of
connections, each with a field `inUse`, and a queue of callbacks. `acquire` looks
for an idle connection, awaits its validation, and only then marks it; or it
creates one, or queues a callback under a timer. `release` hands a connection to
the first callback. An interval destroys connections that are idle for too long, and
`close` destroys all of them. Everything that awaits can be overtaken by everything
else.

`5044/internal` runs on several nodes over one database.

| part | state | operations | correct if |
|---|---|---|---|
| `store/store.go` | tables `jobs`, `lock_records`, `dead_letter_jobs` | `ListPendingJobs`, `UpdateJob` (saves whole rows), `UpdateJobStatus`, `RecoverJobs`, `MoveToDeadLetter` | a job's row says what is being done with it |
| `scheduler/scheduler.go` | one goroutine per node; the lease it holds | `Start` with `recoverJobs`, `triggerLoop`, `submitJobToQueue`, `executeJob` with its outcomes, the operations of the API | a job is submitted by one node at a time; it succeeds once |
| `queue/queue.go`, `worker/pool.go` | a bounded queue and workers per node | `Enqueue`, `Dequeue`, `executeTask` with panic, timeout and requeue | no task is doubled or forgotten |
| `api/api.go` | none | routes that schedule, edit, trigger and delete jobs | a client's stale copy undoes nothing |

What is hard: the trigger loop holds a lease that ends after five seconds whatever
its holder still does; the task is queued before its row says running; rows are
saved whole, as they were read some time before; a node that starts resets the jobs
of all nodes; and a failed execution is retried by the pool and by the table.

A third candidate, `5014/hub/hub.go`, where joining a chat room races the closing
of the client's channel, is not modelled yet (section 6).

The rest (CRUD back ends, web pages, libraries of pure functions, wrappers of
external brokers) is listed in `PROJECT.json`; directories `5003` to `5100` that
are not named there hold no program.

### 1.3 Hazards

`PROJECT.json` lists 39 hazards, each at its line, with the properties that are
about it or the reason there are none. Some of these hazards do happen in the code, in
the pool and the scheduler of `5044` above all. The properties then say exactly when,
and that nothing else has the same effect; a note says so at each of these hazards.
The properties below are written for them.

## 2. Modules

| module | models | proofs |
|---|---|---|
| `TaskLifecycle` | abstract: what a task is promised, without workers, locks, timers, tables | |
| `TaskQueue` | `server.js`, `scheduler.js`, `queue.js`, `worker.js`, `state.js`, `database.js` in composition | `TaskQueueProofs`, `TaskQueueServiceProofs` |
| `WebhookDelivery` | abstract: what a webhook is promised, without queue, chains, flag, back-off | |
| `Webhook` | `webhook.js`; fed by what `TaskQueue` announces | `WebhookProofs` |
| `DependencyCycle` | `enqueue` and `batchEnqueue` of `queue.js` with the search of `checkCycle` of `database.js`, step by step | `DependencyCycleProofs` |
| `PoolLeases` | abstract: what a call of `acquire` is promised, without timers, marks, queues, awaits | |
| `ConnectionPool` | `ConnectionPool.ts` of 5012 | `ConnectionPoolProofs` |
| `JobLifecycle` | abstract: who may take a job, without leases, rows, queues, workers | |
| `JobScheduler` | `scheduler.go`, `store.go`, `queue.go`, `pool.go` and the routes of `api.go` of 5044, on several nodes | `JobSchedulerProofs` |
| `MCTaskQueue`, `MCTaskQueueLive`, `MCTaskQueueOne`, `MCTaskQueueTwo`, `MCDependencyCycle`, `MCConnectionPool`, `MCJobScheduler` | workloads and symmetry for TLC | |

### 2.1 TaskQueue

*Granularity.* SQLite calls are synchronous, so one turn of the event loop is
atomic for all other turns, and an action is one turn. Two exceptions. A poll is
several steps (`Poll`, then `AssignTask`, `SkipLocked` or `PollBreak` for the
fetched list `ready`); `Idle` keeps every other turn out meanwhile, so it is only
finer than the code and lets the process die in the middle of a poll. And
the turns that perform several writes may be killed between any two of them, in
which case they write a prefix and the process is gone (`Torn`): the insertion of a
batch (`EnqueueTorn`), the promotion of tasks (`PromoteTorn`), an assignment
(`AssignTorn`), the end of an execution (`FinishTorn`), the heartbeats and the
recovery of dead workers (`HeartbeatTorn`, `RecoverTorn`), and the registration of
workers at the start and their deactivation at the stop (`StartTorn`, `StopTorn`).

*State.* `status`, `owner`, `retryCount`, `createdAt` are columns of `tasks`;
`locks` the rows of `resource_locks`; `row` the rows of `workers` with the age of
their heartbeat reduced to fresh or stale; `current`, `runningTasks`, `ready`,
`completing` (outstanding `setImmediate`s), `notifications`, `retryTimers` the
memory of the process; `boot` numbers its starts, so that a worker is a pair of a
start and a slot. `announced` counts the calls of `notifyTaskComplete`.

*What a client sends* is constant per task: `Deps` and `LockedResources` are
sequences, as sent, with duplicates if the client wishes; `Priority`,
`MaxRetries`, `BatchTasks`. Every property and proof is for all such functions.

*Abstractions.* `createdAt` is the rank of the request: tasks of one batch are
equal, and two requests in one millisecond, which would be equal too, are ordered.
A lock does not expire while its execution is in flight: an execution takes at most
0.6 s of timer, a lock 120 s. That bound concerns timers of a running process: a
machine suspended in the middle of an execution is outside it, except that its
heartbeat may go stale. The promotions and recoveries of one turn may be cut off
after any part of them, whatever the order of the rows, which is more than the code
can do. The first turn of `executeTask` is merged into
`AssignTask`; it only starts a timer. `OwnWorkers` are never found dead by their own
process because `heartbeatAll` comes first in the same turn; `Heartbeat` models
both calls. Columns that control nothing (`payload`, `progress`, times, messages)
are absent.

*Bounds.* `MaxBoots` bounds the starts; the last start is neither killed nor
stopped, so that behaviours say what finally becomes of the tasks. The proofs hold
for every `MaxBoots`.

*Fairness* (`Fairness`). The poll and its loop are weakly fair: the poll re-arms
itself with a timer. Callbacks that are due while a poll holds the loop are
enabled again and again, not continuously, because the poll disables them; the
event loop runs them before the next poll one second later, hence strong fairness of
`Heartbeat` and of `Execution`. The latter says only that while ends of executions,
`setImmediate` callbacks or retry timers are due, some of them run: nothing is assumed
of their order, nor of any particular one. Nothing is assumed of the dependency check
either, since every poll promotes too. Locks expire and the heartbeats of ended
processes go stale because time passes. A process that ended is started again.
Nothing is assumed of clients, and neither kills nor stops are fair.

### 2.2 Webhook

A chain is a call of `processRetryQueue` that is due (`callbacks`) or the request
it sent (`inFlight`), whose promise makes the next call due. Each `sendWebhook`
starts a chain while `processing` is false, so there may be several. `wait` is what
is left of the back-off. A request ends with 2xx (`Delivered`), with another
outcome (`Refused`: status, `error` or `timeout`), or its response breaks off
(`BreaksOff`): the response has begun, so the request emits no `error` or
`timeout`, and `end` never comes. `Crash` empties the memory; `lost` remembers what
was in it. It also stands for the end of the process by an invalid `callback_url`,
whose promise rejects with nobody to handle it. A webhook is identified by its task;
`AnnouncedOnce` of `TaskQueue` shows that there is one at most per task.
Fairness: due calls run, back-offs end, and a request settles or breaks off, at
the latest by its timeout.

`WebhookDelivery` says what each webhook is promised: requests are made only for what
is owed, one at a time and `MAX_RETRIES` at most; it ends delivered, failed after the
last of them, or lost with the process, and stays so. The refinement
`DeliveryImplemented` reads the outcome of a webhook (`Outcome`) off the sets it is in,
and takes `requests`, which counts what was sent and not what `item.attempt` says, for
the tries. A request whose response broke off is still being asked.

### 2.3 DependencyCycle

`TaskQueue` decides in one step, and by a definition a prover can use, whether a
request closes a cycle: some set of tasks waits for itself. That is what `checkCycle`
should decide, so `TaskQueue` can say nothing about it. `DependencyCycle` has the
search of the code, and judges it. A request (`Receive`) goes through its tasks, checks that the
dependencies of each exist (`DepsExist`) and calls `checkCycle` (`CheckTask`), whose
state are its arguments (`task`, `roots`), its sets `visited` and `stack`, and the
recursion of `hasCycleFrom`: `calls` is the stack of its calls, each with its
`currentId` and what is left of the loop over `deps`. `SearchFrom` is a turn of the
outer loop, which clears both sets; `Descend`, `CloseCycle`, `Skip` and `Return` are
the branches of the inner one. All of it runs in one turn of the event loop, so
nothing changes the table meanwhile. A batch may look itself up (`virtualDeps`),
`enqueue` may not. A batch names each id once: with two tasks of one id the insertion
fails on the primary key and nothing is stored.

The steps matter because the search is written with two shortcuts that could be
wrong: what was visited is not searched again although the stack was different, and
the sets are cleared between the roots. `SearchIsExact` says that the outcome is the
right one whichever it is, `SearchProgresses` that there is one.

### 2.4 ConnectionPool

*Granularity.* An action runs from one await to the next. The gaps of one microtask
between an async function that returns and the continuation of its caller are
stages of their own (`destroyed`, `created`, `queueing`), because other microtasks
fall into them; timers do not (`Settled`).

*State.* `pool` is the map, a connection being its rank of insertion, which is also
the order in which `find` meets it; `inUse` the connections whose field is set, in
the map or not; `waitingQueue` the callbacks. A call of `acquire` is a process:
`stage` says where it is, `picked` which connection it works on or was given,
`expired` whether its timer has rejected its promise. `toInit`, `doomed` and
`closing` are what `initialize`, a cleanup and `close` have still to do. A call that
is given a connection after its timer fired is `lost`: nobody will release that
connection.

*What the code does not keep.* `acquire` reads `inUse` before an await and sets it
after, and the size is compared before an await and grows after. So the code does
hand a connection out twice, destroys one that is used, and exceeds
`maxConnections`. Two history variables say by which overlaps alone: `contended`
holds the connections that were picked while another operation was between picking
and marking or destroying them, `crowded` says that a creation was begun during
another one. `OneHolder`, `HeldIsPooled` and `SizeBounded` except just those, and
so say that nothing else - no failing validation, time-out, hand-over, cleanup -
breaks the pool. While the pool is closing, connections in use are destroyed; only
`HeldIsPooled` is confined to an open pool.

*What it promises.* `PoolLeases` says it without the mechanism: each call is answered
once; a connection that is given exists and nobody else has it; it is destroyed only
after it was given back; and what was destroyed never returns. The refinement
`LeasesImplemented` maps the map to `present`, the connections created and no longer
in it to `gone`, `contended` to `spoiled`, and the stages of a call to `asking`,
`served` and `done`. A call that is `lost` counts as served: the pool has answered it,
although the answer reaches nobody. One that is cut off by `close` counts as done: the
code only empties the queue, so that the promise is settled by the timer or never; the
stage `dropped` is that of a call whose callback is nowhere any more. Of what is
spoiled, and of a pool that is closed, less is promised: a spoiled connection may be
shared or destroyed, and a closed pool may destroy connections in use and answer with
destroyed ones.

*Abstractions.* The age of a connection is left out, so a cleanup may find any idle
connection old (it still keeps the last `minConnections`). Validation, creation and
destruction settle in any order. A caller releases what it was given once.

### 2.5 JobScheduler

*Granularity.* An action is what a goroutine does between two statements on the
database or two operations on its queue. `Acquire` has three statements; the second,
an insertion with a conflict clause, decides alone, and the third reads whose row is
stored now, so one action stands for them.

*State.* `lease` is `lock_records`, `row` the table `jobs` reduced to the status and
whether `next_execute_time` has come. `loop` is the goroutine of each node: its
position, whether it holds its lease (`held`; the node itself cannot know), the list
it works through, the job it is about to mark, and the rows the recovery has read
and will save. `queue` and `exec` are the queue and workers of each node; a worker
keeps the row it has read until it saves it. `edit` is the row a client's request
has read.

*Faults.* A lease that lapses while its holder goes on, a crash or stop of a node, a
statement that fails because the database is busy, an execution that panics or
exceeds its time (before or after it has saved its outcome), a deletion, and a
client's edit are counted by `faults` up to `MaxFaults`. Failed executions, jobs
whose dependencies are not met, full queues and restarts of stopped nodes are not
faults and happen at any time.

*Histories.* `disturbed` holds the jobs that were executed in vain, reset by a
starting node, written by a client, or submitted or marked after the lease had run
out; `stranded` those whose row was left running with nothing to run it. The
properties except them, as `contended` does in the pool: the code keeps no more for
such jobs. In particular a failed execution always disturbs its job, because the
worker pool requeues the task at once while the row also becomes pending again.

*Abstractions.* Retry counts, cron expressions, times and dependency checks are
choices made when they matter. Execution records, outputs, notifications and
the priorities of tasks (all the same, and ignored by the queue) are absent. `MoveToDeadLetter` always fails, because the
insertion names columns that `dead_letter_jobs` does not have; so no dead letter is
ever found and its routes are left out. A job that is `waiting` is not listed again,
in the code or in the model, until a client triggers it. The growing and shrinking
of the worker pool and the orderly part of `Stop` are left out: `Crash` stands for
the end of a node either way, since with its context cancelled nothing is written.

## 3. Runs

| run | instance | shows |
|---|---|---|
| `safety` | tasks `a`, `b` on one resource, `c` after `a`; 2 workers, 2 starts, kills between any two writes, graceful stops | `TypeOK`, `DepsRespected`, `ResourceExclusion`, `ExecutedOnce`, `RunningCount`, `LocksAccountedFor`, `AnnouncedOnce`, `FinalIsFinal`, and the refinement `LifecycleImplemented` |
| `one` | three tasks of three priorities, of which `a`, the last in order, needs a lock and has two retries; 2 workers, one start | `RetryBudget`, `RetryArmed`, `PriorityRespected` |
| `restarts` | two independent tasks, one with a resource; 2 workers, 3 starts, graceful stops, and kills between any two writes | `OnlyStopsAbandon` |
| `live` | tasks `a` and `b` on one resource, `b` preferred, `c` after both; 1 worker, 2 starts, no graceful stops, fairness | `DistinctDepsPromoted`, `ScheduledTaskRuns`, `RunningTaskLeaves` |
| `graceful` | two tasks, `b` after `a`, one resource, 2 starts with graceful stops | violates `RunningRecoverable` |
| `dupdeps` | two tasks, `b` names `a` twice, 2 starts, fairness | violates `DepsPromoted` |
| `webhook` | three webhooks, three attempts | `TypeOK`, `Conserved`, `AttemptsCounted`, `NoLostWakeup`, `SentSettlesUnlessBroken`, and the refinement `DeliveryImplemented` |
| `webhook_broken` | two webhooks | violates `SentSettles` |
| `webhook_backoff` | two webhooks | violates `DocumentedBackoff` |
| `cycle` | four tasks, lists of up to two entries | `SearchIsExact`, `StoredAcyclic`, `SearchProgresses` |
| `pool` | three calls, `minConnections` = `maxConnections` = 1 | `OneHolder`, `HeldIsPooled`, `SizeBounded`, `UseIsOwed`, `ReleaseWakes`, and the refinement `LeasesImplemented` |
| `scheduler` | two nodes with one worker and a queue of one, one job, one fault | `TypeOK`, `LeaseHeld`, `OneTaskPerJob`, `SucceedsOnce`, `Attended`, and the refinement `LifecycleImplemented` |

Why the bounds are enough to be interesting. Two tasks on one resource and two
workers are what a conflict needs, and a third that waits for one of them what a
dependency needs. Two starts give a dead process whose locks, rows and tasks a
living one finds; since the last start is not killed, the third one of `restarts`
is what it takes for a recovery to be killed half-way and repeated, and two tasks
that run at once what it takes for it to be killed between two dead workers. In
`one`, three tasks compete for two workers, so that the limit of the query
matters, and two retries let a late timer meet a task that was retried by hand and
failed again. In `live` a poll fetches one task, as there is one worker: while `b`
is scheduled and its resource is locked by a killed or cancelled execution of `a`
(or by `b` itself, killed while it was assigned), `b` fills the list of every
poll, which `a` has to wait for; and `c` may lose the notification of either
dependency with the process. In `webhook`, three items allow two chains with a
third item waiting. In `cycle`, four tasks hold a diamond and a cycle entered from
outside. `cycle` does not check for deadlock: once all ids are used there is no
further request. `pool` does not either: calls are finitely many. In the others a
deadlock would be an error.

In `pool`, one connection and three calls suffice for two calls that race for it
while a third waits, for a creation that replaces a failed connection beside another
creation, and for a waiter that times out behind another; calls are interchangeable,
so symmetry is sound (no liveness is checked). In `scheduler`, two nodes suffice for
a lease that is taken over, and one job because jobs meet only in the capacity of a
queue: with one place in it, a requeued task and a submitted one of the same job
compete for it. One fault suffices for each of the ways a job can be disturbed or
stranded, on top of the failures and restarts that are not counted; two faults
exceed the time of a run, and the theorems hold for any number. Nodes are
interchangeable.

`RetryArmed` is stated for the first start, because timers do not survive;
`DistinctDepsPromoted` and `ScheduledTaskRuns` exclude lists with duplicates, the
former because of the finding below, the latter because a task that names a
resource twice blocks itself (`worker.js:99`).

Each property has a mutant of a definition that models code (commented `MUTANT of`
beside it) under which TLC finds it violated.

### Findings

1. `graceful`: a graceful stop deactivates the workers (`worker.js:46-49`), and
   recovery only looks at active ones (`database.js:267-272`). Tasks that were running
   stay running for ever; `update.json:3` says "Dead worker recovery every 30s."
2. `dupdeps`: the poll compares `COUNT(*)` with the length of `depend_tasks`
   (`database.js:191-194`); a list that names a task twice is never promoted by it, so
   after a restart that lost the notification the task waits for ever. `update.json:3`:
   "Task dependency promotion (pending->scheduled when deps completed)."
3. `webhook_broken`: a response that breaks off settles nothing (`webhook.js:101-113`),
   and the chain stops with `processing` up; every later webhook waits. `update.json:3`:
   "Webhook with exponential backoff retry (3 attempts, 1s/4s/16s)."
4. `webhook_backoff`: the waits are 2 s and 4 s (`webhook.js:59-62`), not those of the
   same sentence.

## 4. Proofs

The proof modules are checked by TLAPS for every value of the constants that
satisfies the named assumptions. `TaskQueue`: finitely many tasks, `NoTask` not one
of them, at least one worker and one start, and requests of the right types.
`Webhook`: positive bounds and `PowerAssumption`, which says that powers of two are
natural numbers (the provers have no theory of exponentiation). `ConnectionPool`:
finitely many calls and `MinConnections <= MaxConnections`. `DependencyCycle`:
finitely many ids, `NoTask` not one of them; the bound on the lists is any number. `JobScheduler`: a
positive capacity, and the three null values outside their types.

`TaskQueue`:

- `Invariance`: `Spec => []IInv`. The safety properties are not inductive one by one.
  `ExecutedOnce` needs that a task to be assigned is scheduled (`ReadyIsScheduled`), that
  a dead process executes nothing (`DownIsEmpty`), and that the recovery never takes one
  of the own workers; `ResourceExclusion` needs that an execution in flight still holds
  its lock rows (`LocksHeld`) and that there is one row per resource
  (`LocksAccountedFor`), which in turn needs that old rows belong to earlier starts
  (`LocksAreOld`); `AnnouncedOnce` needs that a callback that is due concerns a completed
  task not yet announced (`CompletingIsCompleted`).
- The proof first shows what one step may do to one task (`StatusSteps`,
  `VolatileSteps`), from which `DepsRespected`, `RetryBudget`, `AnnouncedOnce` and
  `FinalIsFinal` follow without looking at actions again, and then treats `ready`,
  executions, locks and the count action by action.
  `CountMeansAll` is the fact that makes the COUNT query safe although it is not live:
  if the count equals the length of the list, no dependency is missing.
- `TypeCorrect`, `DependenciesAreRespected`, `ResourcesAreExclusive`,
  `ExecutionsAreUnique`, `CountIsRight`, `LocksAreAccountedFor`, `RetriesAreBounded`,
  `AnnouncementsAreFinal`, `FinalStatusIsFinal`.
- `Refinement`: `Spec => LifecycleImplemented`, that is, `TaskQueue` with crashes,
  recovery and torn turns implements `TaskLifecycle`.
- `IInv` is defined in the proof module; it was checked with TLC on the instance of
  `safety` before it was proved.

`TaskQueueServiceProofs` builds on `IInv` for what the server owes to its clients:

- `RetriesAreArmed`: `RetryArmed`. The invariant adds that nothing exists before the
  first start (`NothingBefore`). A timer that fires on a failed task with retries left
  retries it (`CanRetry` cannot fail), and a hand-made retry leaves its timer behind.
- `StopsAloneAbandon`: `OnlyStopsAbandon`, whatever is killed and stopped. A running
  task that is neither in flight nor found by the recovery came to be so in a step that
  is a graceful stop, finished or killed after some of its deactivations; no other kill
  between two writes does it. The invariant adds
  `RowsOfStarts` (rows of later starts do not exist, and those of the living process
  are fresh or stale, so that the tasks of a process that dies belong to rows recovery
  will find) and `RunningOwned` (a running task has an owner that is a worker).
- `RunningIsRecoverable`: `RunningRecoverable`, assuming `~GracefulStops`. It follows from
  `StopsAloneAbandon`; the run `graceful` shows that the assumption is needed.
- `PriorityIsRespected`: `PriorityRespected`, from `ReadyFirst`: whatever comes before
  a task of the fetched list and needs no lock is earlier in the list. A poll
  establishes it by its order, and the loop keeps it because the head it takes off
  was assigned or needed a lock.

`Webhook`: `Invariance`, `TypeCorrect`, `NothingLost`, `AttemptsAreCounted`,
`NoWakeupLost`, where `AttemptsExact` ties `item.attempt` to the requests made, and
`Refinement`: `Spec => DeliveryImplemented`. `Conserved` makes the outcome of a webhook
one thing, `AttemptsExact` makes the limit on `item.attempt` one on the requests.

`DependencyCycle`: `Invariance`, `TypeCorrect`, `SearchExact`, `StoredStaysAcyclic`,
`SearchAdvances`.

- `Lookup`: what a search looks up is the graph of the table with the request in it,
  except for the one task it starts from, which `enqueue` cannot look up. That is
  harmless because the task is on the stack from the start and never descended into.
- `Path`: the calls are a path from the task, and the stack holds exactly what is on
  it. Hence a refusal is right (`RefusalIsLoop`): the stack is a set that waits for
  itself.
- `Explored`: what was visited and left depends only on such (`Finished`), and no
  loop is among it; whatever a call has not looked at is left to it. This is what makes
  skipping a visited id right. When a call returns, its id joins the finished; a loop
  through it would have to go on within them, where there is none. When the call for a
  root returns, the finished are closed, so the root is `Safe` (`ClosedIsSafe`): no set
  that waits for itself has it.
- `Cleared`: the roots searched, and the tasks checked, are safe. A loop in the
  accepted request has then no task of the request, so that it was stored before
  (`OnlyStored`), which `StoredAcyclic` excludes.
- `SearchAdvances`: the measure is the number of tasks to check, then of roots, of ids
  not yet visited, of calls and of deps left, compared in this order. That a decreasing
  sequence of such measures is finite is the well-foundedness of this order, which is
  not proved again here.
- `IInv` was checked with TLC on the instance of the run before it was proved.

`ConnectionPool`: `TypeCorrect` and a theorem for each property of the run
(`NoSharing`, `NoneDestroyedInUse`, `SizeKept`, `LeakOnlyByTimeout`, `NoMissedRelease`,
`Refinement`).

- `OneHolder` is not inductive: `Exclusive` also counts the calls that are still
  validating or destroying an uncontended connection, and says that an owned one is
  marked; `Spared` says that no cleanup has begun to destroy it; `PlaceKept` that,
  without overlapping creations, the place of the creation in flight is not taken;
  `PickedExists` and `WaitersQueued` (the queue holds the calls that wait) that
  hand-overs serve calls that wait, with connections that exist. `IInv` was checked
  with TLC before it was proved.
- `Refinement`: `Spec => LeasesImplemented`. What a step does to the set of connections
  (`ConnectionsRefine`) and what it does to one call (`CallRefines`) are shown apart. A
  call is given what it has worked on (`PickedExists`, `Spared`), and `Exclusive` after
  the step says that no other call has it; what a step destroys nobody has, by `Spared`
  after the step.

`JobScheduler`: `TypesHold`, `TypeCorrect`, `LeaseExclusive`, `InvariantHolds`,
`OneTaskKept`, `NoSecondSuccess`, `RunningAttended`, `Refinement`.

- The idea of `IInv` is that only the node that holds the lease deals with an
  undisturbed job that has no task. Of every such job: it has one task (`OneTask`);
  the loop about to mark it holds the lease and has the task on its own node
  (`Marking`); the row of a job with a task says running or is about to (`Covered`),
  so no list names it; what is listed under the lease has no task (`Listed`); and what
  has succeeded has no task, is not listed, and its row is not pending (`Settled`).
  `KnownOnly` (a job never scheduled appears nowhere) and `FailedDisturbed` (a worker
  with an error has a disturbed job) exclude the remaining sources of tasks.
- `Attended` needs `Refreshed`: the copies the recovery saves last do not say
  running, because it has reset those before.
- `Refinement`: `Spec => LifecycleImplemented`. `JobLifecycle` knows a phase and the
  set of nodes that have taken a job; submission is `Take`, and a step of a disturbed
  job is `Spoil`.

Only model-checked: liveness under fairness, which is out of the prover's reach.
Every invariant and every action property of a passing run is stated by a theorem.

## 5. Not modelled

Of 4053: the reading routes, `getStats` and the lists; `deleteTask`, which nothing
calls; the retry on another port when the port is taken; the SQLite library, taken to be atomic and durable per
statement; several processes on one file (see the plan). Of 5012: the HTTP client,
the retry loop, health checks and logging of the SDK, which are sequential. Of 5044:
cron parsing, dependency checks, outputs and notifiers as such (their results are
choices), the autoscaling of workers, `PriorityQueue`, which `main.go` does not use,
and the dead-letter routes, which never find a row. Liveness of the pool and of the
scheduler is not stated: a waiter beside free room proceeds only with a later
release (`ConnectionPool.ts:250`), a waiting job only with a client
(`scheduler.go:437`), and nothing in the repository promises more.

Of the other programs: all, with reasons in `PROJECT.json`. Most of the repository's
lines are web pages and request handlers with one transaction each, which have
nothing of the kind that interleavings or crashes could break.

## 6. Plan

Done: `TaskLifecycle`, `TaskQueue`, `WebhookDelivery`, `Webhook`, `DependencyCycle`, `PoolLeases`,
`ConnectionPool`, `JobLifecycle`, `JobScheduler`, and the proofs of all of them. Left, in this order:

1. `Shared` (4053): two processes on one file, for the lock check without a UNIQUE
   constraint and for the recovery of a process that is only suspended.
2. `Hub` (5014): rooms, registration, closing of channels; joining after the hub has
   unregistered a client (`hub.go:85`), and a user set offline while another
   connection of theirs is open (`hub.go:74`).
3. Larger instances of `JobScheduler`: two jobs that compete for a queue, two faults.
4. Proofs: what the abstract specifications imply by themselves (of `PoolLeases`, that
   what is served is unspoiled and not shared; of `JobLifecycle`, that an undisturbed
   job succeeds once), so that each refinement theorem carries over more than steps.
