------------------------------ MODULE TaskQueue ------------------------------
(***************************************************************************)
(* The task queue server of 4053-node-api-taskqueue: one Node.js process   *)
(* over one SQLite file.                                                   *)
(*                                                                         *)
(* better-sqlite3 is synchronous, so what one callback of the event loop   *)
(* does is atomic for every other callback, and an action below is one     *)
(* such turn.  Two things are finer than a turn.  A poll of the scheduler  *)
(* is several steps, `ready' holding what is left of the list it fetched,  *)
(* and no other turn starts meanwhile.  And the process can be killed      *)
(* between two statements of a turn: the ...Torn actions leave in the      *)
(* database what a killed turn had already written.                        *)
(*                                                                         *)
(* Tables survive a crash; timers, promises and the pool do not.           *)
(***************************************************************************)
EXTENDS Integers, Sequences, FiniteSets, Functions

CONSTANTS
  Tasks,            \* ids of the tasks clients may create
  Resources,        \* names used in locked_resources
  Batches,          \* values of batch_id
  BatchTasks,       \* [Batches -> SUBSET Tasks], the rows with a batch_id
  Deps,             \* [Tasks -> Seq(Tasks)], depend_tasks as the client sent it
  LockedResources,  \* [Tasks -> Seq(Resources)], locked_resources likewise
  Priority,         \* [Tasks -> 0..9]
  MaxRetries,       \* [Tasks -> Nat], retry_config.max_retries
  MaxConcurrency,   \* workers in the pool
  MaxBoots,         \* bound: how often the process is started
  GracefulStops,    \* whether SIGINT or SIGTERM may be sent (else only kills)
  NoTask            \* worker.currentTask = null

Slots == 1..MaxConcurrency
Workers == (1..MaxBoots) \X Slots   \* the n-th worker of the b-th start
NoWorker == <<0, 0>>                \* worker_id IS NULL
Statuses == {"pending", "scheduled", "running", "completed", "failed", "cancelled"}

ASSUME TasksAssumption == IsFiniteSet(Tasks) /\ NoTask \notin Tasks
ASSUME BoundsAssumption == MaxConcurrency \in Nat \ {0} /\ MaxBoots \in Nat \ {0}
ASSUME RequestAssumption ==
  /\ Deps \in [Tasks -> Seq(Tasks)]
  /\ LockedResources \in [Tasks -> Seq(Resources)]
  /\ Priority \in [Tasks -> 0..9]
  /\ MaxRetries \in [Tasks -> Nat]
  /\ BatchTasks \in [Batches -> SUBSET Tasks]

VARIABLES
  \* the database
  status,       \* tasks.status, or "none" when there is no such row
  owner,        \* tasks.worker_id
  retryCount,   \* tasks.retry_count
  createdAt,    \* tasks.created_at, as a rank
  locks,        \* rows of resource_locks that have not expired
  row,          \* rows of workers: "absent", "fresh", "stale" or "inactive"
  boot,         \* how often the process has been started
  \* the process
  up,           \* it is running
  current,      \* worker.currentTask, which is also the execution in flight
  runningTasks, \* WorkerPool.runningTasks
  ready,        \* what the poll under way has still to assign
  completing,   \* completed tasks whose setImmediate callback has not run
  notifications,\* queue.js pendingNotifications
  retryTimers,  \* number of setTimeout(retryTask) outstanding per task
  \* history
  announced     \* number of calls of webhook.notifyTaskComplete per task

dbVars == <<status, owner, retryCount, createdAt, locks, row, boot>>
poolVars == <<current, runningTasks>>
volatileVars == <<poolVars, ready, completing, notifications, retryTimers>>
vars == <<dbVars, up, volatileVars, announced>>

Created == {t \in Tasks : status[t] # "none"}
Rows(t, rs, w) == {[resource |-> r, task |-> t, worker |-> w] : r \in rs}
Locks == [resource : Resources, task : Tasks, worker : Workers]

Init ==
  /\ status = [t \in Tasks |-> "none"]
  /\ owner = [t \in Tasks |-> NoWorker]
  /\ retryCount = [t \in Tasks |-> 0]
  /\ createdAt = [t \in Tasks |-> 0]
  /\ locks = {}
  /\ row = [w \in Workers |-> "absent"]
  /\ boot = 0
  /\ up = FALSE
  /\ current = [s \in Slots |-> NoTask]
  /\ runningTasks = 0
  /\ ready = <<>>
  /\ completing = {}
  /\ notifications = {}
  /\ retryTimers = [t \in Tasks |-> 0]
  /\ announced = [t \in Tasks |-> 0]

Idle == up /\ ready = <<>>   \* the event loop is free to start a turn
Polling == up /\ ready # <<>>
InFlight(t) == \E s \in Slots : current[s] = t

-----------------------------------------------------------------------------
(* state.js *)

TRANSITIONS ==
  [none      |-> {},
   pending   |-> {"scheduled", "cancelled"},
   scheduled |-> {"running", "cancelled"},
   running   |-> {"completed", "failed", "cancelled"},
   failed    |-> {"scheduled"},
   completed |-> {},
   cancelled |-> {}]

isValidTransition(from, to) == to \in TRANSITIONS[from]

\* MUTANT of CanRetry: one retry too many
CanRetryOnceMore(t) == status[t] = "failed" /\ retryCount[t] <= MaxRetries[t]
\* retryTask: the row keeps its worker_id
CanRetry(t) == status[t] = "failed" /\ retryCount[t] + 1 <= MaxRetries[t]
\* MUTANT of OneMore: counts the retries that are left
OneLess(n) == n - 1
OneMore(n) == n + 1
retryTask(t) ==
  /\ status' = [status EXCEPT ![t] = "scheduled"]
  /\ retryCount' = [retryCount EXCEPT ![t] = OneMore(@)]

-----------------------------------------------------------------------------
(* database.js and queue.js: creating tasks *)

\* database.checkCycle over the tasks of a request and those in the database, as
\* what it decides; module DependencyCycle has the search itself, and shows
\* that this is what it decides.
checkCycle(S) ==
  \E C \in SUBSET (Created \cup S) :
    C # {} /\ \A c \in C : Range(Deps[c]) \cap C # {}

DepsExist(S) == \A t \in S : Range(Deps[t]) \subseteq Created \cup S

\* The rows of S are inserted in one transaction; then those of `moved', tasks
\* without dependencies, are moved on to scheduled one by one.
InsertTasks(S, moved) ==
  /\ status' = [t \in Tasks |-> IF t \in moved THEN "scheduled"
                                ELSE IF t \in S THEN "pending" ELSE status[t]]
  /\ createdAt' = [t \in Tasks |-> IF t \in S THEN Cardinality(Created) ELSE createdAt[t]]
  /\ UNCHANGED <<owner, retryCount, locks, row, boot, announced>>

NoDeps(S) == {t \in S : Deps[t] = <<>>}

\* POST /tasks: the id is new, so a task cannot depend on itself
Enqueue(t) ==
  /\ Idle
  /\ t \notin Created
  /\ Range(Deps[t]) \subseteq Created
  /\ ~checkCycle({t})
  /\ InsertTasks({t}, NoDeps({t}))
  /\ UNCHANGED <<up, volatileVars>>

\* POST /tasks/batch: the client may choose the ids, so any dependency graph
\* can be sent; an id in use makes the transaction fail.
BatchEnqueue(S) ==
  /\ Idle
  /\ S # {} /\ S \cap Created = {}
  /\ DepsExist(S)
  /\ ~checkCycle(S)
  /\ InsertTasks(S, NoDeps(S))
  /\ UNCHANGED <<up, volatileVars>>

-----------------------------------------------------------------------------
(* The other handlers of server.js *)

\* PUT /tasks/:id/cancel. The execution of a running task goes on, and its
\* locks stay.
Cancel(t) ==
  /\ Idle
  /\ status[t] \notin {"completed", "cancelled"}
  /\ isValidTransition(status[t], "cancelled")
  /\ status' = [status EXCEPT ![t] = "cancelled"]
  /\ UNCHANGED <<owner, retryCount, createdAt, locks, row, boot, up, volatileVars, announced>>

\* DELETE /tasks/batch/:batch_id
CancelBatch(b) ==
  LET hit == {t \in BatchTasks[b] : status[t] \in {"pending", "scheduled"}} IN
  /\ Idle
  /\ hit # {}
  /\ status' = [t \in Tasks |-> IF t \in hit THEN "cancelled" ELSE status[t]]
  /\ UNCHANGED <<owner, retryCount, createdAt, locks, row, boot, up, volatileVars, announced>>

\* PUT /tasks/:id/retry
Retry(t) ==
  /\ Idle
  /\ CanRetry(t)
  /\ retryTask(t)
  /\ UNCHANGED <<owner, createdAt, locks, row, boot, up, volatileVars, announced>>

-----------------------------------------------------------------------------
(* scheduler.js: the poll *)

\* processNotifications: every dependency is looked up
Completed(t) == {d \in Range(Deps[t]) : status[d] = "completed"}
NotifiedTasks ==
  {t \in Tasks : /\ status[t] = "pending"
                 /\ Range(Deps[t]) \cap notifications # {}
                 /\ Completed(t) = Range(Deps[t])}

\* MUTANTS of PendingTasksWithMetDeps: one dependency may be missing; promotion
\* is left to the notifications
PendingTasksAlmostMet ==
  {t \in Tasks : status[t] = "pending" /\ Cardinality(Completed(t)) + 1 >= Len(Deps[t])}
PendingTasksLeft == {}

\* getPendingTasksWithMetDeps: COUNT( * ) over id IN (...) counts a row once
\* however often the list names it, and is compared with the list's length
PendingTasksWithMetDeps ==
  {t \in Tasks : status[t] = "pending" /\ Cardinality(Completed(t)) = Len(Deps[t])}

Promote(S) == [t \in Tasks |-> IF t \in S THEN "scheduled" ELSE status[t]]

\* ORDER BY priority DESC, created_at ASC
Before(t, u) ==
  \/ Priority[t] > Priority[u]
  \/ Priority[t] = Priority[u] /\ createdAt[t] < createdAt[u]

\* MUTANT of FirstInOrder: the limit is applied before the order
FirstThenOrdered(q, S) ==
  IsInjective(q) /\ \A i, j \in DOMAIN q : i < j => ~Before(q[j], q[i])

\* getScheduledTasks(limit): q is a result the query may give for the rows S
FirstInOrder(q, S) ==
  /\ IsInjective(q)
  /\ \A i, j \in DOMAIN q : i < j => ~Before(q[j], q[i])
  /\ \A u \in S \ Range(q) : \A i \in DOMAIN q : ~Before(u, q[i])
FetchReady(q, S) ==
  /\ Len(q) = IF Cardinality(S) < MaxConcurrency THEN Cardinality(S) ELSE MaxConcurrency
  /\ FirstInOrder(q, S)

\* poll up to and with fetchReadyTasks
Poll ==
  /\ Idle
  /\ LET promoted == Promote(NotifiedTasks \cup PendingTasksWithMetDeps)
         scheduled == {t \in Tasks : promoted[t] = "scheduled"}
     IN /\ status' = promoted
        /\ \E n \in 0..MaxConcurrency : \E q \in [1..n -> scheduled] :
             FetchReady(q, scheduled) /\ ready' = q
  /\ notifications' = {}
  /\ UNCHANGED <<owner, retryCount, createdAt, locks, row, boot, up, poolVars,
                 completing, retryTimers, announced>>

\* the setInterval that only processes notifications
DependencyCheck ==
  /\ Idle
  /\ notifications # {}
  /\ status' = Promote(NotifiedTasks)
  /\ notifications' = {}
  /\ UNCHANGED <<owner, retryCount, createdAt, locks, row, boot, up, poolVars, ready,
                 completing, retryTimers, announced>>

-----------------------------------------------------------------------------
(* worker.js: the loop of the poll over the fetched tasks *)

FreeSlots == {s \in Slots : current[s] = NoTask}
IsFirstFree(s) == s \in FreeSlots /\ \A o \in FreeSlots : s <= o

isResourceLocked(r) == \E l \in locks : l.resource = r

\* acquireResourceLocks gets through the first k resources of t; a resource
\* named twice is found locked by the row just inserted
CanLockFirst(t, k) ==
  /\ \A i, j \in 1..k : LockedResources[t][i] = LockedResources[t][j] => i = j
  /\ \A i \in 1..k : ~isResourceLocked(LockedResources[t][i])
FirstResources(t, k) == {LockedResources[t][i] : i \in 1..k}
CanLock(t) == CanLockFirst(t, Len(LockedResources[t]))

\* MUTANTS of WithoutLocksOf: forgets to release; releases by resource
WithLocksOf(t) == locks
WithoutLocksOnResourcesOf(t) == {l \in locks : l.resource \notin Range(LockedResources[t])}
WithoutLocksOf(t) == {l \in locks : l.task # t}   \* releaseResourceLocksForTask

\* No worker is available: the loop breaks.
PollBreak ==
  /\ Polling
  /\ FreeSlots = {}
  /\ ready' = <<>>
  /\ UNCHANGED <<dbVars, up, poolVars, completing, notifications, retryTimers, announced>>

\* assignTask finds a resource locked: the rows of the task are deleted, an
\* earlier assignment's too, and the worker stays available.
SkipLocked ==
  /\ Polling
  /\ FreeSlots # {}
  /\ ~CanLock(Head(ready))
  /\ locks' = WithoutLocksOf(Head(ready))
  /\ ready' = Tail(ready)
  /\ UNCHANGED <<status, owner, retryCount, createdAt, row, boot, up, poolVars, completing,
                 notifications, retryTimers, announced>>

\* assignTask: lock rows, running, currentTask.  executeTask itself starts in
\* a later turn, in which it only starts a timer; its early return needs a
\* worker of a stopped pool, whose process is gone.
AssignTask(s) ==
  LET t == Head(ready) IN
  /\ Polling
  /\ IsFirstFree(s)
  /\ CanLock(t)
  /\ isValidTransition(status[t], "running")
  /\ locks' = locks \cup Rows(t, Range(LockedResources[t]), <<boot, s>>)
  /\ status' = [status EXCEPT ![t] = "running"]
  /\ owner' = [owner EXCEPT ![t] = <<boot, s>>]
  /\ current' = [current EXCEPT ![s] = t]
  /\ runningTasks' = runningTasks + 1
  /\ ready' = Tail(ready)
  /\ UNCHANGED <<retryCount, createdAt, row, boot, up, completing, notifications, retryTimers,
                 announced>>

-----------------------------------------------------------------------------
(* worker.js: the end of an execution *)

\* transitionTo(completed or failed): the update, then the task's locks
TransitionTo(t, new) ==
  /\ isValidTransition(status[t], new)
  /\ status' = [status EXCEPT ![t] = new]
  /\ locks' = WithoutLocksOf(t)

\* MUTANTS of FreeWorker: forgets the count; never runs
FreeWorkerUncounted(s) ==
  current' = [current EXCEPT ![s] = NoTask] /\ UNCHANGED runningTasks
KeepWorker(s) == UNCHANGED poolVars

\* the finally block
FreeWorker(s) ==
  /\ current' = [current EXCEPT ![s] = NoTask]
  /\ runningTasks' = runningTasks - 1

Succeed(s) ==
  LET t == current[s] IN
  /\ Idle /\ t # NoTask
  /\ TransitionTo(t, "completed")
  /\ completing' = completing \cup {t}
  /\ FreeWorker(s)
  /\ UNCHANGED <<owner, retryCount, createdAt, row, boot, up, ready, notifications,
                 retryTimers, announced>>

\* MUTANT of RetriesLeft: the last retry is taken for no retry
RetriesButOneLeft(t) == retryCount[t] + 1 < MaxRetries[t]
RetriesLeft(t) == retryCount[t] < MaxRetries[t]

Fail(s) ==
  LET t == current[s] IN
  /\ Idle /\ t # NoTask
  /\ TransitionTo(t, "failed")
  /\ \/ RetriesLeft(t) /\ retryTimers' = [retryTimers EXCEPT ![t] = @ + 1] /\ UNCHANGED announced
     \/ ~RetriesLeft(t) /\ announced' = [announced EXCEPT ![t] = @ + 1] /\ UNCHANGED retryTimers
  /\ FreeWorker(s)
  /\ UNCHANGED <<owner, retryCount, createdAt, row, boot, up, ready, completing, notifications>>

\* The task was cancelled meanwhile: transitionTo throws, which is only logged.
FinishCancelled(s) ==
  LET t == current[s] IN
  /\ Idle /\ t # NoTask
  /\ ~isValidTransition(status[t], "completed")
  /\ ~isValidTransition(status[t], "failed")
  /\ FreeWorker(s)
  /\ UNCHANGED <<dbVars, up, ready, completing, notifications, retryTimers, announced>>

\* the setImmediate callback of a completed task
AnnounceCompleted(t) ==
  /\ Idle
  /\ t \in completing
  /\ completing' = completing \ {t}
  /\ notifications' = notifications \cup {t}
  /\ announced' = [announced EXCEPT ![t] = @ + 1]
  /\ UNCHANGED <<dbVars, up, poolVars, ready, retryTimers>>

\* A retry timer fires; what retryTask throws is only logged.
RetryTimer(t) ==
  /\ Idle
  /\ retryTimers[t] > 0
  /\ retryTimers' = [retryTimers EXCEPT ![t] = @ - 1]
  /\ \/ CanRetry(t) /\ retryTask(t)
     \/ ~CanRetry(t) /\ UNCHANGED <<status, retryCount>>
  /\ UNCHANGED <<owner, createdAt, locks, row, boot, up, poolVars, ready, completing,
                 notifications, announced>>

-----------------------------------------------------------------------------
(* worker.js and database.js: heartbeats and the recovery of dead workers *)

\* MUTANTS of OwnWorkers: no worker is refreshed before the dead are looked
\* for; or the workers of every start are
NoWorkers == {}
WorkersOfAllStarts == {<<b, s>> : b \in 1..boot, s \in Slots}

OwnWorkers == {<<boot, s>> : s \in Slots}

\* MUTANTS of Lost: all that runs anywhere; what has not run yet
LostAnywhere(W) == {t \in Tasks : W # {} /\ status[t] = "running"}
LostUnstarted(W) == {t \in Tasks : status[t] = "scheduled" /\ owner[t] \in W}
Lost(W) == {t \in Tasks : status[t] = "running" /\ owner[t] \in W}

\* recoverTasksForWorker for each of W, whose rows are then inactive
RecoverTasks(W) ==
  /\ status' = [t \in Tasks |-> IF t \in Lost(W) THEN "scheduled" ELSE status[t]]
  /\ owner' = [t \in Tasks |-> IF t \in Lost(W) THEN NoWorker ELSE owner[t]]

LocksWithout(W) == {l \in locks : l.worker \notin W}

\* heartbeatAll, once it got through W
Beaten(W) == [w \in Workers |-> IF w \in W THEN "fresh" ELSE row[w]]

\* getDeadWorkers, which by then finds no worker of this process
Dead == {w \in Workers : Beaten(OwnWorkers)[w] = "stale"}

\* the rows when heartbeatAll is done and W are recovered
Retired(W) == [w \in Workers |-> IF w \in W THEN "inactive" ELSE Beaten(OwnWorkers)[w]]

\* The heartbeat interval: heartbeatAll, then recoverDeadWorkers.
Heartbeat ==
  /\ Idle
  /\ RecoverTasks(Dead)
  /\ locks' = LocksWithout(Dead)
  /\ row' = Retired(Dead)
  /\ UNCHANGED <<retryCount, createdAt, boot, up, volatileVars, announced>>

-----------------------------------------------------------------------------
(* Time *)

\* 60 seconds without a heartbeat of the b-th process, which is gone, or whose
\* machine was suspended
GoesStale(b) ==
  /\ \E s \in Slots : row[<<b, s>>] = "fresh"
  /\ row' = [w \in Workers |-> IF w[1] = b /\ row[w] = "fresh" THEN "stale" ELSE row[w]]
  /\ UNCHANGED <<status, owner, retryCount, createdAt, locks, boot, up, volatileVars, announced>>

\* The 120 seconds of a lock are over: isResourceLocked deletes the row before
\* anything looks at it.  An execution takes at most 0.6 seconds.
LockExpires(l) ==
  /\ l \in locks
  /\ ~InFlight(l.task)
  /\ locks' = locks \ {l}
  /\ UNCHANGED <<status, owner, retryCount, createdAt, row, boot, up, volatileVars, announced>>

-----------------------------------------------------------------------------
(* Starting, stopping and killing the process *)

\* startServer, with scheduler.start and pool.start
Start ==
  /\ ~up
  /\ boot < MaxBoots
  /\ boot' = boot + 1
  /\ up' = TRUE
  /\ row' = [w \in Workers |-> IF w[1] = boot + 1 THEN "fresh" ELSE row[w]]
  /\ UNCHANGED <<status, owner, retryCount, createdAt, locks, volatileVars, announced>>

\* The process is gone, and with it its memory; the last start is not ended,
\* so that behaviours say what becomes of the tasks in the end.
Die ==
  /\ up /\ boot < MaxBoots
  /\ up' = FALSE
  /\ current' = [s \in Slots |-> NoTask]
  /\ runningTasks' = 0
  /\ ready' = <<>>
  /\ completing' = {}
  /\ notifications' = {}
  /\ retryTimers' = [t \in Tasks |-> 0]

Crash == Die /\ UNCHANGED <<dbVars, announced>>

\* SIGINT, SIGTERM: scheduler.stop deactivates the workers; running tasks stay
\* as they are.
gracefulShutdown ==
  /\ GracefulStops
  /\ Idle
  /\ Die
  /\ row' = [w \in Workers |-> IF w \in OwnWorkers THEN "inactive" ELSE row[w]]
  /\ UNCHANGED <<status, owner, retryCount, createdAt, locks, boot, announced>>

\* Killed after the insertions of a request, with `moved' already scheduled.
EnqueueTorn(S, moved) ==
  /\ Idle
  /\ S # {} /\ S \cap Created = {}
  /\ DepsExist(S)
  /\ ~checkCycle(S)
  /\ moved # NoDeps(S)
  /\ InsertTasks(S, moved)
  /\ Die

\* Killed in assignTask, after k insertions of lock rows.
AssignTorn(s) ==
  LET t == Head(ready) IN
  /\ Polling
  /\ IsFirstFree(s)
  /\ \E k \in 1..Len(LockedResources[t]) :
       /\ CanLockFirst(t, k)
       /\ locks' = locks \cup Rows(t, FirstResources(t, k), <<boot, s>>)
  /\ UNCHANGED <<status, owner, retryCount, createdAt, row, boot, announced>>
  /\ Die

\* Killed in transitionTo, before the locks are released.
FinishTorn(s, new) ==
  LET t == current[s] IN
  /\ Idle /\ t # NoTask
  /\ isValidTransition(status[t], new)
  /\ status' = [status EXCEPT ![t] = new]
  /\ UNCHANGED <<owner, retryCount, createdAt, locks, row, boot, announced>>
  /\ Die

\* Killed in a poll or a dependency check, when S were promoted: those the
\* notifications are about come first.
PromoteTorn(S) ==
  /\ Idle
  /\ S # {}
  /\ S \subseteq NotifiedTasks \/ NotifiedTasks \subseteq S
  /\ status' = Promote(S)
  /\ UNCHANGED <<owner, retryCount, createdAt, locks, row, boot, announced>>
  /\ Die

\* Killed in recoverDeadWorkers, when D were recovered and P, one worker or
\* none, was in part: its tasks at least, but not its own row.
RecoverTorn(D, P) ==
  /\ Idle
  /\ Cardinality(P) <= 1
  /\ RecoverTasks(D \cup P)
  /\ locks' \in {LocksWithout(D), LocksWithout(D \cup P)}
  /\ row' = Retired(D)
  /\ UNCHANGED <<retryCount, createdAt, boot, announced>>
  /\ Die

\* The loops over the own workers go through them in the order of their creation.
FirstWorkers(b, k) == {<<b, s>> : s \in 1..k}

\* Killed in heartbeatAll, when k workers were refreshed.
HeartbeatTorn(k) ==
  /\ Idle
  /\ row' = Beaten(FirstWorkers(boot, k))
  /\ UNCHANGED <<status, owner, retryCount, createdAt, locks, boot, announced>>
  /\ Die

\* Killed in WorkerPool.stop, when k workers were deactivated.
StopTorn(k) ==
  /\ GracefulStops
  /\ Idle
  /\ row' = [w \in Workers |-> IF w \in FirstWorkers(boot, k) THEN "inactive" ELSE row[w]]
  /\ UNCHANGED <<status, owner, retryCount, createdAt, locks, boot, announced>>
  /\ Die

\* Killed in WorkerPool.start, when k workers were registered.
StartTorn(k) ==
  /\ ~up
  /\ boot + 1 < MaxBoots
  /\ boot' = boot + 1
  /\ row' = [w \in Workers |-> IF w \in FirstWorkers(boot + 1, k) THEN "fresh" ELSE row[w]]
  /\ UNCHANGED <<status, owner, retryCount, createdAt, locks, up, volatileVars, announced>>

Torn ==
  \/ \E S \in SUBSET Tasks : \E moved \in SUBSET NoDeps(S) : EnqueueTorn(S, moved)
  \/ \E s \in Slots : AssignTorn(s)
  \/ \E s \in Slots, new \in {"completed", "failed"} : FinishTorn(s, new)
  \/ \E S \in SUBSET (NotifiedTasks \cup PendingTasksWithMetDeps) : PromoteTorn(S)
  \/ \E D \in SUBSET Dead : \E P \in SUBSET (Dead \ D) : RecoverTorn(D, P)
  \/ \E k \in 1..MaxConcurrency - 1 : HeartbeatTorn(k) \/ StopTorn(k) \/ StartTorn(k)

-----------------------------------------------------------------------------
Creation ==
  \/ \E t \in Tasks : Enqueue(t)
  \/ \E S \in SUBSET Tasks : BatchEnqueue(S)

Request ==
  \/ Creation
  \/ \E t \in Tasks : Cancel(t)
  \/ \E b \in Batches : CancelBatch(b)
  \/ \E t \in Tasks : Retry(t)

Scheduler ==
  \/ Poll
  \/ DependencyCheck
  \/ PollBreak
  \/ SkipLocked
  \/ \E s \in Slots : AssignTask(s)

Execution ==
  \/ \E s \in Slots : Succeed(s)
  \/ \E s \in Slots : Fail(s)
  \/ \E s \in Slots : FinishCancelled(s)
  \/ \E t \in Tasks : AnnounceCompleted(t)
  \/ \E t \in Tasks : RetryTimer(t)

Environment ==
  \/ Heartbeat
  \/ \E b \in 1..MaxBoots : GoesStale(b)
  \/ \E l \in locks : LockExpires(l)
  \/ Start
  \/ Crash
  \/ gracefulShutdown
  \/ Torn

Next == Request \/ Scheduler \/ Execution \/ Environment

Spec == Init /\ [][Next]_vars

\* An ended process is started again and time passes.  The callbacks that are
\* due when a poll holds the event loop run after it, before the next poll,
\* which is due a second later: they are enabled again and again rather than
\* continuously, hence SF.  Nothing is assumed of the order in which callbacks
\* run or of how an execution ends, nor of clients, and nobody need ever stop or
\* suspend the process.
Fairness ==
  /\ WF_vars(Poll)
  /\ WF_vars(PollBreak \/ SkipLocked \/ \E s \in Slots : AssignTask(s))
  /\ SF_vars(Execution)
  /\ SF_vars(Heartbeat)
  /\ WF_vars(\E b \in 1..MaxBoots : (b < boot \/ ~up) /\ GoesStale(b))
  /\ WF_vars(\E l \in locks : LockExpires(l))
  /\ WF_vars(Start)

FairSpec == Spec /\ Fairness

-----------------------------------------------------------------------------
(* Properties *)

DatabaseTypeOK ==
  /\ status \in [Tasks -> Statuses \cup {"none"}]
  /\ owner \in [Tasks -> Workers \cup {NoWorker}]
  /\ retryCount \in [Tasks -> Nat]
  /\ createdAt \in [Tasks -> Nat]
  /\ locks \subseteq Locks
  /\ row \in [Workers -> {"absent", "fresh", "stale", "inactive"}]
  /\ boot \in 0..MaxBoots

ProcessTypeOK ==
  /\ up \in BOOLEAN /\ (up => boot > 0)
  /\ current \in [Slots -> Tasks \cup {NoTask}]
  /\ runningTasks \in Int
  /\ ready \in Seq(Tasks)
  /\ completing \in SUBSET Tasks
  /\ notifications \in SUBSET Tasks
  /\ retryTimers \in [Tasks -> Nat]
  /\ announced \in [Tasks -> Nat]

\* Every variable has its type, and a process that is up has been started.
TypeOK == DatabaseTypeOK /\ ProcessTypeOK

\* A task is scheduled, and executed, only when every task it depends on is
\* completed, whichever of the two promotion paths, crash or retry led there.
DepsRespected ==
  \A t \in Tasks : status[t] \in {"scheduled", "running", "completed", "failed"} =>
                     Completed(t) = Range(Deps[t])

\* Two executions in flight never use the same resource, although
\* resource_locks has no UNIQUE constraint and a cancelled task executes on.
ResourceExclusion ==
  \A s1, s2 \in Slots :
    /\ s1 # s2 /\ current[s1] # NoTask /\ current[s2] # NoTask
    => Range(LockedResources[current[s1]]) \cap Range(LockedResources[current[s2]]) = {}

\* A task in flight is in one slot only, and has not been scheduled again
\* behind the execution's back, by recovery or by a retry.
ExecutedOnce ==
  \A s \in Slots : current[s] # NoTask =>
    /\ \A s2 \in Slots : current[s2] = current[s] => s2 = s
    /\ \/ status[current[s]] = "running" /\ owner[current[s]] = <<boot, s>>
       \/ status[current[s]] = "cancelled"

\* The count that /workers reports is the number of busy workers.
RunningCount == runningTasks = Cardinality(Slots \ FreeSlots)

\* At most one lock row per resource; and a row outlives the execution it was
\* taken for only if the task was cancelled or the process died.
LocksAccountedFor ==
  /\ \A l1, l2 \in locks : l1.resource = l2.resource => l1 = l2
  /\ \A l \in locks :
       \/ \E s \in Slots : current[s] = l.task /\ l.worker = <<boot, s>>
       \/ status[l.task] = "cancelled"
       \/ l.worker[1] < boot
       \/ ~up

\* A task is retried at most MaxRetries times, and API retries that race the
\* retry timers do not multiply the timers.
RetryBudget ==
  \A t \in Tasks :
    /\ retryCount[t] <= MaxRetries[t]
    /\ retryTimers[t] <= retryCount[t] + (IF status[t] = "failed" THEN 1 ELSE 0)

\* As long as the process has not been restarted, a failed task with retries
\* left has a timer that will retry it, even when API retries raced it.
RetryArmed ==
  \A t \in Tasks :
    boot = 1 /\ up /\ status[t] = "failed" /\ retryCount[t] < MaxRetries[t] => retryTimers[t] > 0

Final(t) ==
  \/ status[t] = "completed"
  \/ status[t] = "failed" /\ retryCount[t] = MaxRetries[t]

\* The webhook of a task is called at most once, and only for its final
\* outcome: not for a failure that is retried, nor for a task run again.
AnnouncedOnce == \A t \in Tasks : announced[t] <= 1 /\ (announced[t] = 1 => Final(t))

\* A running task is in flight or belongs to a worker that the recovery of dead
\* workers will find.
Recoverable(t) ==
  \/ \E s \in Slots : current[s] = t /\ owner[t] = <<boot, s>>
  \/ row[owner[t]] \in {"fresh", "stale"} /\ (owner[t][1] < boot \/ ~up)
Abandoned(t) == status[t] = "running" /\ ~Recoverable(t)
RunningRecoverable == \A t \in Tasks : ~Abandoned(t)

\* Nothing but a graceful stop, finished or not, abandons a running task: no kill, at
\* whatever point of an assignment, a completion or a recovery, no suspension, and no
\* second start.
OnlyStopsAbandon ==
  [][\A t \in Tasks : Abandoned(t)' =>
       Abandoned(t) \/ gracefulShutdown \/ \E k \in Slots : StopTorn(k)]_vars

\* Nothing moves a task out of a final status.
FinalIsFinal ==
  [][\A t \in Tasks : Final(t) \/ status[t] = "cancelled" => status'[t] = status[t]]_vars

\* A scheduled task that needs no lock is not overtaken by one that comes after
\* it in the order of priority and creation, however the polls, the retries and
\* the restarts fall.
PriorityRespected ==
  [][\A t, u \in Tasks :
       ~ /\ status[t] = "scheduled" /\ status'[t] = "running"
         /\ status[u] = "scheduled" /\ LockedResources[u] = <<>>
         /\ Before(u, t)]_vars

\* What module TaskLifecycle promises.
Lifecycle == INSTANCE TaskLifecycle WITH
  Waits <- [t \in Tasks |-> Range(Deps[t])],
  Uses <- [t \in Tasks |-> Range(LockedResources[t])],
  state <- status,
  retries <- retryCount,
  executing <- {t \in Tasks : InFlight(t)}
LifecycleImplemented == Lifecycle!Spec

\* A task whose dependencies are completed is promoted, provided its list
\* names each of them once.
DistinctDepsPromoted ==
  \A t \in Tasks : IsInjective(Deps[t]) =>
    (status[t] = "pending" /\ Completed(t) = Range(Deps[t])) ~> status[t] # "pending"

\* The same without the proviso.
DepsPromoted ==
  \A t \in Tasks :
    (status[t] = "pending" /\ Completed(t) = Range(Deps[t])) ~> status[t] # "pending"

\* A scheduled task is started or cancelled in the end, although tasks preferred to
\* it may fill the list of every poll while they wait for a lock that a cancelled or
\* killed execution has left.
ScheduledTaskRuns ==
  \A t \in Tasks : IsInjective(LockedResources[t]) =>
    status[t] = "scheduled" ~> status[t] # "scheduled"

\* Without graceful stops, no task stays running: it ends, is cancelled, or is
\* recovered after a crash.
RunningTaskLeaves == \A t \in Tasks : status[t] = "running" ~> status[t] # "running"

=============================================================================
