--------------------------- MODULE TaskQueueProofs ---------------------------
(* Proofs about TaskQueue, for every workload and every number of workers  *)
(* and starts.                                                             *)
EXTENDS TaskQueue, TLAPS, FiniteSetTheorems, FunctionTheorems

USE DEF OneMore, RetriesLeft, Lost

\* What makes the invariants of TaskQueue inductive: a process that is down does
\* nothing; what a poll has still to assign is scheduled, once; an execution
\* holds its locks; and a completed task is yet to be announced while its
\* callback is due.
DownIsEmpty == ~up => ready = <<>> /\ \A s \in Slots : current[s] = NoTask
ReadyIsScheduled ==
  /\ \A i, j \in DOMAIN ready : ready[i] = ready[j] => i = j
  /\ \A i \in DOMAIN ready : status[ready[i]] = "scheduled"
LocksHeld ==
  \A s \in Slots : current[s] # NoTask =>
    Rows(current[s], Range(LockedResources[current[s]]), <<boot, s>>) \subseteq locks
LocksAreOld == \A l \in locks : l.worker[1] <= boot
CompletingIsCompleted ==
  \A t \in completing : status[t] = "completed" /\ announced[t] = 0

IInv ==
  /\ TypeOK
  /\ DepsRespected /\ RunningCount
  /\ RetryBudget /\ AnnouncedOnce /\ CompletingIsCompleted
  /\ DownIsEmpty /\ ReadyIsScheduled /\ ExecutedOnce
  /\ LocksHeld /\ LocksAccountedFor /\ LocksAreOld

\* The ranks of created_at are numbers.
LEMMA CreatedFinite == IsFiniteSet(Created) /\ Cardinality(Created) \in Nat
<1>1. Created \in SUBSET Tasks
  BY DEF Created
<1>2. IsFiniteSet(Created)
  BY <1>1, TasksAssumption, FS_Subset
<1>3. QED
  BY <1>2, FS_CardinalityType

\* A worker of the process that is up is a worker.
LEMMA OwnWorker == ASSUME TypeOK, up, NEW s \in Slots PROVE <<boot, s>> \in Workers
  BY BoundsAssumption DEF TypeOK, DatabaseTypeOK, ProcessTypeOK, Workers

\* Lock rows of a task name its resources.
LEMMA RowsType ==
  ASSUME NEW t \in Tasks, NEW w \in Workers, NEW rs \in SUBSET Range(LockedResources[t])
  PROVE Rows(t, rs, w) \subseteq Locks
<1>1. Range(LockedResources[t]) \subseteq Resources
  BY RequestAssumption DEF Range
<1>2. QED
  BY <1>1 DEF Rows, Locks

\* The end of the process leaves its variables typed.
LEMMA DieTypes == ASSUME ProcessTypeOK, Die, UNCHANGED announced PROVE ProcessTypeOK'
<1>1. up' = FALSE /\ ready' \in Seq(Tasks) /\ runningTasks' \in Int
  BY DEF Die
<1>2. completing' \in SUBSET Tasks /\ notifications' \in SUBSET Tasks
  BY DEF Die
<1>3. current' \in [Slots -> Tasks \cup {NoTask}] /\ retryTimers' \in [Tasks -> Nat]
  BY DEF Die
<1>4. QED
  BY <1>1, <1>2, <1>3 DEF ProcessTypeOK

\* Every action preserves the types.
LEMMA TypeStep ==
  ASSUME TypeOK, [Next]_vars PROVE TypeOK'
<1> USE DEF TypeOK
<1>1. ASSUME NEW t \in Tasks, Enqueue(t) PROVE TypeOK'
  BY <1>1, CreatedFinite DEF Enqueue, InsertTasks, NoDeps, Statuses, volatileVars, poolVars, DatabaseTypeOK, ProcessTypeOK
<1>2. ASSUME NEW S \in SUBSET Tasks, BatchEnqueue(S) PROVE TypeOK'
  BY <1>2, CreatedFinite DEF BatchEnqueue, InsertTasks, NoDeps, Statuses, volatileVars, poolVars, DatabaseTypeOK, ProcessTypeOK
<1>3. ASSUME NEW t \in Tasks, Cancel(t) PROVE TypeOK'
  BY <1>3 DEF Cancel, volatileVars, poolVars, DatabaseTypeOK, ProcessTypeOK, Statuses
<1>4. ASSUME NEW b \in Batches, CancelBatch(b) PROVE TypeOK'
  BY <1>4 DEF CancelBatch, volatileVars, poolVars, DatabaseTypeOK, ProcessTypeOK, Statuses
<1>5. ASSUME NEW t \in Tasks, Retry(t) PROVE TypeOK'
  BY <1>5 DEF Retry, retryTask, CanRetry, volatileVars, poolVars, DatabaseTypeOK, ProcessTypeOK, Statuses
<1>6. ASSUME Poll PROVE TypeOK'
  <2>1. PICK n \in 0..MaxConcurrency : ready' \in [1..n -> Tasks]
    BY <1>6 DEF Poll
  <2>2. ready' \in Seq(Tasks)
    BY <2>1, BoundsAssumption
  <2>3. DatabaseTypeOK'
    BY <1>6 DEF Poll, Promote, Statuses, DatabaseTypeOK
  <2>4. ProcessTypeOK'
    BY <1>6, <2>2 DEF Poll, poolVars, ProcessTypeOK
  <2>5. QED
    BY <2>3, <2>4
<1>7. ASSUME DependencyCheck PROVE TypeOK'
  BY <1>7 DEF DependencyCheck, Promote, poolVars, DatabaseTypeOK, ProcessTypeOK, Statuses
<1>8. ASSUME PollBreak PROVE TypeOK'
  BY <1>8 DEF PollBreak, dbVars, poolVars, DatabaseTypeOK, ProcessTypeOK, Statuses
<1>9. ASSUME SkipLocked PROVE TypeOK'
  <2>1. locks' \subseteq Locks
    BY <1>9 DEF SkipLocked, WithoutLocksOf, DatabaseTypeOK
  <2>2. ready' \in Seq(Tasks)
    BY <1>9 DEF SkipLocked, Polling, ProcessTypeOK
  <2>3. QED
    BY <1>9, <2>1, <2>2 DEF SkipLocked, poolVars, DatabaseTypeOK, ProcessTypeOK
<1>10. ASSUME NEW s \in Slots, AssignTask(s) PROVE TypeOK'
  <2>1. Head(ready) \in Tasks /\ up
    BY <1>10 DEF AssignTask, Polling, ProcessTypeOK
  <2>2. <<boot, s>> \in Workers
    BY <2>1, OwnWorker
  <2>3. locks' \subseteq Locks
    BY <1>10, <2>1, <2>2, RowsType DEF AssignTask, DatabaseTypeOK
  <2>4. DatabaseTypeOK'
    BY <1>10, <2>1, <2>2, <2>3 DEF AssignTask, Statuses, DatabaseTypeOK
  <2>5. ProcessTypeOK'
    BY <1>10, <2>1 DEF AssignTask, Polling, ProcessTypeOK
  <2>6. QED
    BY <2>4, <2>5
<1>11. ASSUME NEW s \in Slots, Succeed(s) PROVE TypeOK'
  BY <1>11 DEF Succeed, TransitionTo, FreeWorker, WithoutLocksOf, DatabaseTypeOK, ProcessTypeOK, Statuses
<1>12. ASSUME NEW s \in Slots, Fail(s) PROVE TypeOK'
  <2>1. current[s] \in Tasks
    BY <1>12 DEF Fail, ProcessTypeOK
  <2>2. DatabaseTypeOK'
    BY <1>12, <2>1 DEF Fail, TransitionTo, WithoutLocksOf, Statuses, DatabaseTypeOK
  <2>3. retryTimers' \in [Tasks -> Nat]
    <3>1. \/ retryTimers' = [retryTimers EXCEPT ![current[s]] = @ + 1]
          \/ retryTimers' = retryTimers
      BY <1>12, Zenon DEF Fail
    <3>2. retryTimers \in [Tasks -> Nat]
      BY DEF ProcessTypeOK
    <3>3. QED
      BY <2>1, <3>1, <3>2
  <2>4. announced' \in [Tasks -> Nat]
    <3>1. \/ announced' = [announced EXCEPT ![current[s]] = @ + 1]
          \/ announced' = announced
      BY <1>12, Zenon DEF Fail
    <3>2. announced \in [Tasks -> Nat]
      BY DEF ProcessTypeOK
    <3>3. QED
      BY <2>1, <3>1, <3>2
  <2>5. ProcessTypeOK'
    BY <1>12, <2>3, <2>4 DEF Fail, FreeWorker, ProcessTypeOK
  <2>6. QED
    BY <2>2, <2>5
<1>13. ASSUME NEW s \in Slots, FinishCancelled(s) PROVE TypeOK'
  BY <1>13 DEF FinishCancelled, FreeWorker, dbVars, DatabaseTypeOK, ProcessTypeOK, Statuses
<1>14. ASSUME NEW t \in Tasks, AnnounceCompleted(t) PROVE TypeOK'
  BY <1>14 DEF AnnounceCompleted, dbVars, poolVars, DatabaseTypeOK, ProcessTypeOK, Statuses
<1>15. ASSUME NEW t \in Tasks, RetryTimer(t) PROVE TypeOK'
  <2>1. retryTimers[t] > 0 /\ retryTimers' = [retryTimers EXCEPT ![t] = @ - 1]
    BY <1>15 DEF RetryTimer
  <2>2. retryTimers' \in [Tasks -> Nat]
    BY <2>1 DEF ProcessTypeOK
  <2>3. status' \in [Tasks -> Statuses \cup {"none"}] /\ retryCount' \in [Tasks -> Nat]
    <3>1. CASE CanRetry(t)
      BY <1>15, <3>1 DEF RetryTimer, retryTask, Statuses, DatabaseTypeOK
    <3>2. CASE ~CanRetry(t)
      BY <1>15, <3>2 DEF RetryTimer, DatabaseTypeOK
    <3>3. QED
      BY <3>1, <3>2
  <2>4. DatabaseTypeOK' /\ ProcessTypeOK'
    BY <1>15, <2>2, <2>3 DEF RetryTimer, poolVars, DatabaseTypeOK, ProcessTypeOK
  <2>5. QED
    BY <2>4
<1>16. ASSUME Heartbeat PROVE TypeOK'
  BY <1>16 DEF Heartbeat, RecoverTasks, LocksWithout, Retired, Beaten, volatileVars, poolVars, DatabaseTypeOK,
               ProcessTypeOK, Statuses
<1>17. ASSUME NEW b \in 1..MaxBoots, GoesStale(b) PROVE TypeOK'
  BY <1>17 DEF GoesStale, volatileVars, poolVars, DatabaseTypeOK, ProcessTypeOK, Statuses
<1>18. ASSUME NEW l \in locks, LockExpires(l) PROVE TypeOK'
  BY <1>18 DEF LockExpires, volatileVars, poolVars, DatabaseTypeOK, ProcessTypeOK, Statuses
<1>19. ASSUME Start PROVE TypeOK'
  <2>1. up' = TRUE /\ boot' = boot + 1 /\ boot' > 0 /\ boot' \in 0..MaxBoots
    BY <1>19, BoundsAssumption DEF Start, DatabaseTypeOK
  <2>2. DatabaseTypeOK'
    BY <1>19, <2>1 DEF Start, DatabaseTypeOK
  <2>3. ProcessTypeOK'
    BY <1>19, <2>1 DEF Start, volatileVars, poolVars, ProcessTypeOK
  <2>4. QED
    BY <2>2, <2>3
<1>20. ASSUME Crash PROVE TypeOK'
  <2>1. DatabaseTypeOK'
    BY <1>20 DEF DatabaseTypeOK, Statuses, Crash, dbVars
  <2>2. ProcessTypeOK'
    BY <1>20, DieTypes DEF Crash, InsertTasks
  <2>3. QED
    BY <2>1, <2>2
<1>21. ASSUME gracefulShutdown PROVE TypeOK'
  <2>1. DatabaseTypeOK'
    BY <1>21 DEF DatabaseTypeOK, Statuses, gracefulShutdown
  <2>2. ProcessTypeOK'
    BY <1>21, DieTypes DEF gracefulShutdown, InsertTasks
  <2>3. QED
    BY <2>1, <2>2
<1>22. ASSUME NEW S \in SUBSET Tasks, NEW moved \in SUBSET NoDeps(S), EnqueueTorn(S, moved) PROVE TypeOK'
  <2>1. DatabaseTypeOK'
    BY <1>22, CreatedFinite DEF DatabaseTypeOK, Statuses, EnqueueTorn, InsertTasks, NoDeps
  <2>2. ProcessTypeOK'
    BY <1>22, DieTypes DEF EnqueueTorn, InsertTasks
  <2>3. QED
    BY <2>1, <2>2
<1>23. ASSUME NEW s \in Slots, AssignTorn(s) PROVE TypeOK'
  <2>1. Head(ready) \in Tasks /\ up
    BY <1>23 DEF AssignTorn, Polling, ProcessTypeOK
  <2>2. <<boot, s>> \in Workers
    BY <2>1, OwnWorker
  <2>3. PICK k \in 1..Len(LockedResources[Head(ready)]) :
          locks' = locks \cup Rows(Head(ready), FirstResources(Head(ready), k), <<boot, s>>)
    BY <1>23 DEF AssignTorn
  <2>4. FirstResources(Head(ready), k) \in SUBSET Range(LockedResources[Head(ready)])
    BY <2>1, RequestAssumption DEF FirstResources, Range
  <2>5. locks' \subseteq Locks
    BY <2>1, <2>2, <2>3, <2>4, RowsType DEF DatabaseTypeOK
  <2>6. DatabaseTypeOK'
    BY <1>23, <2>5 DEF AssignTorn, DatabaseTypeOK
  <2>7. ProcessTypeOK'
    BY <1>23, DieTypes DEF AssignTorn
  <2>8. QED
    BY <2>6, <2>7
<1>24. ASSUME NEW s \in Slots, NEW new \in {"completed", "failed"}, FinishTorn(s, new) PROVE TypeOK'
  <2>1. DatabaseTypeOK'
    BY <1>24 DEF DatabaseTypeOK, Statuses, FinishTorn
  <2>2. ProcessTypeOK'
    BY <1>24, DieTypes DEF FinishTorn, InsertTasks
  <2>3. QED
    BY <2>1, <2>2
<1>25. ASSUME NEW S \in SUBSET (NotifiedTasks \cup PendingTasksWithMetDeps), PromoteTorn(S) PROVE TypeOK'
  <2>1. DatabaseTypeOK'
    BY <1>25 DEF DatabaseTypeOK, Statuses, PromoteTorn, Promote
  <2>2. ProcessTypeOK'
    BY <1>25, DieTypes DEF PromoteTorn
  <2>3. QED
    BY <2>1, <2>2
<1>26. ASSUME NEW D \in SUBSET Dead, NEW P \in SUBSET (Dead \ D), RecoverTorn(D, P) PROVE TypeOK'
  <2>1. DatabaseTypeOK'
    BY <1>26 DEF DatabaseTypeOK, Statuses, RecoverTorn, RecoverTasks, LocksWithout, Retired, Beaten
  <2>2. ProcessTypeOK'
    BY <1>26, DieTypes DEF RecoverTorn
  <2>3. QED
    BY <2>1, <2>2
<1>27. ASSUME NEW k \in 1..MaxConcurrency - 1, HeartbeatTorn(k) PROVE TypeOK'
  <2>1. DatabaseTypeOK'
    BY <1>27 DEF DatabaseTypeOK, Statuses, HeartbeatTorn, Beaten
  <2>2. ProcessTypeOK'
    BY <1>27, DieTypes DEF HeartbeatTorn
  <2>3. QED
    BY <2>1, <2>2
<1>28. ASSUME NEW k \in 1..MaxConcurrency - 1, StopTorn(k) PROVE TypeOK'
  <2>1. DatabaseTypeOK'
    BY <1>28 DEF DatabaseTypeOK, Statuses, StopTorn
  <2>2. ProcessTypeOK'
    BY <1>28, DieTypes DEF StopTorn
  <2>3. QED
    BY <2>1, <2>2
<1>29. ASSUME NEW k \in 1..MaxConcurrency - 1, StartTorn(k) PROVE TypeOK'
  <2>1. boot' = boot + 1 /\ boot' \in 0..MaxBoots /\ up' = up /\ ~up
    BY <1>29, BoundsAssumption DEF StartTorn, DatabaseTypeOK
  <2>2. DatabaseTypeOK'
    BY <1>29, <2>1 DEF StartTorn, DatabaseTypeOK
  <2>3. ProcessTypeOK'
    BY <1>29, <2>1 DEF StartTorn, volatileVars, poolVars, ProcessTypeOK
  <2>4. QED
    BY <2>2, <2>3
<1>30. CASE UNCHANGED vars
  BY <1>30 DEF vars, dbVars, volatileVars, poolVars, DatabaseTypeOK, ProcessTypeOK, Statuses
<1>31. QED
  BY <1>1, <1>2, <1>3, <1>4, <1>5, <1>6, <1>7, <1>8, <1>9, <1>10, <1>11, <1>12, <1>13, <1>14, <1>15, <1>16, <1>17, <1>18, <1>19, <1>20, <1>21, <1>22, <1>23, <1>24, <1>25, <1>26, <1>27, <1>28, <1>29, <1>30 DEF Next, Request, Creation, Scheduler, Execution, Environment, Torn

-----------------------------------------------------------------------------
(* What one step does to one task *)

\* The COUNT of getPendingTasksWithMetDeps equals the length of the list only
\* if every dependency is completed.
LEMMA CountMeansAll ==
  ASSUME NEW t \in Tasks, Cardinality(Completed(t)) = Len(Deps[t])
  PROVE Completed(t) = Range(Deps[t])
<1> DEFINE n == Len(Deps[t])
           R == Range(Deps[t])
<1>1. n \in Nat /\ Deps[t] \in [1..n -> Tasks]
  BY RequestAssumption
<1>2. IsFiniteSet(1..n) /\ Cardinality(1..n) = n
  BY <1>1, FS_Interval
<1>3. Deps[t] \in Surjection(1..n, R)
  BY <1>1 DEF Surjection, Range
<1>4. IsFiniteSet(R) /\ Cardinality(R) <= n
  BY <1>2, <1>3, FS_Surjection
<1>5. Completed(t) \in SUBSET R
  BY DEF Completed
<1>6. /\ Cardinality(Completed(t)) <= Cardinality(R)
      /\ Cardinality(R) = Cardinality(Completed(t)) => R = Completed(t)
  BY <1>4, <1>5, FS_Subset
<1>7. Cardinality(R) \in Nat
  BY <1>4, FS_CardinalityType
<1>8. QED
  BY <1>1, <1>4, <1>6, <1>7

\* The table of state.js, read backwards.
LEMMA TransitionTable ==
  ASSUME NEW from \in Statuses \cup {"none"}
  PROVE /\ isValidTransition(from, "running") <=> from = "scheduled"
        /\ isValidTransition(from, "completed") <=> from = "running"
        /\ isValidTransition(from, "failed") <=> from = "running"
        /\ isValidTransition(from, "cancelled") <=> from \in {"pending", "scheduled", "running"}
  BY DEF isValidTransition, TRANSITIONS, Statuses

\* What the loop and the executions work on are tasks.
LEMMA HeadIsTask == ASSUME TypeOK, Polling PROVE Head(ready) \in Tasks
  BY DEF TypeOK, ProcessTypeOK, Polling

\* Likewise what a worker is busy with.
LEMMA CurrentIsTask ==
  ASSUME TypeOK, NEW s \in Slots, current[s] # NoTask PROVE current[s] \in Tasks
  BY DEF TypeOK, ProcessTypeOK

\* The moves of a task, each with what must hold for it.
StatusStep(t) ==
  \/ status'[t] = status[t] /\ retryCount'[t] = retryCount[t]
  \/ /\ \/ status[t] = "none" /\ status'[t] = "pending"
        \/ status[t] = "none" /\ status'[t] = "scheduled" /\ Range(Deps[t]) = {}
        \/ status[t] = "pending" /\ status'[t] = "scheduled" /\ Completed(t) = Range(Deps[t])
        \/ status[t] = "scheduled" /\ status'[t] = "running"
        \/ status[t] = "running" /\ status'[t] \in {"completed", "failed", "scheduled"}
        \/ status[t] \in {"pending", "scheduled", "running"} /\ status'[t] = "cancelled"
     /\ retryCount'[t] = retryCount[t]
  \/ CanRetry(t) /\ status'[t] = "scheduled" /\ retryCount'[t] = retryCount[t] + 1

\* Every step of the server is one of those moves for every task.
LEMMA StatusSteps == ASSUME TypeOK, [Next]_vars PROVE \A u \in Tasks : StatusStep(u)
<1> USE DEF TypeOK, DatabaseTypeOK, StatusStep
<1>1. ASSUME NEW t \in Tasks, Enqueue(t) PROVE \A u \in Tasks : StatusStep(u)
  <2>1. \A u \in NoDeps({t}) : Range(Deps[u]) = {}
    BY DEF NoDeps, Range
  <2>2. QED
    BY <1>1, <2>1 DEF Enqueue, InsertTasks, NoDeps, Created
<1>2. ASSUME NEW S \in SUBSET Tasks, BatchEnqueue(S) PROVE \A u \in Tasks : StatusStep(u)
  <2>1. \A u \in NoDeps(S) : Range(Deps[u]) = {}
    BY DEF NoDeps, Range
  <2>2. QED
    BY <1>2, <2>1 DEF BatchEnqueue, InsertTasks, NoDeps, Created
<1>3. ASSUME NEW t \in Tasks, Cancel(t) PROVE \A u \in Tasks : StatusStep(u)
  <2>1. status[t] \in {"pending", "scheduled", "running"}
    BY <1>3, TransitionTable DEF Cancel
  <2>2. QED
    BY <1>3, <2>1 DEF Cancel
<1>4. ASSUME NEW b \in Batches, CancelBatch(b) PROVE \A u \in Tasks : StatusStep(u)
  BY <1>4 DEF CancelBatch
<1>5. ASSUME NEW t \in Tasks, Retry(t) PROVE \A u \in Tasks : StatusStep(u)
  BY <1>5 DEF Retry, retryTask, CanRetry
<1>6. ASSUME Poll PROVE \A u \in Tasks : StatusStep(u)
  <2>1. \A u \in PendingTasksWithMetDeps : Completed(u) = Range(Deps[u])
    BY CountMeansAll DEF PendingTasksWithMetDeps
  <2>2. status' = Promote(NotifiedTasks \cup PendingTasksWithMetDeps) /\ retryCount' = retryCount
    BY <1>6 DEF Poll
  <2>3. QED
    BY <2>1, <2>2 DEF Promote, NotifiedTasks, PendingTasksWithMetDeps
<1>7. ASSUME DependencyCheck PROVE \A u \in Tasks : StatusStep(u)
  <2>1. status' = Promote(NotifiedTasks) /\ retryCount' = retryCount
    BY <1>7 DEF DependencyCheck
  <2>2. QED
    BY <2>1 DEF Promote, NotifiedTasks
<1>8. ASSUME PollBreak PROVE \A u \in Tasks : StatusStep(u)
  BY <1>8 DEF PollBreak, dbVars
<1>9. ASSUME SkipLocked PROVE \A u \in Tasks : StatusStep(u)
  BY <1>9 DEF SkipLocked
<1>10. ASSUME NEW s \in Slots, AssignTask(s) PROVE \A u \in Tasks : StatusStep(u)
  <2>1. Head(ready) \in Tasks
    BY <1>10, HeadIsTask DEF AssignTask
  <2>2. status[Head(ready)] = "scheduled"
    BY <1>10, <2>1, TransitionTable DEF AssignTask
  <2>3. QED
    BY <1>10, <2>2 DEF AssignTask
<1>11. ASSUME NEW s \in Slots, Succeed(s) PROVE \A u \in Tasks : StatusStep(u)
  <2>1. current[s] \in Tasks
    BY <1>11, CurrentIsTask DEF Succeed
  <2>2. status[current[s]] = "running"
    BY <1>11, <2>1, TransitionTable DEF Succeed, TransitionTo
  <2>3. QED
    BY <1>11, <2>2 DEF Succeed, TransitionTo
<1>12. ASSUME NEW s \in Slots, Fail(s) PROVE \A u \in Tasks : StatusStep(u)
  <2>1. current[s] \in Tasks
    BY <1>12, CurrentIsTask DEF Fail
  <2>2. status[current[s]] = "running"
    BY <1>12, <2>1, TransitionTable DEF Fail, TransitionTo
  <2>3. QED
    BY <1>12, <2>2 DEF Fail, TransitionTo
<1>13. ASSUME NEW s \in Slots, FinishCancelled(s) PROVE \A u \in Tasks : StatusStep(u)
  BY <1>13 DEF FinishCancelled, dbVars
<1>14. ASSUME NEW t \in Tasks, AnnounceCompleted(t) PROVE \A u \in Tasks : StatusStep(u)
  BY <1>14 DEF AnnounceCompleted, dbVars
<1>15. ASSUME NEW t \in Tasks, RetryTimer(t) PROVE \A u \in Tasks : StatusStep(u)
  BY <1>15 DEF RetryTimer, retryTask, CanRetry
<1>16. ASSUME Heartbeat PROVE \A u \in Tasks : StatusStep(u)
  BY <1>16 DEF Heartbeat, RecoverTasks
<1>17. ASSUME NEW b \in 1..MaxBoots, GoesStale(b) PROVE \A u \in Tasks : StatusStep(u)
  BY <1>17 DEF GoesStale
<1>18. ASSUME NEW l \in locks, LockExpires(l) PROVE \A u \in Tasks : StatusStep(u)
  BY <1>18 DEF LockExpires
<1>19. ASSUME Start PROVE \A u \in Tasks : StatusStep(u)
  BY <1>19 DEF Start
<1>20. ASSUME Crash PROVE \A u \in Tasks : StatusStep(u)
  BY <1>20 DEF Crash, dbVars
<1>21. ASSUME gracefulShutdown PROVE \A u \in Tasks : StatusStep(u)
  BY <1>21 DEF gracefulShutdown
<1>22. ASSUME NEW S \in SUBSET Tasks, NEW moved \in SUBSET NoDeps(S), EnqueueTorn(S, moved) PROVE \A u \in Tasks : StatusStep(u)
  <2>1. \A u \in NoDeps(S) : Range(Deps[u]) = {}
    BY DEF NoDeps, Range
  <2>2. QED
    BY <1>22, <2>1 DEF EnqueueTorn, InsertTasks, NoDeps, Created
<1>23. ASSUME NEW s \in Slots, AssignTorn(s) PROVE \A u \in Tasks : StatusStep(u)
  BY <1>23 DEF AssignTorn
<1>24. ASSUME NEW s \in Slots, NEW new \in {"completed", "failed"}, FinishTorn(s, new) PROVE \A u \in Tasks : StatusStep(u)
  <2>1. current[s] \in Tasks
    BY <1>24, CurrentIsTask DEF FinishTorn
  <2>2. status[current[s]] = "running"
    BY <1>24, <2>1, TransitionTable DEF FinishTorn
  <2>3. QED
    BY <1>24, <2>2 DEF FinishTorn
<1>25. ASSUME NEW S \in SUBSET (NotifiedTasks \cup PendingTasksWithMetDeps), PromoteTorn(S) PROVE \A u \in Tasks : StatusStep(u)
  <2>1. \A u \in PendingTasksWithMetDeps : Completed(u) = Range(Deps[u])
    BY CountMeansAll DEF PendingTasksWithMetDeps
  <2>2. status' = Promote(S) /\ retryCount' = retryCount
    BY <1>25 DEF PromoteTorn
  <2>3. QED
    BY <2>1, <2>2 DEF Promote, NotifiedTasks, PendingTasksWithMetDeps
<1>26. ASSUME NEW D \in SUBSET Dead, NEW P \in SUBSET (Dead \ D), RecoverTorn(D, P) PROVE \A u \in Tasks : StatusStep(u)
  BY <1>26 DEF RecoverTorn, RecoverTasks
<1>27. ASSUME NEW k \in 1..MaxConcurrency - 1, HeartbeatTorn(k) PROVE \A u \in Tasks : StatusStep(u)
  BY <1>27 DEF HeartbeatTorn
<1>28. ASSUME NEW k \in 1..MaxConcurrency - 1, StopTorn(k) PROVE \A u \in Tasks : StatusStep(u)
  BY <1>28 DEF StopTorn
<1>29. ASSUME NEW k \in 1..MaxConcurrency - 1, StartTorn(k) PROVE \A u \in Tasks : StatusStep(u)
  BY <1>29 DEF StartTorn
<1>30. CASE UNCHANGED vars
  BY <1>30 DEF vars, dbVars
<1>31. QED
  BY <1>1, <1>2, <1>3, <1>4, <1>5, <1>6, <1>7, <1>8, <1>9, <1>10, <1>11, <1>12, <1>13, <1>14, <1>15, <1>16, <1>17, <1>18, <1>19, <1>20, <1>21, <1>22, <1>23, <1>24, <1>25, <1>26, <1>27, <1>28, <1>29, <1>30 DEF Next, Request, Creation, Scheduler, Execution, Environment, Torn

\* What one step does to the timers, the announcements and the callbacks due
\* of one task.
VolatileStep(t) ==
  /\ \/ retryTimers'[t] \in {0, retryTimers[t], retryTimers[t] - 1}
     \/ /\ retryTimers'[t] = retryTimers[t] + 1
        /\ status[t] = "running" /\ status'[t] = "failed"
  /\ \/ announced'[t] = announced[t] /\ (t \in completing' => t \in completing)
     \/ /\ announced'[t] = announced[t]
        /\ status[t] = "running" /\ status'[t] = "completed"
     \/ announced'[t] = announced[t] + 1 /\ t \in completing /\ t \notin completing'
     \/ /\ announced'[t] = announced[t] + 1 /\ (t \in completing' => t \in completing)
        /\ status[t] = "running" /\ status'[t] = "failed" /\ retryCount[t] >= MaxRetries[t]

\* Every step of the server is one of those moves for every task.
LEMMA VolatileSteps == ASSUME TypeOK, [Next]_vars PROVE \A u \in Tasks : VolatileStep(u)
<1> USE DEF TypeOK, DatabaseTypeOK, ProcessTypeOK, VolatileStep
<1>1. ASSUME NEW t \in Tasks, Enqueue(t) PROVE \A u \in Tasks : VolatileStep(u)
  BY <1>1 DEF Enqueue, InsertTasks, volatileVars, poolVars
<1>2. ASSUME NEW S \in SUBSET Tasks, BatchEnqueue(S) PROVE \A u \in Tasks : VolatileStep(u)
  BY <1>2 DEF BatchEnqueue, InsertTasks, volatileVars, poolVars
<1>3. ASSUME NEW t \in Tasks, Cancel(t) PROVE \A u \in Tasks : VolatileStep(u)
  BY <1>3 DEF Cancel, volatileVars, poolVars
<1>4. ASSUME NEW b \in Batches, CancelBatch(b) PROVE \A u \in Tasks : VolatileStep(u)
  BY <1>4 DEF CancelBatch, volatileVars, poolVars
<1>5. ASSUME NEW t \in Tasks, Retry(t) PROVE \A u \in Tasks : VolatileStep(u)
  BY <1>5 DEF Retry, volatileVars, poolVars
<1>6. ASSUME Poll PROVE \A u \in Tasks : VolatileStep(u)
  BY <1>6 DEF Poll, volatileVars, poolVars
<1>7. ASSUME DependencyCheck PROVE \A u \in Tasks : VolatileStep(u)
  BY <1>7 DEF DependencyCheck, volatileVars, poolVars
<1>8. ASSUME PollBreak PROVE \A u \in Tasks : VolatileStep(u)
  BY <1>8 DEF PollBreak, dbVars, poolVars
<1>9. ASSUME SkipLocked PROVE \A u \in Tasks : VolatileStep(u)
  BY <1>9 DEF SkipLocked, volatileVars, poolVars
<1>10. ASSUME NEW s \in Slots, AssignTask(s) PROVE \A u \in Tasks : VolatileStep(u)
  BY <1>10 DEF AssignTask, volatileVars, poolVars
<1>11. ASSUME NEW s \in Slots, Succeed(s) PROVE \A u \in Tasks : VolatileStep(u)
  <2>1. current[s] \in Tasks
    BY <1>11, CurrentIsTask DEF Succeed
  <2>2. status[current[s]] = "running" /\ status'[current[s]] = "completed"
    BY <1>11, <2>1, TransitionTable DEF Succeed, TransitionTo
  <2>3. QED
    BY <1>11, <2>1, <2>2 DEF Succeed, FreeWorker
<1>12. ASSUME NEW s \in Slots, Fail(s) PROVE \A u \in Tasks : VolatileStep(u)
  <2>1. current[s] \in Tasks
    BY <1>12, CurrentIsTask DEF Fail
  <2>2. status[current[s]] = "running" /\ status'[current[s]] = "failed"
    BY <1>12, <2>1, TransitionTable DEF Fail, TransitionTo
  <2>3. CASE /\ retryCount[current[s]] < MaxRetries[current[s]]
             /\ retryTimers' = [retryTimers EXCEPT ![current[s]] = @ + 1]
             /\ UNCHANGED announced
    BY <1>12, <2>1, <2>2, <2>3 DEF Fail
  <2>4. CASE /\ ~(retryCount[current[s]] < MaxRetries[current[s]])
             /\ announced' = [announced EXCEPT ![current[s]] = @ + 1]
             /\ UNCHANGED retryTimers
    <3>1. retryCount[current[s]] \in Nat /\ MaxRetries[current[s]] \in Nat
      BY <2>1, RequestAssumption
    <3>2. retryCount[current[s]] >= MaxRetries[current[s]]
      BY <2>4, <3>1
    <3>3. QED
      BY <1>12, <2>1, <2>2, <2>4, <3>2 DEF Fail
  <2>5. QED
    BY <1>12, <2>3, <2>4, Zenon DEF Fail
<1>13. ASSUME NEW s \in Slots, FinishCancelled(s) PROVE \A u \in Tasks : VolatileStep(u)
  BY <1>13 DEF FinishCancelled
<1>14. ASSUME NEW t \in Tasks, AnnounceCompleted(t) PROVE \A u \in Tasks : VolatileStep(u)
  BY <1>14 DEF AnnounceCompleted, dbVars, poolVars
<1>15. ASSUME NEW t \in Tasks, RetryTimer(t) PROVE \A u \in Tasks : VolatileStep(u)
  <2>1. retryTimers' = [retryTimers EXCEPT ![t] = @ - 1] /\ UNCHANGED <<announced, completing>>
    BY <1>15 DEF RetryTimer
  <2>2. QED
    BY <2>1
<1>16. ASSUME Heartbeat PROVE \A u \in Tasks : VolatileStep(u)
  BY <1>16 DEF Heartbeat, volatileVars, poolVars
<1>17. ASSUME NEW b \in 1..MaxBoots, GoesStale(b) PROVE \A u \in Tasks : VolatileStep(u)
  BY <1>17 DEF GoesStale, volatileVars, poolVars
<1>18. ASSUME NEW l \in locks, LockExpires(l) PROVE \A u \in Tasks : VolatileStep(u)
  BY <1>18 DEF LockExpires, volatileVars, poolVars
<1>19. ASSUME Start PROVE \A u \in Tasks : VolatileStep(u)
  BY <1>19 DEF Start, volatileVars, poolVars
<1>20. ASSUME Crash PROVE \A u \in Tasks : VolatileStep(u)
  BY <1>20 DEF Crash, Die, dbVars
<1>21. ASSUME gracefulShutdown PROVE \A u \in Tasks : VolatileStep(u)
  BY <1>21 DEF gracefulShutdown, Die
<1>22. ASSUME NEW S \in SUBSET Tasks, NEW moved \in SUBSET NoDeps(S), EnqueueTorn(S, moved) PROVE \A u \in Tasks : VolatileStep(u)
  BY <1>22 DEF EnqueueTorn, InsertTasks, Die
<1>23. ASSUME NEW s \in Slots, AssignTorn(s) PROVE \A u \in Tasks : VolatileStep(u)
  BY <1>23 DEF AssignTorn, Die
<1>24. ASSUME NEW s \in Slots, NEW new \in {"completed", "failed"}, FinishTorn(s, new) PROVE \A u \in Tasks : VolatileStep(u)
  BY <1>24 DEF FinishTorn, Die
<1>25. ASSUME NEW S \in SUBSET (NotifiedTasks \cup PendingTasksWithMetDeps), PromoteTorn(S) PROVE \A u \in Tasks : VolatileStep(u)
  BY <1>25 DEF PromoteTorn, Die
<1>26. ASSUME NEW D \in SUBSET Dead, NEW P \in SUBSET (Dead \ D), RecoverTorn(D, P) PROVE \A u \in Tasks : VolatileStep(u)
  BY <1>26 DEF RecoverTorn, Die
<1>27. ASSUME NEW k \in 1..MaxConcurrency - 1, HeartbeatTorn(k) PROVE \A u \in Tasks : VolatileStep(u)
  BY <1>27 DEF HeartbeatTorn, Die
<1>28. ASSUME NEW k \in 1..MaxConcurrency - 1, StopTorn(k) PROVE \A u \in Tasks : VolatileStep(u)
  BY <1>28 DEF StopTorn, Die
<1>29. ASSUME NEW k \in 1..MaxConcurrency - 1, StartTorn(k) PROVE \A u \in Tasks : VolatileStep(u)
  BY <1>29 DEF StartTorn, volatileVars, poolVars
<1>30. CASE UNCHANGED vars
  BY <1>30 DEF vars, dbVars, volatileVars, poolVars
<1>31. QED
  BY <1>1, <1>2, <1>3, <1>4, <1>5, <1>6, <1>7, <1>8, <1>9, <1>10, <1>11, <1>12, <1>13, <1>14, <1>15, <1>16, <1>17, <1>18, <1>19, <1>20, <1>21, <1>22, <1>23, <1>24, <1>25, <1>26, <1>27, <1>28, <1>29, <1>30 DEF Next, Request, Creation, Scheduler, Execution, Environment, Torn

-----------------------------------------------------------------------------
(* The invariants about single tasks *)

\* A completed dependency stays completed.
LEMMA DepsRespectedStep ==
  ASSUME TypeOK, DepsRespected, [Next]_vars PROVE DepsRespected'
<1>1. \A u \in Tasks : StatusStep(u)
  BY StatusSteps
<1>2. \A u \in Tasks : status[u] = "completed" => status'[u] = "completed"
  BY <1>1 DEF StatusStep, CanRetry
<1>3. \A u \in Tasks : Range(Deps[u]) \subseteq Tasks
  BY RequestAssumption DEF Range
<1>4. \A u \in Tasks : Completed(u) = Range(Deps[u]) => Completed(u)' = Range(Deps[u])
  BY <1>2, <1>3 DEF Completed
<1>5. \A u \in Tasks : status'[u] \in {"scheduled", "running", "completed", "failed"} =>
                         Completed(u) = Range(Deps[u])
  <2>1. \A u \in Tasks : Range(Deps[u]) = {} => Completed(u) = Range(Deps[u])
    BY DEF Completed
  <2>2. QED
    BY <1>1, <2>1 DEF StatusStep, DepsRespected, CanRetry
<1>6. QED
  BY <1>4, <1>5 DEF DepsRespected

\* An additional timer comes with a failure, a retry with a higher count.
LEMMA RetryBudgetStep ==
  ASSUME TypeOK, RetryBudget, [Next]_vars PROVE RetryBudget'
<1>1. \A u \in Tasks : StatusStep(u) /\ VolatileStep(u)
  BY StatusSteps, VolatileSteps
<1>2. \A u \in Tasks : retryCount[u] \in Nat /\ retryTimers[u] \in Nat /\ MaxRetries[u] \in Nat
  BY RequestAssumption DEF TypeOK, DatabaseTypeOK, ProcessTypeOK
<1> SUFFICES ASSUME NEW t \in Tasks
             PROVE /\ retryCount'[t] <= MaxRetries[t]
                   /\ retryTimers'[t] <= retryCount'[t] + (IF status'[t] = "failed" THEN 1 ELSE 0)
  BY DEF RetryBudget
<1>3. retryCount'[t] <= MaxRetries[t]
  BY <1>1, <1>2 DEF StatusStep, CanRetry, RetryBudget
<1>4. retryTimers'[t] <= retryCount'[t] + (IF status'[t] = "failed" THEN 1 ELSE 0)
  <2>1. retryTimers[t] <= retryCount[t] + (IF status[t] = "failed" THEN 1 ELSE 0)
    BY DEF RetryBudget
  <2>2. \/ retryTimers'[t] <= retryTimers[t] \/ retryTimers'[t] = 0
        \/ retryTimers'[t] = retryTimers[t] + 1 /\ status[t] = "running" /\ status'[t] = "failed"
    BY <1>1, <1>2 DEF VolatileStep
  <2>3. \/ retryCount'[t] = retryCount[t] /\ (status[t] = "failed" => status'[t] = "failed")
        \/ retryCount'[t] = retryCount[t] + 1
    BY <1>1 DEF StatusStep
  <2>4. retryCount'[t] \in Nat /\ retryTimers'[t] \in Int
    BY <1>2, <2>2, <2>3, TypeStep DEF TypeOK, DatabaseTypeOK, ProcessTypeOK
  <2>5. CASE retryTimers'[t] = retryTimers[t] + 1 /\ status[t] = "running" /\ status'[t] = "failed"
    BY <1>2, <2>1, <2>3, <2>4, <2>5
  <2>6. CASE retryTimers'[t] <= retryTimers[t] \/ retryTimers'[t] = 0
    BY <1>2, <2>1, <2>3, <2>4, <2>6
  <2>7. QED
    BY <2>2, <2>5, <2>6
<1>5. QED
  BY <1>3, <1>4

\* What is final stays so, and so does what is cancelled.
LEMMA FinalStep ==
  ASSUME TypeOK, RetryBudget, [Next]_vars
  PROVE \A t \in Tasks : /\ Final(t) => Final(t)'
                         /\ Final(t) \/ status[t] = "cancelled" => status'[t] = status[t]
<1>1. \A u \in Tasks : StatusStep(u)
  BY StatusSteps
<1>2. \A u \in Tasks : retryCount[u] \in Nat /\ MaxRetries[u] \in Nat
  BY RequestAssumption DEF TypeOK, DatabaseTypeOK
<1>3. QED
  BY <1>1, <1>2 DEF StatusStep, CanRetry, Final, RetryBudget

\* A task is announced by the callback of its completion, or by the failure
\* that leaves it no retry; both find it running or not yet announced.
LEMMA AnnouncedStep ==
  ASSUME TypeOK, RetryBudget, AnnouncedOnce, CompletingIsCompleted, [Next]_vars
  PROVE AnnouncedOnce' /\ CompletingIsCompleted'
<1>1. \A u \in Tasks : StatusStep(u) /\ VolatileStep(u)
  BY StatusSteps, VolatileSteps
<1>2. \A u \in Tasks : /\ retryCount[u] \in Nat /\ MaxRetries[u] \in Nat /\ announced[u] \in Nat
                       /\ retryCount[u] <= MaxRetries[u]
  BY RequestAssumption DEF TypeOK, DatabaseTypeOK, ProcessTypeOK, RetryBudget
<1>3. \A u \in Tasks : status[u] = "running" => announced[u] = 0
  BY <1>2 DEF AnnouncedOnce, Final
<1>4. AnnouncedOnce'
  <2> SUFFICES ASSUME NEW t \in Tasks PROVE announced'[t] <= 1 /\ (announced'[t] = 1 => Final(t)')
    BY DEF AnnouncedOnce
  <2>1. CASE announced'[t] = announced[t]
    BY <2>1, FinalStep DEF AnnouncedOnce
  <2>2. CASE announced'[t] = announced[t] + 1 /\ t \in completing
    BY <2>2, <1>2, FinalStep DEF CompletingIsCompleted, Final
  <2>3. CASE /\ announced'[t] = announced[t] + 1
             /\ status[t] = "running" /\ status'[t] = "failed" /\ retryCount[t] >= MaxRetries[t]
    <3>1. retryCount'[t] = retryCount[t]
      BY <2>3, <1>1 DEF StatusStep
    <3>2. QED
      BY <2>3, <3>1, <1>2, <1>3 DEF Final
  <2>4. QED
    BY <1>1, <2>1, <2>2, <2>3 DEF VolatileStep
<1>5. CompletingIsCompleted'
  <2> SUFFICES ASSUME NEW t \in completing' PROVE status'[t] = "completed" /\ announced'[t] = 0
    BY DEF CompletingIsCompleted
  <2>1. t \in Tasks
    BY TypeStep DEF TypeOK, ProcessTypeOK
  <2>2. CASE t \in completing
    <3>1. status[t] = "completed" /\ announced[t] = 0
      BY <2>2 DEF CompletingIsCompleted
    <3>2. status'[t] = "completed"
      BY <2>1, <3>1, FinalStep DEF Final
    <3>3. QED
      BY <1>1, <2>1, <3>1, <3>2 DEF VolatileStep
  <2>3. CASE t \notin completing
    BY <1>1, <1>3, <2>1, <2>3 DEF VolatileStep
  <2>4. QED
    BY <2>2, <2>3
<1>6. QED
  BY <1>4, <1>5

-----------------------------------------------------------------------------
(* The invariants about executions *)

\* Nothing is asked of a poll that has nothing left to assign.
LEMMA NothingReady == ASSUME ready' = <<>> PROVE ReadyIsScheduled'
  BY DEF ReadyIsScheduled

\* Nothing is asked of a process that has died.
LEMMA DeadIsEmpty == ASSUME Die PROVE DownIsEmpty' /\ ReadyIsScheduled' /\ ExecutedOnce'
<1>1. up' = FALSE /\ ready' = <<>> /\ \A s \in Slots : current'[s] = NoTask
  BY DEF Die
<1>2. QED
  BY <1>1, NothingReady DEF DownIsEmpty, ExecutedOnce

\* The tail of what is left to assign names other tasks than its head.
LEMMA TailReady ==
  ASSUME TypeOK, ReadyIsScheduled, Polling
  PROVE /\ \A i \in DOMAIN Tail(ready) : /\ Tail(ready)[i] # Head(ready)
                                         /\ status[Tail(ready)[i]] = "scheduled"
                                         /\ Tail(ready)[i] \in Tasks
        /\ \A i, j \in DOMAIN Tail(ready) : Tail(ready)[i] = Tail(ready)[j] => i = j
        /\ status[Head(ready)] = "scheduled"
<1>1. ready \in Seq(Tasks) /\ ready # <<>>
  BY DEF TypeOK, ProcessTypeOK, Polling
<1>2. /\ Len(ready) \in Nat /\ Len(ready) > 0 /\ DOMAIN ready = 1..Len(ready)
      /\ Head(ready) = ready[1] /\ DOMAIN Tail(ready) = 1..(Len(ready) - 1)
      /\ \A i \in DOMAIN Tail(ready) : i \in Nat /\ Tail(ready)[i] = ready[i + 1]
      /\ \A i \in DOMAIN Tail(ready) : i + 1 \in DOMAIN ready /\ i + 1 # 1
  BY <1>1
<1>3. 1 \in DOMAIN ready /\ \A i \in DOMAIN ready : ready[i] \in Tasks
  BY <1>1, <1>2
<1>4. QED
  BY <1>2, <1>3 DEF ReadyIsScheduled

\* A poll starts with scheduled tasks, and nothing else happens until it is done.
LEMMA ReadyStep ==
  ASSUME TypeOK, DownIsEmpty, ReadyIsScheduled, [Next]_vars PROVE DownIsEmpty' /\ ReadyIsScheduled'
<1>1. ASSUME NEW t \in Tasks, Enqueue(t) PROVE DownIsEmpty' /\ ReadyIsScheduled'
  BY <1>1, NothingReady DEF Enqueue, Idle, volatileVars, poolVars, dbVars, DownIsEmpty
<1>2. ASSUME NEW S \in SUBSET Tasks, BatchEnqueue(S) PROVE DownIsEmpty' /\ ReadyIsScheduled'
  BY <1>2, NothingReady DEF BatchEnqueue, Idle, volatileVars, poolVars, dbVars, DownIsEmpty
<1>3. ASSUME NEW t \in Tasks, Cancel(t) PROVE DownIsEmpty' /\ ReadyIsScheduled'
  BY <1>3, NothingReady DEF Cancel, Idle, volatileVars, poolVars, dbVars, DownIsEmpty
<1>4. ASSUME NEW b \in Batches, CancelBatch(b) PROVE DownIsEmpty' /\ ReadyIsScheduled'
  BY <1>4, NothingReady DEF CancelBatch, Idle, volatileVars, poolVars, dbVars, DownIsEmpty
<1>5. ASSUME NEW t \in Tasks, Retry(t) PROVE DownIsEmpty' /\ ReadyIsScheduled'
  BY <1>5, NothingReady DEF Retry, Idle, volatileVars, poolVars, dbVars, DownIsEmpty
<1>6. ASSUME Poll PROVE DownIsEmpty' /\ ReadyIsScheduled'
  <2>1. PICK n \in 0..MaxConcurrency :
          ready' \in [1..n -> {t \in Tasks : status'[t] = "scheduled"}] /\ IsInjective(ready')
    BY <1>6 DEF Poll, FetchReady, FirstInOrder
  <2>2. ReadyIsScheduled'
    BY <2>1 DEF ReadyIsScheduled, IsInjective
  <2>3. QED
    BY <1>6, <2>2 DEF Poll, Idle, DownIsEmpty
<1>7. ASSUME DependencyCheck PROVE DownIsEmpty' /\ ReadyIsScheduled'
  BY <1>7, NothingReady DEF DependencyCheck, Idle, volatileVars, poolVars, dbVars, DownIsEmpty
<1>8. ASSUME PollBreak PROVE DownIsEmpty' /\ ReadyIsScheduled'
  BY <1>8, NothingReady DEF PollBreak, Polling, DownIsEmpty
<1>9. ASSUME SkipLocked PROVE DownIsEmpty' /\ ReadyIsScheduled'
  <2>1. ReadyIsScheduled'
    BY <1>9, TailReady DEF SkipLocked, Polling, ReadyIsScheduled
  <2>2. QED
    BY <1>9, <2>1 DEF SkipLocked, Polling, DownIsEmpty
<1>10. ASSUME NEW s \in Slots, AssignTask(s) PROVE DownIsEmpty' /\ ReadyIsScheduled'
  <2>1. \A i \in DOMAIN ready' : ready'[i] # Head(ready)
    BY <1>10, TailReady DEF AssignTask, Polling
  <2>2. /\ ready' = Tail(ready) /\ up' = up /\ up
        /\ status' = [status EXCEPT ![Head(ready)] = "running"]
    BY <1>10 DEF AssignTask, Polling
  <2>3. ReadyIsScheduled'
    BY <1>10, <2>1, <2>2, TailReady DEF AssignTask, Polling, ReadyIsScheduled, TypeOK, DatabaseTypeOK
  <2>4. QED
    BY <2>2, <2>3 DEF DownIsEmpty
<1>11. ASSUME NEW s \in Slots, Succeed(s) PROVE DownIsEmpty' /\ ReadyIsScheduled'
  BY <1>11, NothingReady DEF Succeed, Idle, volatileVars, poolVars, dbVars, DownIsEmpty
<1>12. ASSUME NEW s \in Slots, Fail(s) PROVE DownIsEmpty' /\ ReadyIsScheduled'
  BY <1>12, NothingReady DEF Fail, Idle, volatileVars, poolVars, dbVars, DownIsEmpty
<1>13. ASSUME NEW s \in Slots, FinishCancelled(s) PROVE DownIsEmpty' /\ ReadyIsScheduled'
  BY <1>13, NothingReady DEF FinishCancelled, Idle, volatileVars, poolVars, dbVars, DownIsEmpty
<1>14. ASSUME NEW t \in Tasks, AnnounceCompleted(t) PROVE DownIsEmpty' /\ ReadyIsScheduled'
  BY <1>14, NothingReady DEF AnnounceCompleted, Idle, volatileVars, poolVars, dbVars, DownIsEmpty
<1>15. ASSUME NEW t \in Tasks, RetryTimer(t) PROVE DownIsEmpty' /\ ReadyIsScheduled'
  BY <1>15, NothingReady DEF RetryTimer, Idle, volatileVars, poolVars, dbVars, DownIsEmpty
<1>16. ASSUME Heartbeat PROVE DownIsEmpty' /\ ReadyIsScheduled'
  BY <1>16, NothingReady DEF Heartbeat, Idle, volatileVars, poolVars, dbVars, DownIsEmpty
<1>17. ASSUME NEW b \in 1..MaxBoots, GoesStale(b) PROVE DownIsEmpty' /\ ReadyIsScheduled'
  BY <1>17 DEF GoesStale, volatileVars, poolVars, DownIsEmpty, ReadyIsScheduled
<1>18. ASSUME NEW l \in locks, LockExpires(l) PROVE DownIsEmpty' /\ ReadyIsScheduled'
  BY <1>18 DEF LockExpires, volatileVars, poolVars, DownIsEmpty, ReadyIsScheduled
<1>19. ASSUME Start PROVE DownIsEmpty' /\ ReadyIsScheduled'
  BY <1>19 DEF Start, volatileVars, poolVars, DownIsEmpty, ReadyIsScheduled
<1>20. ASSUME Crash PROVE DownIsEmpty' /\ ReadyIsScheduled'
  BY <1>20, DeadIsEmpty DEF Crash
<1>21. ASSUME gracefulShutdown PROVE DownIsEmpty' /\ ReadyIsScheduled'
  BY <1>21, DeadIsEmpty DEF gracefulShutdown
<1>22. ASSUME NEW S \in SUBSET Tasks, NEW moved \in SUBSET NoDeps(S), EnqueueTorn(S, moved) PROVE DownIsEmpty' /\ ReadyIsScheduled'
  BY <1>22, DeadIsEmpty DEF EnqueueTorn
<1>23. ASSUME NEW s \in Slots, AssignTorn(s) PROVE DownIsEmpty' /\ ReadyIsScheduled'
  BY <1>23, DeadIsEmpty DEF AssignTorn
<1>24. ASSUME NEW s \in Slots, NEW new \in {"completed", "failed"}, FinishTorn(s, new) PROVE DownIsEmpty' /\ ReadyIsScheduled'
  BY <1>24, DeadIsEmpty DEF FinishTorn
<1>25. ASSUME NEW S \in SUBSET (NotifiedTasks \cup PendingTasksWithMetDeps), PromoteTorn(S) PROVE DownIsEmpty' /\ ReadyIsScheduled'
  BY <1>25, DeadIsEmpty DEF PromoteTorn
<1>26. ASSUME NEW D \in SUBSET Dead, NEW P \in SUBSET (Dead \ D), RecoverTorn(D, P) PROVE DownIsEmpty' /\ ReadyIsScheduled'
  BY <1>26, DeadIsEmpty DEF RecoverTorn
<1>27. ASSUME NEW k \in 1..MaxConcurrency - 1, HeartbeatTorn(k) PROVE DownIsEmpty' /\ ReadyIsScheduled'
  BY <1>27, DeadIsEmpty DEF HeartbeatTorn
<1>28. ASSUME NEW k \in 1..MaxConcurrency - 1, StopTorn(k) PROVE DownIsEmpty' /\ ReadyIsScheduled'
  BY <1>28, DeadIsEmpty DEF StopTorn
<1>29. ASSUME NEW k \in 1..MaxConcurrency - 1, StartTorn(k) PROVE DownIsEmpty' /\ ReadyIsScheduled'
  BY <1>29 DEF StartTorn, volatileVars, poolVars, DownIsEmpty, ReadyIsScheduled
<1>30. CASE UNCHANGED vars
  BY <1>30 DEF vars, dbVars, volatileVars, poolVars, DownIsEmpty, ReadyIsScheduled
<1>31. QED
  BY <1>1, <1>2, <1>3, <1>4, <1>5, <1>6, <1>7, <1>8, <1>9, <1>10, <1>11, <1>12, <1>13, <1>14, <1>15, <1>16, <1>17, <1>18, <1>19, <1>20, <1>21, <1>22, <1>23, <1>24, <1>25, <1>26, <1>27, <1>28, <1>29, <1>30 DEF Next, Request, Creation, Scheduler, Execution, Environment, Torn

\* The heartbeat refreshes the workers of this process before it looks for
\* dead ones.
LEMMA OwnNotDead == Dead \subseteq Workers \ OwnWorkers
BY DEF Dead, Beaten

\* Only assignment starts an execution, and only of a scheduled task, which
\* none is in flight for.
LEMMA ExecutedOnceStep ==
  ASSUME TypeOK, DownIsEmpty, ReadyIsScheduled, ExecutedOnce, [Next]_vars PROVE ExecutedOnce'
<1>1. ASSUME NEW t \in Tasks, Enqueue(t) PROVE ExecutedOnce'
  <2>1. /\ \A u \in Tasks : status[u] # "none" => status'[u] = status[u]
        /\ UNCHANGED <<current, owner, boot>>
    BY <1>1 DEF Enqueue, InsertTasks, NoDeps, Created, volatileVars, poolVars
  <2>2. QED
    BY <2>1, CurrentIsTask DEF ExecutedOnce
<1>2. ASSUME NEW S \in SUBSET Tasks, BatchEnqueue(S) PROVE ExecutedOnce'
  <2>1. /\ \A u \in Tasks : status[u] # "none" => status'[u] = status[u]
        /\ UNCHANGED <<current, owner, boot>>
    BY <1>2 DEF BatchEnqueue, InsertTasks, NoDeps, Created, volatileVars, poolVars
  <2>2. QED
    BY <2>1, CurrentIsTask DEF ExecutedOnce
<1>3. ASSUME NEW t \in Tasks, Cancel(t) PROVE ExecutedOnce'
  <2>1. /\ \A u \in Tasks : status'[u] \in {status[u], "cancelled"}
        /\ UNCHANGED <<current, owner, boot>>
    BY <1>3 DEF Cancel, volatileVars, poolVars
  <2>2. QED
    BY <2>1, CurrentIsTask DEF ExecutedOnce
<1>4. ASSUME NEW b \in Batches, CancelBatch(b) PROVE ExecutedOnce'
  <2>1. /\ \A u \in Tasks : status'[u] \in {status[u], "cancelled"}
        /\ UNCHANGED <<current, owner, boot>>
    BY <1>4 DEF CancelBatch, volatileVars, poolVars
  <2>2. QED
    BY <2>1, CurrentIsTask DEF ExecutedOnce
<1>5. ASSUME NEW t \in Tasks, Retry(t) PROVE ExecutedOnce'
  <2>1. /\ \A u \in Tasks : status[u] # "failed" => status'[u] = status[u]
        /\ UNCHANGED <<current, owner, boot>>
    BY <1>5 DEF Retry, retryTask, CanRetry, volatileVars, poolVars
  <2>2. QED
    BY <2>1, CurrentIsTask DEF ExecutedOnce
<1>6. ASSUME Poll PROVE ExecutedOnce'
  <2>1. /\ \A u \in Tasks : status[u] # "pending" => status'[u] = status[u]
        /\ UNCHANGED <<current, owner, boot>>
    BY <1>6 DEF Poll, Promote, NotifiedTasks, PendingTasksWithMetDeps, poolVars
  <2>2. QED
    BY <2>1, CurrentIsTask DEF ExecutedOnce
<1>7. ASSUME DependencyCheck PROVE ExecutedOnce'
  <2>1. /\ \A u \in Tasks : status[u] # "pending" => status'[u] = status[u]
        /\ UNCHANGED <<current, owner, boot>>
    BY <1>7 DEF DependencyCheck, Promote, NotifiedTasks, PendingTasksWithMetDeps, poolVars
  <2>2. QED
    BY <2>1, CurrentIsTask DEF ExecutedOnce
<1>8. ASSUME PollBreak PROVE ExecutedOnce'
  BY <1>8 DEF PollBreak, dbVars, poolVars, ExecutedOnce
<1>9. ASSUME SkipLocked PROVE ExecutedOnce'
  BY <1>9 DEF SkipLocked, poolVars, ExecutedOnce
<1>10. ASSUME NEW s \in Slots, AssignTask(s) PROVE ExecutedOnce'
  <2> DEFINE t == Head(ready)
  <2>1. t \in Tasks /\ status[t] = "scheduled" /\ current[s] = NoTask
    BY <1>10, TailReady, HeadIsTask DEF AssignTask, IsFirstFree, FreeSlots
  <2>2. /\ current' = [current EXCEPT ![s] = t] /\ status' = [status EXCEPT ![t] = "running"]
        /\ owner' = [owner EXCEPT ![t] = <<boot, s>>] /\ boot' = boot
    BY <1>10 DEF AssignTask
  <2>3. \A o \in Slots : current[o] # t
    BY <2>1, TasksAssumption DEF ExecutedOnce
  <2>4. \A o \in Slots : current'[o] = IF o = s THEN t ELSE current[o]
    BY <2>2 DEF TypeOK, ProcessTypeOK
  <2>5. status'[t] = "running" /\ owner'[t] = <<boot, s>>
    BY <2>1, <2>2 DEF TypeOK, DatabaseTypeOK
  <2>6. \A u \in Tasks \ {t} : status'[u] = status[u] /\ owner'[u] = owner[u]
    BY <2>2 DEF TypeOK, DatabaseTypeOK
  <2> HIDE DEF t
  <2>7. QED
    BY <2>2, <2>3, <2>4, <2>5, <2>6, CurrentIsTask DEF ExecutedOnce
<1>11. ASSUME NEW s \in Slots, Succeed(s) PROVE ExecutedOnce'
  <2>1. \A o \in Slots : current'[o] = IF o = s THEN NoTask ELSE current[o]
    BY <1>11 DEF Succeed, FreeWorker, TypeOK, ProcessTypeOK
  <2>2. \A u \in Tasks \ {current[s]} : status'[u] = status[u]
    BY <1>11 DEF Succeed, TransitionTo, dbVars, TypeOK, DatabaseTypeOK
  <2>3. UNCHANGED <<owner, boot>> /\ current[s] # NoTask
    BY <1>11 DEF Succeed, dbVars
  <2>4. QED
    BY <2>1, <2>2, <2>3, CurrentIsTask DEF ExecutedOnce
<1>12. ASSUME NEW s \in Slots, Fail(s) PROVE ExecutedOnce'
  <2>1. \A o \in Slots : current'[o] = IF o = s THEN NoTask ELSE current[o]
    BY <1>12 DEF Fail, FreeWorker, TypeOK, ProcessTypeOK
  <2>2. \A u \in Tasks \ {current[s]} : status'[u] = status[u]
    BY <1>12 DEF Fail, TransitionTo, dbVars, TypeOK, DatabaseTypeOK
  <2>3. UNCHANGED <<owner, boot>> /\ current[s] # NoTask
    BY <1>12 DEF Fail, dbVars
  <2>4. QED
    BY <2>1, <2>2, <2>3, CurrentIsTask DEF ExecutedOnce
<1>13. ASSUME NEW s \in Slots, FinishCancelled(s) PROVE ExecutedOnce'
  <2>1. \A o \in Slots : current'[o] = IF o = s THEN NoTask ELSE current[o]
    BY <1>13 DEF FinishCancelled, FreeWorker, TypeOK, ProcessTypeOK
  <2>2. \A u \in Tasks \ {current[s]} : status'[u] = status[u]
    BY <1>13 DEF FinishCancelled, TransitionTo, dbVars, TypeOK, DatabaseTypeOK
  <2>3. UNCHANGED <<owner, boot>> /\ current[s] # NoTask
    BY <1>13 DEF FinishCancelled, dbVars
  <2>4. QED
    BY <2>1, <2>2, <2>3, CurrentIsTask DEF ExecutedOnce
<1>14. ASSUME NEW t \in Tasks, AnnounceCompleted(t) PROVE ExecutedOnce'
  BY <1>14 DEF AnnounceCompleted, dbVars, poolVars, ExecutedOnce
<1>15. ASSUME NEW t \in Tasks, RetryTimer(t) PROVE ExecutedOnce'
  <2>1. \A u \in Tasks : status[u] # "failed" => status'[u] = status[u]
    <3>1. CASE status' = [status EXCEPT ![t] = "scheduled"] /\ status[t] = "failed"
      BY <3>1 DEF TypeOK, DatabaseTypeOK
    <3>2. CASE status' = status
      BY <3>2
    <3>3. QED
      BY <1>15, <3>1, <3>2, Zenon DEF RetryTimer, retryTask, CanRetry
  <2>2. UNCHANGED <<current, owner, boot>>
    BY <1>15 DEF RetryTimer, poolVars
  <2>3. QED
    BY <2>1, <2>2, CurrentIsTask DEF ExecutedOnce
<1>16. ASSUME Heartbeat PROVE ExecutedOnce'
  <2>1. PICK W \in SUBSET (Workers \ OwnWorkers) : RecoverTasks(W)
    BY <1>16, OwnNotDead DEF Heartbeat
  <2>2. UNCHANGED <<current, boot>>
    BY <1>16 DEF Heartbeat, volatileVars, poolVars
  <2>3. \A o \in Slots : <<boot, o>> \notin W
    BY <2>1 DEF OwnWorkers
  <2>4. \A o \in Slots : current[o] # NoTask =>
           status'[current[o]] = status[current[o]] /\ owner'[current[o]] = owner[current[o]]
    BY <2>1, <2>3, CurrentIsTask DEF RecoverTasks, ExecutedOnce
  <2>5. QED
    BY <2>2, <2>4 DEF ExecutedOnce
<1>17. ASSUME NEW b \in 1..MaxBoots, GoesStale(b) PROVE ExecutedOnce'
  BY <1>17 DEF GoesStale, volatileVars, poolVars, ExecutedOnce
<1>18. ASSUME NEW l \in locks, LockExpires(l) PROVE ExecutedOnce'
  BY <1>18 DEF LockExpires, volatileVars, poolVars, ExecutedOnce
<1>19. ASSUME Start PROVE ExecutedOnce'
  <2>1. \A o \in Slots : current'[o] = NoTask
    BY <1>19 DEF Start, volatileVars, poolVars, DownIsEmpty
  <2>2. QED
    BY <2>1 DEF ExecutedOnce
<1>20. ASSUME Crash PROVE ExecutedOnce'
  BY <1>20, DeadIsEmpty DEF Crash
<1>21. ASSUME gracefulShutdown PROVE ExecutedOnce'
  BY <1>21, DeadIsEmpty DEF gracefulShutdown
<1>22. ASSUME NEW S \in SUBSET Tasks, NEW moved \in SUBSET NoDeps(S), EnqueueTorn(S, moved) PROVE ExecutedOnce'
  BY <1>22, DeadIsEmpty DEF EnqueueTorn
<1>23. ASSUME NEW s \in Slots, AssignTorn(s) PROVE ExecutedOnce'
  BY <1>23, DeadIsEmpty DEF AssignTorn
<1>24. ASSUME NEW s \in Slots, NEW new \in {"completed", "failed"}, FinishTorn(s, new) PROVE ExecutedOnce'
  BY <1>24, DeadIsEmpty DEF FinishTorn
<1>25. ASSUME NEW S \in SUBSET (NotifiedTasks \cup PendingTasksWithMetDeps), PromoteTorn(S) PROVE ExecutedOnce'
  BY <1>25, DeadIsEmpty DEF PromoteTorn
<1>26. ASSUME NEW D \in SUBSET Dead, NEW P \in SUBSET (Dead \ D), RecoverTorn(D, P) PROVE ExecutedOnce'
  BY <1>26, DeadIsEmpty DEF RecoverTorn
<1>27. ASSUME NEW k \in 1..MaxConcurrency - 1, HeartbeatTorn(k) PROVE ExecutedOnce'
  BY <1>27, DeadIsEmpty DEF HeartbeatTorn
<1>28. ASSUME NEW k \in 1..MaxConcurrency - 1, StopTorn(k) PROVE ExecutedOnce'
  BY <1>28, DeadIsEmpty DEF StopTorn
<1>29. ASSUME NEW k \in 1..MaxConcurrency - 1, StartTorn(k) PROVE ExecutedOnce'
  <2>1. \A o \in Slots : current'[o] = NoTask
    BY <1>29 DEF StartTorn, volatileVars, poolVars, DownIsEmpty
  <2>2. QED
    BY <2>1 DEF ExecutedOnce
<1>30. CASE UNCHANGED vars
  BY <1>30 DEF vars, dbVars, volatileVars, poolVars, ExecutedOnce
<1>31. QED
  BY <1>1, <1>2, <1>3, <1>4, <1>5, <1>6, <1>7, <1>8, <1>9, <1>10, <1>11, <1>12, <1>13, <1>14, <1>15, <1>16, <1>17, <1>18, <1>19, <1>20, <1>21, <1>22, <1>23, <1>24, <1>25, <1>26, <1>27, <1>28, <1>29, <1>30 DEF Next, Request, Creation, Scheduler, Execution, Environment, Torn

-----------------------------------------------------------------------------
(* The invariants about locks *)

LockInv == LocksHeld /\ LocksAccountedFor /\ LocksAreOld

\* Taking away locks that no execution holds does no harm.
LEMMA LocksReleased ==
  ASSUME TypeOK, LockInv, [Next]_vars,
         UNCHANGED <<current, boot, up>>, locks' \subseteq locks,
         \A l \in locks \ locks', s \in Slots : ~(current[s] = l.task /\ l.worker = <<boot, s>>)
  PROVE LockInv'
<1>1. \A l \in locks : l.task \in Tasks
  BY DEF TypeOK, DatabaseTypeOK, Locks
<1>2. \A u \in Tasks : status[u] = "cancelled" => status'[u] = "cancelled"
  BY StatusSteps DEF StatusStep, CanRetry
<1>3. LocksHeld'
  <2> SUFFICES ASSUME NEW s \in Slots, current[s] # NoTask,
                      NEW r \in Range(LockedResources[current[s]])
               PROVE [resource |-> r, task |-> current[s], worker |-> <<boot, s>>] \in locks'
    BY DEF LocksHeld, Rows
  <2>1. [resource |-> r, task |-> current[s], worker |-> <<boot, s>>] \in locks
    BY DEF LockInv, LocksHeld, Rows
  <2>2. QED
    BY <2>1
<1>4. LocksAccountedFor'
  BY <1>1, <1>2 DEF LockInv, LocksAccountedFor
<1>5. LocksAreOld'
  BY DEF LockInv, LocksAreOld
<1>6. QED
  BY <1>3, <1>4, <1>5 DEF LockInv

\* The death of the process leaves its lock rows to the next one.
LEMMA DeadLocks ==
  ASSUME TypeOK, LockInv, Die, boot' = boot, locks' \subseteq locks
  PROVE LockInv'
<1>1. up' = FALSE /\ \A s \in Slots : current'[s] = NoTask
  BY DEF Die
<1>2. QED
  BY <1>1 DEF LockInv, LocksHeld, LocksAccountedFor, LocksAreOld

\* With a new start, all lock rows are of ended processes.
LEMMA LocksOfEnded ==
  ASSUME TypeOK, LockInv, boot' = boot + 1, locks' = locks, \A s \in Slots : current'[s] = NoTask
  PROVE LockInv'
<1>1. boot \in Nat /\ \A l \in locks : l.worker[1] \in Int
  BY BoundsAssumption DEF TypeOK, DatabaseTypeOK, Locks, Workers
<1>2. \A l \in locks : l.worker[1] < boot'
  BY <1>1 DEF LockInv, LocksAreOld
<1>3. QED
  BY <1>1, <1>2 DEF LockInv, LocksHeld, LocksAccountedFor, LocksAreOld

\* Lock rows are only added for resources that nobody has locked.
LEMMA LocksAdded ==
  ASSUME LockInv, NEW t, NEW rs, NEW s,
         \A r \in rs : ~isResourceLocked(r)
  PROVE \A l1, l2 \in locks \cup Rows(t, rs, <<boot, s>>) : l1.resource = l2.resource => l1 = l2
<1>1. \A l \in Rows(t, rs, <<boot, s>>) :
        /\ l.resource \in rs
        /\ l = [resource |-> l.resource, task |-> t, worker |-> <<boot, s>>]
  BY DEF Rows
<1>2. \A l1, l2 \in locks : l1.resource = l2.resource => l1 = l2
  BY DEF LockInv, LocksAccountedFor
<1>3. \A l1 \in locks, l2 \in Rows(t, rs, <<boot, s>>) : l1.resource # l2.resource
  BY <1>1 DEF isResourceLocked
<1>4. \A l1, l2 \in Rows(t, rs, <<boot, s>>) : l1.resource = l2.resource => l1 = l2
  BY <1>1
<1>5. QED
  BY <1>2, <1>3, <1>4

\* The end of an execution: its locks go, unless its task was cancelled.
LEMMA LocksOfFreed ==
  ASSUME TypeOK, ExecutedOnce, LockInv, [Next]_vars, NEW s \in Slots, current[s] # NoTask,
         FreeWorker(s), UNCHANGED <<boot, up>>,
         \/ locks' = WithoutLocksOf(current[s])
         \/ locks' = locks /\ status[current[s]] = "cancelled"
  PROVE LockInv'
<1> DEFINE t == current[s]
<1>1. \A o \in Slots : current'[o] = IF o = s THEN NoTask ELSE current[o]
  BY DEF FreeWorker, TypeOK, ProcessTypeOK
<1>2. \A o \in Slots \ {s} : current[o] # t
  BY DEF ExecutedOnce
<1>3. \A l \in locks : l.task \in Tasks
  BY DEF TypeOK, DatabaseTypeOK, Locks
<1>4. \A u \in Tasks : status[u] = "cancelled" => status'[u] = "cancelled"
  BY StatusSteps DEF StatusStep, CanRetry
<1>5. locks' \subseteq locks /\ \A l \in locks \ locks' : l.task = t
  BY DEF WithoutLocksOf
<1>6. \A l \in locks' : l.task = t => status[t] = "cancelled"
  BY DEF WithoutLocksOf
<1> HIDE DEF t
<1>7. LocksHeld'
  <2> SUFFICES ASSUME NEW o \in Slots \ {s}, current[o] # NoTask,
                      NEW r \in Range(LockedResources[current[o]])
               PROVE [resource |-> r, task |-> current[o], worker |-> <<boot, o>>] \in locks'
    BY <1>1 DEF LocksHeld, Rows
  <2>1. [resource |-> r, task |-> current[o], worker |-> <<boot, o>>] \in locks
    BY DEF LockInv, LocksHeld, Rows
  <2>2. QED
    BY <2>1, <1>2, <1>5
<1>8. LocksAccountedFor'
  <2>1. \A l1, l2 \in locks' : l1.resource = l2.resource => l1 = l2
    BY <1>5 DEF LockInv, LocksAccountedFor
  <2>2. ASSUME NEW l \in locks'
        PROVE \/ \E o \in Slots : current'[o] = l.task /\ l.worker = <<boot, o>>
              \/ status'[l.task] = "cancelled"
              \/ l.worker[1] < boot
              \/ ~up
    <3>1. CASE l.task = t
      BY <3>1, <1>3, <1>4, <1>5, <1>6
    <3>2. CASE l.task # t
      BY <3>2, <1>1, <1>3, <1>4, <1>5 DEF LockInv, LocksAccountedFor, t
    <3>3. QED
      BY <3>1, <3>2
  <2>3. QED
    BY <2>1, <2>2 DEF LocksAccountedFor
<1>9. LocksAreOld'
  BY <1>5 DEF LockInv, LocksAreOld
<1>10. QED
  BY <1>7, <1>8, <1>9 DEF LockInv

\* Every action preserves the invariants about locks.
LEMMA LockStep ==
  ASSUME TypeOK, DownIsEmpty, ReadyIsScheduled, ExecutedOnce, LockInv, [Next]_vars
  PROVE LockInv'
<1>1. ASSUME NEW t \in Tasks, Enqueue(t) PROVE LockInv'
  <2>1. UNCHANGED <<locks, current, boot, up>>
    BY <1>1 DEF Enqueue, InsertTasks, volatileVars, poolVars
  <2>2. QED
    BY <2>1, LocksReleased
<1>2. ASSUME NEW S \in SUBSET Tasks, BatchEnqueue(S) PROVE LockInv'
  <2>1. UNCHANGED <<locks, current, boot, up>>
    BY <1>2 DEF BatchEnqueue, InsertTasks, volatileVars, poolVars
  <2>2. QED
    BY <2>1, LocksReleased
<1>3. ASSUME NEW t \in Tasks, Cancel(t) PROVE LockInv'
  <2>1. UNCHANGED <<locks, current, boot, up>>
    BY <1>3 DEF Cancel, volatileVars, poolVars
  <2>2. QED
    BY <2>1, LocksReleased
<1>4. ASSUME NEW b \in Batches, CancelBatch(b) PROVE LockInv'
  <2>1. UNCHANGED <<locks, current, boot, up>>
    BY <1>4 DEF CancelBatch, volatileVars, poolVars
  <2>2. QED
    BY <2>1, LocksReleased
<1>5. ASSUME NEW t \in Tasks, Retry(t) PROVE LockInv'
  <2>1. UNCHANGED <<locks, current, boot, up>>
    BY <1>5 DEF Retry, volatileVars, poolVars
  <2>2. QED
    BY <2>1, LocksReleased
<1>6. ASSUME Poll PROVE LockInv'
  <2>1. UNCHANGED <<locks, current, boot, up>>
    BY <1>6 DEF Poll, volatileVars, poolVars
  <2>2. QED
    BY <2>1, LocksReleased
<1>7. ASSUME DependencyCheck PROVE LockInv'
  <2>1. UNCHANGED <<locks, current, boot, up>>
    BY <1>7 DEF DependencyCheck, volatileVars, poolVars
  <2>2. QED
    BY <2>1, LocksReleased
<1>8. ASSUME PollBreak PROVE LockInv'
  <2>1. UNCHANGED <<locks, current, boot, up>>
    BY <1>8 DEF PollBreak, dbVars, volatileVars, poolVars
  <2>2. QED
    BY <2>1, LocksReleased
<1>9. ASSUME SkipLocked PROVE LockInv'
  <2>1. status[Head(ready)] = "scheduled"
    BY <1>9, TailReady DEF SkipLocked
  <2>2. \A s \in Slots : current[s] # Head(ready)
    BY <1>9, <2>1, HeadIsTask, TasksAssumption DEF SkipLocked, ExecutedOnce
  <2>3. UNCHANGED <<current, boot, up>> /\ locks' = WithoutLocksOf(Head(ready))
    BY <1>9 DEF SkipLocked, poolVars
  <2>4. QED
    BY <2>2, <2>3, LocksReleased DEF WithoutLocksOf
<1>10. ASSUME NEW s \in Slots, AssignTask(s) PROVE LockInv'
  <2> DEFINE t == Head(ready)
             rs == Range(LockedResources[t])
  <2>1. t \in Tasks /\ up /\ status[t] = "scheduled"
    BY <1>10, HeadIsTask, TailReady DEF AssignTask, Polling
  <2>2. \A r \in rs : ~isResourceLocked(r)
    <3>1. DOMAIN LockedResources[t] = 1..Len(LockedResources[t])
      BY <2>1, RequestAssumption
    <3>2. QED
      BY <1>10, <3>1 DEF AssignTask, CanLock, CanLockFirst, Range
  <2>3. /\ locks' = locks \cup Rows(t, rs, <<boot, s>>)
        /\ UNCHANGED <<boot, up>> /\ current[s] = NoTask
        /\ \A o \in Slots : current'[o] = IF o = s THEN t ELSE current[o]
    BY <1>10 DEF AssignTask, IsFirstFree, FreeSlots, TypeOK, ProcessTypeOK
  <2>4. \A u \in Tasks : status[u] = "cancelled" => status'[u] = "cancelled"
    BY StatusSteps DEF StatusStep, CanRetry
  <2>5. \A l \in locks : l.task \in Tasks
    BY DEF TypeOK, DatabaseTypeOK, Locks
  <2>6. \A l \in Rows(t, rs, <<boot, s>>) : l.task = t /\ l.worker = <<boot, s>>
    BY DEF Rows
  <2>7. \A l1, l2 \in locks' : l1.resource = l2.resource => l1 = l2
    BY <2>2, <2>3, LocksAdded
  <2> HIDE DEF t
  <2>8. LocksHeld'
    <3> SUFFICES ASSUME NEW o \in Slots, current'[o] # NoTask
                 PROVE Rows(current'[o], Range(LockedResources[current'[o]]), <<boot, o>>) \subseteq locks'
      BY <2>3 DEF LocksHeld
    <3>1. CASE o = s
      BY <3>1, <2>3
    <3>2. CASE o # s
      BY <3>2, <2>3 DEF LockInv, LocksHeld
    <3>3. QED
      BY <3>1, <3>2
  <2>9. ASSUME NEW l \in locks'
        PROVE \/ \E o \in Slots : current'[o] = l.task /\ l.worker = <<boot, o>>
              \/ status'[l.task] = "cancelled"
              \/ l.worker[1] < boot
    <3>1. CASE l \in locks
      <4>1. CASE \E o \in Slots : current[o] = l.task /\ l.worker = <<boot, o>>
        BY <4>1, <3>1, <2>3, <2>5, TasksAssumption
      <4>2. CASE status[l.task] = "cancelled" \/ l.worker[1] < boot
        BY <4>2, <3>1, <2>4, <2>5
      <4>3. QED
        BY <3>1, <2>1, <4>1, <4>2 DEF LockInv, LocksAccountedFor
    <3>2. CASE l \notin locks
      BY <3>2, <2>3, <2>6
    <3>3. QED
      BY <3>1, <3>2
  <2>10. LocksAccountedFor'
    BY <2>3, <2>7, <2>9 DEF LocksAccountedFor
  <2>11. LocksAreOld'
    BY <2>3, <2>6 DEF LockInv, LocksAreOld, TypeOK, DatabaseTypeOK
  <2>12. QED
    BY <2>8, <2>10, <2>11 DEF LockInv
<1>11. ASSUME NEW s \in Slots, Succeed(s) PROVE LockInv'
  <2>1. /\ current[s] # NoTask /\ FreeWorker(s)
        /\ UNCHANGED <<boot, up>> /\ locks' = WithoutLocksOf(current[s])
    BY <1>11 DEF Succeed, TransitionTo
  <2>2. QED
    BY <2>1, LocksOfFreed
<1>12. ASSUME NEW s \in Slots, Fail(s) PROVE LockInv'
  <2>1. /\ current[s] # NoTask /\ FreeWorker(s)
        /\ UNCHANGED <<boot, up>> /\ locks' = WithoutLocksOf(current[s])
    BY <1>12 DEF Fail, TransitionTo
  <2>2. QED
    BY <2>1, LocksOfFreed
<1>13. ASSUME NEW s \in Slots, FinishCancelled(s) PROVE LockInv'
  <2>1. /\ current[s] # NoTask /\ FreeWorker(s)
        /\ UNCHANGED <<boot, up>> /\ locks' = locks
    BY <1>13 DEF FinishCancelled, dbVars
  <2>2. status[current[s]] = "cancelled"
    BY <1>13, <2>1, CurrentIsTask, TransitionTable DEF FinishCancelled, ExecutedOnce, Statuses
  <2>3. QED
    BY <2>1, <2>2, LocksOfFreed
<1>14. ASSUME NEW t \in Tasks, AnnounceCompleted(t) PROVE LockInv'
  <2>1. UNCHANGED <<locks, current, boot, up>>
    BY <1>14 DEF AnnounceCompleted, dbVars, volatileVars, poolVars
  <2>2. QED
    BY <2>1, LocksReleased
<1>15. ASSUME NEW t \in Tasks, RetryTimer(t) PROVE LockInv'
  <2>1. UNCHANGED <<locks, current, boot, up>>
    BY <1>15 DEF RetryTimer, volatileVars, poolVars
  <2>2. QED
    BY <2>1, LocksReleased
<1>16. ASSUME Heartbeat PROVE LockInv'
  <2>1. PICK W \in SUBSET (Workers \ OwnWorkers) : locks' = LocksWithout(W)
    BY <1>16, OwnNotDead DEF Heartbeat
  <2>2. UNCHANGED <<current, boot, up>>
    BY <1>16 DEF Heartbeat, volatileVars, poolVars
  <2>3. \A o \in Slots : <<boot, o>> \notin W
    BY <2>1 DEF OwnWorkers
  <2>4. QED
    BY <2>1, <2>2, <2>3, LocksReleased DEF LocksWithout
<1>17. ASSUME NEW b \in 1..MaxBoots, GoesStale(b) PROVE LockInv'
  <2>1. UNCHANGED <<locks, current, boot, up>>
    BY <1>17 DEF GoesStale, volatileVars, poolVars
  <2>2. QED
    BY <2>1, LocksReleased
<1>18. ASSUME NEW l \in locks, LockExpires(l) PROVE LockInv'
  <2>1. UNCHANGED <<current, boot, up>> /\ locks' = locks \ {l} /\ ~InFlight(l.task)
    BY <1>18 DEF LockExpires, volatileVars, poolVars
  <2>2. QED
    BY <2>1, LocksReleased DEF InFlight
<1>19. ASSUME Start PROVE LockInv'
  <2>1. /\ \A s \in Slots : current'[s] = NoTask
        /\ boot' = boot + 1 /\ locks' = locks
    BY <1>19 DEF Start, volatileVars, poolVars, DownIsEmpty
  <2>2. QED
    BY <2>1, LocksOfEnded
<1>20. ASSUME Crash PROVE LockInv'
  <2>1. Die /\ boot' = boot /\ locks' = locks
    BY <1>20 DEF Crash, dbVars
  <2>2. QED
    BY <2>1, DeadLocks
<1>21. ASSUME gracefulShutdown PROVE LockInv'
  <2>1. Die /\ boot' = boot /\ locks' = locks
    BY <1>21 DEF gracefulShutdown
  <2>2. QED
    BY <2>1, DeadLocks
<1>22. ASSUME NEW S \in SUBSET Tasks, NEW moved \in SUBSET NoDeps(S), EnqueueTorn(S, moved) PROVE LockInv'
  <2>1. Die /\ boot' = boot /\ locks' = locks
    BY <1>22 DEF EnqueueTorn, InsertTasks
  <2>2. QED
    BY <2>1, DeadLocks
<1>23. ASSUME NEW s \in Slots, AssignTorn(s) PROVE LockInv'
  <2>1. PICK k \in 1..Len(LockedResources[Head(ready)]) :
          /\ CanLockFirst(Head(ready), k)
          /\ locks' = locks \cup Rows(Head(ready), FirstResources(Head(ready), k), <<boot, s>>)
    BY <1>23 DEF AssignTorn
  <2>2. \A r \in FirstResources(Head(ready), k) : ~isResourceLocked(r)
    BY <2>1 DEF CanLockFirst, FirstResources
  <2>3. \A l1, l2 \in locks' : l1.resource = l2.resource => l1 = l2
    BY <2>1, <2>2, LocksAdded
  <2>4. boot' = boot /\ up' = FALSE /\ \A o \in Slots : current'[o] = NoTask
    BY <1>23 DEF AssignTorn, Die
  <2>5. \A l \in locks' : l \in locks \/ l.worker = <<boot, s>>
    BY <2>1 DEF Rows
  <2>6. LocksAreOld'
    BY <2>4, <2>5 DEF LockInv, LocksAreOld, TypeOK, DatabaseTypeOK
  <2>7. QED
    BY <2>3, <2>4, <2>6 DEF LockInv, LocksHeld, LocksAccountedFor
<1>24. ASSUME NEW s \in Slots, NEW new \in {"completed", "failed"}, FinishTorn(s, new) PROVE LockInv'
  <2>1. Die /\ boot' = boot /\ locks' = locks
    BY <1>24 DEF FinishTorn
  <2>2. QED
    BY <2>1, DeadLocks
<1>25. ASSUME NEW S \in SUBSET (NotifiedTasks \cup PendingTasksWithMetDeps), PromoteTorn(S) PROVE LockInv'
  <2>1. Die /\ boot' = boot /\ locks' \subseteq locks
    BY <1>25 DEF PromoteTorn
  <2>2. QED
    BY <2>1, DeadLocks
<1>26. ASSUME NEW D \in SUBSET Dead, NEW P \in SUBSET (Dead \ D), RecoverTorn(D, P) PROVE LockInv'
  <2>1. Die /\ boot' = boot /\ locks' \subseteq locks
    BY <1>26 DEF RecoverTorn, LocksWithout
  <2>2. QED
    BY <2>1, DeadLocks
<1>27. ASSUME NEW k \in 1..MaxConcurrency - 1, HeartbeatTorn(k) PROVE LockInv'
  <2>1. Die /\ boot' = boot /\ locks' \subseteq locks
    BY <1>27 DEF HeartbeatTorn
  <2>2. QED
    BY <2>1, DeadLocks
<1>28. ASSUME NEW k \in 1..MaxConcurrency - 1, StopTorn(k) PROVE LockInv'
  <2>1. Die /\ boot' = boot /\ locks' \subseteq locks
    BY <1>28 DEF StopTorn
  <2>2. QED
    BY <2>1, DeadLocks
<1>29. ASSUME NEW k \in 1..MaxConcurrency - 1, StartTorn(k) PROVE LockInv'
  <2>1. /\ \A s \in Slots : current'[s] = NoTask
        /\ boot' = boot + 1 /\ locks' = locks
    BY <1>29 DEF StartTorn, volatileVars, poolVars, DownIsEmpty
  <2>2. QED
    BY <2>1, LocksOfEnded
<1>30. CASE UNCHANGED vars
  BY <1>30, LocksReleased DEF vars, dbVars, volatileVars, poolVars
<1>31. QED
  BY <1>1, <1>2, <1>3, <1>4, <1>5, <1>6, <1>7, <1>8, <1>9, <1>10, <1>11, <1>12, <1>13, <1>14, <1>15, <1>16, <1>17, <1>18, <1>19, <1>20, <1>21, <1>22, <1>23, <1>24, <1>25, <1>26, <1>27, <1>28, <1>29, <1>30 DEF Next, Request, Creation, Scheduler, Execution, Environment, Torn

-----------------------------------------------------------------------------
(* The count of running tasks *)

\* The finally block of an execution undoes what assignTask did.
LEMMA RunningCountStep ==
  ASSUME TypeOK, RunningCount, [Next]_vars PROVE RunningCount'
<1> DEFINE busy == Slots \ FreeSlots
<1>1. IsFiniteSet(busy)
  <2>1. IsFiniteSet(Slots)
    BY BoundsAssumption, FS_Interval DEF Slots
  <2>2. QED
    BY <2>1, FS_Subset
<1>2. Cardinality(busy) \in Nat /\ runningTasks = Cardinality(busy)
  BY <1>1, FS_CardinalityType DEF RunningCount
<1>3. \/ UNCHANGED poolVars
      \/ \E s \in Slots : AssignTask(s) \/ (current[s] # NoTask /\ FreeWorker(s))
      \/ Die
  BY DEF Next, Request, Creation, Scheduler, Execution, Environment, Torn, vars, dbVars, volatileVars,
         Enqueue, BatchEnqueue, Cancel, CancelBatch, Retry, Poll, DependencyCheck, PollBreak,
         SkipLocked, Succeed, Fail, FinishCancelled, AnnounceCompleted, RetryTimer, Heartbeat,
         GoesStale, LockExpires, Start, Crash, gracefulShutdown, EnqueueTorn, AssignTorn,
         FinishTorn, PromoteTorn, RecoverTorn, HeartbeatTorn, StopTorn, StartTorn
<1>4. CASE UNCHANGED poolVars
  BY <1>4 DEF poolVars, RunningCount, FreeSlots
<1>5. ASSUME NEW s \in Slots, AssignTask(s) PROVE RunningCount'
  <2>1. Head(ready) # NoTask
    BY <1>5, HeadIsTask, TasksAssumption DEF AssignTask
  <2>2. s \notin busy /\ (Slots \ FreeSlots)' = busy \cup {s}
    BY <1>5, <2>1 DEF AssignTask, IsFirstFree, FreeSlots, TypeOK, ProcessTypeOK
  <2>3. Cardinality(busy \cup {s}) = Cardinality(busy) + 1
    BY <1>1, <2>2, FS_AddElement
  <2>4. QED
    BY <1>2, <1>5, <2>2, <2>3 DEF AssignTask, RunningCount
<1>6. ASSUME NEW s \in Slots, current[s] # NoTask, FreeWorker(s) PROVE RunningCount'
  <2>1. s \in busy /\ (Slots \ FreeSlots)' = busy \ {s}
    BY <1>6 DEF FreeWorker, FreeSlots, TypeOK, ProcessTypeOK
  <2>2. Cardinality(busy \ {s}) = Cardinality(busy) - 1
    BY <1>1, <2>1, FS_RemoveElement
  <2>3. QED
    BY <1>2, <1>6, <2>1, <2>2 DEF FreeWorker, RunningCount
<1>7. CASE Die
  <2>1. (Slots \ FreeSlots)' = {} /\ runningTasks' = 0
    BY <1>7 DEF Die, FreeSlots
  <2>2. QED
    BY <2>1, FS_EmptySet DEF RunningCount
<1>8. QED
  BY <1>3, <1>4, <1>5, <1>6, <1>7

-----------------------------------------------------------------------------
(* The invariant, and what follows from it *)

\* An empty database and a process that is not started.
LEMMA InitInv == Init => IInv
<1> SUFFICES ASSUME Init PROVE IInv
  OBVIOUS
<1>1. TypeOK
  <2>1. DatabaseTypeOK
    BY BoundsAssumption DEF Init, DatabaseTypeOK
  <2>2. ProcessTypeOK
    <3>1. ready \in Seq(Tasks) /\ runningTasks \in Int /\ up = FALSE
      BY DEF Init
    <3>2. completing \in SUBSET Tasks /\ notifications \in SUBSET Tasks
      BY DEF Init
    <3>3. current \in [Slots -> Tasks \cup {NoTask}]
      BY DEF Init
    <3>4. retryTimers \in [Tasks -> Nat] /\ announced \in [Tasks -> Nat]
      BY DEF Init
    <3>5. QED
      BY <3>1, <3>2, <3>3, <3>4 DEF ProcessTypeOK
  <2>3. QED
    BY <2>1, <2>2 DEF TypeOK
<1>2. DepsRespected
  BY DEF Init, DepsRespected
<1>3. RunningCount
  <2>1. Slots \ FreeSlots = {} /\ runningTasks = 0
    BY DEF Init, FreeSlots
  <2>2. QED
    BY <2>1, FS_EmptySet DEF RunningCount
<1>4. RetryBudget
  BY RequestAssumption DEF Init, RetryBudget
<1>5. AnnouncedOnce /\ CompletingIsCompleted
  BY DEF Init, AnnouncedOnce, CompletingIsCompleted
<1>6. DownIsEmpty /\ ReadyIsScheduled /\ ExecutedOnce
  BY DEF Init, DownIsEmpty, ReadyIsScheduled, ExecutedOnce
<1>7. LocksHeld /\ LocksAccountedFor /\ LocksAreOld
  BY DEF Init, LocksHeld, LocksAccountedFor, LocksAreOld
<1>8. QED
  BY <1>1, <1>2, <1>3, <1>4, <1>5, <1>6, <1>7 DEF IInv

\* Each part of the invariant is preserved, given the others.
LEMMA NextInv == IInv /\ [Next]_vars => IInv'
<1> SUFFICES ASSUME IInv, [Next]_vars PROVE IInv'
  OBVIOUS
<1> USE DEF IInv
<1>1. TypeOK'
  BY TypeStep
<1>2. DepsRespected' /\ RunningCount'
  BY DepsRespectedStep, RunningCountStep
<1>3. RetryBudget' /\ AnnouncedOnce' /\ CompletingIsCompleted'
  BY RetryBudgetStep, AnnouncedStep
<1>4. DownIsEmpty' /\ ReadyIsScheduled' /\ ExecutedOnce'
  BY ReadyStep, ExecutedOnceStep
<1>5. LocksHeld' /\ LocksAccountedFor' /\ LocksAreOld'
  BY LockStep DEF LockInv
<1>6. QED
  BY <1>1, <1>2, <1>3, <1>4, <1>5

\* IInv holds in every state the server can reach.
THEOREM Invariance == Spec => []IInv
  BY InitInv, NextInv, PTL DEF Spec

\* The two executions would both hold the one lock row of the resource.
LEMMA ExclusionFollows == IInv => ResourceExclusion
<1> SUFFICES ASSUME IInv,
                    NEW s1 \in Slots, NEW s2 \in Slots, s1 # s2,
                    current[s1] # NoTask, current[s2] # NoTask,
                    NEW r \in Range(LockedResources[current[s1]]),
                    r \in Range(LockedResources[current[s2]])
             PROVE FALSE
  BY DEF ResourceExclusion
<1>1. /\ [resource |-> r, task |-> current[s1], worker |-> <<boot, s1>>] \in locks
      /\ [resource |-> r, task |-> current[s2], worker |-> <<boot, s2>>] \in locks
  BY DEF IInv, LocksHeld, Rows
<1>2. [resource |-> r, task |-> current[s1], worker |-> <<boot, s1>>]
        = [resource |-> r, task |-> current[s2], worker |-> <<boot, s2>>]
  BY <1>1 DEF IInv, LocksAccountedFor
<1>3. QED
  BY <1>2

-----------------------------------------------------------------------------
(* The theorems *)

\* Every variable keeps its type, through crashes and restarts.
THEOREM TypeCorrect == Spec => []TypeOK
  BY Invariance, PTL DEF IInv

\* No task is scheduled or executed before what it depends on is completed.
THEOREM DependenciesAreRespected == Spec => []DepsRespected
  BY Invariance, PTL DEF IInv

\* Two executions never use one resource at the same time.
THEOREM ResourcesAreExclusive == Spec => []ResourceExclusion
  BY Invariance, ExclusionFollows, PTL

\* No task is executed twice at a time, or scheduled while it is executed.
THEOREM ExecutionsAreUnique == Spec => []ExecutedOnce
  BY Invariance, PTL DEF IInv

\* Every lock row belongs to an execution, a cancelled task or a dead process.
THEOREM LocksAreAccountedFor == Spec => []LocksAccountedFor
  BY Invariance, PTL DEF IInv

\* The pool's count of running tasks is right.
THEOREM CountIsRight == Spec => []RunningCount
  BY Invariance, PTL DEF IInv

\* No task is retried more often than its request allows.
THEOREM RetriesAreBounded == Spec => []RetryBudget
  BY Invariance, PTL DEF IInv

\* A task is announced at most once, and when it is final.
THEOREM AnnouncementsAreFinal == Spec => []AnnouncedOnce
  BY Invariance, PTL DEF IInv

\* A final or cancelled task keeps its status.
THEOREM FinalStatusIsFinal == Spec => FinalIsFinal
<1>1. IInv /\ [Next]_vars =>
        [\A t \in Tasks : Final(t) \/ status[t] = "cancelled" => status'[t] = status[t]]_vars
  BY FinalStep DEF IInv
<1>2. QED
  BY <1>1, Invariance, PTL DEF Spec, FinalIsFinal

-----------------------------------------------------------------------------
(* The server implements TaskLifecycle *)

\* What one step does to the execution of one task.
ExecutionStep(t) ==
  /\ InFlight(t)' /\ ~InFlight(t) => status[t] = "scheduled" /\ status'[t] = "running"
  /\ status[t] = "scheduled" /\ status'[t] = "running" => InFlight(t)'
  /\ status[t] = "running" /\ status'[t] \in {"completed", "failed"} => InFlight(t) /\ ~InFlight(t)'
  /\ status[t] = "running" /\ status'[t] = "scheduled" => ~InFlight(t)

\* Most actions start and end no execution.
LEMMA NoExecution ==
  ASSUME NEW u \in Tasks, UNCHANGED current \/ Die,
         status'[u] # status[u] => \/ status[u] # "running" /\ status'[u] # "running"
                                   \/ status'[u] = "cancelled"
  PROVE ExecutionStep(u)
<1>1. InFlight(u)' => InFlight(u)
  BY TasksAssumption DEF Die, InFlight
<1>2. QED
  BY <1>1 DEF ExecutionStep

\* The recovery of other processes' workers leaves the executions alone.
LEMMA RecoveryQuiet ==
  ASSUME TypeOK, ExecutedOnce, NEW W \in SUBSET (Workers \ OwnWorkers), RecoverTasks(W),
         UNCHANGED current \/ Die
  PROVE  \A u \in Tasks : ExecutionStep(u)
<1> USE DEF TypeOK, DatabaseTypeOK
<1>1. \A o \in Slots : <<boot, o>> \notin W
  BY DEF OwnWorkers
<1>2. ASSUME NEW u \in Tasks PROVE ExecutionStep(u)
  <2>1. InFlight(u)' => InFlight(u)
    BY TasksAssumption DEF Die, InFlight
  <2>2. CASE InFlight(u)
    <3>1. PICK o \in Slots : current[o] = u
      BY <2>2 DEF InFlight
    <3>2. status[u] # "running" \/ owner[u] = <<boot, o>>
      BY <3>1, TasksAssumption DEF ExecutedOnce
    <3>3. status'[u] = status[u]
      BY <1>1, <3>2 DEF RecoverTasks
    <3>4. QED
      BY <2>1, <3>3 DEF ExecutionStep
  <2>3. CASE ~InFlight(u)
    <3>1. status'[u] = status[u] \/ status'[u] = "scheduled"
      BY DEF RecoverTasks
    <3>2. QED
      BY <2>1, <2>3, <3>1 DEF ExecutionStep
  <2>4. QED
    BY <2>2, <2>3
<1>3. QED
  BY <1>2

\* Every step of the server is such a step for every task.
LEMMA ExecutionSteps == ASSUME IInv, [Next]_vars PROVE \A u \in Tasks : ExecutionStep(u)
<1> USE DEF IInv, TypeOK
<1> DEFINE Quiet(u) == status'[u] # status[u] => \/ status[u] # "running" /\ status'[u] # "running"
                                                 \/ status'[u] = "cancelled"
<1>1. ASSUME NEW t \in Tasks, Enqueue(t) PROVE \A u \in Tasks : ExecutionStep(u)
  <2>1. \A u \in Tasks : Quiet(u)
    BY <1>1 DEF Enqueue, InsertTasks, NoDeps, Created, DatabaseTypeOK
  <2>2. UNCHANGED current \/ Die
    BY <1>1 DEF Enqueue, volatileVars, poolVars
  <2>3. QED
    BY <2>1, <2>2, NoExecution
<1>2. ASSUME NEW S \in SUBSET Tasks, BatchEnqueue(S) PROVE \A u \in Tasks : ExecutionStep(u)
  <2>1. \A u \in Tasks : Quiet(u)
    BY <1>2 DEF BatchEnqueue, InsertTasks, NoDeps, Created, DatabaseTypeOK
  <2>2. UNCHANGED current \/ Die
    BY <1>2 DEF BatchEnqueue, volatileVars, poolVars
  <2>3. QED
    BY <2>1, <2>2, NoExecution
<1>3. ASSUME NEW t \in Tasks, Cancel(t) PROVE \A u \in Tasks : ExecutionStep(u)
  <2>1. \A u \in Tasks : Quiet(u)
    BY <1>3 DEF Cancel, DatabaseTypeOK
  <2>2. UNCHANGED current \/ Die
    BY <1>3 DEF Cancel, volatileVars, poolVars
  <2>3. QED
    BY <2>1, <2>2, NoExecution
<1>4. ASSUME NEW b \in Batches, CancelBatch(b) PROVE \A u \in Tasks : ExecutionStep(u)
  <2>1. \A u \in Tasks : Quiet(u)
    BY <1>4 DEF CancelBatch, DatabaseTypeOK
  <2>2. UNCHANGED current \/ Die
    BY <1>4 DEF CancelBatch, volatileVars, poolVars
  <2>3. QED
    BY <2>1, <2>2, NoExecution
<1>5. ASSUME NEW t \in Tasks, Retry(t) PROVE \A u \in Tasks : ExecutionStep(u)
  <2>1. \A u \in Tasks : Quiet(u)
    BY <1>5 DEF Retry, retryTask, CanRetry, DatabaseTypeOK
  <2>2. UNCHANGED current \/ Die
    BY <1>5 DEF Retry, volatileVars, poolVars
  <2>3. QED
    BY <2>1, <2>2, NoExecution
<1>6. ASSUME Poll PROVE \A u \in Tasks : ExecutionStep(u)
  <2>1. \A u \in Tasks : Quiet(u)
    BY <1>6 DEF Poll, Promote, NotifiedTasks, PendingTasksWithMetDeps, DatabaseTypeOK
  <2>2. UNCHANGED current \/ Die
    BY <1>6 DEF Poll, volatileVars, poolVars
  <2>3. QED
    BY <2>1, <2>2, NoExecution
<1>7. ASSUME DependencyCheck PROVE \A u \in Tasks : ExecutionStep(u)
  <2>1. \A u \in Tasks : Quiet(u)
    BY <1>7 DEF DependencyCheck, Promote, NotifiedTasks, DatabaseTypeOK
  <2>2. UNCHANGED current \/ Die
    BY <1>7 DEF DependencyCheck, volatileVars, poolVars
  <2>3. QED
    BY <2>1, <2>2, NoExecution
<1>8. ASSUME PollBreak PROVE \A u \in Tasks : ExecutionStep(u)
  <2>1. \A u \in Tasks : Quiet(u)
    BY <1>8 DEF PollBreak, dbVars, DatabaseTypeOK
  <2>2. UNCHANGED current \/ Die
    BY <1>8 DEF PollBreak, volatileVars, poolVars
  <2>3. QED
    BY <2>1, <2>2, NoExecution
<1>9. ASSUME SkipLocked PROVE \A u \in Tasks : ExecutionStep(u)
  <2>1. \A u \in Tasks : Quiet(u)
    BY <1>9 DEF SkipLocked, DatabaseTypeOK
  <2>2. UNCHANGED current \/ Die
    BY <1>9 DEF SkipLocked, volatileVars, poolVars
  <2>3. QED
    BY <2>1, <2>2, NoExecution
<1>10. ASSUME NEW s \in Slots, AssignTask(s) PROVE \A u \in Tasks : ExecutionStep(u)
  <2> DEFINE t == Head(ready)
  <2>1. t \in Tasks /\ status[t] = "scheduled" /\ current[s] = NoTask
    BY <1>10, TailReady, HeadIsTask DEF AssignTask, IsFirstFree, FreeSlots
  <2>2. /\ \A o \in Slots : current'[o] = IF o = s THEN t ELSE current[o]
        /\ status' = [status EXCEPT ![t] = "running"]
    BY <1>10 DEF AssignTask, ProcessTypeOK
  <2>3. \A u \in Tasks : status'[u] = IF u = t THEN "running" ELSE status[u]
    BY <2>2 DEF DatabaseTypeOK
  <2> HIDE DEF t
  <2>4. \A u \in Tasks : InFlight(u)' <=> InFlight(u) \/ u = t
    BY <2>1, <2>2, TasksAssumption DEF InFlight
  <2>5. QED
    BY <2>1, <2>3, <2>4 DEF ExecutionStep
<1>11. ASSUME NEW s \in Slots, Succeed(s) PROVE \A u \in Tasks : ExecutionStep(u)
  <2> DEFINE t == current[s]
  <2>1. t \in Tasks /\ \A o \in Slots : current'[o] = IF o = s THEN NoTask ELSE current[o]
    BY <1>11, CurrentIsTask DEF Succeed, FreeWorker, ProcessTypeOK
  <2>2. \A o \in Slots : current[o] = t => o = s
    BY <2>1, TasksAssumption DEF ExecutedOnce
  <2>3. \A u \in Tasks \ {t} : status'[u] = status[u]
    BY <1>11 DEF Succeed, TransitionTo, dbVars, DatabaseTypeOK
  <2>4. status[t] = "running" /\ status'[t] = "completed"
    BY <1>11, <2>1, TransitionTable DEF Succeed, TransitionTo, dbVars, DatabaseTypeOK
  <2> HIDE DEF t
  <2>5. \A u \in Tasks : InFlight(u)' <=> InFlight(u) /\ u # t
    BY <2>1, <2>2, TasksAssumption DEF InFlight, t
  <2>6. InFlight(t)
    BY DEF InFlight, t
  <2>7. QED
    BY <2>3, <2>4, <2>5, <2>6 DEF ExecutionStep
<1>12. ASSUME NEW s \in Slots, Fail(s) PROVE \A u \in Tasks : ExecutionStep(u)
  <2> DEFINE t == current[s]
  <2>1. t \in Tasks /\ \A o \in Slots : current'[o] = IF o = s THEN NoTask ELSE current[o]
    BY <1>12, CurrentIsTask DEF Fail, FreeWorker, ProcessTypeOK
  <2>2. \A o \in Slots : current[o] = t => o = s
    BY <2>1, TasksAssumption DEF ExecutedOnce
  <2>3. \A u \in Tasks \ {t} : status'[u] = status[u]
    BY <1>12 DEF Fail, TransitionTo, dbVars, DatabaseTypeOK
  <2>4. status[t] = "running" /\ status'[t] = "failed"
    BY <1>12, <2>1, TransitionTable DEF Fail, TransitionTo, dbVars, DatabaseTypeOK
  <2> HIDE DEF t
  <2>5. \A u \in Tasks : InFlight(u)' <=> InFlight(u) /\ u # t
    BY <2>1, <2>2, TasksAssumption DEF InFlight, t
  <2>6. InFlight(t)
    BY DEF InFlight, t
  <2>7. QED
    BY <2>3, <2>4, <2>5, <2>6 DEF ExecutionStep
<1>13. ASSUME NEW s \in Slots, FinishCancelled(s) PROVE \A u \in Tasks : ExecutionStep(u)
  <2> DEFINE t == current[s]
  <2>1. t \in Tasks /\ \A o \in Slots : current'[o] = IF o = s THEN NoTask ELSE current[o]
    BY <1>13, CurrentIsTask DEF FinishCancelled, FreeWorker, ProcessTypeOK
  <2>2. \A o \in Slots : current[o] = t => o = s
    BY <2>1, TasksAssumption DEF ExecutedOnce
  <2>3. \A u \in Tasks \ {t} : status'[u] = status[u]
    BY <1>13 DEF FinishCancelled, TransitionTo, dbVars, DatabaseTypeOK
  <2>4. status'[t] = status[t]
    BY <1>13, <2>1, TransitionTable DEF FinishCancelled, TransitionTo, dbVars, DatabaseTypeOK
  <2> HIDE DEF t
  <2>5. \A u \in Tasks : InFlight(u)' <=> InFlight(u) /\ u # t
    BY <2>1, <2>2, TasksAssumption DEF InFlight, t
  <2>6. InFlight(t)
    BY DEF InFlight, t
  <2>7. QED
    BY <2>3, <2>4, <2>5, <2>6 DEF ExecutionStep
<1>14. ASSUME NEW t \in Tasks, AnnounceCompleted(t) PROVE \A u \in Tasks : ExecutionStep(u)
  <2>1. \A u \in Tasks : Quiet(u)
    BY <1>14 DEF AnnounceCompleted, dbVars, DatabaseTypeOK
  <2>2. UNCHANGED current \/ Die
    BY <1>14 DEF AnnounceCompleted, volatileVars, poolVars
  <2>3. QED
    BY <2>1, <2>2, NoExecution
<1>15. ASSUME NEW t \in Tasks, RetryTimer(t) PROVE \A u \in Tasks : ExecutionStep(u)
  <2>1. \/ status' = status
        \/ status' = [status EXCEPT ![t] = "scheduled"] /\ status[t] = "failed"
    BY <1>15, Zenon DEF RetryTimer, retryTask, CanRetry
  <2>2. \A u \in Tasks : Quiet(u)
    BY <2>1 DEF DatabaseTypeOK
  <2>3. UNCHANGED current
    BY <1>15 DEF RetryTimer, poolVars
  <2>4. QED
    BY <2>2, <2>3, NoExecution
<1>16. ASSUME Heartbeat PROVE \A u \in Tasks : ExecutionStep(u)
  <2>1. RecoverTasks(Dead) /\ (UNCHANGED current \/ Die)
    BY <1>16 DEF Heartbeat, volatileVars, poolVars
  <2>2. QED
    BY <2>1, OwnNotDead, RecoveryQuiet
<1>17. ASSUME NEW b \in 1..MaxBoots, GoesStale(b) PROVE \A u \in Tasks : ExecutionStep(u)
  <2>1. \A u \in Tasks : Quiet(u)
    BY <1>17 DEF GoesStale, DatabaseTypeOK
  <2>2. UNCHANGED current \/ Die
    BY <1>17 DEF GoesStale, volatileVars, poolVars
  <2>3. QED
    BY <2>1, <2>2, NoExecution
<1>18. ASSUME NEW l \in locks, LockExpires(l) PROVE \A u \in Tasks : ExecutionStep(u)
  <2>1. \A u \in Tasks : Quiet(u)
    BY <1>18 DEF LockExpires, DatabaseTypeOK
  <2>2. UNCHANGED current \/ Die
    BY <1>18 DEF LockExpires, volatileVars, poolVars
  <2>3. QED
    BY <2>1, <2>2, NoExecution
<1>19. ASSUME Start PROVE \A u \in Tasks : ExecutionStep(u)
  <2>1. \A u \in Tasks : Quiet(u)
    BY <1>19 DEF Start, DatabaseTypeOK
  <2>2. UNCHANGED current \/ Die
    BY <1>19 DEF Start, volatileVars, poolVars
  <2>3. QED
    BY <2>1, <2>2, NoExecution
<1>20. ASSUME Crash PROVE \A u \in Tasks : ExecutionStep(u)
  <2>1. \A u \in Tasks : Quiet(u)
    BY <1>20 DEF Crash, dbVars, DatabaseTypeOK
  <2>2. UNCHANGED current \/ Die
    BY <1>20 DEF Crash, volatileVars, poolVars
  <2>3. QED
    BY <2>1, <2>2, NoExecution
<1>21. ASSUME gracefulShutdown PROVE \A u \in Tasks : ExecutionStep(u)
  <2>1. \A u \in Tasks : Quiet(u)
    BY <1>21 DEF gracefulShutdown, DatabaseTypeOK
  <2>2. UNCHANGED current \/ Die
    BY <1>21 DEF gracefulShutdown, volatileVars, poolVars
  <2>3. QED
    BY <2>1, <2>2, NoExecution
<1>22. ASSUME NEW S \in SUBSET Tasks, NEW moved \in SUBSET NoDeps(S), EnqueueTorn(S, moved) PROVE \A u \in Tasks : ExecutionStep(u)
  <2>1. \A u \in Tasks : Quiet(u)
    BY <1>22 DEF EnqueueTorn, InsertTasks, NoDeps, Created, DatabaseTypeOK
  <2>2. UNCHANGED current \/ Die
    BY <1>22 DEF EnqueueTorn, volatileVars, poolVars
  <2>3. QED
    BY <2>1, <2>2, NoExecution
<1>23. ASSUME NEW s \in Slots, AssignTorn(s) PROVE \A u \in Tasks : ExecutionStep(u)
  <2>1. \A u \in Tasks : Quiet(u)
    BY <1>23 DEF AssignTorn, DatabaseTypeOK
  <2>2. UNCHANGED current \/ Die
    BY <1>23 DEF AssignTorn, volatileVars, poolVars
  <2>3. QED
    BY <2>1, <2>2, NoExecution
<1>24. ASSUME NEW s \in Slots, NEW new \in {"completed", "failed"}, FinishTorn(s, new) PROVE \A u \in Tasks : ExecutionStep(u)
  <2>1. current[s] \in Tasks
    BY <1>24, CurrentIsTask DEF FinishTorn
  <2>2. status[current[s]] = "running" /\ status'[current[s]] = new
    BY <1>24, <2>1, TransitionTable DEF FinishTorn, DatabaseTypeOK
  <2>3. \A u \in Tasks \ {current[s]} : status'[u] = status[u]
    BY <1>24 DEF FinishTorn, DatabaseTypeOK
  <2>4. \A u \in Tasks : ~InFlight(u)'
    BY <1>24, TasksAssumption DEF FinishTorn, Die, InFlight
  <2>5. InFlight(current[s])
    BY DEF InFlight
  <2>6. QED
    BY <2>2, <2>3, <2>4, <2>5 DEF ExecutionStep
<1>25. ASSUME NEW S \in SUBSET (NotifiedTasks \cup PendingTasksWithMetDeps), PromoteTorn(S) PROVE \A u \in Tasks : ExecutionStep(u)
  <2>1. \A u \in Tasks : Quiet(u)
    BY <1>25 DEF PromoteTorn, Promote, NotifiedTasks, PendingTasksWithMetDeps, DatabaseTypeOK
  <2>2. UNCHANGED current \/ Die
    BY <1>25 DEF PromoteTorn
  <2>3. QED
    BY <2>1, <2>2, NoExecution
<1>26. ASSUME NEW D \in SUBSET Dead, NEW P \in SUBSET (Dead \ D), RecoverTorn(D, P) PROVE \A u \in Tasks : ExecutionStep(u)
  <2>1. RecoverTasks(D \cup P) /\ (UNCHANGED current \/ Die)
    BY <1>26 DEF RecoverTorn
  <2>2. D \cup P \in SUBSET (Workers \ OwnWorkers)
    BY OwnNotDead
  <2>3. QED
    BY <2>1, <2>2, RecoveryQuiet
<1>27. ASSUME NEW k \in 1..MaxConcurrency - 1, HeartbeatTorn(k) PROVE \A u \in Tasks : ExecutionStep(u)
  <2>1. \A u \in Tasks : Quiet(u)
    BY <1>27 DEF HeartbeatTorn, DatabaseTypeOK
  <2>2. UNCHANGED current \/ Die
    BY <1>27 DEF HeartbeatTorn
  <2>3. QED
    BY <2>1, <2>2, NoExecution
<1>28. ASSUME NEW k \in 1..MaxConcurrency - 1, StopTorn(k) PROVE \A u \in Tasks : ExecutionStep(u)
  <2>1. \A u \in Tasks : Quiet(u)
    BY <1>28 DEF StopTorn, DatabaseTypeOK
  <2>2. UNCHANGED current \/ Die
    BY <1>28 DEF StopTorn
  <2>3. QED
    BY <2>1, <2>2, NoExecution
<1>29. ASSUME NEW k \in 1..MaxConcurrency - 1, StartTorn(k) PROVE \A u \in Tasks : ExecutionStep(u)
  <2>1. \A u \in Tasks : Quiet(u)
    BY <1>29 DEF StartTorn, DatabaseTypeOK
  <2>2. UNCHANGED current \/ Die
    BY <1>29 DEF StartTorn, volatileVars, poolVars
  <2>3. QED
    BY <2>1, <2>2, NoExecution
<1>30. CASE UNCHANGED vars
  BY <1>30, NoExecution DEF vars, dbVars, volatileVars, poolVars
<1>31. QED
  BY <1>1, <1>2, <1>3, <1>4, <1>5, <1>6, <1>7, <1>8, <1>9, <1>10, <1>11, <1>12, <1>13, <1>14, <1>15, <1>16, <1>17, <1>18, <1>19, <1>20, <1>21, <1>22, <1>23, <1>24, <1>25, <1>26, <1>27, <1>28, <1>29, <1>30 DEF Next, Request, Creation, Scheduler, Execution, Environment, Torn

\* What a step does to a task is a step of its life.
LEMMA StepRefines == ASSUME IInv, IInv', [Next]_vars PROVE Lifecycle!Next
<1> SUFFICES ASSUME NEW t \in Tasks PROVE Lifecycle!TaskStep(t)
  BY DEF Lifecycle!Next
<1> DEFINE executing == {u \in Tasks : InFlight(u)}
<1>1. StatusStep(t) /\ VolatileStep(t) /\ ExecutionStep(t)
  BY StatusSteps, VolatileSteps, ExecutionSteps DEF IInv
<1>2. /\ retryCount[t] \in Nat /\ MaxRetries[t] \in Nat /\ announced[t] \in Nat
      /\ t \in executing <=> InFlight(t)
      /\ t \in executing' <=> InFlight(t)'
  BY RequestAssumption DEF IInv, TypeOK, DatabaseTypeOK, ProcessTypeOK
<1>3. Lifecycle!Announce(t)
  <2>1. CASE announced'[t] = announced[t]
    BY <2>1 DEF Lifecycle!Announce
  <2>2. CASE announced'[t] = announced[t] + 1
    <3>1. announced'[t] <= 1 /\ (announced'[t] = 1 => Final(t)')
      BY DEF IInv, AnnouncedOnce
    <3>2. announced[t] = 0 /\ announced'[t] = 1 /\ Final(t)'
      BY <1>2, <2>2, <3>1
    <3>3. QED
      BY <3>2 DEF Lifecycle!Announce, Lifecycle!Final, Final
  <2>3. QED
    BY <1>1, <2>1, <2>2 DEF VolatileStep
<1>4. CASE status[t] = "scheduled" /\ status'[t] = "running" /\ retryCount'[t] = retryCount[t]
  <2>1. ~InFlight(t) /\ InFlight(t)'
    BY <1>1, <1>4, TasksAssumption DEF ExecutionStep, IInv, ExecutedOnce, InFlight
  <2>2. ASSUME NEW u \in executing' \ {t}
        PROVE Range(LockedResources[t]) \cap Range(LockedResources[u]) = {}
    <3>1. PICK s1 \in Slots : current'[s1] = t
      BY <2>1 DEF InFlight
    <3>2. PICK s2 \in Slots : current'[s2] = u
      BY <2>2 DEF InFlight
    <3>3. ResourceExclusion'
      BY ExclusionFollows, PTL
    <3>4. QED
      BY <2>2, <3>1, <3>2, <3>3, TasksAssumption DEF ResourceExclusion
  <2>3. Lifecycle!Begin(t)
    BY <1>2, <1>4, <2>1, <2>2 DEF Lifecycle!Begin, Lifecycle!Moves, Lifecycle!SameRetries
  <2>4. QED
    BY <2>3, <1>3 DEF Lifecycle!TaskStep
<1>5. CASE ~(status[t] = "scheduled" /\ status'[t] = "running")
  <2>1. t \notin executing' \ executing
    BY <1>1, <1>2, <1>5 DEF ExecutionStep
  <2>2. CASE status'[t] = status[t] /\ retryCount'[t] = retryCount[t]
    BY <2>1, <2>2, <1>3 DEF Lifecycle!TaskStep, Lifecycle!Stay, Lifecycle!SameRetries
  <2>3. CASE /\ \/ status[t] = "none" /\ status'[t] = "pending"
                \/ status[t] = "none" /\ status'[t] = "scheduled" /\ Range(Deps[t]) = {}
             /\ retryCount'[t] = retryCount[t]
    BY <2>1, <2>3, <1>3 DEF Lifecycle!TaskStep, Lifecycle!Submit, Lifecycle!Moves, Lifecycle!SameRetries
  <2>4. CASE /\ status[t] = "pending" /\ status'[t] = "scheduled" /\ Completed(t) = Range(Deps[t])
             /\ retryCount'[t] = retryCount[t]
    <3>1. \A d \in Range(Deps[t]) : status[d] = "completed"
      BY <2>4 DEF Completed
    <3>2. QED
      BY <2>1, <2>4, <3>1, <1>3 DEF Lifecycle!TaskStep, Lifecycle!Release, Lifecycle!Moves, Lifecycle!SameRetries
  <2>5. CASE /\ status[t] = "running" /\ status'[t] \in {"completed", "failed"}
             /\ retryCount'[t] = retryCount[t]
    BY <2>1, <2>5, <1>1, <1>2, <1>3 DEF ExecutionStep, Lifecycle!TaskStep, Lifecycle!End, Lifecycle!Moves, Lifecycle!SameRetries
  <2>6. CASE /\ status[t] = "running" /\ status'[t] = "scheduled"
             /\ retryCount'[t] = retryCount[t]
    BY <2>1, <2>6, <1>1, <1>2, <1>3 DEF ExecutionStep, Lifecycle!TaskStep, Lifecycle!Recover, Lifecycle!Moves, Lifecycle!SameRetries
  <2>7. CASE /\ status[t] \in {"pending", "scheduled", "running"} /\ status'[t] = "cancelled"
             /\ retryCount'[t] = retryCount[t]
    BY <2>1, <2>7, <1>3 DEF Lifecycle!TaskStep, Lifecycle!Cancel, Lifecycle!Moves, Lifecycle!SameRetries
  <2>8. CASE CanRetry(t) /\ status'[t] = "scheduled" /\ retryCount'[t] = retryCount[t] + 1
    BY <2>1, <2>8, <1>2, <1>3 DEF CanRetry, Lifecycle!TaskStep, Lifecycle!TryAgain, Lifecycle!Moves
  <2>9. QED
    BY <1>1, <1>5, <2>2, <2>3, <2>4, <2>5, <2>6, <2>7, <2>8 DEF StatusStep
<1>6. CASE status[t] = "scheduled" /\ status'[t] = "running" /\ retryCount'[t] # retryCount[t]
  BY <1>1, <1>6 DEF StatusStep, CanRetry
<1>7. QED
  BY <1>4, <1>5, <1>6

\* The queue, with its workers, locks, timers, crashes and recovery, keeps the
\* promises of TaskLifecycle.
THEOREM Refinement == Spec => LifecycleImplemented
<1>1. Init => Lifecycle!Init
  BY TasksAssumption DEF Init, InFlight, Lifecycle!Init
<1>2. IInv /\ IInv' /\ [Next]_vars => [Lifecycle!Next]_(Lifecycle!vars)
  BY StepRefines
<1>3. QED
  BY <1>1, <1>2, Invariance, PTL DEF Spec, LifecycleImplemented, Lifecycle!Spec

=============================================================================
