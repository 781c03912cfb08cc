----------------------- MODULE TaskQueueServiceProofs -----------------------
(* Proofs that the server of TaskQueue forgets no task: a failed task with  *)
(* retries left has its timer, a running one can be recovered, and one that *)
(* needs no lock is not overtaken.                                          *)
EXTENDS TaskQueueProofs

USE DEF OneMore, RetriesLeft

-----------------------------------------------------------------------------
(* The process.                                                             *)

\* WorkerPool.start, got through or not
Starting == Start \/ \E k \in 1..MaxConcurrency - 1 : StartTorn(k)

\* A process that is down writes nothing; only a start is another process.
LEMMA ProcessSteps ==
  ASSUME TypeOK, [Next]_vars
  PROVE  \/ Starting
         \/ boot' = boot /\ (up' => up) /\ (~up => UNCHANGED status)
<1> DEFINE G == boot' = boot /\ (up' => up) /\ (~up => UNCHANGED status)
<1>1. ASSUME Request PROVE G
  BY <1>1 DEF Request, Creation, Enqueue, BatchEnqueue, Cancel, CancelBatch, Retry, Idle, InsertTasks
<1>2. ASSUME Scheduler PROVE G
  BY <1>2 DEF Scheduler, Poll, DependencyCheck, PollBreak, SkipLocked, AssignTask, Idle, Polling, dbVars
<1>3. ASSUME Execution PROVE G
  BY <1>3 DEF Execution, Succeed, Fail, FinishCancelled, AnnounceCompleted, RetryTimer, Idle, dbVars
<1>4. ASSUME Heartbeat \/ (\E b \in 1..MaxBoots : GoesStale(b)) \/ (\E l \in locks : LockExpires(l)) PROVE G
  BY <1>4 DEF Heartbeat, GoesStale, LockExpires, Idle
<1>5. ASSUME Crash \/ gracefulShutdown PROVE G
  BY <1>5 DEF Crash, gracefulShutdown, Die, dbVars
<1>6. ASSUME Torn PROVE G \/ Starting
  BY <1>6 DEF Starting, Torn, EnqueueTorn, AssignTorn, FinishTorn, PromoteTorn, RecoverTorn,
              HeartbeatTorn, StopTorn, InsertTasks, Die
<1>7. CASE UNCHANGED vars
  BY <1>7 DEF vars, dbVars
<1>8. QED
  BY <1>1, <1>2, <1>3, <1>4, <1>5, <1>6, <1>7 DEF Next, Environment, Starting

-----------------------------------------------------------------------------
(* Retries.                                                                 *)

\* The timers of u stay, and it does not come to fail.
NoFailure(u) ==
  retryTimers'[u] = retryTimers[u] /\ (status'[u] = "failed" => status[u] = "failed")

\* While the process goes on, only the end of an execution sets a timer and makes a task
\* failed, and only a timer that fires is used up.
LEMMA FailureSteps ==
  ASSUME TypeOK, [Next]_vars, up'
  PROVE  \/ \A u \in Tasks : NoFailure(u)
         \/ \E s \in Slots : Fail(s)
         \/ \E t \in Tasks : RetryTimer(t)
<1> USE DEF TypeOK, DatabaseTypeOK, ProcessTypeOK, NoFailure
<1> DEFINE G == \A u \in Tasks : NoFailure(u)
<1>1. ASSUME Request PROVE G
  BY <1>1 DEF Request, Creation, Enqueue, BatchEnqueue, Cancel, CancelBatch, Retry, retryTask, InsertTasks, volatileVars
<1>2. ASSUME Poll \/ DependencyCheck \/ PollBreak \/ SkipLocked PROVE G
  BY <1>2 DEF Poll, DependencyCheck, PollBreak, SkipLocked, Promote, dbVars
<1>3. ASSUME NEW s \in Slots, AssignTask(s) PROVE G
  BY <1>3 DEF AssignTask
<1>4. ASSUME NEW s \in Slots, Succeed(s) \/ FinishCancelled(s) PROVE G
  BY <1>4 DEF Succeed, FinishCancelled, TransitionTo, dbVars
<1>5. ASSUME NEW t \in Tasks, AnnounceCompleted(t) PROVE G
  BY <1>5 DEF AnnounceCompleted, dbVars
<1>6. ASSUME Heartbeat \/ (\E b \in 1..MaxBoots : GoesStale(b)) \/ (\E l \in locks : LockExpires(l)) \/ Start
      PROVE G
  BY <1>6 DEF Heartbeat, GoesStale, LockExpires, Start, RecoverTasks, volatileVars
<1>7. ASSUME Crash \/ gracefulShutdown \/ Torn PROVE FALSE
  BY <1>7 DEF Crash, gracefulShutdown, Torn, EnqueueTorn, AssignTorn, FinishTorn, PromoteTorn,
              RecoverTorn, HeartbeatTorn, StopTorn, StartTorn, Die
<1>8. CASE UNCHANGED vars
  BY <1>8 DEF vars, dbVars, volatileVars
<1>9. QED
  BY <1>1, <1>2, <1>3, <1>4, <1>5, <1>6, <1>7, <1>8 DEF Next, Scheduler, Execution, Environment

\* Before the first start there are no tasks.
NothingBefore == boot = 0 => \A t \in Tasks : status[t] = "none"

LEMMA ArmedStep ==
  ASSUME TypeOK, RetryArmed, NothingBefore, [Next]_vars PROVE RetryArmed' /\ NothingBefore'
<1> USE DEF TypeOK, DatabaseTypeOK, ProcessTypeOK
<1>1. NothingBefore'
  <2>1. CASE Starting
    <3>1. boot' # 0
      BY <2>1, BoundsAssumption DEF Starting, Start, StartTorn
    <3>2. QED
      BY <3>1 DEF NothingBefore
  <2>2. CASE boot' = boot /\ (~up => UNCHANGED status)
    BY <2>2 DEF NothingBefore
  <2>3. QED
    BY <2>1, <2>2, ProcessSteps
<1>2. SUFFICES ASSUME NEW t \in Tasks, boot' = 1, up', status'[t] = "failed", retryCount'[t] < MaxRetries[t]
               PROVE  retryTimers'[t] > 0
  BY <1>1 DEF RetryArmed
<1>3. CASE Starting
  <2>1. boot' = boot + 1 /\ status' = status
    BY <1>3 DEF Starting, Start, StartTorn
  <2>2. boot = 0
    BY <1>2, <2>1, BoundsAssumption
  <2>3. QED
    BY <1>2, <2>1, <2>2 DEF NothingBefore
<1>4. CASE boot = 1 /\ up
  <2>1. StatusStep(t) /\ VolatileStep(t)
    BY StatusSteps, VolatileSteps
  <2>2. retryCount'[t] = retryCount[t] /\ status[t] \in {"failed", "running"}
    BY <1>2, <2>1 DEF StatusStep
  <2>3. CASE \A u \in Tasks : NoFailure(u)
    BY <1>2, <1>4, <2>2, <2>3 DEF NoFailure, RetryArmed
  <2>4. ASSUME NEW s \in Slots, Fail(s) PROVE retryTimers'[t] > 0
    <3>1. current[s] \in Tasks
      BY <2>4, CurrentIsTask DEF Fail
    <3>2. CASE current[s] = t
      <4>1. retryTimers' = [retryTimers EXCEPT ![t] = @ + 1]
        BY <1>2, <2>2, <2>4, <3>2, RequestAssumption DEF Fail
      <4>2. QED
        BY <4>1
    <3>3. CASE current[s] # t
      <4>1. status[t] = "failed"
        BY <1>2, <2>4, <3>1, <3>3 DEF Fail, TransitionTo
      <4>2. retryTimers'[t] = retryTimers[t]
        <5>1. retryTimers' = [retryTimers EXCEPT ![current[s]] = @ + 1] \/ retryTimers' = retryTimers
          BY <2>4, Zenon DEF Fail
        <5>2. QED
          BY <3>3, <5>1
      <4>3. QED
        BY <1>2, <1>4, <2>2, <4>1, <4>2 DEF RetryArmed
    <3>4. QED
      BY <3>2, <3>3
  <2>5. ASSUME NEW u \in Tasks, RetryTimer(u) PROVE retryTimers'[t] > 0
    <3>1. CASE u = t
      <4>1. status[t] = "failed"
        BY <1>2, <2>2, <2>5, <3>1 DEF RetryTimer, CanRetry
      <4>2. CanRetry(t)
        <5>1. retryCount[t] < MaxRetries[t] /\ retryCount[t] \in Nat /\ MaxRetries[t] \in Nat
          BY <1>2, <2>2, RequestAssumption
        <5>2. QED
          BY <4>1, <5>1 DEF CanRetry
      <4>3. status'[t] = "scheduled"
        BY <2>5, <3>1, <4>2 DEF RetryTimer, retryTask
      <4>4. QED
        BY <1>2, <4>3
    <3>2. CASE u # t
      <4>1. status[t] = "failed" /\ retryTimers'[t] = retryTimers[t]
        BY <1>2, <2>5, <3>2 DEF RetryTimer, retryTask
      <4>2. QED
        BY <1>2, <1>4, <2>2, <4>1 DEF RetryArmed
    <3>3. QED
      BY <3>1, <3>2
  <2>6. QED
    BY <1>2, <2>3, <2>4, <2>5, FailureSteps
<1>5. QED
  BY <1>2, <1>3, <1>4, ProcessSteps

\* As long as the process has not been restarted, a failed task with retries left has a
\* timer outstanding, however API retries and old timers race.
THEOREM RetriesAreArmed == Spec => []RetryArmed
<1>1. Init => RetryArmed /\ NothingBefore
  BY DEF Init, RetryArmed, NothingBefore
<1>2. TypeOK /\ RetryArmed /\ NothingBefore /\ [Next]_vars => RetryArmed' /\ NothingBefore'
  BY ArmedStep
<1>3. QED
  BY <1>1, <1>2, TypeCorrect, PTL DEF Spec

-----------------------------------------------------------------------------
(* Recovery.                                                                *)

\* WorkerPool.stop, got through or not
Stopping == gracefulShutdown \/ \E k \in Slots : StopTorn(k)

\* What writes rows of workers: heartbeats, suspensions, starts and stops.
LEMMA WorkerRows ==
  ASSUME [Next]_vars
  PROVE  \/ UNCHANGED row
         \/ Heartbeat
         \/ \E b \in 1..MaxBoots : GoesStale(b)
         \/ Starting
         \/ Stopping
         \/ \E D \in SUBSET Dead : \E P \in SUBSET (Dead \ D) : RecoverTorn(D, P)
         \/ \E k \in 1..MaxConcurrency - 1 : HeartbeatTorn(k)
<1>1. Request => UNCHANGED row
  BY DEF Request, Creation, Enqueue, BatchEnqueue, Cancel, CancelBatch, Retry, InsertTasks
<1>2. Scheduler => UNCHANGED row
  BY DEF Scheduler, Poll, DependencyCheck, PollBreak, SkipLocked, AssignTask, dbVars
<1>3. Execution => UNCHANGED row
  BY DEF Execution, Succeed, Fail, FinishCancelled, AnnounceCompleted, RetryTimer, dbVars
<1>4. (\E l \in locks : LockExpires(l)) \/ Crash => UNCHANGED row
  BY DEF LockExpires, Crash, dbVars
<1>5. Torn => \/ UNCHANGED row
              \/ Starting
              \/ Stopping
              \/ \E D \in SUBSET Dead : \E P \in SUBSET (Dead \ D) : RecoverTorn(D, P)
              \/ \E k \in 1..MaxConcurrency - 1 : HeartbeatTorn(k)
  <2>1. 1..MaxConcurrency - 1 \subseteq Slots
    BY BoundsAssumption DEF Slots
  <2>2. QED
    BY <2>1 DEF Torn, EnqueueTorn, AssignTorn, FinishTorn, PromoteTorn, InsertTasks, Starting, Stopping
<1>6. QED
  BY <1>1, <1>2, <1>3, <1>4, <1>5 DEF Next, Environment, Starting, Stopping, vars, dbVars

\* The heartbeat and the recovery of the stale workers D, seen from one row.
LEMMA RetiredRows ==
  ASSUME NEW D \in SUBSET Dead, row' = Retired(D), NEW w \in Workers
  PROVE  \/ w \in OwnWorkers /\ row'[w] = "fresh"
         \/ w \in D /\ w \notin OwnWorkers /\ row[w] = "stale" /\ row'[w] = "inactive"
         \/ w \notin OwnWorkers /\ row'[w] = row[w]
<1>1. row'[w] = IF w \in D THEN "inactive" ELSE Beaten(OwnWorkers)[w]
  BY DEF Retired
<1>2. Beaten(OwnWorkers)[w] = IF w \in OwnWorkers THEN "fresh" ELSE row[w]
  BY DEF Beaten
<1>3. w \in D => Beaten(OwnWorkers)[w] = "stale"
  BY DEF Dead
<1>4. QED
  BY <1>1, <1>2, <1>3

\* The row of w becomes inactive, and what ran on w is scheduled again.
Recovered(w) ==
  /\ w \notin OwnWorkers /\ row[w] = "stale" /\ row'[w] = "inactive"
  /\ \A t \in Tasks : status[t] = "running" /\ owner[t] = w => status'[t] = "scheduled"

\* What a step may do to the row of one worker.
RowStep(w) ==
  \/ row'[w] = row[w]
  \/ row[w] = "fresh" /\ row'[w] = "stale"
  \/ up /\ w \in OwnWorkers /\ row'[w] = "fresh"
  \/ Recovered(w)
  \/ Starting /\ w[1] = boot + 1
  \/ Stopping /\ w \in OwnWorkers

LEMMA RowSteps == ASSUME [Next]_vars, NEW w \in Workers PROVE RowStep(w)
<1> USE DEF RowStep
<1>1. CASE UNCHANGED row
  BY <1>1
<1>2. CASE Heartbeat
  <2>1. Dead \in SUBSET Dead /\ up /\ row' = Retired(Dead) /\ RecoverTasks(Dead)
    BY <1>2 DEF Heartbeat, Idle
  <2>2. w \in Dead => \A t \in Tasks : status[t] = "running" /\ owner[t] = w => status'[t] = "scheduled"
    BY <2>1 DEF RecoverTasks, Lost
  <2>3. QED
    BY <2>1, <2>2, RetiredRows DEF Recovered
<1>3. ASSUME NEW b \in 1..MaxBoots, GoesStale(b) PROVE RowStep(w)
  <2>1. row' = [v \in Workers |-> IF v[1] = b /\ row[v] = "fresh" THEN "stale" ELSE row[v]]
    BY <1>3 DEF GoesStale
  <2>2. row'[w] = IF w[1] = b /\ row[w] = "fresh" THEN "stale" ELSE row[w]
    BY <2>1, Zenon
  <2>3. QED
    BY <2>2
<1>4. CASE Starting
  <2>1. CASE Start
    <3>1. row' = [v \in Workers |-> IF v[1] = boot + 1 THEN "fresh" ELSE row[v]]
      BY <2>1 DEF Start
    <3>2. row'[w] = IF w[1] = boot + 1 THEN "fresh" ELSE row[w]
      BY <3>1, Zenon
    <3>3. QED
      BY <1>4, <3>2
  <2>2. ASSUME NEW k \in 1..MaxConcurrency - 1, StartTorn(k) PROVE RowStep(w)
    <3>1. row'[w] = IF w \in FirstWorkers(boot + 1, k) THEN "fresh" ELSE row[w]
      BY <2>2 DEF StartTorn
    <3>2. w \in FirstWorkers(boot + 1, k) => w[1] = boot + 1
      BY DEF FirstWorkers
    <3>3. QED
      BY <1>4, <3>1, <3>2
  <2>3. QED
    BY <1>4, <2>1, <2>2 DEF Starting
<1>5. CASE Stopping
  <2>1. CASE gracefulShutdown
    BY <1>5, <2>1 DEF gracefulShutdown
  <2>2. ASSUME NEW k \in Slots, StopTorn(k) PROVE RowStep(w)
    <3>1. row'[w] = IF w \in FirstWorkers(boot, k) THEN "inactive" ELSE row[w]
      BY <2>2 DEF StopTorn
    <3>2. FirstWorkers(boot, k) \subseteq OwnWorkers
      BY BoundsAssumption DEF FirstWorkers, OwnWorkers, Slots
    <3>3. QED
      BY <1>5, <3>1, <3>2
  <2>3. QED
    BY <1>5, <2>1, <2>2 DEF Stopping
<1>6. ASSUME NEW D \in SUBSET Dead, NEW P \in SUBSET (Dead \ D), RecoverTorn(D, P) PROVE RowStep(w)
  <2>1. up /\ row' = Retired(D) /\ RecoverTasks(D \cup P)
    BY <1>6 DEF RecoverTorn, Idle
  <2>2. w \in D => \A t \in Tasks : status[t] = "running" /\ owner[t] = w => status'[t] = "scheduled"
    BY <2>1 DEF RecoverTasks, Lost
  <2>3. QED
    BY <2>1, <2>2, RetiredRows DEF Recovered
<1>7. ASSUME NEW k \in 1..MaxConcurrency - 1, HeartbeatTorn(k) PROVE RowStep(w)
  <2>1. up /\ row'[w] = IF w \in FirstWorkers(boot, k) THEN "fresh" ELSE row[w]
    BY <1>7 DEF HeartbeatTorn, Beaten, Idle
  <2>2. FirstWorkers(boot, k) \subseteq OwnWorkers
    BY BoundsAssumption DEF FirstWorkers, OwnWorkers, Slots
  <2>3. QED
    BY <2>1, <2>2
<1>8. QED
  BY <1>1, <1>2, <1>3, <1>4, <1>5, <1>6, <1>7, WorkerRows

\* A stop ends the process, a start begins the next one, which finds its workers fresh if it
\* is not killed meanwhile.
LEMMA StartsAndStops ==
  ASSUME TypeOK
  PROVE  /\ Stopping => up /\ ~up'
         /\ Starting => /\ ~up /\ boot' = boot + 1
                        /\ up' => \A s \in Slots : row'[<<boot', s>>] = "fresh"
<1> USE BoundsAssumption DEF TypeOK, DatabaseTypeOK, ProcessTypeOK
<1>1. Stopping => up /\ ~up'
  BY DEF Stopping, gracefulShutdown, StopTorn, Die
<1>2. Starting => ~up /\ boot' = boot + 1
  BY DEF Starting, Start, StartTorn
<1>3. ASSUME Starting, up' PROVE \A s \in Slots : row'[<<boot', s>>] = "fresh"
  <2>1. Start
    BY <1>3 DEF Starting, StartTorn, Start
  <2>2. \A s \in Slots : <<boot', s>> \in Workers /\ <<boot', s>>[1] = boot + 1
    BY <2>1 DEF Start, Workers
  <2>3. QED
    BY <2>1, <2>2 DEF Start
<1>4. QED
  BY <1>1, <1>2, <1>3

\* The rows of later starts do not exist yet, and those of this one have not been recovered.
RowsOfStarts ==
  /\ \A w \in Workers : row[w] # "absent" => w[1] <= boot
  /\ up => \A s \in Slots : row[<<boot, s>>] \in {"fresh", "stale"}

LEMMA RowsOfStartsStep ==
  ASSUME TypeOK, RowsOfStarts, [Next]_vars PROVE RowsOfStarts'
<1> USE BoundsAssumption DEF TypeOK, DatabaseTypeOK, ProcessTypeOK
<1>1. /\ boot \in Nat /\ \A w \in Workers : w[1] \in Nat
      /\ up => \A s \in Slots : <<boot, s>> \in Workers
      /\ \A w \in OwnWorkers : w[1] = boot
  BY OwnWorker DEF Workers, OwnWorkers
<1>2. boot' \in {boot, boot + 1}
  BY ProcessSteps, StartsAndStops
<1>3. ASSUME NEW w \in Workers, row'[w] # "absent" PROVE w[1] <= boot'
  <2>1. RowStep(w)
    BY RowSteps
  <2>2. CASE row[w] # "absent"
    BY <1>1, <1>2, <2>2 DEF RowsOfStarts
  <2>3. CASE w \in OwnWorkers
    BY <1>1, <1>2, <2>3
  <2>4. CASE Starting /\ w[1] = boot + 1
    BY <1>1, <2>4, StartsAndStops
  <2>5. QED
    BY <1>3, <2>1, <2>2, <2>3, <2>4 DEF RowStep, Recovered
<1>4. ASSUME up', NEW s \in Slots PROVE row'[<<boot', s>>] \in {"fresh", "stale"}
  <2>1. CASE Starting
    BY <1>4, <2>1, StartsAndStops
  <2>2. CASE boot' = boot /\ up
    <3>1. <<boot, s>> \in Workers /\ <<boot, s>> \in OwnWorkers /\ row[<<boot, s>>] \in {"fresh", "stale"}
      BY <1>1, <2>2 DEF RowsOfStarts, OwnWorkers
    <3>2. RowStep(<<boot, s>>) /\ ~Starting /\ ~Stopping
      BY <1>4, <2>2, <3>1, RowSteps, StartsAndStops
    <3>3. QED
      BY <2>2, <3>1, <3>2 DEF RowStep, Recovered
  <2>3. QED
    BY <1>4, <2>1, <2>2, ProcessSteps
<1>5. QED
  BY <1>3, <1>4 DEF RowsOfStarts

\* A task that runs on keeps its owner, and its execution while the process lives.
LEMMA RunsOn ==
  ASSUME IInv, [Next]_vars, NEW t \in Tasks, status[t] = "running", status'[t] = "running"
  PROVE  owner'[t] = owner[t] /\ (up' /\ InFlight(t) => InFlight(t)')
<1> USE DEF IInv, TypeOK, DatabaseTypeOK, ProcessTypeOK
<1> DEFINE G == owner'[t] = owner[t] /\ (up' /\ InFlight(t) => InFlight(t)')
<1>1. CASE Request
  BY <1>1 DEF Request, Creation, Enqueue, BatchEnqueue, Cancel, CancelBatch, Retry, InsertTasks, volatileVars, poolVars, InFlight
<1>2. CASE Poll \/ DependencyCheck \/ PollBreak \/ SkipLocked
  BY <1>2 DEF Poll, DependencyCheck, PollBreak, SkipLocked, dbVars, poolVars, InFlight
<1>3. ASSUME NEW s \in Slots, AssignTask(s) PROVE G
  <2>1. status[Head(ready)] = "scheduled" /\ current[s] = NoTask
    BY <1>3, TailReady DEF AssignTask, IsFirstFree, FreeSlots
  <2>2. Head(ready) # t
    BY <2>1
  <2>3. owner'[t] = owner[t]
    BY <1>3, <2>2 DEF AssignTask
  <2>4. \A o \in Slots \ {s} : current'[o] = current[o]
    BY <1>3 DEF AssignTask
  <2>5. QED
    BY <2>1, <2>3, <2>4, TasksAssumption DEF InFlight
<1>4. ASSUME NEW s \in Slots, Succeed(s) \/ Fail(s) \/ FinishCancelled(s) PROVE G
  <2>1. current[s] \in Tasks
    BY <1>4, CurrentIsTask DEF Succeed, Fail, FinishCancelled
  <2>2. current[s] # t
    <3>1. CASE Succeed(s) \/ Fail(s)
      BY <2>1, <3>1 DEF Succeed, Fail, TransitionTo
    <3>2. CASE FinishCancelled(s)
      BY <2>1, <3>2, TransitionTable DEF FinishCancelled
    <3>3. QED
      BY <1>4, <3>1, <3>2
  <2>3. owner' = owner /\ \A o \in Slots \ {s} : current'[o] = current[o]
    BY <1>4 DEF Succeed, Fail, FinishCancelled, FreeWorker, dbVars
  <2>4. QED
    BY <2>2, <2>3 DEF InFlight
<1>5. ASSUME NEW u \in Tasks, AnnounceCompleted(u) \/ RetryTimer(u) PROVE G
  BY <1>5 DEF AnnounceCompleted, RetryTimer, dbVars, poolVars, InFlight
<1>6. CASE Heartbeat
  BY <1>6 DEF Heartbeat, RecoverTasks, volatileVars, poolVars, InFlight
<1>7. CASE (\E b \in 1..MaxBoots : GoesStale(b)) \/ (\E l \in locks : LockExpires(l)) \/ Start
  BY <1>7 DEF GoesStale, LockExpires, Start, volatileVars, poolVars, InFlight
<1>8. CASE Crash \/ gracefulShutdown \/ Torn
  <2>1. ~up'
    BY <1>8 DEF Crash, gracefulShutdown, Torn, EnqueueTorn, AssignTorn, FinishTorn, PromoteTorn,
                RecoverTorn, HeartbeatTorn, StopTorn, StartTorn, Die
  <2>2. owner'[t] = owner[t]
    <3>1. CASE Crash \/ gracefulShutdown
      BY <3>1 DEF Crash, gracefulShutdown, dbVars
    <3>2. ASSUME NEW D, NEW P, RecoverTorn(D, P) PROVE owner'[t] = owner[t]
      BY <3>2 DEF RecoverTorn, RecoverTasks
    <3>3. QED
      BY <1>8, <3>1, <3>2 DEF Torn, EnqueueTorn, AssignTorn, FinishTorn, PromoteTorn, HeartbeatTorn,
                              StopTorn, StartTorn, InsertTasks
  <2>3. QED
    BY <2>1, <2>2
<1>9. CASE UNCHANGED vars
  BY <1>9 DEF vars, dbVars, volatileVars, poolVars, InFlight
<1>10. QED
  BY <1>1, <1>2, <1>3, <1>4, <1>5, <1>6, <1>7, <1>8, <1>9 DEF Next, Scheduler, Execution, Environment

\* The row of a running task names a worker.
RunningOwned == \A t \in Tasks : status[t] = "running" => owner[t] \in Workers

\* A task that comes to run is in flight.
LEMMA StartsInFlight ==
  ASSUME IInv, [Next]_vars, NEW t \in Tasks, status[t] # "running", status'[t] = "running"
  PROVE  InFlight(t)'
BY StatusSteps, ExecutionSteps DEF IInv, StatusStep, ExecutionStep

LEMMA RunningOwnedStep ==
  ASSUME IInv, IInv', RunningOwned, [Next]_vars PROVE RunningOwned'
<1>1. SUFFICES ASSUME NEW t \in Tasks, status'[t] = "running" PROVE owner'[t] \in Workers
  BY DEF RunningOwned
<1>2. CASE status[t] = "running"
  BY <1>1, <1>2, RunsOn DEF RunningOwned
<1>3. CASE status[t] # "running"
  <2>1. PICK s \in Slots : current'[s] = t
    BY <1>1, <1>3, StartsInFlight DEF InFlight
  <2>2. up' /\ owner'[t] = <<boot', s>>
    BY <1>1, <2>1, TasksAssumption DEF IInv, DownIsEmpty, ExecutedOnce
  <2>3. boot' \in 1..MaxBoots
    BY <2>2, BoundsAssumption DEF IInv, TypeOK, DatabaseTypeOK, ProcessTypeOK
  <2>4. QED
    BY <2>2, <2>3 DEF Workers
<1>4. QED
  BY <1>2, <1>3

\* The row names a worker of an ended process that the recovery will find.
OwnedByEnded(t) ==
  /\ owner[t] \in Workers
  /\ row[owner[t]] \in {"fresh", "stale"} /\ (owner[t][1] < boot \/ ~up)

\* A running task that is abandoned is not in flight, nor owned so.
LEMMA AbandonedMeans ==
  ASSUME IInv, IInv', RunningOwned, RunningOwned', NEW t \in Tasks
  PROVE  /\ Abandoned(t) <=> status[t] = "running" /\ ~InFlight(t) /\ ~OwnedByEnded(t)
         /\ Abandoned(t)' <=> status'[t] = "running" /\ ~InFlight(t)' /\ ~OwnedByEnded(t)'
BY TasksAssumption DEF IInv, RunningOwned, Abandoned, Recoverable, InFlight, ExecutedOnce, OwnedByEnded

LEMMA OwnedStays ==
  ASSUME TypeOK, RowsOfStarts, [Next]_vars, ~Stopping, NEW t \in Tasks,
         status[t] = "running", status'[t] = "running", owner'[t] = owner[t], OwnedByEnded(t)
  PROVE  OwnedByEnded(t)'
<1> USE BoundsAssumption DEF TypeOK, DatabaseTypeOK, ProcessTypeOK
<1>1. PICK w \in Workers : w = owner[t]
  BY DEF OwnedByEnded
<1>2. boot \in Nat /\ w[1] \in Nat /\ w[1] <= boot /\ row[w] \in {"fresh", "stale"}
  <2>1. row[w] \in {"fresh", "stale"}
    BY <1>1 DEF OwnedByEnded
  <2>2. w[1] \in Nat
    BY DEF Workers
  <2>3. QED
    BY <2>1, <2>2 DEF RowsOfStarts
<1>3. w[1] < boot' \/ ~up'
  <2>1. CASE Starting
    BY <1>2, <2>1, StartsAndStops
  <2>2. CASE boot' = boot /\ (up' => up)
    BY <1>1, <2>2 DEF OwnedByEnded
  <2>3. QED
    BY <2>1, <2>2, ProcessSteps
<1>4. row'[w] \in {"fresh", "stale"}
  <2>1. RowStep(w) /\ ~Recovered(w) /\ w[1] # boot + 1
    BY <1>1, <1>2, RowSteps DEF Recovered
  <2>2. QED
    BY <1>2, <2>1 DEF RowStep
<1>5. QED
  BY <1>1, <1>3, <1>4 DEF OwnedByEnded

\* A running task that is not abandoned stays so, unless the process is stopped gracefully.
LEMMA AbandonedStep ==
  ASSUME IInv, IInv', RowsOfStarts, RunningOwned, RunningOwned', [Next]_vars, ~Stopping,
         NEW t \in Tasks, Abandoned(t)'
  PROVE  Abandoned(t)
<1>1. status'[t] = "running" /\ ~InFlight(t)' /\ ~OwnedByEnded(t)'
  BY AbandonedMeans
<1>2. status[t] = "running"
  BY <1>1, StartsInFlight
<1>3. owner'[t] = owner[t] /\ (up' => ~InFlight(t))
  BY <1>1, <1>2, RunsOn
<1>4. ASSUME OwnedByEnded(t) PROVE FALSE
  BY <1>1, <1>2, <1>3, <1>4, OwnedStays DEF IInv
<1>5. ASSUME InFlight(t) PROVE FALSE
  <2>1. PICK s \in Slots : current[s] = t
    BY <1>5 DEF InFlight
  <2>2. up
    BY <2>1, TasksAssumption DEF IInv, DownIsEmpty
  <2>3. <<boot, s>> \in Workers /\ owner[t] = <<boot, s>>
    BY <1>2, <2>1, <2>2, OwnWorker, TasksAssumption DEF IInv, ExecutedOnce
  <2>4. ~up' /\ row[<<boot, s>>] \in {"fresh", "stale"}
    BY <1>3, <1>5, <2>2 DEF RowsOfStarts
  <2>5. RowStep(<<boot, s>>) /\ <<boot, s>> \in OwnWorkers /\ ~Starting
    BY <2>2, <2>3, RowSteps, StartsAndStops DEF IInv, OwnWorkers
  <2>6. row'[<<boot, s>>] \in {"fresh", "stale"}
    BY <2>4, <2>5 DEF RowStep, Recovered
  <2>7. QED
    BY <1>1, <1>3, <2>3, <2>4, <2>6 DEF OwnedByEnded
<1>6. QED
  BY <1>2, <1>4, <1>5, AbandonedMeans

LEMMA RecoveryInvariant == Spec => [](RowsOfStarts /\ RunningOwned)
<1>1. Init => RowsOfStarts /\ RunningOwned
  BY DEF Init, RowsOfStarts, RunningOwned
<1>2. IInv /\ IInv' /\ RowsOfStarts /\ RunningOwned /\ [Next]_vars => RowsOfStarts' /\ RunningOwned'
  BY RowsOfStartsStep, RunningOwnedStep DEF IInv
<1>3. QED
  BY <1>1, <1>2, Invariance, PTL DEF Spec

\* Wherever the process is killed or suspended, and however often it is started again, only a
\* graceful stop leaves a running task to nobody.
THEOREM StopsAloneAbandon == Spec => OnlyStopsAbandon
<1>1. /\ IInv /\ IInv' /\ RowsOfStarts /\ RunningOwned /\ RunningOwned' /\ [Next]_vars
      => [\A t \in Tasks : Abandoned(t)' =>
             Abandoned(t) \/ gracefulShutdown \/ \E k \in Slots : StopTorn(k)]_vars
  BY AbandonedStep DEF Stopping
<1>2. QED
  BY <1>1, Invariance, RecoveryInvariant, PTL DEF Spec, OnlyStopsAbandon

\* So without graceful stops, every running task is in flight or belongs to a worker that the
\* recovery of dead workers will find.
THEOREM RunningIsRecoverable == ASSUME ~GracefulStops PROVE Spec => []RunningRecoverable
<1>1. Init => RunningRecoverable
  BY DEF Init, RunningRecoverable, Abandoned
<1>2. /\ IInv /\ IInv' /\ RowsOfStarts /\ RunningOwned /\ RunningOwned' /\ [Next]_vars
      /\ RunningRecoverable
      => RunningRecoverable'
  BY AbandonedStep DEF RunningRecoverable, Stopping, gracefulShutdown, StopTorn
<1>3. QED
  BY <1>1, <1>2, Invariance, RecoveryInvariant, PTL DEF Spec

-----------------------------------------------------------------------------
(* Priority.                                                                *)

\* What a step may do to the list of a poll.
LEMMA ReadySteps ==
  ASSUME TypeOK, [Next]_vars
  PROVE  \/ ready' = <<>>
         \/ UNCHANGED <<ready, status, createdAt>>
         \/ Poll
         \/ SkipLocked
         \/ \E s \in Slots : AssignTask(s)
<1>1. ASSUME Request PROVE ready' = <<>>
  BY <1>1 DEF Request, Creation, Enqueue, BatchEnqueue, Cancel, CancelBatch, Retry, Idle, volatileVars
<1>2. ASSUME DependencyCheck \/ PollBreak PROVE ready' = <<>>
  BY <1>2 DEF DependencyCheck, PollBreak, Idle
<1>3. ASSUME Execution PROVE ready' = <<>>
  BY <1>3 DEF Execution, Succeed, Fail, FinishCancelled, AnnounceCompleted, RetryTimer, Idle
<1>4. ASSUME Heartbeat \/ Crash \/ gracefulShutdown \/ (Torn /\ ~Starting) PROVE ready' = <<>>
  BY <1>4 DEF Heartbeat, Crash, gracefulShutdown, Torn, EnqueueTorn, AssignTorn, FinishTorn, PromoteTorn,
              RecoverTorn, HeartbeatTorn, StopTorn, Starting, Die, Idle, volatileVars
<1>5. ASSUME (\E b \in 1..MaxBoots : GoesStale(b)) \/ (\E l \in locks : LockExpires(l)) \/ Starting
      PROVE UNCHANGED <<ready, status, createdAt>>
  BY <1>5 DEF GoesStale, LockExpires, Starting, Start, StartTorn, volatileVars
<1>6. CASE UNCHANGED vars
  BY <1>6 DEF vars, dbVars, volatileVars
<1>7. QED
  BY <1>1, <1>2, <1>3, <1>4, <1>5, <1>6 DEF Next, Scheduler, Environment, Starting

\* Only assignTask sets a task running, the one at the head of the list.
LEMMA RunningSteps ==
  ASSUME TypeOK, [Next]_vars, NEW t \in Tasks, status[t] # "running", status'[t] = "running"
  PROVE  Polling /\ t = Head(ready)
<1> USE DEF TypeOK, DatabaseTypeOK, ProcessTypeOK
<1> DEFINE G == status[t] = "running" \/ status'[t] # "running"
<1>1. ASSUME Request PROVE G
  BY <1>1 DEF Request, Creation, Enqueue, BatchEnqueue, Cancel, CancelBatch, Retry, retryTask, InsertTasks
<1>2. ASSUME Poll \/ DependencyCheck \/ PollBreak \/ SkipLocked PROVE G
  BY <1>2 DEF Poll, DependencyCheck, PollBreak, SkipLocked, Promote, dbVars
<1>3. ASSUME NEW s \in Slots, AssignTask(s) PROVE Polling /\ (t = Head(ready) \/ G)
  BY <1>3 DEF AssignTask
<1>4. ASSUME NEW s \in Slots, Succeed(s) \/ Fail(s) \/ FinishCancelled(s) PROVE G
  BY <1>4 DEF Succeed, Fail, FinishCancelled, TransitionTo, dbVars
<1>5. ASSUME NEW u \in Tasks, AnnounceCompleted(u) \/ RetryTimer(u) PROVE G
  BY <1>5 DEF AnnounceCompleted, RetryTimer, retryTask, dbVars
<1>6. ASSUME Heartbeat \/ (\E b \in 1..MaxBoots : GoesStale(b)) \/ (\E l \in locks : LockExpires(l))
             \/ Start \/ Crash \/ gracefulShutdown
      PROVE G
  BY <1>6 DEF Heartbeat, GoesStale, LockExpires, Start, Crash, gracefulShutdown, RecoverTasks, dbVars
<1>7. ASSUME Torn PROVE G
  BY <1>7 DEF Torn, EnqueueTorn, AssignTorn, FinishTorn, PromoteTorn, RecoverTorn, HeartbeatTorn, StopTorn,
              StartTorn, InsertTasks, Promote, RecoverTasks
<1>8. CASE UNCHANGED vars
  BY <1>8 DEF vars, dbVars
<1>9. QED
  BY <1>1, <1>2, <1>3, <1>4, <1>5, <1>6, <1>7, <1>8 DEF Next, Scheduler, Execution, Environment

\* What comes before a task of the list and needs no lock is earlier in the list.
ReadyFirst ==
  \A i \in DOMAIN ready, u \in Tasks :
    status[u] = "scheduled" /\ LockedResources[u] = <<>> /\ Before(u, ready[i]) =>
      \E k \in DOMAIN ready : k < i /\ ready[k] = u

\* It stays so when the head is taken off, if that was skipped for a lock or is assigned.
LEMMA TailFirst ==
  ASSUME TypeOK, ReadyFirst, Polling, ready' = Tail(ready), createdAt' = createdAt,
         \A u \in Tasks : status'[u] = "scheduled" =>
           status[u] = "scheduled" /\ (LockedResources[u] # <<>> \/ u # Head(ready))
  PROVE  ReadyFirst'
<1>1. SUFFICES ASSUME NEW i \in DOMAIN ready', NEW u \in Tasks, status'[u] = "scheduled",
                      LockedResources[u] = <<>>, Before(u, ready[i])'
               PROVE  \E k \in DOMAIN ready' : k < i /\ ready'[k] = u
  BY DEF ReadyFirst
<1>2. ready \in Seq(Tasks) /\ ready # <<>>
  BY DEF TypeOK, ProcessTypeOK, Polling
<1>3. /\ DOMAIN ready = 1..Len(ready) /\ DOMAIN ready' = 1..(Len(ready) - 1) /\ Len(ready) \in Nat
      /\ \A k \in DOMAIN ready' : k + 1 \in DOMAIN ready /\ ready'[k] = ready[k + 1]
      /\ Head(ready) = ready[1]
  BY <1>2
<1>4. Before(u, ready[i + 1])
  BY <1>1, <1>3 DEF Before
<1>5. PICK k \in DOMAIN ready : k < i + 1 /\ ready[k] = u
  BY <1>1, <1>3, <1>4 DEF ReadyFirst
<1>6. k # 1
  BY <1>1, <1>3, <1>5
<1>7. k - 1 \in DOMAIN ready' /\ k - 1 < i /\ ready'[k - 1] = ready[k]
  BY <1>1, <1>3, <1>5, <1>6
<1>8. QED
  BY <1>5, <1>7

LEMMA ReadyFirstStep ==
  ASSUME IInv, ReadyFirst, [Next]_vars PROVE ReadyFirst'
<1> USE DEF IInv
<1>1. CASE ready' = <<>>
  BY <1>1 DEF ReadyFirst
<1>2. CASE UNCHANGED <<ready, status, createdAt>>
  BY <1>2 DEF ReadyFirst, Before
<1>3. CASE Poll
  <2>1. createdAt' = createdAt
    BY <1>3 DEF Poll
  <2>2. PICK S : S = {u \in Tasks : status'[u] = "scheduled"} /\ FirstInOrder(ready', S)
    BY <1>3 DEF Poll, FetchReady
  <2>3. PICK n \in Nat : ready' \in [1..n -> Tasks]
    <3> DEFINE promoted == Promote(NotifiedTasks \cup PendingTasksWithMetDeps)
    <3>1. PICK n \in 0..MaxConcurrency :
            ready' \in [1..n -> {t \in Tasks : promoted[t] = "scheduled"}]
      BY <1>3, Zenon DEF Poll
    <3>2. n \in Nat /\ ready' \in [1..n -> Tasks]
      BY <3>1, BoundsAssumption
    <3>3. QED
      BY <3>2
  <2>4. SUFFICES ASSUME NEW i \in DOMAIN ready', NEW u \in Tasks, status'[u] = "scheduled",
                        Before(u, ready[i])'
                 PROVE  \E k \in DOMAIN ready' : k < i /\ ready'[k] = u
    BY DEF ReadyFirst
  <2>5. Before(u, ready'[i])
    BY <2>1, <2>4 DEF Before
  <2>6. u \in S /\ ~(u \notin Range(ready'))
    BY <2>2, <2>4, <2>5 DEF FirstInOrder
  <2>7. PICK k \in DOMAIN ready' : ready'[k] = u
    BY <2>6 DEF Range
  <2>8. ~(i < k)
    BY <2>2, <2>4, <2>5, <2>7 DEF FirstInOrder
  <2>9. k # i
    <3>1. createdAt[u] \in Nat /\ Priority[u] \in 0..9
      BY RequestAssumption DEF TypeOK, DatabaseTypeOK
    <3>2. QED
      BY <2>5, <2>7, <3>1 DEF Before
  <2>10. QED
    BY <2>3, <2>4, <2>7, <2>8, <2>9
<1>4. CASE SkipLocked
  <2>1. LockedResources[Head(ready)] # <<>>
    <3>1. CASE LockedResources[Head(ready)] = <<>>
      BY <1>4, <3>1 DEF SkipLocked, CanLock, CanLockFirst
    <3>2. QED
      BY <3>1
  <2>2. QED
    BY <1>4, <2>1, TailFirst DEF SkipLocked
<1>5. ASSUME NEW s \in Slots, AssignTask(s) PROVE ReadyFirst'
  <2>1. Polling /\ ready' = Tail(ready) /\ createdAt' = createdAt
    BY <1>5 DEF AssignTask
  <2>2. status' = [status EXCEPT ![Head(ready)] = "running"]
    BY <1>5 DEF AssignTask
  <2>3. \A u \in Tasks : status'[u] = "scheduled" => status[u] = "scheduled" /\ u # Head(ready)
    BY <2>2 DEF TypeOK, DatabaseTypeOK
  <2>4. QED
    BY <2>1, <2>3, TailFirst
<1>6. QED
  BY <1>1, <1>2, <1>3, <1>4, <1>5, ReadySteps

\* A scheduled task that needs no lock is not overtaken by one that comes after it in the
\* order of priority and creation.
THEOREM PriorityIsRespected == Spec => PriorityRespected
<1>1. Init => ReadyFirst
  BY DEF Init, ReadyFirst
<1>2. IInv /\ ReadyFirst /\ [Next]_vars => ReadyFirst'
  BY ReadyFirstStep
<1>3. IInv /\ ReadyFirst /\ [Next]_vars =>
        [\A t, u \in Tasks :
           ~ /\ status[t] = "scheduled" /\ status'[t] = "running"
             /\ status[u] = "scheduled" /\ LockedResources[u] = <<>>
             /\ Before(u, t)]_vars
  <2>1. SUFFICES ASSUME IInv, ReadyFirst, [Next]_vars,
                        NEW t \in Tasks, NEW u \in Tasks,
                        status[t] = "scheduled", status'[t] = "running",
                        status[u] = "scheduled", LockedResources[u] = <<>>, Before(u, t)
                 PROVE  FALSE
    OBVIOUS
  <2>2. Polling /\ t = Head(ready)
    BY <2>1, RunningSteps DEF IInv
  <2>3. 1 \in DOMAIN ready /\ ready[1] = t /\ DOMAIN ready \subseteq Nat \ {0}
    BY <2>2 DEF IInv, TypeOK, ProcessTypeOK, Polling
  <2>4. \E k \in DOMAIN ready : k < 1 /\ ready[k] = u
    BY <2>1, <2>3 DEF ReadyFirst
  <2>5. QED
    BY <2>3, <2>4
<1>4. QED
  BY <1>1, <1>2, <1>3, Invariance, PTL DEF Spec, PriorityRespected
=============================================================================
