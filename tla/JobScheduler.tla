---------------------------- MODULE JobScheduler ----------------------------
(* The job scheduler of 5044 (internal/scheduler, store, worker, queue,     *)
(* retry).  Several nodes share the tables jobs and lock_records; each has  *)
(* a queue in memory, workers, and one goroutine that recovers once and     *)
(* then triggers due jobs under a lease.  An action is what runs between    *)
(* two statements on the database or two operations on the queue.           *)
EXTENDS Naturals, Sequences

CONSTANTS
  Nodes, Jobs,
  Workers,       \* the workers of a node
  NoRow, NoLease, NoJob,
  Capacity,      \* QueueSize
  MaxFaults      \* bound: leases that run out, crashes, failed writes, abandoned
                 \*   executions, deletions and edits

Keys == {"recover", "trigger"}

Statuses == {"pending", "running", "waiting", "completed"}
\* A row of jobs: due says whether next_execute_time has come.  How many retries are
\* left, and whether there is a cron expression, is chosen when it matters.
Rows == [status : Statuses, due : BOOLEAN]
\* A row of lock_records: live says whether expires_at is still ahead.
Leases == [node : Nodes, live : BOOLEAN]

ASSUME SchedulerAssumption ==
  /\ Capacity \in Nat \ {0} /\ MaxFaults \in Nat
  /\ NoJob \notin Jobs /\ NoRow \notin Rows /\ NoLease \notin Leases

VARIABLES
  lease,      \* table lock_records
  row,        \* table jobs
  loop,       \* the goroutine of each node: where it is and what it remembers
  queue,      \* the queue of each node
  exec,       \* what each worker does
  edit,       \* the row a client has read, to write it back
  faults,     \* how many faults have happened
  known,      \* history: the jobs that were scheduled
  disturbed,  \* history: the jobs that were executed in vain, reset, written by a
              \*   client, or submitted or marked after the lease had run out
  stranded,   \* history: the jobs whose row was left running with nothing to run it
  succeeded,  \* history: the jobs that have succeeded with no cron expression
  again       \* history: those that have succeeded again

bounds == <<faults, known>>
history == <<disturbed, stranded, succeeded, again>>
node == <<loop, queue, exec>>
vars == <<lease, row, node, edit, bounds, history>>

NoCopies == [j \in Jobs |-> NoRow]
At(pc) == [pc |-> pc, key |-> "recover", held |-> FALSE,
           todo |-> {}, job |-> NoJob, copy |-> NoCopies]
Free == [stage |-> "free", job |-> NoJob, copy |-> NoRow]
NoEdit == [job |-> NoJob, copy |-> NoRow]

\* Each fault is counted.
Fault == faults < MaxFaults /\ faults' = faults + 1

Init ==
  /\ lease = [k \in Keys |-> NoLease]
  /\ row = [j \in Jobs |-> NoRow]
  /\ loop = [n \in Nodes |-> At("down")]
  /\ queue = [n \in Nodes |-> <<>>]
  /\ exec = [n \in Nodes |-> [w \in Workers |-> Free]]
  /\ edit = NoEdit
  /\ faults = 0 /\ known = {}
  /\ disturbed = {} /\ stranded = {} /\ succeeded = {} /\ again = {}

Up(n) == loop[n].pc # "down"

\* The tasks of job j: queued, executed, or failed and not yet dropped.
Queued(n, j) == {i \in DOMAIN queue[n] : queue[n][i] = j}
Executed(n, j) == {w \in Workers : exec[n][w].job = j}
Tasks(j) ==
  UNION {({n} \X {"queued"} \X Queued(n, j)) \cup ({n} \X {"executed"} \X Executed(n, j)) : n \in Nodes}

Running(j) == row[j] # NoRow /\ row[j].status = "running"

-----------------------------------------------------------------------------
(* The lease (dbLock).                                                      *)

\* A lease runs out; held is history, no node knows.
Lapse(k) ==
  /\ Fault
  /\ lease[k] # NoLease /\ lease[k].live
  /\ lease' = [lease EXCEPT ![k].live = FALSE]
  /\ loop' = [n \in Nodes |-> IF loop[n].key = k THEN [loop[n] EXCEPT !.held = FALSE] ELSE loop[n]]
  /\ disturbed' = disturbed \cup ({loop[n].job : n \in {m \in Nodes : loop[m].key = k}} \ {NoJob})
  /\ UNCHANGED <<row, queue, exec, edit, known, stranded, succeeded, again>>

\* MUTANT of CanAcquire: a conflict is resolved without looking at the expiry.
CanAcquireAlways(n, k) == TRUE

\* There is no row, it has expired, or it is the node's own.
CanAcquire(n, k) == lease[k] = NoLease \/ ~lease[k].live \/ lease[k].node = n

\* Acquire.  Of its three statements the second, INSERT ... ON CONFLICT, decides alone.
Acquire(n, k) ==
  IF CanAcquire(n, k)
    THEN /\ lease' = [lease EXCEPT ![k] = [node |-> n, live |-> TRUE]]
         /\ loop' = [loop EXCEPT ![n] = [At("listing") EXCEPT !.key = k, !.held = TRUE]]
    ELSE /\ loop' = [loop EXCEPT ![n] = At("idle")]
         /\ UNCHANGED lease

Done(n) ==
  /\ loop[n].pc \in {"submitting", "resetting"}
  /\ loop[n].todo = {} /\ loop[n].copy = NoCopies

\* Release deletes the row if it is still the node's.
Release(n) ==
  /\ Done(n)
  /\ LET k == loop[n].key
     IN  lease' = IF lease[k] # NoLease /\ lease[k].node = n
                    THEN [lease EXCEPT ![k] = NoLease] ELSE lease
  /\ loop' = [loop EXCEPT ![n] = At("idle")]
  /\ UNCHANGED <<row, queue, exec, edit, bounds, history>>

-----------------------------------------------------------------------------
(* The goroutine of a node.                                                 *)

\* Start: the workers run at once, the recovery comes first.
Start(n) ==
  /\ ~Up(n)
  /\ Acquire(n, "recover")
  /\ UNCHANGED <<row, queue, exec, edit, bounds, history>>

\* recoverJobs reads the jobs that are not completed.
ListUnfinished(n) ==
  /\ loop[n].pc = "listing" /\ loop[n].key = "recover"
  /\ loop' = [loop EXCEPT
       ![n].pc = "resetting",
       ![n].todo = {j \in Jobs : Running(j)},
       ![n].copy = [j \in Jobs |-> IF row[j] # NoRow /\ row[j].status # "completed"
                                     THEN row[j] ELSE NoRow]]
  /\ UNCHANGED <<lease, row, queue, exec, edit, bounds, history>>

\* RecoverJobs: each job that was running is saved as pending, whole, as it was read.
Reset(n, j) ==
  /\ loop[n].pc = "resetting" /\ j \in loop[n].todo
  /\ LET r == [loop[n].copy[j] EXCEPT !.status = "pending"]
     IN  /\ row' = [row EXCEPT ![j] = r]
         /\ loop' = [loop EXCEPT ![n].todo = @ \ {j}, ![n].copy[j] = r]
  /\ disturbed' = disturbed \cup {j}
  /\ UNCHANGED <<lease, queue, exec, edit, bounds, stranded, succeeded, again>>

\* recoverJobs: an overdue job is saved, whole, with a time five seconds ahead.
Defer(n, j) ==
  /\ loop[n].pc = "resetting" /\ loop[n].todo = {} /\ loop[n].copy[j] # NoRow
  /\ row' = [row EXCEPT ![j] = [loop[n].copy[j] EXCEPT !.due = FALSE]]
  /\ loop' = [loop EXCEPT ![n].copy[j] = NoRow]
  /\ disturbed' = disturbed \cup {j}
  /\ UNCHANGED <<lease, queue, exec, edit, bounds, stranded, succeeded, again>>

LeaveAlone(n, j) ==
  /\ loop[n].pc = "resetting" /\ loop[n].todo = {}
  /\ loop[n].copy[j] # NoRow /\ ~loop[n].copy[j].due
  /\ loop' = [loop EXCEPT ![n].copy[j] = NoRow]
  /\ UNCHANGED <<lease, row, queue, exec, edit, bounds, history>>

\* checkAndTriggerJobs, by the ticker or a notification.
Trigger(n) ==
  /\ loop[n].pc = "idle"
  /\ Acquire(n, "trigger")
  /\ UNCHANGED <<row, queue, exec, edit, bounds, history>>

\* MUTANT of Listable: a due job is listed whatever its status.
Due(r) == r.due
Listable(r) == r.status = "pending" /\ r.due

\* ListPendingJobs.
ListPending(n) ==
  /\ loop[n].pc = "listing" /\ loop[n].key = "trigger"
  /\ loop' = [loop EXCEPT
       ![n].pc = "submitting",
       ![n].todo = {j \in Jobs : row[j] # NoRow /\ Listable(row[j])}]
  /\ UNCHANGED <<lease, row, queue, exec, edit, bounds, history>>

\* submitJobToQueue: the task is queued first.
Submit(n, j) ==
  /\ loop[n].pc = "submitting" /\ j \in loop[n].todo
  /\ Len(queue[n]) < Capacity
  /\ queue' = [queue EXCEPT ![n] = Append(@, j)]
  /\ loop' = [loop EXCEPT ![n].pc = "marking", ![n].job = j, ![n].todo = @ \ {j}]
  /\ disturbed' = IF loop[n].held THEN disturbed ELSE disturbed \cup {j}
  /\ UNCHANGED <<lease, row, exec, edit, bounds, stranded, succeeded, again>>

\* The queue is full: the error is reported and the job stays pending.
SubmitFull(n, j) ==
  /\ loop[n].pc = "submitting" /\ j \in loop[n].todo
  /\ Len(queue[n]) >= Capacity
  /\ loop' = [loop EXCEPT ![n].todo = @ \ {j}]
  /\ UNCHANGED <<lease, row, queue, exec, edit, bounds, history>>

\* MUTANT of Marked: another column than the status is updated.
Unmarked(r) == r
Marked(r) == [r EXCEPT !.status = "running"]

\* Then the status is written, whatever became of the job meanwhile.
Mark(n) ==
  /\ loop[n].pc = "marking"
  /\ LET j == loop[n].job
     IN  /\ row' = [row EXCEPT ![j] = IF @ = NoRow THEN @ ELSE Marked(@)]
         /\ stranded' = IF Tasks(j) = {} THEN stranded \cup {j} ELSE stranded
  /\ loop' = [loop EXCEPT ![n].pc = "submitting", ![n].job = NoJob]
  /\ UNCHANGED <<lease, queue, exec, edit, bounds, disturbed, succeeded, again>>

\* The database is busy for too long.
MarkFails(n) ==
  /\ Fault
  /\ loop[n].pc = "marking"
  /\ disturbed' = disturbed \cup {loop[n].job}
  /\ loop' = [loop EXCEPT ![n].pc = "submitting", ![n].job = NoJob]
  /\ UNCHANGED <<lease, row, queue, exec, edit, known, stranded, succeeded, again>>

\* The node dies, or is stopped: with its context cancelled nothing more is written.
Crash(n) ==
  /\ Fault
  /\ Up(n)
  /\ loop' = [loop EXCEPT ![n] = At("down")]
  /\ queue' = [queue EXCEPT ![n] = <<>>]
  /\ exec' = [exec EXCEPT ![n] = [w \in Workers |-> Free]]
  /\ LET lost == {j \in Jobs : Queued(n, j) # {} \/ Executed(n, j) # {}}
     IN  /\ disturbed' = disturbed \cup lost
         /\ stranded' = stranded \cup lost
  /\ UNCHANGED <<lease, row, edit, known, succeeded, again>>

-----------------------------------------------------------------------------
(* The workers.                                                             *)

Dequeue(n, w) ==
  /\ Up(n) /\ exec[n][w].stage = "free" /\ queue[n] # <<>>
  /\ exec' = [exec EXCEPT ![n][w] = [Free EXCEPT !.stage = "loading", !.job = Head(queue[n])]]
  /\ queue' = [queue EXCEPT ![n] = Tail(@)]
  /\ UNCHANGED <<lease, row, loop, edit, bounds, history>>

\* processTask: a job that was deleted needs no execution.
Load(n, w) ==
  /\ exec[n][w].stage = "loading"
  /\ LET r == row[exec[n][w].job]
     IN  exec' = [exec EXCEPT ![n][w] =
                    IF r = NoRow THEN Free ELSE [@ EXCEPT !.stage = "running", !.copy = r]]
  /\ UNCHANGED <<lease, row, loop, queue, edit, bounds, history>>

\* The worker has the error of its task; the task is not yet requeued or dropped.
Failed(n, w) == [exec EXCEPT ![n][w].stage = "failed", ![n][w].copy = NoRow]
\* UpdateJob saves the whole row, and inserts it if it was deleted.
Saved(n, w, r) == [row EXCEPT ![exec[n][w].job] = r]

\* executeJob: the dependencies are not met, and are looked at again later.
Waiting(r) == [r EXCEPT !.status = "waiting", !.due = FALSE]

Wait(n, w) ==
  /\ exec[n][w].stage = "running"
  /\ row' = Saved(n, w, Waiting(exec[n][w].copy))
  /\ exec' = [exec EXCEPT ![n][w] = Free]
  /\ UNCHANGED <<lease, loop, queue, edit, bounds, history>>

\* MUTANT of Outcomes: a rescheduled job keeps the status it was read with.
OutcomesUnset(r) == {[r EXCEPT !.due = FALSE], [r EXCEPT !.status = "completed"]}

\* handleJobSuccess: with a cron expression a job is rescheduled, without it it is done.
Outcomes(r) == {[r EXCEPT !.status = "pending", !.due = FALSE], [r EXCEPT !.status = "completed"]}

Succeed(n, w) ==
  /\ exec[n][w].stage = "running"
  /\ \E r \in Outcomes(exec[n][w].copy) :
       LET once == IF r.status = "completed" THEN {exec[n][w].job} ELSE {}
       IN  /\ row' = Saved(n, w, r)
           /\ succeeded' = succeeded \cup once
           /\ again' = again \cup (succeeded \cap {exec[n][w].job})
  /\ exec' = [exec EXCEPT ![n][w] = Free]
  /\ UNCHANGED <<lease, loop, queue, edit, bounds, disturbed, stranded>>

\* handleJobError, after the handler or the check of the dependencies failed: while
\* retries are left the job becomes pending.
FailAndRetry(n, w) ==
  /\ exec[n][w].stage = "running"
  /\ row' = Saved(n, w, [exec[n][w].copy EXCEPT !.status = "pending", !.due = FALSE])
  /\ exec' = Failed(n, w)
  /\ disturbed' = disturbed \cup {exec[n][w].job}
  /\ UNCHANGED <<lease, loop, queue, edit, bounds, stranded, succeeded, again>>

\* With none left it is moved to dead_letter_jobs: the table lacks columns that the
\* statement names, the transaction fails and the job stays as it is.
FailForGood(n, w) ==
  /\ exec[n][w].stage = "running"
  /\ exec' = Failed(n, w)
  /\ disturbed' = disturbed \cup {exec[n][w].job}
  /\ UNCHANGED <<lease, row, loop, queue, edit, bounds, stranded, succeeded, again>>

\* The database is busy for too long: the outcome of a success is not saved, and the
\* worker takes the task for done.
SaveFails(n, w) ==
  /\ Fault
  /\ exec[n][w].stage = "running"
  /\ exec' = [exec EXCEPT ![n][w] = Free]
  /\ disturbed' = disturbed \cup {exec[n][w].job}
  /\ stranded' = stranded \cup {exec[n][w].job}
  /\ UNCHANGED <<lease, row, loop, queue, edit, known, succeeded, again>>

\* The execution panics, exceeds its time, or finds the database busy before it has
\* saved anything: what an execution without its context attempts later fails.
Abandon(n, w) ==
  /\ Fault
  /\ exec[n][w].stage \in {"loading", "running"}
  /\ exec' = Failed(n, w)
  /\ disturbed' = disturbed \cup {exec[n][w].job}
  /\ UNCHANGED <<lease, row, loop, queue, edit, known, stranded, succeeded, again>>

\* The execution has saved its outcome, or that it waits, and the time is up before its
\* worker looks.
AbandonSaved(n, w) ==
  /\ Fault
  /\ exec[n][w].stage = "running"
  /\ \E r \in Outcomes(exec[n][w].copy) \cup {Waiting(exec[n][w].copy)} : row' = Saved(n, w, r)
  /\ exec' = Failed(n, w)
  /\ disturbed' = disturbed \cup {exec[n][w].job}
  /\ UNCHANGED <<lease, loop, queue, edit, known, stranded, succeeded, again>>

\* executeTask: while tries are left the pool queues the task again, at once, whatever
\* the row says.
Requeue(n, w) ==
  /\ exec[n][w].stage = "failed"
  /\ Len(queue[n]) < Capacity
  /\ queue' = [queue EXCEPT ![n] = Append(@, exec[n][w].job)]
  /\ exec' = [exec EXCEPT ![n][w] = Free]
  /\ UNCHANGED <<lease, row, loop, edit, bounds, history>>

\* Without tries or room the task goes to a list in memory that nothing reads.
GiveUp(n, w) ==
  /\ exec[n][w].stage = "failed"
  /\ exec' = [exec EXCEPT ![n][w] = Free]
  /\ stranded' = stranded \cup {exec[n][w].job}
  /\ UNCHANGED <<lease, row, loop, queue, edit, bounds, disturbed, succeeded, again>>

-----------------------------------------------------------------------------
(* Clients and time.                                                        *)

\* The routes are served by a node that has recovered.
Serving == \E n \in Nodes : Up(n) /\ (loop[n].pc = "idle" \/ loop[n].key = "trigger")

\* MUTANT of NewRow: a status that the client leaves out stays out.
BlankRow(due) == [status |-> "", due |-> due]
NewRow(due) == [status |-> "pending", due |-> due]

\* ScheduleJob, of a new job.
Schedule(j) ==
  /\ Serving
  /\ j \notin known
  /\ known' = known \cup {j}
  /\ \E due \in BOOLEAN : row' = [row EXCEPT ![j] = NewRow(due)]
  /\ UNCHANGED <<lease, node, edit, faults, history>>

DeleteJob(j) ==
  /\ Fault /\ Serving
  /\ row[j] # NoRow
  /\ row' = [row EXCEPT ![j] = NoRow]
  /\ UNCHANGED <<lease, node, edit, known, history>>

\* The routes for updating and triggering a job read its row ...
EditRead(j) ==
  /\ Fault /\ Serving
  /\ edit = NoEdit /\ row[j] # NoRow
  /\ edit' = [job |-> j, copy |-> row[j]]
  /\ UNCHANGED <<lease, row, node, known, history>>

\* ... and save it, whole, later.
EditSave(r) ==
  /\ Serving
  /\ row' = [row EXCEPT ![edit.job] = r]
  /\ edit' = NoEdit
  /\ disturbed' = disturbed \cup {edit.job}
  /\ stranded' = IF r.status = "running" THEN stranded \cup {edit.job} ELSE stranded
  /\ UNCHANGED <<lease, node, bounds, succeeded, again>>

TriggerJob ==
  /\ edit # NoEdit
  /\ EditSave([edit.copy EXCEPT !.status = "pending", !.due = TRUE])

UpdateJob ==
  /\ edit # NoEdit
  /\ \E due \in {edit.copy.due, FALSE} : EditSave([edit.copy EXCEPT !.due = due])

\* next_execute_time comes.
BecomeDue(j) ==
  /\ row[j] # NoRow /\ ~row[j].due /\ row[j].status # "completed"
  /\ row' = [row EXCEPT ![j].due = TRUE]
  /\ UNCHANGED <<lease, node, edit, bounds, history>>

-----------------------------------------------------------------------------
Next ==
  \/ TriggerJob \/ UpdateJob
  \/ \E j \in Jobs : Schedule(j) \/ DeleteJob(j) \/ EditRead(j) \/ BecomeDue(j)
  \/ \E k \in Keys : Lapse(k)
  \/ \E n \in Nodes :
       \/ Start(n) \/ Crash(n) \/ Trigger(n)
       \/ Release(n)
       \/ ListUnfinished(n) \/ ListPending(n)
       \/ Mark(n) \/ MarkFails(n)
       \/ \E j \in Jobs : \/ Reset(n, j) \/ Defer(n, j) \/ LeaveAlone(n, j)
                          \/ Submit(n, j) \/ SubmitFull(n, j)
       \/ \E w \in Workers :
            \/ Dequeue(n, w) \/ Load(n, w)
            \/ Wait(n, w) \/ Succeed(n, w) \/ FailAndRetry(n, w) \/ FailForGood(n, w)
            \/ SaveFails(n, w) \/ Abandon(n, w) \/ AbandonSaved(n, w)
            \/ Requeue(n, w) \/ GiveUp(n, w)

Spec == Init /\ [][Next]_vars

-----------------------------------------------------------------------------
OptRow == Rows \cup {NoRow}
OptJob == Jobs \cup {NoJob}
Loops ==
  [pc : {"down", "idle", "listing", "resetting", "submitting", "marking"},
   key : Keys, held : BOOLEAN, todo : SUBSET Jobs, job : OptJob, copy : [Jobs -> OptRow]]
Execs ==
  [stage : {"free", "loading", "running", "failed"}, job : OptJob, copy : OptRow]

\* The types of the variables.
TypeOK ==
  /\ lease \in [Keys -> Leases \cup {NoLease}]
  /\ row \in [Jobs -> OptRow]
  /\ loop \in [Nodes -> Loops]
  /\ queue \in [Nodes -> Seq(Jobs)]
  /\ exec \in [Nodes -> [Workers -> Execs]]
  /\ edit \in [job : OptJob, copy : OptRow]
  /\ faults \in Nat
  /\ known \subseteq Jobs /\ disturbed \subseteq Jobs /\ stranded \subseteq Jobs
  /\ succeeded \subseteq Jobs /\ again \subseteq Jobs

\* A node that has acquired a lease owns the row in lock_records until the lease runs out
\* or the node dies: no release, takeover, restart or second acquisition of another node
\* takes it away.
LeaseHeld ==
  \A n \in Nodes : loop[n].held => lease[loop[n].key] = [node |-> n, live |-> TRUE]

\* A job has one task on all nodes together, through crashes, takeovers, deletions and
\* late marks, unless it was disturbed.
OneTaskPerJob == \A j \in Jobs \ disturbed : \A t, u \in Tasks(j) : t = u

\* A job without cron expression that was not disturbed does not succeed twice.
SucceedsOnce == again \subseteq disturbed

\* A row that says running has a task somewhere, unless the job was marked after its task
\* had ended, its task was lost in a crash, was given up or could not save its outcome,
\* or a client has written a stale copy back.
Attended == \A j \in Jobs \ stranded : Running(j) => Tasks(j) # {}

\* What the nodes together do with a job: its phase, and where it is queued or executed.
Phase ==
  [j \in Jobs |-> IF j \in disturbed THEN "spoiled"
                  ELSE IF j \in succeeded THEN "done"
                  ELSE IF j \in known THEN "open" ELSE "none"]
Takers ==
  [j \in Jobs |-> IF j \in disturbed THEN {}
                  ELSE {n \in Nodes : Queued(n, j) # {} \/ Executed(n, j) # {}}]

\* Leases, lists, marks, queues and workers keep what JobLifecycle promises of every job
\* that was not disturbed: a node takes it only when it is free on all nodes, and no node
\* once it has succeeded.
Lifecycle == INSTANCE JobLifecycle WITH phase <- Phase, takers <- Takers
LifecycleImplemented == Lifecycle!Spec
=============================================================================
