------------------------- MODULE JobSchedulerProofs -------------------------
(* Proofs about JobScheduler, for every number of nodes, workers and jobs.  *)
EXTENDS JobScheduler, TLAPS

USE SchedulerAssumption DEF node, bounds, history, Listable, Marked, NewRow

-----------------------------------------------------------------------------
(* Types.                                                                   *)

\* What the program counter of a loop says about its other fields ...
GoodLoops ==
  {l \in Loops :
    /\ l.job # NoJob <=> l.pc = "marking"
    /\ l.pc \in {"submitting", "marking"} => l.key = "trigger"
    /\ l.pc = "resetting" => l.key = "recover" /\ \A j \in l.todo : l.copy[j] # NoRow}

\* ... and the stage of a worker about its job and its copy.
GoodExecs ==
  {e \in Execs : /\ e.stage = "free" <=> e.job = NoJob
                 /\ e.stage = "running" <=> e.copy # NoRow}

GoodEdits == {NoEdit} \cup [job : Jobs, copy : Rows]

Typed ==
  /\ TypeOK
  /\ loop \in [Nodes -> GoodLoops]
  /\ exec \in [Nodes -> [Workers -> GoodExecs]]
  /\ edit \in GoodEdits

\* A job's row with another status or due time is a row.
LEMMA RowTypes ==
  ASSUME NEW r \in Rows
  PROVE  /\ \A s \in Statuses : [r EXCEPT !.status = s] \in Rows
         /\ \A d \in BOOLEAN : [r EXCEPT !.due = d] \in Rows
         /\ \A s \in Statuses, d \in BOOLEAN : [r EXCEPT !.status = s, !.due = d] \in Rows
         /\ Outcomes(r) \subseteq Rows /\ Waiting(r) \in Rows
         /\ r \in OptRow /\ r # NoRow /\ r.due \in BOOLEAN /\ r.status \in Statuses
BY DEF Rows, Outcomes, Waiting, Statuses, OptRow

LEMMA AtTypes ==
  ASSUME NEW pc \in {"down", "idle", "listing"}
  PROVE  /\ At(pc) \in GoodLoops
         /\ At(pc).pc = pc /\ At(pc).job = NoJob /\ At(pc).todo = {} /\ ~At(pc).held
         /\ At(pc).copy = NoCopies
<1>1. NoCopies \in [Jobs -> OptRow]
  BY DEF NoCopies, OptRow
<1>2. QED
  BY <1>1 DEF At, Loops, GoodLoops, Keys, OptJob

\* The loop of a node that has acquired lease k.
Acquired(k) == [At("listing") EXCEPT !.key = k, !.held = TRUE]

LEMMA AcquiredTypes ==
  ASSUME NEW k \in Keys
  PROVE  /\ Acquired(k) \in GoodLoops
         /\ Acquired(k).pc = "listing" /\ Acquired(k).key = k
         /\ Acquired(k).job = NoJob /\ Acquired(k).todo = {} /\ Acquired(k).held
         /\ Acquired(k).copy = NoCopies
<1>1. NoCopies \in [Jobs -> OptRow]
  BY DEF NoCopies, OptRow
<1>2. QED
  BY <1>1 DEF At, Acquired, Loops, GoodLoops, Keys, OptJob

\* The fields of a loop.
LEMMA LoopTypes ==
  ASSUME NEW l \in GoodLoops
  PROVE  /\ l.key \in Keys /\ l.held \in BOOLEAN /\ l.todo \subseteq Jobs
         /\ l.job \in OptJob /\ l.copy \in [Jobs -> OptRow]
         /\ l.job # NoJob <=> l.pc = "marking"
         /\ l.pc \in {"submitting", "marking"} => l.key = "trigger"
         /\ l.pc = "resetting" => l.key = "recover" /\ \A j \in l.todo : l.copy[j] # NoRow
BY DEF GoodLoops, Loops

\* The fields of a worker.
LEMMA ExecTypes ==
  ASSUME NEW e \in GoodExecs
  PROVE  /\ e.stage \in {"free", "loading", "running", "failed"}
         /\ e.job \in OptJob /\ e.copy \in OptRow
         /\ e.stage = "free" <=> e.job = NoJob
         /\ e.stage = "running" <=> e.copy # NoRow
         /\ e.stage = "running" => e.copy \in Rows
         /\ e.stage # "free" => e.job \in Jobs
BY DEF GoodExecs, Execs, OptJob, OptRow

\* What a worker becomes.
LEMMA ExecBecomes ==
  /\ Free \in GoodExecs /\ Free.job = NoJob /\ Free.stage = "free"
  /\ \A j \in Jobs : [Free EXCEPT !.stage = "loading", !.job = j] \in GoodExecs
  /\ \A e \in GoodExecs : e.stage # "free" =>
       /\ [e EXCEPT !.stage = "failed", !.copy = NoRow] \in GoodExecs
       /\ \A r \in Rows : [e EXCEPT !.stage = "running", !.copy = r] \in GoodExecs
BY DEF Free, GoodExecs, Execs, OptRow, OptJob

\* What a loop becomes.
LEMMA LoopBecomes ==
  ASSUME NEW l \in GoodLoops
  PROVE  /\ [l EXCEPT !.held = FALSE] \in GoodLoops
         /\ l.pc = "listing" /\ l.key = "trigger" => \A S \in SUBSET Jobs :
              [l EXCEPT !.pc = "submitting", !.todo = S] \in GoodLoops
         /\ l.pc = "listing" /\ l.key = "recover" =>
              \A S \in SUBSET Jobs, c \in [Jobs -> OptRow] : (\A j \in S : c[j] # NoRow) =>
                [l EXCEPT !.pc = "resetting", !.todo = S, !.copy = c] \in GoodLoops
         /\ l.pc = "resetting" => \A j \in Jobs, r \in Rows :
              [l EXCEPT !.todo = @ \ {j}, !.copy[j] = r] \in GoodLoops
         /\ l.pc = "resetting" /\ l.todo = {} => \A j \in Jobs :
              [l EXCEPT !.copy[j] = NoRow] \in GoodLoops
         /\ l.pc = "submitting" => \A j \in Jobs :
              /\ [l EXCEPT !.pc = "marking", !.job = j, !.todo = @ \ {j}] \in GoodLoops
              /\ [l EXCEPT !.todo = @ \ {j}] \in GoodLoops
         /\ l.pc = "marking" => [l EXCEPT !.pc = "submitting", !.job = NoJob] \in GoodLoops
BY DEF GoodLoops, Loops, OptRow, OptJob

LEMMA AcquireTypes ==
  ASSUME Typed, NEW n \in Nodes, NEW k \in Keys, Acquire(n, k)
  PROVE  /\ lease' \in [Keys -> Leases \cup {NoLease}]
         /\ loop' \in [Nodes -> GoodLoops]
         /\ \/ loop' = [loop EXCEPT ![n] = Acquired(k)]
            \/ loop' = [loop EXCEPT ![n] = At("idle")]
<1>1. CASE CanAcquire(n, k)
  <2>1. loop' = [loop EXCEPT ![n] = Acquired(k)]
    BY <1>1 DEF Acquire, Acquired
  <2>2. [node |-> n, live |-> TRUE] \in Leases
    BY DEF Leases
  <2>3. lease' \in [Keys -> Leases \cup {NoLease}]
    BY <1>1, <2>2 DEF Acquire, Typed, TypeOK
  <2>4. loop' \in [Nodes -> GoodLoops]
    BY <2>1, AcquiredTypes DEF Typed
  <2>5. QED
    BY <2>1, <2>3, <2>4
<1>2. CASE ~CanAcquire(n, k)
  BY <1>2, AtTypes DEF Acquire, Typed, TypeOK
<1>3. QED
  BY <1>1, <1>2

\* What each action leaves alone.
LEMMA Frames ==
  /\ TriggerJob => UNCHANGED <<lease, loop, queue, exec, known>>
  /\ UpdateJob => UNCHANGED <<lease, loop, queue, exec, known>>
  /\ \A j \in Jobs : Schedule(j) => UNCHANGED <<lease, loop, queue, exec, edit>>
  /\ \A j \in Jobs : DeleteJob(j) => UNCHANGED <<lease, loop, queue, exec, edit, known>>
  /\ \A j \in Jobs : EditRead(j) => UNCHANGED <<lease, row, loop, queue, exec, known>>
  /\ \A j \in Jobs : BecomeDue(j) => UNCHANGED <<lease, loop, queue, exec, edit, known>>
  /\ \A k \in Keys : Lapse(k) => UNCHANGED <<row, queue, exec, edit, known>>
  /\ \A n \in Nodes : Start(n) => UNCHANGED <<row, queue, exec, edit, known>>
  /\ \A n \in Nodes : Crash(n) => UNCHANGED <<lease, row, edit, known>>
  /\ \A n \in Nodes : Trigger(n) => UNCHANGED <<row, queue, exec, edit, known>>
  /\ \A n \in Nodes : Release(n) => UNCHANGED <<row, queue, exec, edit, known>>
  /\ \A n \in Nodes : ListUnfinished(n) => UNCHANGED <<lease, row, queue, exec, edit, known>>
  /\ \A n \in Nodes : ListPending(n) => UNCHANGED <<lease, row, queue, exec, edit, known>>
  /\ \A n \in Nodes : Mark(n) => UNCHANGED <<lease, queue, exec, edit, known>>
  /\ \A n \in Nodes : MarkFails(n) => UNCHANGED <<lease, row, queue, exec, edit, known>>
  /\ \A n \in Nodes, j \in Jobs : Reset(n, j) => UNCHANGED <<lease, queue, exec, edit, known>>
  /\ \A n \in Nodes, j \in Jobs : Defer(n, j) => UNCHANGED <<lease, queue, exec, edit, known>>
  /\ \A n \in Nodes, j \in Jobs : LeaveAlone(n, j) => UNCHANGED <<lease, row, queue, exec, edit, known>>
  /\ \A n \in Nodes, j \in Jobs : Submit(n, j) => UNCHANGED <<lease, row, exec, edit, known>>
  /\ \A n \in Nodes, j \in Jobs : SubmitFull(n, j) => UNCHANGED <<lease, row, queue, exec, edit, known>>
  /\ \A n \in Nodes, w \in Workers : Dequeue(n, w) => UNCHANGED <<lease, row, loop, edit, known>>
  /\ \A n \in Nodes, w \in Workers : Load(n, w) => UNCHANGED <<lease, row, loop, queue, edit, known>>
  /\ \A n \in Nodes, w \in Workers : Wait(n, w) => UNCHANGED <<lease, loop, queue, edit, known>>
  /\ \A n \in Nodes, w \in Workers : Succeed(n, w) => UNCHANGED <<lease, loop, queue, edit, known>>
  /\ \A n \in Nodes, w \in Workers : FailAndRetry(n, w) => UNCHANGED <<lease, loop, queue, edit, known>>
  /\ \A n \in Nodes, w \in Workers : FailForGood(n, w) => UNCHANGED <<lease, row, loop, queue, edit, known>>
  /\ \A n \in Nodes, w \in Workers : SaveFails(n, w) => UNCHANGED <<lease, row, loop, queue, edit, known>>
  /\ \A n \in Nodes, w \in Workers : Abandon(n, w) => UNCHANGED <<lease, row, loop, queue, edit, known>>
  /\ \A n \in Nodes, w \in Workers : AbandonSaved(n, w) => UNCHANGED <<lease, loop, queue, edit, known>>
  /\ \A n \in Nodes, w \in Workers : Requeue(n, w) => UNCHANGED <<lease, row, loop, edit, known>>
  /\ \A n \in Nodes, w \in Workers : GiveUp(n, w) => UNCHANGED <<lease, row, loop, queue, edit, known>>
<1>1. TriggerJob => UNCHANGED <<lease, loop, queue, exec, known>>
  BY DEF TriggerJob, EditSave
<1>2. UpdateJob => UNCHANGED <<lease, loop, queue, exec, known>>
  BY DEF UpdateJob, EditSave
<1>3. \A j \in Jobs : Schedule(j) => UNCHANGED <<lease, loop, queue, exec, edit>>
  BY DEF Schedule
<1>4. \A j \in Jobs : DeleteJob(j) => UNCHANGED <<lease, loop, queue, exec, edit, known>>
  BY DEF DeleteJob
<1>5. \A j \in Jobs : EditRead(j) => UNCHANGED <<lease, row, loop, queue, exec, known>>
  BY DEF EditRead
<1>6. \A j \in Jobs : BecomeDue(j) => UNCHANGED <<lease, loop, queue, exec, edit, known>>
  BY DEF BecomeDue
<1>7. \A k \in Keys : Lapse(k) => UNCHANGED <<row, queue, exec, edit, known>>
  BY DEF Lapse
<1>8. \A n \in Nodes : Start(n) => UNCHANGED <<row, queue, exec, edit, known>>
  BY DEF Start
<1>9. \A n \in Nodes : Crash(n) => UNCHANGED <<lease, row, edit, known>>
  BY DEF Crash
<1>10. \A n \in Nodes : Trigger(n) => UNCHANGED <<row, queue, exec, edit, known>>
  BY DEF Trigger
<1>11. \A n \in Nodes : Release(n) => UNCHANGED <<row, queue, exec, edit, known>>
  BY DEF Release
<1>12. \A n \in Nodes : ListUnfinished(n) => UNCHANGED <<lease, row, queue, exec, edit, known>>
  BY DEF ListUnfinished
<1>13. \A n \in Nodes : ListPending(n) => UNCHANGED <<lease, row, queue, exec, edit, known>>
  BY DEF ListPending
<1>14. \A n \in Nodes : Mark(n) => UNCHANGED <<lease, queue, exec, edit, known>>
  BY DEF Mark
<1>15. \A n \in Nodes : MarkFails(n) => UNCHANGED <<lease, row, queue, exec, edit, known>>
  BY DEF MarkFails
<1>16. \A n \in Nodes, j \in Jobs : Reset(n, j) => UNCHANGED <<lease, queue, exec, edit, known>>
  BY DEF Reset
<1>17. \A n \in Nodes, j \in Jobs : Defer(n, j) => UNCHANGED <<lease, queue, exec, edit, known>>
  BY DEF Defer
<1>18. \A n \in Nodes, j \in Jobs : LeaveAlone(n, j) => UNCHANGED <<lease, row, queue, exec, edit, known>>
  BY DEF LeaveAlone
<1>19. \A n \in Nodes, j \in Jobs : Submit(n, j) => UNCHANGED <<lease, row, exec, edit, known>>
  BY DEF Submit
<1>20. \A n \in Nodes, j \in Jobs : SubmitFull(n, j) => UNCHANGED <<lease, row, queue, exec, edit, known>>
  BY DEF SubmitFull
<1>21. \A n \in Nodes, w \in Workers : Dequeue(n, w) => UNCHANGED <<lease, row, loop, edit, known>>
  BY DEF Dequeue
<1>22. \A n \in Nodes, w \in Workers : Load(n, w) => UNCHANGED <<lease, row, loop, queue, edit, known>>
  BY DEF Load
<1>23. \A n \in Nodes, w \in Workers : Wait(n, w) => UNCHANGED <<lease, loop, queue, edit, known>>
  BY DEF Wait
<1>24. \A n \in Nodes, w \in Workers : Succeed(n, w) => UNCHANGED <<lease, loop, queue, edit, known>>
  BY DEF Succeed
<1>25. \A n \in Nodes, w \in Workers : FailAndRetry(n, w) => UNCHANGED <<lease, loop, queue, edit, known>>
  BY DEF FailAndRetry
<1>26. \A n \in Nodes, w \in Workers : FailForGood(n, w) => UNCHANGED <<lease, row, loop, queue, edit, known>>
  BY DEF FailForGood
<1>27. \A n \in Nodes, w \in Workers : SaveFails(n, w) => UNCHANGED <<lease, row, loop, queue, edit, known>>
  BY DEF SaveFails
<1>28. \A n \in Nodes, w \in Workers : Abandon(n, w) => UNCHANGED <<lease, row, loop, queue, edit, known>>
  BY DEF Abandon
<1>29. \A n \in Nodes, w \in Workers : AbandonSaved(n, w) => UNCHANGED <<lease, loop, queue, edit, known>>
  BY DEF AbandonSaved
<1>30. \A n \in Nodes, w \in Workers : Requeue(n, w) => UNCHANGED <<lease, row, loop, edit, known>>
  BY DEF Requeue
<1>31. \A n \in Nodes, w \in Workers : GiveUp(n, w) => UNCHANGED <<lease, row, loop, queue, edit, known>>
  BY DEF GiveUp
<1>32. QED
    BY <1>1, <1>2, <1>3, <1>4, <1>5, <1>6, <1>7, <1>8, <1>9, <1>10, <1>11, <1>12, <1>13,
     <1>14, <1>15, <1>16, <1>17, <1>18, <1>19, <1>20, <1>21, <1>22, <1>23, <1>24, <1>25,
     <1>26, <1>27, <1>28, <1>29, <1>30, <1>31

LEMMA LeaseWriters ==
  ASSUME [Next]_vars
  PROVE  \/ UNCHANGED lease
         \/ \E k \in Keys : Lapse(k)
         \/ \E n \in Nodes : Start(n) \/ Trigger(n) \/ Release(n)
BY Frames DEF Next, vars

LEMMA RowWriters ==
  ASSUME [Next]_vars
  PROVE  \/ UNCHANGED row
         \/ TriggerJob \/ UpdateJob
         \/ \E j \in Jobs : Schedule(j) \/ DeleteJob(j) \/ BecomeDue(j)
         \/ \E n \in Nodes : Mark(n)
         \/ \E n \in Nodes : \E j \in Jobs : Reset(n, j) \/ Defer(n, j)
         \/ \E n \in Nodes : \E w \in Workers : Wait(n, w) \/ Succeed(n, w) \/ FailAndRetry(n, w) \/ AbandonSaved(n, w)
BY Frames DEF Next, vars

LEMMA LoopWriters ==
  ASSUME [Next]_vars
  PROVE  \/ UNCHANGED loop
         \/ \E k \in Keys : Lapse(k)
         \/ \E n \in Nodes : Start(n) \/ Crash(n) \/ Trigger(n) \/ Release(n) \/ ListUnfinished(n) \/ ListPending(n) \/ Mark(n) \/ MarkFails(n)
         \/ \E n \in Nodes : \E j \in Jobs : Reset(n, j) \/ Defer(n, j) \/ LeaveAlone(n, j) \/ Submit(n, j) \/ SubmitFull(n, j)
BY Frames DEF Next, vars

LEMMA QueueWriters ==
  ASSUME [Next]_vars
  PROVE  \/ UNCHANGED queue
         \/ \E n \in Nodes : Crash(n)
         \/ \E n \in Nodes : \E j \in Jobs : Submit(n, j)
         \/ \E n \in Nodes : \E w \in Workers : Dequeue(n, w) \/ Requeue(n, w)
BY Frames DEF Next, vars

LEMMA ExecWriters ==
  ASSUME [Next]_vars
  PROVE  \/ UNCHANGED exec
         \/ \E n \in Nodes : Crash(n)
         \/ \E n \in Nodes : \E w \in Workers : Dequeue(n, w) \/ Load(n, w) \/ Wait(n, w) \/ Succeed(n, w) \/ FailAndRetry(n, w) \/ FailForGood(n, w) \/ SaveFails(n, w) \/ Abandon(n, w) \/ AbandonSaved(n, w) \/ Requeue(n, w) \/ GiveUp(n, w)
BY Frames DEF Next, vars

LEMMA EditWriters ==
  ASSUME [Next]_vars
  PROVE  \/ UNCHANGED edit
         \/ TriggerJob \/ UpdateJob
         \/ \E j \in Jobs : EditRead(j)
BY Frames DEF Next, vars

LEMMA KnownWriters ==
  ASSUME [Next]_vars
  PROVE  \/ UNCHANGED known
         \/ \E j \in Jobs : Schedule(j)
BY Frames DEF Next, vars

\* Every write of a row is a row.
LEMMA RowStep == ASSUME Typed, [Next]_vars PROVE row' \in [Jobs -> OptRow]
<1> USE DEF Typed, TypeOK, OptRow
<1>1. ASSUME NEW r \in Rows, NEW j, row' = [row EXCEPT ![j] = r] PROVE row' \in [Jobs -> OptRow]
  BY <1>1
<1>2. CASE UNCHANGED row
  BY <1>2
<1>3. CASE TriggerJob
  <2>1. [edit.copy EXCEPT !.status = "pending", !.due = TRUE] \in Rows
    BY <1>3, RowTypes DEF TriggerJob, GoodEdits, Statuses
  <2>2. QED
    BY <1>1, <1>3, <2>1 DEF TriggerJob, EditSave
<1>4. CASE UpdateJob
  <2>1. edit.copy \in Rows
    BY <1>4 DEF UpdateJob, GoodEdits
  <2>2. PICK due \in {edit.copy.due, FALSE} : EditSave([edit.copy EXCEPT !.due = due])
    BY <1>4 DEF UpdateJob
  <2>3. [edit.copy EXCEPT !.due = due] \in Rows
    BY <2>1, RowTypes
  <2>4. QED
    BY <1>1, <2>2, <2>3 DEF EditSave
<1>5. ASSUME NEW j \in Jobs, Schedule(j) PROVE row' \in [Jobs -> OptRow]
  <2>1. \A due \in BOOLEAN : [status |-> "pending", due |-> due] \in Rows
    BY DEF Rows, Statuses
  <2>2. QED
    BY <1>5, <2>1 DEF Schedule
<1>6. ASSUME NEW j \in Jobs, DeleteJob(j) PROVE row' \in [Jobs -> OptRow]
  BY <1>6 DEF DeleteJob
<1>7. ASSUME NEW j \in Jobs, BecomeDue(j) PROVE row' \in [Jobs -> OptRow]
  <2>1. row[j] \in Rows /\ [row[j] EXCEPT !.due = TRUE] \in Rows
    BY <1>7, RowTypes DEF BecomeDue
  <2>2. row' = [row EXCEPT ![j] = [row[j] EXCEPT !.due = TRUE]]
    BY <1>7 DEF BecomeDue
  <2>3. QED
    BY <1>1, <2>1, <2>2
<1>8. ASSUME NEW n \in Nodes, Mark(n) PROVE row' \in [Jobs -> OptRow]
  <2>1. CASE row[loop[n].job] = NoRow
    BY <1>8, <2>1 DEF Mark
  <2>2. CASE row[loop[n].job] # NoRow
    <3>1. loop[n].job \in Jobs
      BY <1>8, LoopTypes DEF Mark, OptJob
    <3>2. row[loop[n].job] \in Rows /\ [row[loop[n].job] EXCEPT !.status = "running"] \in Rows
      <4>1. row[loop[n].job] \in Rows
        BY <1>1, <2>2, <3>1 DEF OptRow
      <4>2. "running" \in Statuses
        BY DEF Statuses
      <4>3. QED
        BY <4>1, <4>2, RowTypes
    <3>3. row' = [row EXCEPT ![loop[n].job] = [row[loop[n].job] EXCEPT !.status = "running"]]
      BY <1>8, <2>2, <3>1 DEF Mark
    <3>4. PICK r \in Rows : r = [row[loop[n].job] EXCEPT !.status = "running"]
      BY <3>2
    <3>5. r \in OptRow /\ row' = [row EXCEPT ![loop[n].job] = r]
      BY <3>3, <3>4, RowTypes
    <3>6. QED
      BY <1>1, <3>5
  <2>3. QED
    BY <2>1, <2>2
<1>9. ASSUME NEW n \in Nodes, NEW j \in Jobs, Reset(n, j) PROVE row' \in [Jobs -> OptRow]
  <2>1. loop[n].copy[j] \in Rows
    BY <1>9, LoopTypes DEF Reset
  <2>2. QED
    BY <1>1, <1>9, <2>1, RowTypes DEF Reset, Statuses
<1>10. ASSUME NEW n \in Nodes, NEW j \in Jobs, Defer(n, j) PROVE row' \in [Jobs -> OptRow]
  <2>1. loop[n].copy[j] \in Rows
    BY <1>10, LoopTypes DEF Defer
  <2>2. QED
    BY <1>1, <1>10, <2>1, RowTypes DEF Defer
<1>11. ASSUME NEW n \in Nodes, NEW w \in Workers,
              Wait(n, w) \/ Succeed(n, w) \/ FailAndRetry(n, w) \/ AbandonSaved(n, w)
       PROVE  row' \in [Jobs -> OptRow]
  <2>1. exec[n][w].copy \in Rows
    BY <1>11, ExecTypes DEF Wait, Succeed, FailAndRetry, AbandonSaved
  <2>2. CASE Wait(n, w)
    BY <1>1, <2>1, <2>2, RowTypes DEF Wait, Saved
  <2>3. CASE Succeed(n, w) \/ AbandonSaved(n, w)
    BY <1>1, <2>1, <2>3, RowTypes DEF Succeed, AbandonSaved, Saved
  <2>4. CASE FailAndRetry(n, w)
    BY <1>1, <2>1, <2>4, RowTypes DEF FailAndRetry, Saved, Statuses
  <2>5. QED
    BY <1>11, <2>2, <2>3, <2>4
<1>12. QED
  BY RowWriters, <1>2, <1>3, <1>4, <1>5, <1>6, <1>7, <1>8, <1>9, <1>10, <1>11

LEMMA LoopStep == ASSUME Typed, [Next]_vars PROVE loop' \in [Nodes -> GoodLoops]
<1> USE DEF Typed
<1>1. ASSUME NEW n \in Nodes, NEW l \in GoodLoops, loop' = [loop EXCEPT ![n] = l]
      PROVE  loop' \in [Nodes -> GoodLoops]
  BY <1>1
<1>2. CASE UNCHANGED loop
  BY <1>2
<1>3. ASSUME NEW k \in Keys, Lapse(k) PROVE loop' \in [Nodes -> GoodLoops]
  BY <1>3, LoopBecomes DEF Lapse
<1>4. ASSUME NEW n \in Nodes, Start(n) \/ Trigger(n) PROVE loop' \in [Nodes -> GoodLoops]
  BY <1>4, AcquireTypes DEF Start, Trigger, Keys
<1>5. ASSUME NEW n \in Nodes, Crash(n) \/ Release(n) PROVE loop' \in [Nodes -> GoodLoops]
  BY <1>1, <1>5, AtTypes DEF Crash, Release
<1>6. ASSUME NEW n \in Nodes, ListUnfinished(n) PROVE loop' \in [Nodes -> GoodLoops]
  <2> DEFINE S == {j \in Jobs : Running(j)}
             c == [j \in Jobs |-> IF row[j] # NoRow /\ row[j].status # "completed"
                                    THEN row[j] ELSE NoRow]
  <2>1. c \in [Jobs -> OptRow] /\ \A j \in S : c[j] # NoRow
    BY DEF TypeOK, Running, OptRow
  <2>2. [loop[n] EXCEPT !.pc = "resetting", !.todo = S, !.copy = c] \in GoodLoops
    <3> HIDE DEF S, c
    <3>1. QED
      BY <1>6, <2>1, LoopBecomes DEF ListUnfinished, S
  <2>3. loop' = [loop EXCEPT ![n] = [loop[n] EXCEPT !.pc = "resetting", !.todo = S, !.copy = c]]
    BY <1>6 DEF ListUnfinished
  <2>4. QED
    BY <1>1, <2>2, <2>3
<1>7. ASSUME NEW n \in Nodes, ListPending(n) PROVE loop' \in [Nodes -> GoodLoops]
  <2> DEFINE S == {j \in Jobs : row[j] # NoRow /\ row[j].status = "pending" /\ row[j].due}
  <2>1. [loop[n] EXCEPT !.pc = "submitting", !.todo = S] \in GoodLoops
    BY <1>7, LoopBecomes DEF ListPending
  <2>2. loop' = [loop EXCEPT ![n] = [loop[n] EXCEPT !.pc = "submitting", !.todo = S]]
    BY <1>7 DEF ListPending
  <2>3. QED
    BY <1>1, <2>1, <2>2
<1>8. ASSUME NEW n \in Nodes, Mark(n) \/ MarkFails(n) PROVE loop' \in [Nodes -> GoodLoops]
  <2>1. [loop[n] EXCEPT !.pc = "submitting", !.job = NoJob] \in GoodLoops
    BY <1>8, LoopBecomes DEF Mark, MarkFails
  <2>2. loop' = [loop EXCEPT ![n] = [loop[n] EXCEPT !.pc = "submitting", !.job = NoJob]]
    BY <1>8 DEF Mark, MarkFails
  <2>3. QED
    BY <1>1, <2>1, <2>2
<1>9. ASSUME NEW n \in Nodes, NEW j \in Jobs, Reset(n, j) PROVE loop' \in [Nodes -> GoodLoops]
  <2> DEFINE r == [loop[n].copy[j] EXCEPT !.status = "pending"]
  <2>1. r \in Rows
    <3>1. loop[n].copy[j] \in Rows
      BY <1>9, LoopTypes DEF Reset, OptRow
    <3>2. QED
      BY <3>1, RowTypes DEF Statuses
  <2>2. loop' = [loop EXCEPT ![n] = [loop[n] EXCEPT !.todo = @ \ {j}, !.copy[j] = r]]
    BY <1>9 DEF Reset
  <2> HIDE DEF r
  <2>3. [loop[n] EXCEPT !.todo = @ \ {j}, !.copy[j] = r] \in GoodLoops
    BY <1>9, <2>1, LoopBecomes DEF Reset
  <2>4. QED
    BY <1>1, <2>2, <2>3
<1>10. ASSUME NEW n \in Nodes, NEW j \in Jobs, Defer(n, j) \/ LeaveAlone(n, j)
       PROVE  loop' \in [Nodes -> GoodLoops]
  <2>1. [loop[n] EXCEPT !.copy[j] = NoRow] \in GoodLoops
    BY <1>10, LoopBecomes DEF Defer, LeaveAlone
  <2>2. loop' = [loop EXCEPT ![n] = [loop[n] EXCEPT !.copy[j] = NoRow]]
    BY <1>10 DEF Defer, LeaveAlone
  <2>3. QED
    BY <1>1, <2>1, <2>2
<1>11. ASSUME NEW n \in Nodes, NEW j \in Jobs, Submit(n, j) PROVE loop' \in [Nodes -> GoodLoops]
  <2>1. [loop[n] EXCEPT !.pc = "marking", !.job = j, !.todo = @ \ {j}] \in GoodLoops
    BY <1>11, LoopBecomes DEF Submit
  <2>2. loop' = [loop EXCEPT ![n] = [loop[n] EXCEPT !.pc = "marking", !.job = j, !.todo = @ \ {j}]]
    BY <1>11 DEF Submit
  <2>3. QED
    BY <1>1, <2>1, <2>2
<1>12. ASSUME NEW n \in Nodes, NEW j \in Jobs, SubmitFull(n, j) PROVE loop' \in [Nodes -> GoodLoops]
  <2>1. [loop[n] EXCEPT !.todo = @ \ {j}] \in GoodLoops
    BY <1>12, LoopBecomes DEF SubmitFull
  <2>2. loop' = [loop EXCEPT ![n] = [loop[n] EXCEPT !.todo = @ \ {j}]]
    BY <1>12 DEF SubmitFull
  <2>3. QED
    BY <1>1, <2>1, <2>2
<1>13. QED
  BY LoopWriters, <1>2, <1>3, <1>4, <1>5, <1>6, <1>7, <1>8, <1>9, <1>10, <1>11, <1>12

LEMMA ExecStep == ASSUME Typed, [Next]_vars PROVE exec' \in [Nodes -> [Workers -> GoodExecs]]
<1> USE DEF Typed
<1>1. ASSUME NEW n \in Nodes, NEW w \in Workers, NEW e \in GoodExecs,
             exec' = [exec EXCEPT ![n][w] = e]
      PROVE  exec' \in [Nodes -> [Workers -> GoodExecs]]
  BY <1>1
<1>2. CASE UNCHANGED exec
  BY <1>2
<1>3. ASSUME NEW n \in Nodes, Crash(n) PROVE exec' \in [Nodes -> [Workers -> GoodExecs]]
  BY <1>3, ExecBecomes DEF Crash
<1>4. ASSUME NEW n \in Nodes, NEW w \in Workers, Dequeue(n, w)
      PROVE  exec' \in [Nodes -> [Workers -> GoodExecs]]
  <2>1. Head(queue[n]) \in Jobs
    BY <1>4 DEF Dequeue, TypeOK
  <2>2. QED
    BY <1>1, <1>4, <2>1, ExecBecomes DEF Dequeue
<1>5. ASSUME NEW n \in Nodes, NEW w \in Workers, Load(n, w)
      PROVE  exec' \in [Nodes -> [Workers -> GoodExecs]]
  <2>1. exec[n][w] \in GoodExecs /\ exec[n][w].job \in Jobs /\ exec[n][w].stage = "loading"
    BY <1>5, ExecTypes DEF Load
  <2>2. CASE row[exec[n][w].job] = NoRow
    BY <1>1, <1>5, <2>2, ExecBecomes DEF Load
  <2>3. CASE row[exec[n][w].job] # NoRow
    <3> DEFINE r == row[exec[n][w].job]
    <3>1. r \in Rows
      BY <2>1, <2>3 DEF TypeOK, OptRow
    <3>2. exec' = [exec EXCEPT ![n][w] = [exec[n][w] EXCEPT !.stage = "running", !.copy = r]]
      BY <1>5, <2>3 DEF Load
    <3> HIDE DEF r
    <3>3. [exec[n][w] EXCEPT !.stage = "running", !.copy = r] \in GoodExecs
      BY <2>1, <3>1, ExecBecomes
    <3>4. QED
      BY <1>1, <3>2, <3>3
  <2>4. QED
    BY <2>2, <2>3
<1>6. ASSUME NEW n \in Nodes, NEW w \in Workers,
             \/ Wait(n, w) \/ Succeed(n, w) \/ SaveFails(n, w) \/ Requeue(n, w) \/ GiveUp(n, w)
      PROVE  exec' \in [Nodes -> [Workers -> GoodExecs]]
  <2>1. exec' = [exec EXCEPT ![n][w] = Free]
    BY <1>6 DEF Wait, Succeed, SaveFails, Requeue, GiveUp
  <2>2. QED
    BY <1>1, <2>1, ExecBecomes
<1>7. ASSUME NEW n \in Nodes, NEW w \in Workers,
             FailAndRetry(n, w) \/ FailForGood(n, w) \/ Abandon(n, w) \/ AbandonSaved(n, w)
      PROVE  exec' \in [Nodes -> [Workers -> GoodExecs]]
  <2>1. exec' = Failed(n, w) /\ exec[n][w].stage # "free"
    BY <1>7 DEF FailAndRetry, FailForGood, Abandon, AbandonSaved
  <2>2. PICK e \in GoodExecs : e = [exec[n][w] EXCEPT !.stage = "failed", !.copy = NoRow]
    <3>1. PICK x \in GoodExecs : x = exec[n][w]
      BY <1>1
    <3>2. [x EXCEPT !.stage = "failed", !.copy = NoRow] \in GoodExecs
      BY <2>1, <3>1, ExecBecomes
    <3>3. QED
      BY <3>1, <3>2
  <2>3. exec' = [exec EXCEPT ![n][w] = e]
    BY <2>1, <2>2 DEF Failed
  <2>4. exec[n] \in [Workers -> GoodExecs]
    BY <1>1
  <2>5. [exec[n] EXCEPT ![w] = e] \in [Workers -> GoodExecs]
    BY <2>4
  <2>6. QED
    BY <1>1, <2>3, <2>5
<1>8. QED
  BY ExecWriters, <1>2, <1>3, <1>4, <1>5, <1>6, <1>7

LEMMA QueueStep == ASSUME Typed, [Next]_vars PROVE queue' \in [Nodes -> Seq(Jobs)]
<1> USE DEF Typed, TypeOK
<1>1. CASE UNCHANGED queue
  BY <1>1
<1>2. ASSUME NEW n \in Nodes, Crash(n) PROVE queue' \in [Nodes -> Seq(Jobs)]
  BY <1>2 DEF Crash
<1>3. ASSUME NEW n \in Nodes, NEW j \in Jobs, Submit(n, j) PROVE queue' \in [Nodes -> Seq(Jobs)]
  BY <1>3 DEF Submit
<1>4. ASSUME NEW n \in Nodes, NEW w \in Workers, Dequeue(n, w) PROVE queue' \in [Nodes -> Seq(Jobs)]
  BY <1>4 DEF Dequeue
<1>5. ASSUME NEW n \in Nodes, NEW w \in Workers, Requeue(n, w) PROVE queue' \in [Nodes -> Seq(Jobs)]
  <2>1. exec[n][w].job \in Jobs
    BY <1>5, ExecTypes DEF Requeue
  <2>2. QED
    BY <1>5, <2>1 DEF Requeue
<1>6. QED
  BY QueueWriters, <1>1, <1>2, <1>3, <1>4, <1>5

LEMMA LeaseStep == ASSUME Typed, [Next]_vars PROVE lease' \in [Keys -> Leases \cup {NoLease}]
<1> USE DEF Typed, TypeOK
<1>1. CASE UNCHANGED lease
  BY <1>1
<1>2. ASSUME NEW k \in Keys, Lapse(k) PROVE lease' \in [Keys -> Leases \cup {NoLease}]
  <2>1. [lease[k] EXCEPT !.live = FALSE] \in Leases
    <3>1. lease[k] \in Leases
      BY <1>2 DEF Lapse
    <3>2. \A l \in Leases : [l EXCEPT !.live = FALSE] \in Leases
      BY DEF Leases
    <3>3. QED
      BY <3>1, <3>2
  <2>2. QED
    BY <1>2, <2>1 DEF Lapse
<1>3. ASSUME NEW n \in Nodes, Start(n) \/ Trigger(n) PROVE lease' \in [Keys -> Leases \cup {NoLease}]
  BY <1>3, AcquireTypes DEF Start, Trigger, Keys
<1>4. ASSUME NEW n \in Nodes, Release(n) PROVE lease' \in [Keys -> Leases \cup {NoLease}]
  BY <1>4 DEF Release
<1>5. QED
  BY LeaseWriters, <1>1, <1>2, <1>3, <1>4

LEMMA EditStep == ASSUME Typed, [Next]_vars PROVE edit' \in GoodEdits
<1> USE DEF Typed, GoodEdits
<1>1. CASE UNCHANGED edit
  BY <1>1
<1>2. CASE TriggerJob \/ UpdateJob
  BY <1>2 DEF TriggerJob, UpdateJob, EditSave
<1>3. ASSUME NEW j \in Jobs, EditRead(j) PROVE edit' \in GoodEdits
  BY <1>3 DEF EditRead, TypeOK, OptRow
<1>4. QED
  BY EditWriters, <1>1, <1>2, <1>3

\* The histories, which only grow, and the counter.
LEMMA HistoryStep ==
  ASSUME Typed, [Next]_vars
  PROVE  /\ faults' \in Nat
         /\ known' \subseteq Jobs /\ disturbed' \subseteq Jobs /\ stranded' \subseteq Jobs
         /\ succeeded' \subseteq Jobs /\ again' \subseteq Jobs
         /\ known \subseteq known' /\ disturbed \subseteq disturbed'
         /\ stranded \subseteq stranded' /\ succeeded \subseteq succeeded'
<1> DEFINE G == /\ faults' \in Nat
                /\ known' \subseteq Jobs /\ disturbed' \subseteq Jobs /\ stranded' \subseteq Jobs
                /\ succeeded' \subseteq Jobs /\ again' \subseteq Jobs
                /\ known \subseteq known' /\ disturbed \subseteq disturbed'
                /\ stranded \subseteq stranded' /\ succeeded \subseteq succeeded'
<1> USE DEF Typed, TypeOK, OptJob
<1>1. CASE TriggerJob
  BY <1>1 DEF TriggerJob, EditSave, GoodEdits
<1>2. CASE UpdateJob
  BY <1>2 DEF UpdateJob, EditSave, GoodEdits
<1>3. ASSUME NEW j \in Jobs, Schedule(j) PROVE G
  BY <1>3 DEF Schedule
<1>4. ASSUME NEW j \in Jobs, DeleteJob(j) PROVE G
  BY <1>4 DEF DeleteJob, Fault
<1>5. ASSUME NEW j \in Jobs, EditRead(j) PROVE G
  BY <1>5 DEF EditRead, Fault
<1>6. ASSUME NEW j \in Jobs, BecomeDue(j) PROVE G
  BY <1>6 DEF BecomeDue
<1>7. ASSUME NEW k \in Keys, Lapse(k) PROVE G
  BY <1>7, LoopTypes DEF Lapse, Fault
<1>8. ASSUME NEW n \in Nodes, Start(n) PROVE G
  BY <1>8 DEF Start
<1>9. ASSUME NEW n \in Nodes, Crash(n) PROVE G
  BY <1>9 DEF Crash, Fault
<1>10. ASSUME NEW n \in Nodes, Trigger(n) PROVE G
  BY <1>10 DEF Trigger
<1>11. ASSUME NEW n \in Nodes, Release(n) PROVE G
  BY <1>11 DEF Release
<1>12. ASSUME NEW n \in Nodes, ListUnfinished(n) PROVE G
  BY <1>12 DEF ListUnfinished
<1>13. ASSUME NEW n \in Nodes, ListPending(n) PROVE G
  BY <1>13 DEF ListPending
<1>14. ASSUME NEW n \in Nodes, Mark(n) PROVE G
  BY <1>14, LoopTypes DEF Mark
<1>15. ASSUME NEW n \in Nodes, MarkFails(n) PROVE G
  BY <1>15, LoopTypes DEF MarkFails, Fault
<1>16. ASSUME NEW n \in Nodes, NEW j \in Jobs, Reset(n, j) PROVE G
  BY <1>16 DEF Reset
<1>17. ASSUME NEW n \in Nodes, NEW j \in Jobs, Defer(n, j) PROVE G
  BY <1>17 DEF Defer
<1>18. ASSUME NEW n \in Nodes, NEW j \in Jobs, LeaveAlone(n, j) PROVE G
  BY <1>18 DEF LeaveAlone
<1>19. ASSUME NEW n \in Nodes, NEW j \in Jobs, Submit(n, j) PROVE G
  BY <1>19 DEF Submit
<1>20. ASSUME NEW n \in Nodes, NEW j \in Jobs, SubmitFull(n, j) PROVE G
  BY <1>20 DEF SubmitFull
<1>21. ASSUME NEW n \in Nodes, NEW w \in Workers, Dequeue(n, w) PROVE G
  BY <1>21 DEF Dequeue
<1>22. ASSUME NEW n \in Nodes, NEW w \in Workers, Load(n, w) PROVE G
  BY <1>22 DEF Load
<1>23. ASSUME NEW n \in Nodes, NEW w \in Workers, Wait(n, w) PROVE G
  BY <1>23 DEF Wait
<1>24. ASSUME NEW n \in Nodes, NEW w \in Workers, Succeed(n, w) PROVE G
  BY <1>24, ExecTypes DEF Succeed
<1>25. ASSUME NEW n \in Nodes, NEW w \in Workers, FailAndRetry(n, w) PROVE G
  BY <1>25, ExecTypes DEF FailAndRetry
<1>26. ASSUME NEW n \in Nodes, NEW w \in Workers, FailForGood(n, w) PROVE G
  BY <1>26, ExecTypes DEF FailForGood
<1>27. ASSUME NEW n \in Nodes, NEW w \in Workers, SaveFails(n, w) PROVE G
  BY <1>27, ExecTypes DEF SaveFails, Fault
<1>28. ASSUME NEW n \in Nodes, NEW w \in Workers, Abandon(n, w) PROVE G
  BY <1>28, ExecTypes DEF Abandon, Fault
<1>29. ASSUME NEW n \in Nodes, NEW w \in Workers, AbandonSaved(n, w) PROVE G
  BY <1>29, ExecTypes DEF AbandonSaved, Fault
<1>30. ASSUME NEW n \in Nodes, NEW w \in Workers, Requeue(n, w) PROVE G
  BY <1>30 DEF Requeue
<1>31. ASSUME NEW n \in Nodes, NEW w \in Workers, GiveUp(n, w) PROVE G
  BY <1>31, ExecTypes DEF GiveUp
<1>32. CASE UNCHANGED vars
  BY <1>32 DEF vars
<1>33. QED
    BY <1>1, <1>2, <1>3, <1>4, <1>5, <1>6, <1>7, <1>8, <1>9, <1>10, <1>11, <1>12, <1>13,
     <1>14, <1>15, <1>16, <1>17, <1>18, <1>19, <1>20, <1>21, <1>22, <1>23, <1>24, <1>25,
     <1>26, <1>27, <1>28, <1>29, <1>30, <1>31, <1>32 DEF Next

LEMMA GoodSets ==
  /\ GoodLoops \subseteq Loops /\ GoodExecs \subseteq Execs
  /\ GoodEdits \subseteq [job : OptJob, copy : OptRow]
<1>1. GoodLoops \subseteq Loops /\ GoodExecs \subseteq Execs
  BY DEF GoodLoops, GoodExecs
<1>2. GoodEdits \subseteq [job : OptJob, copy : OptRow]
  BY DEF GoodEdits, NoEdit, OptJob, OptRow
<1>3. QED
  BY <1>1, <1>2

\* Every step preserves the types.
LEMMA TypeStep == ASSUME Typed, [Next]_vars PROVE Typed'
<1>1. /\ loop' \in [Nodes -> Loops]
      /\ exec' \in [Nodes -> [Workers -> Execs]]
      /\ edit' \in [job : OptJob, copy : OptRow]
  BY LoopStep, ExecStep, EditStep, GoodSets
<1>2. /\ loop' \in [Nodes -> GoodLoops]
      /\ exec' \in [Nodes -> [Workers -> GoodExecs]]
      /\ edit' \in GoodEdits
      /\ row' \in [Jobs -> OptRow]
      /\ queue' \in [Nodes -> Seq(Jobs)]
      /\ lease' \in [Keys -> Leases \cup {NoLease}]
      /\ faults' \in Nat
      /\ known' \subseteq Jobs /\ disturbed' \subseteq Jobs /\ stranded' \subseteq Jobs
      /\ succeeded' \subseteq Jobs /\ again' \subseteq Jobs
  BY LoopStep, ExecStep, EditStep, RowStep, QueueStep, LeaseStep, HistoryStep
<1>3. TypeOK'
  BY <1>1, <1>2 DEF TypeOK
<1>4. QED
  BY <1>2, <1>3 DEF Typed

LEMMA TypeInit == Init => Typed
<1>1. \A pc \in {"down"} : At(pc) \in GoodLoops
  BY AtTypes
<1>2. Free \in GoodExecs
  BY ExecBecomes
<1>3. ASSUME Init PROVE Typed
  <2>1. loop \in [Nodes -> GoodLoops] /\ exec \in [Nodes -> [Workers -> GoodExecs]]
    BY <1>1, <1>2, <1>3 DEF Init
  <2>2. edit \in GoodEdits
    BY <1>3 DEF Init, GoodEdits
  <2>3. QED
    BY <1>3, <2>1, <2>2, GoodSets DEF Init, Typed, TypeOK, OptRow
<1>4. QED
  BY <1>3

\* Every variable keeps its type, and the program counters fit the other fields.
THEOREM TypesHold == Spec => []Typed
<1>1. Typed /\ [Next]_vars => Typed'
  BY TypeStep
<1>2. QED
  BY TypeInit, <1>1, PTL DEF Spec

\* Every variable keeps its type.
THEOREM TypeCorrect == Spec => []TypeOK
<1>1. Typed => TypeOK
  BY DEF Typed
<1>2. QED
  BY TypesHold, <1>1, PTL

-----------------------------------------------------------------------------
(* The lease.                                                               *)

Others(n) == \A m \in Nodes \ {n} : loop'[m] = loop[m]
Same(n) == loop'[n].held = loop[n].held /\ loop'[n].key = loop[n].key

(* What each action does to the loop of its node.                           *)

LEMMA CrashEffect ==
  ASSUME Typed, NEW n \in Nodes, Crash(n)
  PROVE  Others(n) /\ loop'[n] = At("down")
<1>1. loop \in [Nodes -> Loops] /\ loop[n] \in GoodLoops
  BY DEF Typed, TypeOK
<1>2. QED
  BY <1>1 DEF Crash, Others

LEMMA ReleaseEffect ==
  ASSUME Typed, NEW n \in Nodes, Release(n)
  PROVE  Others(n) /\ loop'[n] = At("idle")
<1>1. loop \in [Nodes -> Loops] /\ loop[n] \in GoodLoops
  BY DEF Typed, TypeOK
<1>2. QED
  BY <1>1 DEF Release, Others

LEMMA ListUnfinishedEffect ==
  ASSUME Typed, NEW n \in Nodes, ListUnfinished(n)
  PROVE  /\ Others(n) /\ Same(n) /\ loop'[n].job = NoJob
         /\ loop'[n].todo = {j \in Jobs : Running(j)}
         /\ \A j \in Jobs : loop'[n].copy[j] \in {row[j], NoRow}
<1>1. loop \in [Nodes -> Loops] /\ loop[n] \in GoodLoops
  BY DEF Typed, TypeOK
<1>2. loop[n].job = NoJob
  BY <1>1, LoopTypes DEF ListUnfinished
<1>3. QED
  BY <1>1, <1>2 DEF ListUnfinished, Loops, Others, Same

LEMMA ListPendingEffect ==
  ASSUME Typed, NEW n \in Nodes, ListPending(n)
  PROVE  /\ Others(n) /\ Same(n) /\ loop'[n].job = NoJob
         /\ loop'[n].copy = loop[n].copy
         /\ loop'[n].todo = {j \in Jobs : row[j] # NoRow /\ row[j].status = "pending" /\ row[j].due}
<1>1. loop \in [Nodes -> Loops] /\ loop[n] \in GoodLoops
  BY DEF Typed, TypeOK
<1>2. loop[n].job = NoJob
  BY <1>1, LoopTypes DEF ListPending
<1>3. QED
  BY <1>1, <1>2 DEF ListPending, Loops, Others, Same

LEMMA MarkEffect ==
  ASSUME Typed, NEW n \in Nodes, Mark(n) \/ MarkFails(n)
  PROVE  /\ Others(n) /\ Same(n) /\ loop'[n].job = NoJob
         /\ loop'[n].todo = loop[n].todo /\ loop'[n].copy = loop[n].copy
<1>1. loop \in [Nodes -> Loops] /\ loop[n] \in GoodLoops
  BY DEF Typed, TypeOK
<1>2. QED
  BY <1>1 DEF Mark, MarkFails, Loops, Others, Same

LEMMA SubmitEffect ==
  ASSUME Typed, NEW n \in Nodes, NEW j \in Jobs, Submit(n, j)
  PROVE  /\ Others(n) /\ Same(n) /\ loop'[n].job = j
         /\ loop'[n].todo = loop[n].todo \ {j} /\ loop'[n].copy = loop[n].copy
<1>1. loop \in [Nodes -> Loops] /\ loop[n] \in GoodLoops
  BY DEF Typed, TypeOK
<1>2. QED
  BY <1>1 DEF Submit, Loops, Others, Same

LEMMA SubmitFullEffect ==
  ASSUME Typed, NEW n \in Nodes, NEW j \in Jobs, SubmitFull(n, j)
  PROVE  /\ Others(n) /\ Same(n) /\ loop'[n].job = loop[n].job
         /\ loop'[n].todo = loop[n].todo \ {j} /\ loop'[n].copy = loop[n].copy
<1>1. loop \in [Nodes -> Loops] /\ loop[n] \in GoodLoops
  BY DEF Typed, TypeOK
<1>2. QED
  BY <1>1 DEF SubmitFull, Loops, Others, Same

LEMMA ResetEffect ==
  ASSUME Typed, NEW n \in Nodes, NEW j \in Jobs, Reset(n, j)
  PROVE  /\ Others(n) /\ Same(n) /\ loop'[n].job = loop[n].job
         /\ loop'[n].todo = loop[n].todo \ {j}
         /\ loop'[n].copy = [loop[n].copy EXCEPT ![j] = [@ EXCEPT !.status = "pending"]]
<1>1. loop \in [Nodes -> Loops] /\ loop[n] \in GoodLoops
  BY DEF Typed, TypeOK
<1>2. QED
  BY <1>1 DEF Reset, Loops, Others, Same

LEMMA CopyEffect ==
  ASSUME Typed, NEW n \in Nodes, NEW j \in Jobs, Defer(n, j) \/ LeaveAlone(n, j)
  PROVE  /\ Others(n) /\ Same(n) /\ loop'[n].job = loop[n].job
         /\ loop'[n].todo = loop[n].todo
         /\ loop'[n].copy = [loop[n].copy EXCEPT ![j] = NoRow]
<1>1. loop \in [Nodes -> Loops] /\ loop[n] \in GoodLoops
  BY DEF Typed, TypeOK
<1>2. loop' = [loop EXCEPT ![n].copy[j] = NoRow]
  BY DEF Defer, LeaveAlone
<1>3. QED
  BY <1>1, <1>2 DEF Loops, Others, Same

\* A lease is not the absence of one.
LEMMA LeaseFields ==
  ASSUME NEW n \in Nodes
  PROVE  /\ [node |-> n, live |-> TRUE] # NoLease
         /\ [node |-> n, live |-> TRUE].node = n /\ [node |-> n, live |-> TRUE].live
<1>1. [node |-> n, live |-> TRUE] \in Leases
  BY DEF Leases
<1>2. QED
  BY <1>1

\* A loop that holds the lease owns its row: the steps of the others leave it alone.
LEMMA LeaseInduction ==
  ASSUME Typed, LeaseHeld, [Next]_vars PROVE LeaseHeld'
<1> USE DEF LeaseHeld, Typed
<1> lease \in [Keys -> Leases \cup {NoLease}]
  BY DEF TypeOK
<1>1. ASSUME NEW k \in Keys, Lapse(k) PROVE LeaseHeld'
  BY <1>1, LoopTypes DEF Lapse
<1>2. ASSUME NEW n \in Nodes, NEW k \in Keys, Acquire(n, k) PROVE LeaseHeld'
  <2>1. CASE CanAcquire(n, k)
    <3>1. /\ loop' = [loop EXCEPT ![n] = Acquired(k)]
          /\ lease' = [lease EXCEPT ![k] = [node |-> n, live |-> TRUE]]
      BY <2>1, <1>2 DEF Acquire, Acquired
    <3>2. ASSUME NEW m \in Nodes \ {n}, loop[m].held, loop[m].key = k PROVE FALSE
      <4>1. lease[k] = [node |-> m, live |-> TRUE]
        BY <3>2
      <4>2. lease[k] # NoLease /\ lease[k].node = m /\ lease[k].live
        BY <4>1, LeaseFields
      <4>3. QED
        BY <2>1, <4>2 DEF CanAcquire
    <3>3. ASSUME NEW m \in Nodes, loop'[m].held
          PROVE  lease'[loop'[m].key] = [node |-> m, live |-> TRUE]
      <4>1. CASE m = n
        BY <3>1, <4>1, AcquiredTypes
      <4>2. CASE m # n
        <5>1. loop'[m] = loop[m] /\ loop[m].held /\ loop[m].key # k /\ loop[m].key \in Keys
          BY <3>1, <3>2, <3>3, <4>2, LoopTypes
        <5>2. QED
          BY <3>1, <5>1
      <4>3. QED
        BY <4>1, <4>2
    <3>4. QED
      BY <3>3
  <2>2. CASE ~CanAcquire(n, k)
    BY <1>2, <2>2, AtTypes DEF Acquire
  <2>3. QED
    BY <2>1, <2>2
<1>3. ASSUME NEW n \in Nodes, Release(n) PROVE LeaseHeld'
  <2>1. loop' = [loop EXCEPT ![n] = At("idle")] /\ ~At("idle").held
    BY <1>3, AtTypes DEF Release
  <2>2. ASSUME NEW m \in Nodes, m # n, loop[m].held PROVE lease'[loop[m].key] = lease[loop[m].key]
    <3>1. lease[loop[m].key] = [node |-> m, live |-> TRUE] /\ loop[m].key \in Keys
      BY <2>2, LoopTypes
    <3>2. lease[loop[m].key].node # n
      BY <2>2, <3>1
    <3>3. QED
      BY <1>3, <3>1, <3>2, LoopTypes DEF Release
  <2>3. QED
    BY <2>1, <2>2
<1>4. ASSUME NEW n \in Nodes, NEW j \in Jobs,
             \/ Reset(n, j) \/ Defer(n, j) \/ LeaveAlone(n, j) \/ Submit(n, j) \/ SubmitFull(n, j)
      PROVE  LeaseHeld'
  <2>1. Others(n) /\ Same(n) /\ UNCHANGED lease
    BY <1>4, ResetEffect, CopyEffect, SubmitEffect, SubmitFullEffect, Frames
  <2>2. QED
    BY <2>1 DEF Others, Same
<1>5. ASSUME NEW n \in Nodes,
             \/ Crash(n) \/ ListUnfinished(n) \/ ListPending(n) \/ Mark(n) \/ MarkFails(n)
      PROVE  LeaseHeld'
  <2>1. Others(n) /\ (loop'[n].held => Same(n)) /\ UNCHANGED lease
    BY <1>5, CrashEffect, ListUnfinishedEffect, ListPendingEffect, MarkEffect, Frames, AtTypes
  <2>2. QED
    BY <2>1 DEF Others, Same
<1>6. ASSUME NEW n \in Nodes, Start(n) \/ Trigger(n) PROVE LeaseHeld'
  BY <1>2, <1>6 DEF Start, Trigger, Keys
<1>7. CASE UNCHANGED <<loop, lease>>
  BY <1>7
<1>8. QED
  BY LoopWriters, LeaseWriters, <1>1, <1>3, <1>4, <1>5, <1>6, <1>7

\* A node that thinks it holds a lease owns its row in lock_records, unless the lease ran
\* out under it: Acquire takes over none but an expired row, Release deletes none but its
\* own, and a restart forgets what was held.
THEOREM LeaseExclusive == Spec => []LeaseHeld
<1>1. Init => LeaseHeld
  BY AtTypes DEF Init, LeaseHeld
<1>2. Typed /\ LeaseHeld /\ [Next]_vars => LeaseHeld'
  BY LeaseInduction
<1>3. QED
  BY TypesHold, <1>1, <1>2, PTL DEF Spec

-----------------------------------------------------------------------------
(* The tasks of a job.                                                      *)

OneTask(j) == \A t, u \in Tasks(j) : t = u
TaskOn(n, j) == Queued(n, j) # {} \/ Executed(n, j) # {}

\* Job j has no task more, on no node: a task may have moved from a queue to a worker.
NoNew(j) ==
  /\ \A n \in Nodes : TaskOn(n, j)' => TaskOn(n, j)
  /\ OneTask(j) => OneTask(j)'

TaskFacts ==
  \A j \in Jobs :
    /\ \A n \in Nodes : \A i \in Queued(n, j) : <<n, "queued", i>> \in Tasks(j)
    /\ \A n \in Nodes : \A w \in Executed(n, j) : <<n, "executed", w>> \in Tasks(j)
    /\ \A t \in Tasks(j) : \E n \in Nodes :
         \/ \E i \in Queued(n, j) : t = <<n, "queued", i>>
         \/ \E w \in Executed(n, j) : t = <<n, "executed", w>>
    /\ Tasks(j) # {} <=> \E n \in Nodes : TaskOn(n, j)

\* A job has one task: one position in one queue, or one worker.
Single(j) ==
  \A n, m \in Nodes :
    /\ \A i \in Queued(n, j), k \in Queued(m, j) : n = m /\ i = k
    /\ \A w \in Executed(n, j), v \in Executed(m, j) : n = m /\ w = v
    /\ Queued(n, j) = {} \/ Executed(m, j) = {}

LEMMA TaskIs == TaskFacts
<1>1. SUFFICES ASSUME NEW j \in Jobs
      PROVE /\ \A n \in Nodes : \A i \in Queued(n, j) : <<n, "queued", i>> \in Tasks(j)
            /\ \A n \in Nodes : \A w \in Executed(n, j) : <<n, "executed", w>> \in Tasks(j)
            /\ \A t \in Tasks(j) : \E n \in Nodes :
                 \/ \E i \in Queued(n, j) : t = <<n, "queued", i>>
                 \/ \E w \in Executed(n, j) : t = <<n, "executed", w>>
            /\ Tasks(j) # {} <=> \E n \in Nodes : TaskOn(n, j)
  BY DEF TaskFacts
<1>2. /\ \A n \in Nodes : \A i \in Queued(n, j) : <<n, "queued", i>> \in Tasks(j)
      /\ \A n \in Nodes : \A w \in Executed(n, j) : <<n, "executed", w>> \in Tasks(j)
      /\ \A t \in Tasks(j) : \E n \in Nodes :
           \/ \E i \in Queued(n, j) : t = <<n, "queued", i>>
           \/ \E w \in Executed(n, j) : t = <<n, "executed", w>>
  BY DEF Tasks
<1>3. QED
  BY <1>2 DEF TaskOn

LEMMA OneTaskIs == \A j \in Jobs : OneTask(j) <=> Single(j)
<1>1. ASSUME NEW j \in Jobs, OneTask(j), NEW n \in Nodes, NEW m \in Nodes
      PROVE  /\ \A i \in Queued(n, j), k \in Queued(m, j) : n = m /\ i = k
             /\ \A w \in Executed(n, j), v \in Executed(m, j) : n = m /\ w = v
             /\ Queued(n, j) = {} \/ Executed(m, j) = {}
  <2>1. /\ \A o \in Nodes : \A i \in Queued(o, j) : <<o, "queued", i>> \in Tasks(j)
        /\ \A o \in Nodes : \A w \in Executed(o, j) : <<o, "executed", w>> \in Tasks(j)
    BY TaskIs DEF TaskFacts
  <2>2. ASSUME NEW i \in Queued(n, j), NEW k \in Queued(m, j) PROVE n = m /\ i = k
    <3>1. <<n, "queued", i>> = <<m, "queued", k>>
      BY <1>1, <2>1 DEF OneTask
    <3>2. QED
      BY <3>1
  <2>3. ASSUME NEW w \in Executed(n, j), NEW v \in Executed(m, j) PROVE n = m /\ w = v
    <3>1. <<n, "executed", w>> = <<m, "executed", v>>
      BY <1>1, <2>1 DEF OneTask
    <3>2. QED
      BY <3>1
  <2>4. ASSUME NEW i \in Queued(n, j), NEW w \in Executed(m, j) PROVE FALSE
    <3>1. <<n, "queued", i>> = <<m, "executed", w>>
      BY <1>1, <2>1 DEF OneTask
    <3>2. QED
      BY <3>1
  <2>5. QED
    BY <2>2, <2>3, <2>4
<1>2. ASSUME NEW j \in Jobs, NEW t \in Tasks(j), NEW u \in Tasks(j), Single(j)
      PROVE  t = u
  BY <1>2, TaskIs DEF TaskFacts, Single
<1>3. QED
  BY <1>1, <1>2 DEF OneTask, Single

\* The same after a step.
LEMMA TaskIsNext == TaskFacts'
BY TaskIs, PTL

LEMMA OneTaskIsNext == \A j \in Jobs : OneTask(j)' <=> Single(j)'
<1>1. (\A j \in Jobs : OneTask(j) <=> Single(j))'
  BY OneTaskIs, PTL
<1>2. QED
  BY <1>1

LEMMA Smaller ==
  ASSUME NEW j \in Jobs,
         \A n \in Nodes : Queued(n, j)' \subseteq Queued(n, j) /\ Executed(n, j)' \subseteq Executed(n, j)
  PROVE  NoNew(j)
<1>1. Tasks(j)' \subseteq Tasks(j)
  BY DEF Tasks
<1>2. OneTask(j) => OneTask(j)'
  BY <1>1 DEF OneTask
<1>3. QED
  BY <1>2 DEF NoNew, TaskOn

\* A worker becomes free: one task less.
LEMMA FreedTasks ==
  ASSUME Typed, NEW n \in Nodes, NEW w \in Workers, NEW j \in Jobs,
         exec' = [exec EXCEPT ![n][w] = Free], UNCHANGED queue
  PROVE  /\ NoNew(j)
         /\ exec[n][w].job # j => \A m \in Nodes : TaskOn(m, j)' = TaskOn(m, j)
         /\ OneTask(j) /\ exec[n][w].job = j => \A m \in Nodes : ~TaskOn(m, j)'
<1> exec \in [Nodes -> [Workers -> GoodExecs]] /\ Free.job = NoJob
  BY ExecBecomes DEF Typed
<1>1. \A m \in Nodes : Queued(m, j)' = Queued(m, j)
  BY DEF Queued
<1>2. \A m \in Nodes : Executed(m, j)' = Executed(m, j) \ (IF m = n THEN {w} ELSE {})
  BY DEF Executed
<1>3. NoNew(j)
  BY <1>1, <1>2, Smaller
<1>4. exec[n][w].job # j => \A m \in Nodes : Executed(m, j)' = Executed(m, j)
  BY <1>2 DEF Executed
<1>5. ASSUME OneTask(j), exec[n][w].job = j PROVE \A m \in Nodes : ~TaskOn(m, j)'
  <2>1. w \in Executed(n, j)
    BY <1>5 DEF Executed
  <2>2. \A m \in Nodes : Queued(m, j) = {} /\ \A v \in Executed(m, j) : m = n /\ v = w
    BY <1>5, <2>1, OneTaskIs DEF Single
  <2>3. QED
    BY <1>1, <1>2, <2>2 DEF TaskOn
<1>6. QED
  BY <1>1, <1>3, <1>4, <1>5 DEF TaskOn

\* No worker has another job: the tasks are as before.
LEMMA SameTasks ==
  ASSUME NEW j \in Jobs, UNCHANGED queue, \A n \in Nodes, w \in Workers : exec'[n][w].job = exec[n][w].job
  PROVE  /\ Tasks(j)' = Tasks(j) /\ NoNew(j)
         /\ \A n \in Nodes : TaskOn(n, j)' = TaskOn(n, j)
<1>1. \A n \in Nodes : Queued(n, j)' = Queued(n, j) /\ Executed(n, j)' = Executed(n, j)
  BY DEF Queued, Executed
<1>2. QED
  BY <1>1, Smaller DEF Tasks, TaskOn

\* Dequeue moves the head of the queue to a worker.
LEMMA MovedTask ==
  ASSUME Typed, NEW n \in Nodes, NEW w \in Workers, Dequeue(n, w), NEW j \in Jobs
  PROVE  NoNew(j) /\ \A m \in Nodes : TaskOn(m, j) => TaskOn(m, j)'
<1> DEFINE q == queue[n]
<1> exec \in [Nodes -> [Workers -> GoodExecs]] /\ queue \in [Nodes -> Seq(Jobs)]
  BY DEF Typed, TypeOK
<1>1. /\ q \in Seq(Jobs) /\ q # <<>> /\ Len(q) \in Nat \ {0} /\ DOMAIN q = 1..Len(q)
      /\ Head(q) = q[1] /\ DOMAIN Tail(q) = 1..(Len(q) - 1)
      /\ \A i \in 1..(Len(q) - 1) : Tail(q)[i] = q[i + 1]
  BY DEF Dequeue
<1>2. \A m \in Nodes \ {n} : Queued(m, j)' = Queued(m, j) /\ Executed(m, j)' = Executed(m, j)
  BY DEF Dequeue, Queued, Executed
<1>3. queue'[n] = Tail(q)
  BY DEF Dequeue
<1>4. \A i \in Queued(n, j)' : i \in 1..(Len(q) - 1) /\ i + 1 \in Queued(n, j)
  BY <1>1, <1>3 DEF Queued
<1>5. \A i \in Queued(n, j) : i = 1 \/ i - 1 \in Queued(n, j)'
  BY <1>1, <1>3 DEF Queued
<1>6. exec[n][w].job = NoJob
  BY ExecTypes DEF Dequeue
<1>7. Executed(n, j)' = Executed(n, j) \cup (IF q[1] = j THEN {w} ELSE {})
  <2>1. exec' = [exec EXCEPT ![n][w] = [Free EXCEPT !.stage = "loading", !.job = q[1]]]
    BY <1>1 DEF Dequeue
  <2>2. [Free EXCEPT !.stage = "loading", !.job = q[1]].job = q[1]
    BY DEF Free
  <2>3. exec'[n][w].job = q[1] /\ \A v \in Workers \ {w} : exec'[n][v] = exec[n][v]
    BY <2>1, <2>2
  <2>4. QED
    BY <1>6, <2>3 DEF Executed
<1>8. q[1] = j <=> 1 \in Queued(n, j)
  BY <1>1 DEF Queued
<1>9. \A m \in Nodes : TaskOn(m, j)' <=> TaskOn(m, j)
  <2>1. ASSUME TaskOn(n, j)' PROVE TaskOn(n, j)
    BY <1>4, <1>7, <1>8, <2>1 DEF TaskOn
  <2>2. ASSUME TaskOn(n, j) PROVE TaskOn(n, j)'
    BY <1>5, <1>7, <1>8, <2>2 DEF TaskOn
  <2>3. QED
    BY <1>2, <2>1, <2>2 DEF TaskOn
<1>10. ASSUME OneTask(j) PROVE OneTask(j)'
  <2>1. Single(j)
    BY <1>10, OneTaskIs
  <2>2. CASE 1 \in Queued(n, j)
    <3>1. Queued(n, j)' = {} /\ Executed(n, j)' = {w}
      BY <1>4, <1>7, <1>8, <2>1, <2>2 DEF Single
    <3>2. \A m \in Nodes \ {n} : Queued(m, j)' = {} /\ Executed(m, j)' = {}
      BY <1>2, <2>1, <2>2 DEF Single
    <3>3. /\ \A m \in Nodes : Queued(m, j)' = {}
          /\ \A m \in Nodes : \A v \in Executed(m, j)' : m = n /\ v = w
      BY <3>1, <3>2
    <3>4. Single(j)'
      BY <3>3 DEF Single
    <3>5. QED
      BY <3>4, OneTaskIsNext
  <2>3. CASE 1 \notin Queued(n, j)
    <3>1. \A m \in Nodes : Executed(m, j)' = Executed(m, j)
      BY <1>2, <1>7, <1>8, <2>3
    <3>2. \A i \in Queued(n, j)' : i \in Nat /\ i + 1 \in Queued(n, j)
      BY <1>1, <1>4
    <3>3. Single(j)'
      <4>1. ASSUME NEW m \in Nodes, NEW o \in Nodes, NEW i \in Queued(m, j)', NEW k \in Queued(o, j)'
            PROVE  m = o /\ i = k
        <5>1. \A p \in Nodes : \A h \in Queued(p, j)' :
                IF p = n THEN h \in Nat /\ h + 1 \in Queued(p, j) ELSE h \in Queued(p, j)
          BY <1>2, <3>2
        <5>2. CASE m = n /\ o = n
          <6>1. i \in Nat /\ k \in Nat /\ i + 1 \in Queued(n, j) /\ k + 1 \in Queued(n, j)
            BY <5>1, <5>2
          <6>2. i + 1 = k + 1
            BY <6>1, <2>1 DEF Single
          <6>3. QED
            BY <5>2, <6>1, <6>2
        <5>3. CASE m # n \/ o # n
          BY <5>1, <5>3, <2>1 DEF Single
        <5>4. QED
          BY <5>2, <5>3
      <4>2. ASSUME NEW m \in Nodes, NEW o \in Nodes, NEW i \in Queued(m, j)', NEW v \in Executed(o, j)'
            PROVE  FALSE
        <5>1. v \in Executed(o, j) /\ Queued(m, j) # {}
          BY <1>2, <3>1, <3>2
        <5>2. QED
          BY <2>1, <5>1 DEF Single
      <4>3. \A m, o \in Nodes : \A v \in Executed(m, j)', u \in Executed(o, j)' : m = o /\ v = u
        BY <2>1, <3>1 DEF Single
      <4>4. QED
        BY <4>1, <4>2, <4>3 DEF Single
    <3>4. QED
      BY <3>3, OneTaskIsNext
  <2>4. QED
    BY <2>2, <2>3
<1>11. QED
  BY <1>9, <1>10 DEF NoNew

LEMMA CrashedTasks ==
  ASSUME Typed, NEW n \in Nodes, Crash(n), NEW j \in Jobs
  PROVE  /\ NoNew(j)
         /\ \A m \in Nodes \ {n} : TaskOn(m, j)' = TaskOn(m, j)
         /\ TaskOn(n, j) => j \in disturbed' /\ j \in stranded'
<1> exec \in [Nodes -> [Workers -> GoodExecs]] /\ queue \in [Nodes -> Seq(Jobs)] /\ Free.job = NoJob
  BY ExecBecomes DEF Typed, TypeOK
<1>1. \A m \in Nodes \ {n} : Queued(m, j)' = Queued(m, j) /\ Executed(m, j)' = Executed(m, j)
  BY DEF Crash, Queued, Executed
<1>2. Queued(n, j)' = {} /\ Executed(n, j)' = {}
  BY DEF Crash, Queued, Executed
<1>3. NoNew(j)
  BY <1>1, <1>2, Smaller
<1>4. TaskOn(n, j) => j \in disturbed' /\ j \in stranded'
  BY DEF Crash, TaskOn
<1>5. QED
  BY <1>1, <1>3, <1>4 DEF TaskOn

\* A job is appended to a queue: the tasks of the others stay where they are.
LEMMA AppendedTask ==
  ASSUME Typed, NEW n \in Nodes, NEW h \in Jobs, queue' = [queue EXCEPT ![n] = Append(@, h)]
  PROVE  /\ \A j \in Jobs \ {h} : \A m \in Nodes : Queued(m, j)' = Queued(m, j)
         /\ \A m \in Nodes \ {n} : Queued(m, h)' = Queued(m, h)
         /\ Queued(n, h)' = Queued(n, h) \cup {Len(queue[n]) + 1}
<1> DEFINE q == queue[n]
<1> queue \in [Nodes -> Seq(Jobs)]
  BY DEF Typed, TypeOK
<1>1. \A m \in Nodes \ {n} : \A j \in Jobs : Queued(m, j)' = Queued(m, j)
  BY DEF Queued
<1>2. /\ queue'[n] = Append(q, h) /\ Len(q) \in Nat
      /\ DOMAIN q = 1..Len(q) /\ DOMAIN Append(q, h) = 1..(Len(q) + 1)
      /\ \A i \in 1..Len(q) : Append(q, h)[i] = q[i]
      /\ Append(q, h)[Len(q) + 1] = h
  OBVIOUS
<1>3. \A j \in Jobs : Queued(n, j)' = {i \in 1..(Len(q) + 1) : Append(q, h)[i] = j}
  BY <1>2 DEF Queued
<1>4. \A j \in Jobs : Queued(n, j) = {i \in 1..Len(q) : q[i] = j}
  BY <1>2 DEF Queued
<1>5. \A j \in Jobs \ {h} : Queued(n, j)' = Queued(n, j)
  <2>1. ASSUME NEW j \in Jobs \ {h}, NEW i PROVE i \in Queued(n, j)' <=> i \in Queued(n, j)
    BY <1>2, <1>3, <1>4
  <2>2. QED
    BY <2>1
<1>6. Queued(n, h)' = Queued(n, h) \cup {Len(q) + 1}
  <2>1. ASSUME NEW i PROVE i \in Queued(n, h)' <=> i \in Queued(n, h) \cup {Len(q) + 1}
    BY <1>2, <1>3, <1>4
  <2>2. QED
    BY <2>1
<1>7. QED
  BY <1>1, <1>5, <1>6

LEMMA SubmittedTask ==
  ASSUME Typed, NEW n \in Nodes, NEW h \in Jobs, Submit(n, h)
  PROVE  /\ \A j \in Jobs \ {h} : NoNew(j) /\ \A m \in Nodes : TaskOn(m, j)' = TaskOn(m, j)
         /\ \A m \in Nodes : TaskOn(m, h) => TaskOn(m, h)'
         /\ (\A m \in Nodes : ~TaskOn(m, h)) => OneTask(h)' /\ \A m \in Nodes : TaskOn(m, h)' => m = n
<1>1. /\ \A j \in Jobs \ {h} : \A m \in Nodes : Queued(m, j)' = Queued(m, j)
      /\ \A m \in Nodes \ {n} : Queued(m, h)' = Queued(m, h)
      /\ Queued(n, h)' = Queued(n, h) \cup {Len(queue[n]) + 1}
  BY AppendedTask DEF Submit
<1>2. \A j \in Jobs, m \in Nodes : Executed(m, j)' = Executed(m, j)
  BY DEF Submit, Executed
<1>3. \A j \in Jobs \ {h} : NoNew(j)
  BY <1>1, <1>2, Smaller
<1>4. ASSUME \A m \in Nodes : ~TaskOn(m, h)
      PROVE  OneTask(h)' /\ \A m \in Nodes : TaskOn(m, h)' => m = n
  <2>1. \A m \in Nodes : /\ Executed(m, h)' = {}
                         /\ \A i \in Queued(m, h)' : m = n /\ i = Len(queue[n]) + 1
    BY <1>1, <1>2, <1>4 DEF TaskOn
  <2>2. Single(h)'
    BY <2>1 DEF Single
  <2>3. QED
    BY <2>1, <2>2, OneTaskIsNext DEF TaskOn
<1>5. QED
  BY <1>1, <1>2, <1>3, <1>4 DEF TaskOn

LEMMA RequeuedTask ==
  ASSUME Typed, NEW n \in Nodes, NEW w \in Workers, Requeue(n, w),
         NEW h \in Jobs, exec[n][w].job = h
  PROVE  /\ \A j \in Jobs \ {h} : NoNew(j) /\ \A m \in Nodes : TaskOn(m, j)' = TaskOn(m, j)
         /\ \A m \in Nodes : TaskOn(m, h) => TaskOn(m, h)'
<1>1. exec \in [Nodes -> [Workers -> GoodExecs]] /\ Free.job = NoJob
  BY ExecBecomes DEF Typed
<1>2. queue' = [queue EXCEPT ![n] = Append(@, h)] /\ exec' = [exec EXCEPT ![n][w] = Free]
  BY DEF Requeue
<1>3. /\ \A j \in Jobs \ {h} : \A m \in Nodes : Queued(m, j)' = Queued(m, j)
      /\ \A m \in Nodes \ {n} : Queued(m, h)' = Queued(m, h)
      /\ Queued(n, h)' = Queued(n, h) \cup {Len(queue[n]) + 1}
  BY <1>2, AppendedTask
<1>4. ASSUME NEW j \in Jobs, NEW m \in Nodes, j # h \/ m # n PROVE Executed(m, j)' = Executed(m, j)
  <2>1. \A v \in Workers : exec'[m][v].job = j <=> exec[m][v].job = j
    BY <1>1, <1>2, <1>4
  <2>2. QED
    BY <2>1 DEF Executed
<1>5. \A j \in Jobs \ {h} : NoNew(j)
  BY <1>3, <1>4, Smaller
<1>6. ASSUME NEW m \in Nodes, TaskOn(m, h) PROVE TaskOn(m, h)'
  BY <1>3, <1>4, <1>6 DEF TaskOn
<1>7. \A j \in Jobs \ {h} : \A m \in Nodes : TaskOn(m, j)' = TaskOn(m, j)
  BY <1>3, <1>4 DEF TaskOn
<1>8. QED
  BY <1>5, <1>6, <1>7

\* The steps of a worker that keeps its task.
LoadedOrFailed(n, w) ==
  \/ Load(n, w) /\ row[exec[n][w].job] # NoRow
  \/ FailAndRetry(n, w) \/ FailForGood(n, w) \/ Abandon(n, w) \/ AbandonSaved(n, w)

LEMMA KeptTasks ==
  ASSUME Typed, NEW n \in Nodes, NEW w \in Workers, LoadedOrFailed(n, w), NEW j \in Jobs
  PROVE  NoNew(j) /\ \A m \in Nodes : TaskOn(m, j)' = TaskOn(m, j)
<1>1. exec \in [Nodes -> [Workers -> Execs]]
  BY DEF Typed, TypeOK
<1>2. UNCHANGED queue
  BY Frames DEF LoadedOrFailed
<1>3. \A m \in Nodes, v \in Workers : exec'[m][v].job = exec[m][v].job
  <2>1. CASE Load(n, w) /\ row[exec[n][w].job] # NoRow
    <3>1. PICK e : /\ exec' = [exec EXCEPT ![n][w] = e]
                   /\ e = [exec[n][w] EXCEPT !.stage = "running", !.copy = row[exec[n][w].job]]
      BY <2>1 DEF Load
    <3>2. e.job = exec[n][w].job
      BY <1>1, <3>1 DEF Execs
    <3>3. QED
      BY <1>1, <3>1, <3>2
  <2>2. CASE FailAndRetry(n, w) \/ FailForGood(n, w) \/ Abandon(n, w) \/ AbandonSaved(n, w)
    <3>1. PICK e : e = [exec[n][w] EXCEPT !.stage = "failed", !.copy = NoRow]
      OBVIOUS
    <3>2. exec' = [exec EXCEPT ![n][w] = e]
      BY <1>1, <2>2, <3>1 DEF FailAndRetry, FailForGood, Abandon, AbandonSaved, Failed
    <3>3. e.job = exec[n][w].job
      BY <1>1, <3>1 DEF Execs
    <3>4. QED
      BY <1>1, <3>2, <3>3
  <2>3. QED
    BY <2>1, <2>2 DEF LoadedOrFailed
<1>4. QED
  BY <1>2, <1>3, SameTasks

\* The steps of a worker that drops its task.
Frees(n, w) ==
  \/ Load(n, w) /\ row[exec[n][w].job] = NoRow
  \/ Wait(n, w) \/ Succeed(n, w) \/ SaveFails(n, w) \/ GiveUp(n, w)

LEMMA DroppedTask ==
  ASSUME Typed, NEW n \in Nodes, NEW w \in Workers, Frees(n, w), NEW j \in Jobs
  PROVE  /\ NoNew(j)
         /\ exec[n][w].job # j => \A m \in Nodes : TaskOn(m, j)' = TaskOn(m, j)
         /\ OneTask(j) /\ exec[n][w].job = j => \A m \in Nodes : ~TaskOn(m, j)'
<1>1. UNCHANGED queue
  BY Frames DEF Frees
<1>2. exec' = [exec EXCEPT ![n][w] = Free]
  BY DEF Frees, Load, Wait, Succeed, SaveFails, GiveUp
<1>3. QED
  BY <1>1, <1>2, FreedTasks

LEMMA TaskSteps ==
  ASSUME [Next]_vars
  PROVE  \/ UNCHANGED <<queue, exec>>
         \/ \E n \in Nodes : Crash(n)
         \/ \E n \in Nodes : \E j \in Jobs : Submit(n, j)
         \/ \E n \in Nodes : \E w \in Workers :
              Dequeue(n, w) \/ Requeue(n, w) \/ LoadedOrFailed(n, w) \/ Frees(n, w)
BY Frames DEF Next, vars, LoadedOrFailed, Frees

\* What may be new: the task of a job that is submitted, or requeued.
LEMMA NewTasks ==
  ASSUME Typed, [Next]_vars, NEW j \in Jobs
  PROVE  \/ NoNew(j)
         \/ \E n \in Nodes : Submit(n, j)
         \/ \E n \in Nodes, w \in Workers : Requeue(n, w) /\ exec[n][w].job = j
<1>1. ASSUME NEW n \in Nodes, Crash(n) PROVE NoNew(j)
  BY <1>1, CrashedTasks
<1>2. ASSUME NEW n \in Nodes, NEW h \in Jobs, Submit(n, h), h # j PROVE NoNew(j)
  BY <1>2, SubmittedTask
<1>3. ASSUME NEW n \in Nodes, NEW w \in Workers, Dequeue(n, w) PROVE NoNew(j)
  BY <1>3, MovedTask
<1>4. ASSUME NEW n \in Nodes, NEW w \in Workers, Requeue(n, w), exec[n][w].job # j PROVE NoNew(j)
  <2>1. exec[n][w].job \in Jobs
    BY <1>4, ExecTypes DEF Typed, Requeue
  <2>2. QED
    BY <1>4, <2>1, RequeuedTask
<1>5. ASSUME NEW n \in Nodes, NEW w \in Workers, LoadedOrFailed(n, w) \/ Frees(n, w) PROVE NoNew(j)
  BY <1>5, KeptTasks, DroppedTask
<1>6. CASE UNCHANGED <<queue, exec>>
  BY <1>6, SameTasks
<1>7. QED
  BY TaskSteps, <1>1, <1>2, <1>3, <1>4, <1>5, <1>6

\* What may be lost: the tasks of a node that crashes, and the one of a worker that drops it.
LEMMA LostTasks ==
  ASSUME Typed, [Next]_vars, NEW j \in Jobs, NEW m \in Nodes, TaskOn(m, j), ~TaskOn(m, j)'
  PROVE  \/ Crash(m)
         \/ \E n \in Nodes, w \in Workers : Frees(n, w) /\ exec[n][w].job = j
<1>1. ASSUME NEW n \in Nodes, Crash(n), n # m PROVE FALSE
  BY <1>1, CrashedTasks
<1>2. ASSUME NEW n \in Nodes, NEW h \in Jobs, Submit(n, h) PROVE FALSE
  BY <1>2, SubmittedTask
<1>3. ASSUME NEW n \in Nodes, NEW w \in Workers, Dequeue(n, w) PROVE FALSE
  BY <1>3, MovedTask
<1>4. ASSUME NEW n \in Nodes, NEW w \in Workers, Requeue(n, w) PROVE FALSE
  <2>1. PICK h \in Jobs : h = exec[n][w].job
    BY <1>4, ExecTypes DEF Typed, Requeue
  <2>2. CASE h # j
    BY <1>4, <2>1, <2>2, RequeuedTask
  <2>3. CASE h = j
    BY <1>4, <2>1, <2>3, RequeuedTask
  <2>4. QED
    BY <2>2, <2>3
<1>5. ASSUME NEW n \in Nodes, NEW w \in Workers, LoadedOrFailed(n, w) PROVE FALSE
  BY <1>5, KeptTasks
<1>6. ASSUME NEW n \in Nodes, NEW w \in Workers, Frees(n, w), exec[n][w].job # j PROVE FALSE
  BY <1>6, DroppedTask
<1>7. CASE UNCHANGED <<queue, exec>>
  BY <1>7, SameTasks
<1>8. QED
  BY TaskSteps, <1>1, <1>2, <1>3, <1>4, <1>5, <1>6, <1>7

-----------------------------------------------------------------------------
(* What changes a row, and what changes a loop.                             *)

WrittenByClient(j) ==
  /\ edit # NoEdit /\ edit.job = j /\ j \in disturbed'
  /\ row'[j] # NoRow /\ (row'[j].status = "running" => j \in stranded')

WrittenByRecovery(n, j) ==
  /\ loop[n].copy[j] # NoRow /\ j \in disturbed' /\ row'[j] # NoRow
  /\ row'[j].status = "running" =>
       loop[n].pc = "resetting" /\ loop[n].todo = {} /\ loop[n].copy[j].status = "running"

WrittenByWorker(n, w, j) ==
  /\ Frees(n, w) \/ j \in disturbed'
  /\ exec[n][w].job = j /\ row'[j] # NoRow /\ row'[j].status # "running"

\* A row with another status or due time, and its status.
LEMMA RowFields ==
  ASSUME NEW r \in Rows
  PROVE  /\ \A s \in Statuses : [r EXCEPT !.status = s].status = s
         /\ \A s \in Statuses, d \in BOOLEAN : [r EXCEPT !.status = s, !.due = d].status = s
         /\ \A d \in BOOLEAN : [r EXCEPT !.due = d].status = r.status
         /\ \A o \in Outcomes(r) : o.status \in {"pending", "completed"}
         /\ Waiting(r).status = "waiting"
BY DEF Rows, Outcomes, Waiting, Statuses

LEMMA RowChange ==
  ASSUME Typed, [Next]_vars, NEW j \in Jobs, row'[j] # row[j]
  PROVE  \/ WrittenByClient(j)
         \/ j \notin known /\ j \in known' /\ row'[j] # NoRow /\ row'[j].status = "pending"
         \/ row'[j] = NoRow
         \/ row[j] # NoRow /\ row'[j] # NoRow /\ row'[j].status = row[j].status
         \/ \E n \in Nodes : /\ Mark(n) /\ loop[n].job = j
                             /\ row[j] # NoRow /\ row'[j] # NoRow /\ row'[j].status = "running"
         \/ \E n \in Nodes : WrittenByRecovery(n, j)
         \/ \E n \in Nodes, w \in Workers : WrittenByWorker(n, w, j)
<1> DEFINE G == \/ WrittenByClient(j)
                \/ j \notin known /\ j \in known' /\ row'[j] # NoRow /\ row'[j].status = "pending"
                \/ row'[j] = NoRow
                \/ row[j] # NoRow /\ row'[j] # NoRow /\ row'[j].status = row[j].status
                \/ \E n \in Nodes : /\ Mark(n) /\ loop[n].job = j
                                    /\ row[j] # NoRow /\ row'[j] # NoRow /\ row'[j].status = "running"
                \/ \E n \in Nodes : WrittenByRecovery(n, j)
                \/ \E n \in Nodes, w \in Workers : WrittenByWorker(n, w, j)
<1>1. row \in [Jobs -> OptRow] /\ row' \in [Jobs -> OptRow]
  BY RowStep DEF Typed, TypeOK
<1>2. CASE TriggerJob \/ UpdateJob
  <2>1. PICK r : EditSave(r)
    BY <1>2 DEF TriggerJob, UpdateJob
  <2>2. edit # NoEdit
    BY <1>2 DEF TriggerJob, UpdateJob
  <2>3. edit.job = j /\ row'[j] = r
    BY <1>1, <2>1 DEF EditSave
  <2>4. row'[j] # NoRow
    <3>1. edit.copy \in Rows
      BY <2>2 DEF Typed, GoodEdits
    <3>2. CASE TriggerJob
      <4>1. [edit.copy EXCEPT !.status = "pending", !.due = TRUE] \in Rows
        BY <3>1, RowTypes DEF Statuses
      <4>2. row'[j] = [edit.copy EXCEPT !.status = "pending", !.due = TRUE]
        BY <3>2, <1>1, <2>3 DEF TriggerJob, EditSave
      <4>3. QED
        BY <4>1, <4>2
    <3>3. CASE UpdateJob
      <4>1. PICK due \in {edit.copy.due, FALSE} : EditSave([edit.copy EXCEPT !.due = due])
        BY <3>3 DEF UpdateJob
      <4>2. [edit.copy EXCEPT !.due = due] # NoRow
        BY <3>1, RowTypes, RowFields
      <4>3. QED
        BY <4>1, <4>2, <1>1, <2>3 DEF EditSave
    <3>4. QED
      BY <1>2, <3>2, <3>3
  <2>5. j \in disturbed' /\ (row'[j].status = "running" => j \in stranded')
    BY <2>1, <2>3 DEF EditSave
  <2>6. QED
    BY <2>2, <2>3, <2>4, <2>5 DEF WrittenByClient
<1>3. ASSUME NEW h \in Jobs, Schedule(h) PROVE G
  BY <1>1, <1>3 DEF Schedule
<1>4. ASSUME NEW h \in Jobs, DeleteJob(h) PROVE G
  BY <1>1, <1>4 DEF DeleteJob
<1>5. ASSUME NEW h \in Jobs, BecomeDue(h) PROVE G
  <2>1. h = j /\ row[j] \in Rows /\ row'[j] = [row[j] EXCEPT !.due = TRUE]
    BY <1>1, <1>5 DEF BecomeDue, OptRow
  <2>2. row'[j] # NoRow /\ row'[j].status = row[j].status
    <3>1. PICK r \in Rows : r = row[j]
      BY <2>1
    <3>2. row'[j] = [r EXCEPT !.due = TRUE]
      BY <2>1, <3>1
    <3>3. [r EXCEPT !.due = TRUE] \in Rows /\ [r EXCEPT !.due = TRUE].status = r.status
      BY RowTypes, RowFields
    <3>4. NoRow \notin Rows
      BY RowTypes
    <3>5. QED
      BY <3>1, <3>2, <3>3, <3>4
  <2>3. QED
    BY <1>5, <2>1, <2>2
<1>6. ASSUME NEW n \in Nodes, Mark(n) PROVE G
  <2>1. loop[n].job = j /\ row[j] \in Rows /\ row'[j] = [row[j] EXCEPT !.status = "running"]
    BY <1>1, <1>6 DEF Mark, OptRow
  <2>2. "running" \in Statuses
    BY DEF Statuses
  <2>3. row'[j] \in Rows
    BY <2>1, <2>2, RowTypes
  <2>4. row'[j].status = "running"
    BY <2>1, <2>2, RowFields
  <2>5. QED
    BY <1>6, <2>1, <2>3, <2>4
<1>7. ASSUME NEW n \in Nodes, NEW h \in Jobs, Reset(n, h) \/ Defer(n, h) PROVE G
  <2>1. h = j /\ loop[n].copy[j] \in Rows
    <3>1. h = j
      BY <1>1, <1>7 DEF Reset, Defer
    <3>2. loop[n].copy[j] # NoRow /\ loop[n].copy[j] \in OptRow
      BY <1>7, <3>1, LoopTypes DEF Reset, Defer, Typed
    <3>3. QED
      BY <3>1, <3>2 DEF OptRow
  <2>2. CASE Reset(n, h)
    <3>1. row'[j] = [loop[n].copy[j] EXCEPT !.status = "pending"] /\ j \in disturbed'
      BY <1>1, <2>1, <2>2 DEF Reset
    <3>2. "pending" \in Statuses
      BY DEF Statuses
    <3>3. row'[j] \in Rows
      BY <2>1, <3>1, <3>2, RowTypes
    <3>4. row'[j].status = "pending"
      BY <2>1, <3>1, <3>2, RowFields
    <3>5. QED
      BY <2>1, <3>1, <3>3, <3>4 DEF WrittenByRecovery
  <2>3. CASE Defer(n, h)
    <3>1. row'[j] = [loop[n].copy[j] EXCEPT !.due = FALSE] /\ j \in disturbed'
      BY <1>1, <2>1, <2>3 DEF Defer
    <3>2. row'[j] # NoRow /\ row'[j].status = loop[n].copy[j].status
      <4>1. PICK r \in Rows : r = loop[n].copy[j]
        BY <2>1
      <4>2. [r EXCEPT !.due = FALSE] \in Rows
        BY RowTypes
      <4>3. [r EXCEPT !.due = FALSE].status = r.status
        BY RowFields
      <4>4. row'[j] = [r EXCEPT !.due = FALSE]
        BY <3>1, <4>1
      <4>5. NoRow \notin Rows
        BY RowTypes
      <4>6. QED
        BY <4>1, <4>2, <4>3, <4>4, <4>5
    <3>3. loop[n].pc = "resetting" /\ loop[n].todo = {}
      BY <2>3 DEF Defer
    <3>4. QED
      BY <2>1, <3>1, <3>2, <3>3 DEF WrittenByRecovery
  <2>4. QED
    BY <1>7, <2>2, <2>3
<1>8. ASSUME NEW n \in Nodes, NEW w \in Workers,
             Wait(n, w) \/ Succeed(n, w) \/ FailAndRetry(n, w) \/ AbandonSaved(n, w)
      PROVE  G
  <2>1. exec[n][w].copy \in Rows
    BY <1>8, ExecTypes DEF Typed, Wait, Succeed, FailAndRetry, AbandonSaved
  <2>2. PICK r \in Rows : row' = [row EXCEPT ![exec[n][w].job] = r] /\ r.status # "running"
    <3>1. CASE Wait(n, w)
      <4>1. PICK r : r = Waiting(exec[n][w].copy)
        OBVIOUS
      <4>2. r \in Rows /\ r.status = "waiting"
        BY <2>1, <4>1, RowTypes, RowFields
      <4>3. row' = [row EXCEPT ![exec[n][w].job] = r]
        BY <3>1, <4>1 DEF Wait, Saved
      <4>4. QED
        BY <4>2, <4>3
    <3>2. CASE Succeed(n, w) \/ AbandonSaved(n, w)
      <4>1. PICK r \in Outcomes(exec[n][w].copy) \cup {Waiting(exec[n][w].copy)} : row' = Saved(n, w, r)
        BY <3>2 DEF Succeed, AbandonSaved
      <4>2. r \in Rows
        BY <2>1, <4>1, RowTypes
      <4>3. r.status \in {"pending", "completed", "waiting"}
        BY <2>1, <4>1, RowFields
      <4>4. QED
        BY <4>1, <4>2, <4>3 DEF Saved
    <3>3. CASE FailAndRetry(n, w)
      <4>1. PICK r : r = [exec[n][w].copy EXCEPT !.status = "pending", !.due = FALSE]
        OBVIOUS
      <4>2. r \in Rows /\ r.status = "pending"
        BY <2>1, <4>1, RowTypes, RowFields DEF Statuses
      <4>3. row' = [row EXCEPT ![exec[n][w].job] = r]
        BY <3>3, <4>1 DEF FailAndRetry, Saved
      <4>4. QED
        BY <4>2, <4>3
    <3>4. QED
      BY <1>8, <3>1, <3>2, <3>3
  <2>3. exec[n][w].job = j /\ row'[j] = r
    BY <1>1, <2>2
  <2>4. Frees(n, w) \/ j \in disturbed'
    BY <1>8, <2>3 DEF Frees, FailAndRetry, AbandonSaved
  <2>5. QED
    BY <2>2, <2>3, <2>4 DEF WrittenByWorker
<1>9. QED
  BY RowWriters, <1>2, <1>3, <1>4, <1>5, <1>6, <1>7, <1>8

\* Whether loop n is about to mark j, lists j, or has a copy of j, and whether it holds the
\* lease while it does, changes only as follows.
MarkingChange(n, j) ==
  /\ loop'[n].job = j =>
       Submit(n, j) \/ (loop[n].job = j /\ (loop'[n].held = loop[n].held \/ j \in disturbed'))
  /\ loop[n].job = j /\ loop'[n].job # j => Mark(n) \/ MarkFails(n) \/ Crash(n)

TodoChange(n, j) ==
  j \in loop'[n].todo =>
    \/ j \in loop[n].todo /\ (loop'[n].held => loop[n].held) /\ loop'[n].key = loop[n].key
    \/ loop'[n].key = "recover" /\ row[j] # NoRow
    \/ /\ ListPending(n) /\ Same(n) /\ loop[n].job = NoJob
       /\ row[j] # NoRow /\ row[j].status = "pending"

CopyChange(n, j) == loop'[n].copy[j] # NoRow => loop[n].copy[j] # NoRow \/ row[j] # NoRow

Change(n, j) == MarkingChange(n, j) /\ TodoChange(n, j) /\ CopyChange(n, j)

LEMMA LoopChange ==
  ASSUME Typed, [Next]_vars, NEW n \in Nodes, NEW j \in Jobs
  PROVE  Change(n, j)
<1> USE DEF Change, MarkingChange, TodoChange, CopyChange
<1>0. loop[n] \in GoodLoops /\ loop \in [Nodes -> Loops] /\ loop'[n] \in GoodLoops /\ j # NoJob
  BY LoopStep DEF Typed, TypeOK
<1>1. CASE loop'[n] = loop[n]
  BY <1>1
<1>2. ASSUME NEW k \in Keys, Lapse(k) PROVE Change(n, j)
  <2>1. CASE loop[n].key # k
    BY <1>0, <1>1, <1>2, <2>1 DEF Lapse
  <2>2. CASE loop[n].key = k
    <3>1. loop'[n] = [loop[n] EXCEPT !.held = FALSE]
      BY <1>0, <1>2, <2>2 DEF Lapse
    <3>2. /\ loop'[n].job = loop[n].job /\ loop'[n].todo = loop[n].todo /\ ~loop'[n].held
          /\ loop'[n].key = loop[n].key /\ loop'[n].copy = loop[n].copy
      BY <1>0, <3>1 DEF Loops
    <3>3. loop[n].job = j => j \in disturbed'
      BY <1>0, <1>2, <2>2 DEF Lapse
    <3>4. QED
      BY <3>2, <3>3
  <2>3. QED
    BY <2>1, <2>2
<1>3. ASSUME NEW m \in Nodes, Start(m) \/ Trigger(m) PROVE Change(n, j)
  <2>1. PICK k \in Keys : Acquire(m, k)
    BY <1>3 DEF Start, Trigger, Keys
  <2>2. loop' = [loop EXCEPT ![m] = Acquired(k)] \/ loop' = [loop EXCEPT ![m] = At("idle")]
    BY <2>1, AcquireTypes
  <2>3. CASE m # n
    <3>1. loop'[n] = loop[n]
      BY <1>0, <2>2, <2>3
    <3>2. QED
      BY <1>1, <3>1
  <2>4. CASE m = n
    <3>1. loop[n].job = NoJob
      BY <1>0, <1>3, <2>4, LoopTypes DEF Start, Trigger, Up
    <3>2. loop'[n] \in {Acquired(k), At("idle")}
      BY <1>0, <2>2, <2>4
    <3>3. loop'[n].job = NoJob /\ loop'[n].todo = {} /\ loop'[n].copy[j] = NoRow
      BY <3>2, AcquiredTypes, AtTypes DEF NoCopies
    <3>4. QED
      BY <1>0, <3>1, <3>3
  <2>5. QED
    BY <2>3, <2>4
<1>4. ASSUME NEW m \in Nodes, Crash(m) \/ Release(m) PROVE Change(n, j)
  <2>1. Others(m) /\ loop'[m] \in {At("down"), At("idle")}
    BY <1>4, CrashEffect, ReleaseEffect
  <2>2. CASE m # n
    BY <1>1, <2>1, <2>2 DEF Others
  <2>3. CASE m = n
    <3>1. loop'[n].job = NoJob /\ loop'[n].todo = {} /\ loop'[n].copy[j] = NoRow
      BY <2>1, <2>3, AtTypes DEF NoCopies
    <3>2. Release(m) => loop[n].job = NoJob
      BY <1>0, <2>3, LoopTypes DEF Release, Done
    <3>3. QED
      BY <1>0, <1>4, <2>3, <3>1, <3>2
  <2>4. QED
    BY <2>2, <2>3
<1>5. ASSUME NEW m \in Nodes, ListUnfinished(m) PROVE Change(n, j)
  <2>1. CASE m # n
    BY <1>1, <1>5, <2>1, ListUnfinishedEffect DEF Others
  <2>2. CASE m = n
    <3>1. loop[n].job = NoJob /\ loop[n].key = "recover"
      BY <1>0, <1>5, <2>2, LoopTypes DEF ListUnfinished
    <3>2. /\ loop'[n].job = NoJob /\ loop'[n].key = "recover"
          /\ j \in loop'[n].todo => row[j] # NoRow
          /\ loop'[n].copy[j] \in {row[j], NoRow}
      BY <1>5, <2>2, <3>1, ListUnfinishedEffect DEF Same, Running
    <3>3. QED
      BY <1>0, <3>1, <3>2
  <2>3. QED
    BY <2>1, <2>2
<1>6. ASSUME NEW m \in Nodes, ListPending(m) PROVE Change(n, j)
  <2>1. CASE m # n
    BY <1>1, <1>6, <2>1, ListPendingEffect DEF Others
  <2>2. CASE m = n
    <3>1. loop[n].job = NoJob
      BY <1>0, <1>6, <2>2, LoopTypes DEF ListPending
    <3>2. /\ loop'[n].job = NoJob /\ Same(n) /\ loop'[n].copy = loop[n].copy
          /\ j \in loop'[n].todo => row[j] # NoRow /\ row[j].status = "pending"
      BY <1>6, <2>2, ListPendingEffect
    <3>3. QED
      BY <1>0, <1>6, <2>2, <3>1, <3>2
  <2>3. QED
    BY <2>1, <2>2
<1>7. ASSUME NEW m \in Nodes, Mark(m) \/ MarkFails(m) PROVE Change(n, j)
  <2>1. CASE m # n
    BY <1>1, <1>7, <2>1, MarkEffect DEF Others
  <2>2. CASE m = n
    BY <1>0, <1>7, <2>2, MarkEffect DEF Same
  <2>3. QED
    BY <2>1, <2>2
<1>8. ASSUME NEW m \in Nodes, NEW h \in Jobs, Submit(m, h) PROVE Change(n, j)
  <2>1. CASE m # n
    BY <1>1, <1>8, <2>1, SubmitEffect DEF Others
  <2>2. CASE m = n
    <3>1. loop[n].job = NoJob
      BY <1>0, <1>8, <2>2, LoopTypes DEF Submit
    <3>2. QED
      BY <1>0, <1>8, <2>2, <3>1, SubmitEffect DEF Same
  <2>3. QED
    BY <2>1, <2>2
<1>9. ASSUME NEW m \in Nodes, NEW h \in Jobs,
             Reset(m, h) \/ SubmitFull(m, h) \/ Defer(m, h) \/ LeaveAlone(m, h)
      PROVE  Change(n, j)
  <2>1. /\ Others(m) /\ Same(m) /\ loop'[m].job = loop[m].job /\ loop'[m].todo \subseteq loop[m].todo
        /\ loop'[m].copy[j] # NoRow => loop[m].copy[j] # NoRow
    <3>1. loop[m].copy \in [Jobs -> OptRow]
      BY LoopTypes DEF Typed
    <3>2. CASE Reset(m, h)
      <4>1. loop[m].copy[h] # NoRow
        BY <3>2, LoopTypes DEF Reset, Typed
      <4>2. /\ Others(m) /\ Same(m) /\ loop'[m].job = loop[m].job
            /\ loop'[m].todo = loop[m].todo \ {h}
        BY <3>2, ResetEffect
      <4>3. loop'[m].copy = [loop[m].copy EXCEPT ![h] = [@ EXCEPT !.status = "pending"]]
        BY <3>2, ResetEffect
      <4>4. h # j => loop'[m].copy[j] = loop[m].copy[j]
        BY <3>1, <4>3
      <4>5. QED
        BY <4>1, <4>2, <4>4
    <3>3. CASE SubmitFull(m, h)
      BY <3>3, SubmitFullEffect
    <3>4. CASE Defer(m, h) \/ LeaveAlone(m, h)
      BY <3>1, <3>4, CopyEffect
    <3>5. QED
      BY <1>9, <3>2, <3>3, <3>4
  <2>2. CASE m # n
    BY <1>1, <2>1, <2>2 DEF Others
  <2>3. CASE m = n
    BY <1>0, <2>1, <2>3 DEF Same
  <2>4. QED
    BY <2>2, <2>3
<1>10. CASE UNCHANGED loop
  BY <1>1, <1>10
<1>11. QED
  BY LoopWriters, <1>2, <1>3, <1>4, <1>5, <1>6, <1>7, <1>8, <1>9, <1>10

-----------------------------------------------------------------------------
(* The invariant.  While a job is undisturbed, one loop at most deals with  *)
(* it: the one that holds the lease.                                        *)

\* A job that was not scheduled appears nowhere.
KnownOnly ==
  \A j \in Jobs \ known :
    /\ row[j] = NoRow /\ j \notin succeeded
    /\ edit # NoEdit => edit.job # j
    /\ \A n \in Nodes : /\ ~TaskOn(n, j) /\ loop[n].job # j /\ j \notin loop[n].todo
                        /\ loop[n].copy[j] = NoRow

FailedDisturbed ==
  \A n \in Nodes, w \in Workers : exec[n][w].stage = "failed" => exec[n][w].job \in disturbed

\* The loop that is about to mark j holds the lease, and the task is on its node.
Marking(j) ==
  \A n \in Nodes : loop[n].job = j => loop[n].held /\ \A m \in Nodes : TaskOn(m, j) => m = n

\* Until the mark is made, the row of a job with a task is not running.
Covered(j) ==
  (\E m \in Nodes : TaskOn(m, j)) =>
    row[j] = NoRow \/ row[j].status = "running" \/ \E n \in Nodes : loop[n].job = j

\* What is listed under the lease has no task and is not being marked ...
Listed(j) ==
  \A n \in Nodes : loop[n].held /\ loop[n].key = "trigger" /\ j \in loop[n].todo =>
    \A m \in Nodes : ~TaskOn(m, j) /\ loop[m].job # j

\* ... and what has succeeded is neither.
Settled(j) ==
  j \in succeeded =>
    /\ \A m \in Nodes : ~TaskOn(m, j)
    /\ row[j] # NoRow => row[j].status \in {"completed", "running"}
    /\ \A n \in Nodes : loop[n].held /\ loop[n].key = "trigger" => j \notin loop[n].todo

Alone(j) == OneTask(j) /\ Marking(j) /\ Covered(j) /\ Listed(j) /\ Settled(j)

IInv ==
  /\ Typed /\ LeaseHeld /\ KnownOnly /\ FailedDisturbed
  /\ \A j \in Jobs \ disturbed : Alone(j)
  /\ SucceedsOnce

LEMMA OneHolder ==
  ASSUME LeaseHeld, NEW n \in Nodes, NEW m \in Nodes, loop[n].held, loop[m].held,
         loop[n].key = loop[m].key
  PROVE  n = m
<1>1. [node |-> n, live |-> TRUE] = [node |-> m, live |-> TRUE]
  BY DEF LeaseHeld
<1>2. QED
  BY <1>1

\* A loop that submits an undisturbed job holds the lease, and the job has no task.
LEMMA SubmitFresh ==
  ASSUME IInv, [Next]_vars, NEW n \in Nodes, NEW j \in Jobs, Submit(n, j), j \notin disturbed'
  PROVE  /\ loop[n].held /\ loop[n].key = "trigger" /\ j \in loop[n].todo
         /\ \A m \in Nodes : ~TaskOn(m, j) /\ loop[m].job # j
<1>1. j \notin disturbed
  BY HistoryStep DEF IInv
<1>2. loop[n].held /\ loop[n].key = "trigger" /\ j \in loop[n].todo
  BY LoopTypes DEF Submit, IInv, Typed
<1>3. Listed(j)
  BY <1>1 DEF IInv, Alone
<1>4. QED
  BY <1>2, <1>3 DEF Listed

\* A step gives an undisturbed job a task only by submitting it.
LEMMA TaskStays ==
  ASSUME IInv, [Next]_vars, NEW j \in Jobs, j \notin disturbed'
  PROVE  /\ \A m \in Nodes : TaskOn(m, j)' => TaskOn(m, j) \/ Submit(m, j)
         /\ OneTask(j)'
<1>1. j \notin disturbed /\ OneTask(j) /\ Typed
  BY HistoryStep DEF IInv, Alone
<1>2. CASE NoNew(j)
  BY <1>1, <1>2 DEF NoNew
<1>3. ASSUME NEW n \in Nodes, Submit(n, j)
      PROVE  OneTask(j)' /\ \A m \in Nodes : TaskOn(m, j)' => m = n
  BY <1>1, <1>3, SubmitFresh, SubmittedTask
<1>4. ASSUME NEW n \in Nodes, NEW w \in Workers, Requeue(n, w), exec[n][w].job = j PROVE FALSE
  BY <1>1, <1>4 DEF Requeue, IInv, FailedDisturbed
<1>5. QED
  BY <1>1, <1>2, <1>3, <1>4, NewTasks

LEMMA MarkingStep ==
  ASSUME IInv, [Next]_vars, NEW j \in Jobs, j \notin disturbed' PROVE Marking(j)'
<1>1. j \notin disturbed /\ Marking(j) /\ Typed
  BY HistoryStep DEF IInv, Alone
<1>2. SUFFICES ASSUME NEW n \in Nodes, loop'[n].job = j
               PROVE  loop'[n].held /\ \A m \in Nodes : TaskOn(m, j)' => m = n
  BY DEF Marking
<1>3. CASE Submit(n, j)
  <2>1. loop'[n].held
    BY <1>1, <1>3, SubmitFresh, SubmitEffect DEF Same
  <2>2. \A m \in Nodes : TaskOn(m, j)' => m = n
    BY <1>1, <1>3, SubmitFresh, SubmittedTask
  <2>3. QED
    BY <2>1, <2>2
<1>4. CASE loop[n].job = j /\ loop'[n].held = loop[n].held
  <2>1. ASSUME NEW m \in Nodes, Submit(m, j) PROVE FALSE
    BY <1>4, <2>1, SubmitFresh
  <2>2. QED
    BY <1>1, <1>4, <2>1, TaskStays DEF Marking
<1>5. QED
  BY <1>1, <1>2, <1>3, <1>4, LoopChange DEF Change, MarkingChange

LEMMA CoveredStep ==
  ASSUME IInv, [Next]_vars, NEW j \in Jobs, j \notin disturbed' PROVE Covered(j)'
<1>1. /\ j \notin disturbed /\ Marking(j) /\ Covered(j) /\ OneTask(j) /\ Typed
      /\ row \in [Jobs -> OptRow] /\ \A n \in Nodes : loop[n] \in GoodLoops
  BY HistoryStep DEF IInv, Alone, Typed, TypeOK
<1> DEFINE G == row'[j] = NoRow \/ row'[j].status = "running" \/ \E n \in Nodes : loop'[n].job = j
<1>2. SUFFICES ASSUME NEW m \in Nodes, TaskOn(m, j)' PROVE G
  BY DEF Covered
<1>3. CASE Submit(m, j)
  BY <1>1, <1>3, SubmitEffect
<1>4. ASSUME NEW n \in Nodes, TaskOn(m, j), loop[n].job = j PROVE G
  <2>1. CASE loop'[n].job = j
    BY <2>1
  <2>2. CASE Mark(n)
    <3>1. row' = [row EXCEPT ![j] = IF @ = NoRow THEN @ ELSE [@ EXCEPT !.status = "running"]]
      BY <1>4, <2>2 DEF Mark
    <3>2. row[j] \in Rows => [row[j] EXCEPT !.status = "running"].status = "running"
      BY RowFields DEF Statuses
    <3>3. QED
      BY <1>1, <3>1, <3>2 DEF OptRow
  <2>3. CASE MarkFails(n)
    BY <1>4, <2>3 DEF MarkFails
  <2>4. CASE Crash(n)
    BY <1>1, <1>4, <2>4, CrashedTasks DEF Marking
  <2>5. QED
    BY <1>1, <1>4, <2>1, <2>2, <2>3, <2>4, LoopChange DEF Change, MarkingChange
<1>5. ASSUME TaskOn(m, j), row[j] = NoRow \/ row[j].status = "running" PROVE G
  <2>1. CASE row'[j] = row[j]
    BY <1>5, <2>1
  <2>2. CASE row'[j] # row[j]
    <3>1. j \in known
      BY <1>5 DEF IInv, KnownOnly
    <3>2. ASSUME NEW n \in Nodes, NEW w \in Workers, Frees(n, w), exec[n][w].job = j PROVE FALSE
      BY <1>1, <1>2, <3>2, DroppedTask
    <3>3. QED
      BY <1>1, <1>5, <2>2, <3>1, <3>2, RowChange
      DEF WrittenByClient, WrittenByRecovery, WrittenByWorker
  <2>3. QED
    BY <2>1, <2>2
<1>6. TaskOn(m, j) \/ Submit(m, j)
  BY <1>2, TaskStays
<1>7. QED
  BY <1>1, <1>3, <1>4, <1>5, <1>6 DEF Covered

LEMMA ListedStep ==
  ASSUME IInv, [Next]_vars, NEW j \in Jobs, j \notin disturbed' PROVE Listed(j)'
<1>1. /\ j \notin disturbed /\ Marking(j) /\ Covered(j) /\ Listed(j) /\ Typed /\ LeaseHeld
      /\ j # NoJob /\ \A n \in Nodes : loop[n] \in GoodLoops
  BY HistoryStep DEF IInv, Alone, Typed, TypeOK
<1>2. SUFFICES ASSUME NEW n \in Nodes, loop'[n].held, loop'[n].key = "trigger", j \in loop'[n].todo,
                      NEW m \in Nodes
               PROVE  ~TaskOn(m, j)' /\ loop'[m].job # j
  BY DEF Listed
<1>3. ASSUME Submit(m, j), loop[n].held, loop[n].key = "trigger" PROVE FALSE
  <2>1. m = n
    BY <1>1, <1>3, SubmitFresh, OneHolder
  <2>2. QED
    BY <1>1, <1>2, <1>3, <2>1, SubmitEffect
<1>4. ASSUME ~Submit(m, j), ~TaskOn(m, j), loop[m].job # j PROVE ~TaskOn(m, j)' /\ loop'[m].job # j
  BY <1>1, <1>4, TaskStays, LoopChange DEF Change, MarkingChange
<1>5. CASE j \in loop[n].todo /\ loop[n].held /\ loop[n].key = "trigger"
  BY <1>1, <1>3, <1>4, <1>5 DEF Listed
<1>6. CASE /\ ListPending(n) /\ loop[n].held /\ loop[n].key = "trigger" /\ loop[n].job = NoJob
           /\ row[j] # NoRow /\ row[j].status = "pending"
  <2>1. ASSUME NEW o \in Nodes, loop[o].job = j PROVE FALSE
    <3>1. loop[o].held /\ loop[o].key = "trigger"
      BY <1>1, <2>1, LoopTypes DEF Marking
    <3>2. o = n
      BY <1>1, <1>6, <3>1, OneHolder
    <3>3. QED
      BY <1>1, <1>6, <2>1, <3>2
  <2>2. ~TaskOn(m, j)
    BY <1>1, <1>6, <2>1 DEF Covered
  <2>3. QED
    BY <1>3, <1>4, <1>6, <2>1, <2>2
<1>7. QED
  BY <1>1, <1>2, <1>5, <1>6, LoopChange DEF Change, TodoChange, Same

LEMMA SuccessWriters ==
  ASSUME [Next]_vars
  PROVE  \/ UNCHANGED <<succeeded, again>>
         \/ \E n \in Nodes : \E w \in Workers : Succeed(n, w)
<1>1. TriggerJob \/ UpdateJob => UNCHANGED <<succeeded, again>>
  BY DEF TriggerJob, UpdateJob, EditSave
<1>2. \A j \in Jobs : Schedule(j) \/ DeleteJob(j) \/ EditRead(j) \/ BecomeDue(j) => UNCHANGED <<succeeded, again>>
  BY DEF Schedule, DeleteJob, EditRead, BecomeDue
<1>3. \A k \in Keys : Lapse(k) => UNCHANGED <<succeeded, again>>
  BY DEF Lapse
<1>4. \A n \in Nodes :
        (\/ Start(n) \/ Crash(n) \/ Trigger(n) \/ Release(n) \/ ListUnfinished(n) \/ ListPending(n)
         \/ Mark(n) \/ MarkFails(n)) => UNCHANGED <<succeeded, again>>
  BY DEF Start, Crash, Trigger, Release, ListUnfinished, ListPending, Mark, MarkFails
<1>5. \A n \in Nodes, j \in Jobs :
        (\/ Reset(n, j) \/ Defer(n, j) \/ LeaveAlone(n, j) \/ Submit(n, j)
         \/ SubmitFull(n, j)) => UNCHANGED <<succeeded, again>>
  BY DEF Reset, Defer, LeaveAlone, Submit, SubmitFull
<1>6. \A n \in Nodes, w \in Workers :
        (\/ Dequeue(n, w) \/ Load(n, w) \/ Wait(n, w) \/ FailAndRetry(n, w) \/ FailForGood(n, w)
         \/ SaveFails(n, w) \/ Abandon(n, w) \/ AbandonSaved(n, w) \/ Requeue(n, w)
         \/ GiveUp(n, w)) => UNCHANGED <<succeeded, again>>
  BY DEF Dequeue, Load, Wait, FailAndRetry, FailForGood, SaveFails, Abandon, AbandonSaved, Requeue, GiveUp
<1>7. QED
  BY <1>1, <1>2, <1>3, <1>4, <1>5, <1>6 DEF Next, vars

\* A worker that succeeds has a task of its job, and leaves the row completed if it is done.
LEMMA SucceedEffect ==
  ASSUME Typed, NEW n \in Nodes, NEW w \in Workers, Succeed(n, w)
  PROVE  \E j \in Jobs :
           /\ exec[n][w].job = j /\ TaskOn(n, j)
           /\ succeeded' = succeeded \/ succeeded' = succeeded \cup {j}
           /\ j \in succeeded' \ succeeded => row'[j] # NoRow /\ row'[j].status = "completed"
           /\ again' = again \cup (succeeded \cap {j})
<1>1. exec[n][w].job \in Jobs /\ exec[n][w].copy \in Rows /\ row \in [Jobs -> OptRow]
  BY ExecTypes DEF Succeed, Typed, TypeOK
<1>2. PICK j \in Jobs : j = exec[n][w].job
  BY <1>1
<1>3. TaskOn(n, j)
  BY <1>2 DEF TaskOn, Executed
<1>4. PICK r \in Outcomes(exec[n][w].copy) :
        /\ row' = [row EXCEPT ![j] = r]
        /\ succeeded' = succeeded \cup (IF r.status = "completed" THEN {j} ELSE {})
        /\ again' = again \cup (succeeded \cap {j})
  BY <1>2 DEF Succeed, Saved
<1>5. r \in Rows /\ r # NoRow
  BY <1>1, <1>4, RowTypes
<1>6. row'[j] = r
  BY <1>1, <1>4
<1>7. QED
  BY <1>2, <1>3, <1>4, <1>5, <1>6

LEMMA SettledStep ==
  ASSUME IInv, [Next]_vars, NEW j \in Jobs, j \notin disturbed' PROVE Settled(j)'
<1>1. /\ j \notin disturbed /\ OneTask(j) /\ Settled(j) /\ Listed(j) /\ Typed
      /\ j \in succeeded => j \in known
  BY HistoryStep DEF IInv, Alone, KnownOnly
<1>2. SUFFICES ASSUME j \in succeeded'
               PROVE  /\ \A m \in Nodes : ~TaskOn(m, j)'
                      /\ row'[j] # NoRow => row'[j].status \in {"completed", "running"}
                      /\ \A n \in Nodes : loop'[n].held /\ loop'[n].key = "trigger" => j \notin loop'[n].todo
  BY DEF Settled
<1>3. CASE j \in succeeded
  <2>1. ASSUME NEW m \in Nodes PROVE ~TaskOn(m, j)'
    BY <1>1, <1>3, TaskStays, SubmitFresh DEF Settled
  <2>2. ASSUME row'[j] # NoRow, row'[j] # row[j] PROVE row'[j].status \in {"completed", "running"}
    <3>1. ASSUME NEW n \in Nodes, NEW w \in Workers, exec[n][w].job = j PROVE FALSE
      BY <1>1, <1>3, <3>1 DEF Settled, TaskOn, Executed
    <3>2. QED
      BY <1>1, <1>3, <2>2, <3>1, RowChange
      DEF Settled, WrittenByClient, WrittenByRecovery, WrittenByWorker
  <2>3. ASSUME NEW n \in Nodes, loop'[n].held, loop'[n].key = "trigger", j \in loop'[n].todo PROVE FALSE
    BY <1>1, <1>3, <2>3, LoopChange DEF Settled, Change, TodoChange
  <2>4. QED
    BY <1>1, <1>3, <2>1, <2>2, <2>3 DEF Settled
<1>4. CASE j \notin succeeded
  <2>1. PICK n \in Nodes, w \in Workers : Succeed(n, w)
    BY <1>2, <1>4, SuccessWriters
  <2>2. exec[n][w].job = j /\ TaskOn(n, j) /\ row'[j].status = "completed"
    BY <1>1, <1>2, <1>4, <2>1, SucceedEffect
  <2>3. \A m \in Nodes : ~TaskOn(m, j)'
    BY <1>1, <2>1, <2>2, DroppedTask DEF Frees
  <2>4. loop' = loop
    BY <2>1 DEF Succeed
  <2>5. \A o \in Nodes : loop'[o].held /\ loop'[o].key = "trigger" => j \notin loop'[o].todo
    BY <1>1, <2>2, <2>4 DEF Listed
  <2>6. QED
    BY <2>2, <2>3, <2>5
<1>5. QED
  BY <1>3, <1>4

LEMMA SuccessStep == ASSUME IInv, [Next]_vars PROVE SucceedsOnce'
<1>1. CASE UNCHANGED again
  BY <1>1, HistoryStep DEF IInv, SucceedsOnce
<1>2. ASSUME NEW n \in Nodes, NEW w \in Workers, Succeed(n, w) PROVE SucceedsOnce'
  <2>1. PICK j \in Jobs : TaskOn(n, j) /\ again' = again \cup (succeeded \cap {j})
    BY <1>2, SucceedEffect DEF IInv
  <2>2. j \in succeeded => j \in disturbed
    BY <2>1 DEF IInv, Alone, Settled
  <2>3. QED
    BY <2>1, <2>2, HistoryStep DEF IInv, SucceedsOnce
<1>3. QED
  BY <1>1, <1>2, SuccessWriters

LEMMA FailedStep == ASSUME IInv, [Next]_vars PROVE FailedDisturbed'
<1>0. /\ exec \in [Nodes -> [Workers -> Execs]] /\ Typed /\ FailedDisturbed /\ disturbed \subseteq disturbed'
      /\ Free.stage = "free"
  BY HistoryStep, ExecBecomes DEF IInv, Typed, TypeOK
<1>1. SUFFICES ASSUME NEW n \in Nodes, NEW w \in Workers, exec'[n][w].stage = "failed"
               PROVE  exec'[n][w].job \in disturbed'
  BY DEF FailedDisturbed
<1>2. CASE exec'[n][w] = exec[n][w]
  BY <1>0, <1>1, <1>2 DEF FailedDisturbed
<1>3. ASSUME NEW m \in Nodes, Crash(m) PROVE exec'[n][w].job \in disturbed'
  <2>1. exec'[n][w] = exec[n][w] \/ exec'[n][w] = Free
    BY <1>0, <1>3 DEF Crash
  <2>2. QED
    BY <1>0, <1>1, <1>2, <2>1
<1>4. ASSUME NEW m \in Nodes, NEW v \in Workers, NEW e, exec' = [exec EXCEPT ![m][v] = e], e.stage # "failed"
      PROVE  exec'[n][w].job \in disturbed'
  <2>1. exec'[n][w] = exec[n][w] \/ exec'[n][w] = e
    BY <1>0, <1>4
  <2>2. QED
    BY <1>1, <1>2, <1>4, <2>1
<1>5. ASSUME NEW m \in Nodes, NEW v \in Workers, Dequeue(m, v) PROVE exec'[n][w].job \in disturbed'
  <2>1. PICK e : e = [Free EXCEPT !.stage = "loading", !.job = Head(queue[m])]
    OBVIOUS
  <2>2. e.stage = "loading"
    BY <2>1 DEF Free
  <2>3. exec' = [exec EXCEPT ![m][v] = e]
    BY <1>5, <2>1 DEF Dequeue
  <2>4. QED
    BY <1>4, <2>2, <2>3
<1>6. ASSUME NEW m \in Nodes, NEW v \in Workers, Load(m, v), row[exec[m][v].job] # NoRow
      PROVE  exec'[n][w].job \in disturbed'
  <2>1. PICK e : e = [exec[m][v] EXCEPT !.stage = "running", !.copy = row[exec[m][v].job]]
    OBVIOUS
  <2>2. e.stage = "running"
    BY <1>0, <2>1 DEF Execs
  <2>3. exec' = [exec EXCEPT ![m][v] = e]
    BY <1>0, <1>6, <2>1 DEF Load
  <2>4. QED
    BY <1>4, <2>2, <2>3
<1>7. ASSUME NEW m \in Nodes, NEW v \in Workers, Frees(m, v) \/ Requeue(m, v)
      PROVE  exec'[n][w].job \in disturbed'
  <2>1. exec' = [exec EXCEPT ![m][v] = Free]
    BY <1>7 DEF Frees, Load, Wait, Succeed, SaveFails, GiveUp, Requeue
  <2>2. QED
    BY <1>0, <1>4, <2>1
<1>8. ASSUME NEW m \in Nodes, NEW v \in Workers,
             FailAndRetry(m, v) \/ FailForGood(m, v) \/ Abandon(m, v) \/ AbandonSaved(m, v)
      PROVE  exec'[n][w].job \in disturbed'
  <2>1. PICK e : e = [exec[m][v] EXCEPT !.stage = "failed", !.copy = NoRow]
    OBVIOUS
  <2>2. e.job = exec[m][v].job
    BY <1>0, <2>1 DEF Execs
  <2>3. exec' = [exec EXCEPT ![m][v] = e]
    BY <1>0, <1>8, <2>1 DEF FailAndRetry, FailForGood, Abandon, AbandonSaved, Failed
  <2>4. exec[m][v].job \in disturbed'
    BY <1>8 DEF FailAndRetry, FailForGood, Abandon, AbandonSaved
  <2>5. exec'[n][w] = exec[n][w] \/ exec'[n][w] = e
    BY <1>0, <2>3
  <2>6. QED
    BY <1>2, <2>2, <2>4, <2>5
<1>9. QED
  BY <1>2, <1>3, <1>5, <1>6, <1>7, <1>8, ExecWriters DEF Frees

LEMMA KnownStep == ASSUME IInv, [Next]_vars PROVE KnownOnly'
<1>0. Typed /\ KnownOnly /\ known \subseteq known'
  BY HistoryStep DEF IInv
<1>1. SUFFICES ASSUME NEW j \in Jobs, j \notin known'
               PROVE  /\ row'[j] = NoRow /\ j \notin succeeded'
                      /\ edit' # NoEdit => edit'.job # j
                      /\ \A n \in Nodes : /\ ~TaskOn(n, j)' /\ loop'[n].job # j /\ j \notin loop'[n].todo
                                          /\ loop'[n].copy[j] = NoRow
  BY DEF KnownOnly
<1>2. /\ row[j] = NoRow /\ j \notin succeeded /\ j \notin known
      /\ edit # NoEdit => edit.job # j
      /\ \A n \in Nodes : /\ ~TaskOn(n, j) /\ loop[n].job # j /\ j \notin loop[n].todo
                          /\ loop[n].copy[j] = NoRow
  BY <1>0, <1>1 DEF KnownOnly
<1>3. ASSUME NEW n \in Nodes, NEW w \in Workers, exec[n][w].job = j PROVE FALSE
  BY <1>2, <1>3 DEF TaskOn, Executed
<1>4. row'[j] = NoRow
  BY <1>0, <1>1, <1>2, <1>3, RowChange DEF WrittenByClient, WrittenByRecovery, WrittenByWorker
<1>5. j \notin succeeded'
  BY <1>0, <1>2, SuccessWriters, SucceedEffect
<1>6. edit' # NoEdit => edit'.job # j
  <2>1. CASE UNCHANGED edit
    BY <1>2, <2>1
  <2>2. CASE TriggerJob \/ UpdateJob
    BY <2>2 DEF TriggerJob, UpdateJob, EditSave
  <2>3. ASSUME NEW h \in Jobs, EditRead(h) PROVE edit'.job # j
    BY <1>2, <2>3 DEF EditRead
  <2>4. QED
    BY <2>1, <2>2, <2>3, EditWriters
<1>7. ASSUME NEW n \in Nodes PROVE ~TaskOn(n, j)'
  <2>1. ASSUME NEW m \in Nodes, Submit(m, j) PROVE FALSE
    BY <1>2, <2>1 DEF Submit
  <2>2. NoNew(j)
    BY <1>0, <1>3, <2>1, NewTasks
  <2>3. QED
    BY <1>2, <2>2 DEF NoNew
<1>8. ASSUME NEW n \in Nodes PROVE loop'[n].job # j /\ j \notin loop'[n].todo /\ loop'[n].copy[j] = NoRow
  <2>1. ~Submit(n, j)
    BY <1>2 DEF Submit
  <2>2. Change(n, j)
    BY <1>0, LoopChange
  <2>3. QED
    BY <1>2, <2>1, <2>2 DEF Change, MarkingChange, TodoChange, CopyChange
<1>9. QED
  BY <1>4, <1>5, <1>6, <1>7, <1>8

LEMMA IInvInit == Init => IInv
<1>1. ASSUME Init PROVE IInv
  <2>1. /\ \A n \in Nodes : /\ loop[n].job = NoJob /\ ~loop[n].held /\ loop[n].todo = {}
                            /\ loop[n].copy = NoCopies /\ queue[n] = <<>>
        /\ \A n \in Nodes, w \in Workers : exec[n][w].job = NoJob /\ exec[n][w].stage = "free"
    BY <1>1, AtTypes, ExecBecomes DEF Init
  <2>2. Typed /\ LeaseHeld
    BY <1>1, <2>1, TypeInit DEF LeaseHeld
  <2>3. \A n \in Nodes, j \in Jobs : ~TaskOn(n, j)
    BY <2>1 DEF TaskOn, Queued, Executed
  <2>4. \A j \in Jobs : OneTask(j)
    BY <2>3, TaskIs DEF OneTask, TaskFacts
  <2>5. KnownOnly /\ FailedDisturbed /\ SucceedsOnce
    BY <1>1, <2>1, <2>3 DEF KnownOnly, FailedDisturbed, SucceedsOnce, Init, NoCopies
  <2>6. \A j \in Jobs : Marking(j) /\ Covered(j) /\ Listed(j) /\ Settled(j)
    BY <1>1, <2>1, <2>3 DEF Marking, Covered, Listed, Settled, Init
  <2>7. QED
    BY <2>2, <2>4, <2>5, <2>6 DEF IInv, Alone
<1>2. QED
  BY <1>1

LEMMA IInvStep == ASSUME IInv, [Next]_vars PROVE IInv'
<1>1. Typed' /\ LeaseHeld' /\ KnownOnly' /\ FailedDisturbed' /\ SucceedsOnce'
  BY TypeStep, LeaseInduction, KnownStep, FailedStep, SuccessStep DEF IInv
<1>2. ASSUME NEW j \in Jobs, j \notin disturbed' PROVE Alone(j)'
  BY <1>2, TaskStays, MarkingStep, CoveredStep, ListedStep, SettledStep DEF Alone
<1>3. QED
  BY <1>1, <1>2 DEF IInv

\* The inductive invariant of the two theorems below.
THEOREM InvariantHolds == Spec => []IInv
<1>1. IInv /\ [Next]_vars => IInv'
  BY IInvStep
<1>2. QED
  BY IInvInit, <1>1, PTL DEF Spec

\* On all nodes together a job that was not disturbed has one task at most: its position
\* in a queue, or the worker that executes it.
THEOREM OneTaskKept == Spec => []OneTaskPerJob
<1>1. IInv => OneTaskPerJob
  BY DEF IInv, Alone, OneTask, OneTaskPerJob
<1>2. QED
  BY InvariantHolds, <1>1, PTL

\* No job without cron expression that was not disturbed succeeds twice.
THEOREM NoSecondSuccess == Spec => []SucceedsOnce
<1>1. IInv => SucceedsOnce
  BY DEF IInv
<1>2. QED
  BY InvariantHolds, <1>1, PTL

-----------------------------------------------------------------------------
(* The nodes together implement JobLifecycle.                               *)

\* What is disturbed for the first time has been scheduled.
LEMMA DisturbedKnown ==
  ASSUME IInv, [Next]_vars, NEW j \in Jobs, j \in disturbed' \ disturbed PROVE j \in known
<1>1. SUFFICES ASSUME j \notin known PROVE FALSE
  OBVIOUS
<1>2. /\ row[j] = NoRow /\ (edit # NoEdit => edit.job # j)
      /\ \A n \in Nodes : /\ ~TaskOn(n, j) /\ loop[n].job # j /\ j \notin loop[n].todo
                          /\ loop[n].copy[j] = NoRow
  BY <1>1 DEF IInv, KnownOnly
<1>3. \A n \in Nodes, w \in Workers : exec[n][w].job # j
  BY <1>2 DEF TaskOn, Executed
<1>4. CASE TriggerJob \/ UpdateJob
  BY <1>2, <1>4 DEF TriggerJob, UpdateJob, EditSave
<1>5. ASSUME NEW h \in Jobs, Schedule(h) \/ DeleteJob(h) \/ EditRead(h) \/ BecomeDue(h) PROVE FALSE
  BY <1>5 DEF Schedule, DeleteJob, EditRead, BecomeDue
<1>6. ASSUME NEW k \in Keys, Lapse(k) PROVE FALSE
  BY <1>2, <1>6 DEF Lapse
<1>7. ASSUME NEW n \in Nodes, Crash(n) PROVE FALSE
  BY <1>2, <1>7 DEF Crash, TaskOn
<1>8. ASSUME NEW n \in Nodes, MarkFails(n) PROVE FALSE
  BY <1>2, <1>8 DEF MarkFails
<1>9. ASSUME NEW n \in Nodes,
             \/ Start(n) \/ Trigger(n) \/ Release(n) \/ ListUnfinished(n) \/ ListPending(n) \/ Mark(n)
      PROVE FALSE
  BY <1>9 DEF Start, Trigger, Release, ListUnfinished, ListPending, Mark
<1>10. ASSUME NEW n \in Nodes, NEW h \in Jobs,
              Reset(n, h) \/ Defer(n, h) \/ LeaveAlone(n, h) \/ Submit(n, h) \/ SubmitFull(n, h)
       PROVE FALSE
  BY <1>2, <1>10 DEF Reset, Defer, LeaveAlone, Submit, SubmitFull
<1>11. ASSUME NEW n \in Nodes, NEW w \in Workers,
              \/ Dequeue(n, w) \/ Load(n, w) \/ Wait(n, w) \/ Succeed(n, w)
              \/ Requeue(n, w) \/ GiveUp(n, w)
       PROVE FALSE
  BY <1>11 DEF Dequeue, Load, Wait, Succeed, Requeue, GiveUp
<1>12. ASSUME NEW n \in Nodes, NEW w \in Workers,
              \/ FailAndRetry(n, w) \/ FailForGood(n, w) \/ SaveFails(n, w)
              \/ Abandon(n, w) \/ AbandonSaved(n, w)
       PROVE FALSE
  BY <1>3, <1>12 DEF FailAndRetry, FailForGood, SaveFails, Abandon, AbandonSaved
<1>13. CASE UNCHANGED vars
  BY <1>13 DEF vars
<1>14. QED
  BY <1>4, <1>5, <1>6, <1>7, <1>8, <1>9, <1>10, <1>11, <1>12, <1>13 DEF Next

\* The takers of a job that was not disturbed, and its phase.
LEMMA TakersAre ==
  ASSUME NEW j \in Jobs, j \notin disturbed
  PROVE  /\ Takers[j] = {n \in Nodes : TaskOn(n, j)}
         /\ Phase[j] = IF j \in succeeded THEN "done" ELSE IF j \in known THEN "open" ELSE "none"
BY DEF Takers, Phase, TaskOn

LEMMA TakersAreNext ==
  ASSUME NEW j \in Jobs, j \notin disturbed'
  PROVE  /\ Takers'[j] = {n \in Nodes : TaskOn(n, j)'}
         /\ Phase'[j] = IF j \in succeeded' THEN "done" ELSE IF j \in known' THEN "open" ELSE "none"
BY DEF Takers, Phase, TaskOn

\* An open job that stays open is taken when it was free, given back, or stays.
LEMMA OpenStep ==
  ASSUME IInv, [Next]_vars, NEW j \in Jobs, j \notin disturbed',
         Phase[j] = "open", Phase'[j] = "open"
  PROVE  Lifecycle!Take(j) \/ Lifecycle!GiveBack(j) \/ Lifecycle!Stay(j)
<1>1. j \notin disturbed /\ OneTask(j) /\ Typed
  BY HistoryStep DEF IInv, Alone
<1>2. Takers[j] = {n \in Nodes : TaskOn(n, j)} /\ Takers'[j] = {n \in Nodes : TaskOn(n, j)'}
  BY <1>1, TakersAre, TakersAreNext
<1>3. ASSUME NEW n \in Nodes, Submit(n, j) PROVE Takers[j] = {} /\ Takers'[j] \subseteq {n}
  BY <1>1, <1>2, <1>3, SubmitFresh, SubmittedTask
<1>4. CASE \E n \in Nodes : Submit(n, j)
  BY <1>2, <1>3, <1>4 DEF Lifecycle!Take, Lifecycle!Stay, Lifecycle!Moves
<1>5. CASE ~\E n \in Nodes : Submit(n, j)
  <2>1. Takers'[j] \subseteq Takers[j]
    BY <1>2, <1>5, TaskStays
  <2>2. \A n, m \in Takers[j] : n = m
    BY <1>1, <1>2, OneTaskIs DEF Single, TaskOn
  <2>3. ASSUME NEW n \in Takers'[j] PROVE Takers'[j] = Takers[j]
    BY <2>1, <2>2, <2>3
  <2>4. Takers'[j] = {} \/ Takers'[j] = Takers[j]
    <3>1. Takers'[j] = {} \/ \E n : n \in Takers'[j]
      BY <1>2
    <3>2. QED
      BY <2>3, <3>1
  <2>5. QED
    BY <2>4 DEF Lifecycle!GiveBack, Lifecycle!Stay, Lifecycle!Moves
<1>6. QED
  BY <1>4, <1>5

LEMMA JobStep ==
  ASSUME IInv, IInv', [Next]_vars, NEW j \in Jobs
  PROVE  \/ Lifecycle!Schedule(j) \/ Lifecycle!Take(j) \/ Lifecycle!GiveBack(j)
         \/ Lifecycle!Finish(j) \/ Lifecycle!Spoil(j) \/ Lifecycle!Stay(j)
<1>1. disturbed \subseteq disturbed' /\ known \subseteq known' /\ succeeded \subseteq succeeded' /\ Typed
  BY HistoryStep DEF IInv
<1>2. CASE j \in disturbed
  BY <1>1, <1>2 DEF Phase, Takers, Lifecycle!Stay
<1>3. CASE j \in disturbed' \ disturbed
  <2>1. j \in known
    BY <1>3, DisturbedKnown
  <2>2. Phase[j] # "none" /\ Phase'[j] = "spoiled" /\ Takers'[j] = {}
    BY <1>3, <2>1 DEF Phase, Takers
  <2>3. QED
    BY <2>2 DEF Lifecycle!Spoil
<1>4. CASE j \notin disturbed'
  <2>1. /\ Settled(j) /\ Settled(j)' /\ j \notin disturbed
        /\ j \notin known => j \notin succeeded /\ \A n \in Nodes : ~TaskOn(n, j)
        /\ j \notin known' => j \notin succeeded' /\ \A n \in Nodes : ~TaskOn(n, j)'
    BY <1>1, <1>4 DEF IInv, Alone, KnownOnly
  <2>2. CASE j \notin known'
    BY <1>1, <1>4, <2>1, <2>2, TakersAre, TakersAreNext DEF Lifecycle!Stay
  <2>3. CASE j \in known' \ known
    <3>1. Schedule(j)
      BY <2>3, KnownWriters DEF Schedule
    <3>2. UNCHANGED <<queue, exec, succeeded>>
      BY <3>1 DEF Schedule
    <3>3. \A n \in Nodes : ~TaskOn(n, j)'
      BY <2>1, <2>3, <3>2, SameTasks
    <3>4. QED
      BY <1>4, <2>1, <2>3, <3>2, <3>3, TakersAre, TakersAreNext
      DEF Lifecycle!Schedule, Lifecycle!Moves
  <2>4. CASE j \in succeeded
    BY <1>1, <1>4, <2>1, <2>4, TakersAre, TakersAreNext DEF Settled, Lifecycle!Stay
  <2>5. CASE j \in succeeded' \ succeeded
    <3>1. PICK n \in Nodes, w \in Workers : Succeed(n, w)
      BY <2>5, SuccessWriters
    <3>2. TaskOn(n, j)
      BY <1>1, <2>5, <3>1, SucceedEffect
    <3>3. j \in known /\ \A m \in Nodes : ~TaskOn(m, j)'
      BY <2>1, <2>5, <3>2 DEF Settled
    <3>4. QED
      BY <1>4, <2>1, <2>5, <3>2, <3>3, TakersAre, TakersAreNext
      DEF Lifecycle!Finish, Lifecycle!Moves
  <2>6. CASE j \in known /\ j \notin succeeded'
    <3>1. Phase[j] = "open" /\ Phase'[j] = "open"
      BY <1>1, <1>4, <2>1, <2>6, TakersAre, TakersAreNext
    <3>2. QED
      BY <1>4, <3>1, OpenStep
  <2>7. QED
    BY <2>2, <2>3, <2>4, <2>5, <2>6
<1>5. QED
  BY <1>2, <1>3, <1>4

\* Several nodes over one database, with crashes, leases that run out and stale copies,
\* keep the promises of JobLifecycle.
THEOREM Refinement == Spec => LifecycleImplemented
<1>1. Init => Lifecycle!Init
  BY DEF Init, Phase, Takers, Queued, Executed, Lifecycle!Init, Free
<1>2. IInv /\ IInv' /\ [Next]_vars => [Lifecycle!Next]_(Lifecycle!vars)
  BY JobStep DEF Lifecycle!Next
<1>3. QED
  BY <1>1, <1>2, InvariantHolds, PTL DEF Spec, LifecycleImplemented, Lifecycle!Spec

-----------------------------------------------------------------------------
(* A row that says running is attended.                                     *)

\* The copies that the recovery saves last do not say running: it has reset those before.
Refreshed ==
  \A n \in Nodes, j \in Jobs :
    loop[n].pc = "resetting" /\ loop[n].copy[j] # NoRow /\ loop[n].copy[j].status = "running" =>
      j \in loop[n].todo

LEMMA RefreshedStep == ASSUME Typed, Refreshed, [Next]_vars PROVE Refreshed'
<1>0. loop \in [Nodes -> Loops] /\ \A n \in Nodes : loop[n] \in GoodLoops
  BY DEF Typed, TypeOK
<1>1. SUFFICES ASSUME NEW n \in Nodes, NEW j \in Jobs, loop'[n].pc = "resetting",
                      loop'[n].copy[j] # NoRow, loop'[n].copy[j].status = "running"
               PROVE  j \in loop'[n].todo
  BY DEF Refreshed
<1>2. CASE loop'[n] = loop[n]
  BY <1>1, <1>2 DEF Refreshed
<1>3. ASSUME NEW k \in Keys, Lapse(k) PROVE j \in loop'[n].todo
  <2>1. loop'[n] = loop[n] \/ loop'[n] = [loop[n] EXCEPT !.held = FALSE]
    BY <1>0, <1>3 DEF Lapse
  <2>2. loop'[n].pc = loop[n].pc /\ loop'[n].copy = loop[n].copy /\ loop'[n].todo = loop[n].todo
    BY <1>0, <2>1 DEF Loops
  <2>3. QED
    BY <1>1, <2>2 DEF Refreshed
<1>4. ASSUME NEW m \in Nodes, Start(m) \/ Trigger(m) \/ Crash(m) \/ Release(m)
      PROVE  j \in loop'[n].todo
  <2>1. /\ \A k \in Keys : Acquired(k).pc = "listing"
        /\ At("idle").pc = "idle" /\ At("down").pc = "down"
    BY AcquiredTypes, AtTypes
  <2>2. loop'[n] = loop[n] \/ loop'[n] = At("idle") \/ loop'[n] = At("down") \/ \E k \in Keys : loop'[n] = Acquired(k)
    <3>1. CASE Start(m) \/ Trigger(m)
      <4>1. PICK k \in Keys : Acquire(m, k)
        BY <3>1 DEF Start, Trigger, Keys
      <4>2. QED
        BY <1>0, <4>1, AcquireTypes
    <3>2. CASE Crash(m) \/ Release(m)
      BY <1>0, <3>2 DEF Crash, Release
    <3>3. QED
      BY <1>4, <3>1, <3>2
  <2>3. QED
    BY <1>1, <1>2, <2>1, <2>2
<1>5. ASSUME NEW m \in Nodes, ListUnfinished(m) PROVE j \in loop'[n].todo
  <2>1. CASE m = n
    BY <1>1, <1>5, <2>1, ListUnfinishedEffect DEF Running
  <2>2. CASE m # n
    BY <1>2, <1>5, <2>2, ListUnfinishedEffect DEF Others
  <2>3. QED
    BY <2>1, <2>2
<1>6. ASSUME NEW m \in Nodes, ListPending(m) \/ Mark(m) \/ MarkFails(m) PROVE j \in loop'[n].todo
  <2>1. CASE m = n
    BY <1>0, <1>1, <1>6, <2>1 DEF ListPending, Mark, MarkFails, Loops
  <2>2. CASE m # n
    BY <1>2, <1>6, <2>2, ListPendingEffect, MarkEffect DEF Others
  <2>3. QED
    BY <2>1, <2>2
<1>7. ASSUME NEW m \in Nodes, NEW h \in Jobs, Submit(m, h) \/ SubmitFull(m, h)
      PROVE  j \in loop'[n].todo
  <2>1. CASE m = n
    BY <1>0, <1>1, <1>7, <2>1 DEF Submit, SubmitFull, Loops
  <2>2. CASE m # n
    BY <1>2, <1>7, <2>2, SubmitEffect, SubmitFullEffect DEF Others
  <2>3. QED
    BY <2>1, <2>2
<1>8. ASSUME NEW m \in Nodes, NEW h \in Jobs, Reset(m, h) \/ Defer(m, h) \/ LeaveAlone(m, h)
      PROVE  j \in loop'[n].todo
  <2>0. Others(m)
    BY <1>8, ResetEffect, CopyEffect
  <2>1. CASE m # n
    BY <1>2, <2>0, <2>1 DEF Others
  <2>2. CASE m = n
    <3>1. loop[n].pc = "resetting" /\ loop[n].copy \in [Jobs -> OptRow]
      BY <1>0, <1>8, <2>2, LoopTypes DEF Reset, Defer, LeaveAlone
    <3>2. CASE Reset(m, h)
      <4>1. /\ loop'[n].todo = loop[n].todo \ {h}
            /\ loop'[n].copy = [loop[n].copy EXCEPT ![h] = [@ EXCEPT !.status = "pending"]]
        BY <2>2, <3>2, ResetEffect
      <4>2. loop[n].copy[h] # NoRow
        BY <1>0, <2>2, <3>2, LoopTypes DEF Reset
      <4>3. loop[n].copy[h] \in Rows
        BY <3>1, <4>2 DEF OptRow
      <4>4. loop'[n].copy[h].status = "pending"
        BY <3>1, <4>1, <4>3, RowFields DEF Statuses
      <4>5. h # j
        BY <1>1, <4>4
      <4>6. QED
        BY <1>1, <3>1, <4>1, <4>5 DEF Refreshed
    <3>3. CASE Defer(m, h) \/ LeaveAlone(m, h)
      <4>1. loop'[n].todo = loop[n].todo /\ loop'[n].copy = [loop[n].copy EXCEPT ![h] = NoRow]
        BY <2>2, <3>3, CopyEffect
      <4>2. h # j
        BY <1>1, <3>1, <4>1
      <4>3. QED
        BY <1>1, <3>1, <4>1, <4>2 DEF Refreshed
    <3>4. QED
      BY <1>8, <3>2, <3>3
  <2>3. QED
    BY <2>1, <2>2
<1>9. QED
  BY <1>2, <1>3, <1>4, <1>5, <1>6, <1>7, <1>8, LoopWriters

\* A worker that waits or succeeds leaves a row that does not say running.
LEMMA OutcomeWritten ==
  ASSUME Typed, NEW n \in Nodes, NEW w \in Workers, Wait(n, w) \/ Succeed(n, w)
  PROVE  row'[exec[n][w].job] # NoRow => row'[exec[n][w].job].status # "running"
<1>1. exec[n][w].job \in Jobs /\ exec[n][w].copy \in Rows /\ row \in [Jobs -> OptRow]
  BY ExecTypes DEF Wait, Succeed, Typed, TypeOK
<1>2. CASE Wait(n, w)
  <2>1. PICK r : r = Waiting(exec[n][w].copy)
    OBVIOUS
  <2>2. r.status = "waiting"
    BY <1>1, <2>1, RowFields
  <2>3. row' = [row EXCEPT ![exec[n][w].job] = r]
    BY <1>2, <2>1 DEF Wait, Saved
  <2>4. QED
    BY <1>1, <2>2, <2>3
<1>3. CASE Succeed(n, w)
  <2>1. PICK r \in Outcomes(exec[n][w].copy) : row' = [row EXCEPT ![exec[n][w].job] = r]
    BY <1>3 DEF Succeed, Saved
  <2>2. r.status # "running"
    BY <1>1, <2>1, RowFields
  <2>3. QED
    BY <1>1, <2>1, <2>2
<1>4. QED
  BY <1>2, <1>3

LEMMA AttendedStep == ASSUME Typed, Refreshed, Attended, [Next]_vars PROVE Attended'
<1>1. SUFFICES ASSUME NEW j \in Jobs, j \notin stranded', row'[j] # NoRow, row'[j].status = "running"
               PROVE  Tasks(j)' # {}
  BY DEF Attended, Running
<1>2. j \notin stranded /\ (Running(j) => Tasks(j) # {})
  BY <1>1, HistoryStep DEF Attended
<1>3. \A m \in Nodes : TaskOn(m, j)' => Tasks(j)' # {}
  BY TaskIsNext DEF TaskFacts
<1>4. CASE Running(j)
  <2>1. PICK m \in Nodes : TaskOn(m, j)
    BY <1>2, <1>4, TaskIs DEF TaskFacts
  <2>2. SUFFICES ASSUME ~TaskOn(m, j)' PROVE FALSE
    BY <1>3
  <2>3. CASE Crash(m)
    BY <1>1, <2>1, <2>3 DEF Crash, TaskOn
  <2>4. ASSUME NEW n \in Nodes, NEW w \in Workers, Frees(n, w), exec[n][w].job = j PROVE FALSE
    <3>1. CASE SaveFails(n, w) \/ GiveUp(n, w)
      BY <1>1, <2>4, <3>1 DEF SaveFails, GiveUp
    <3>2. CASE Wait(n, w) \/ Succeed(n, w)
      BY <1>1, <2>4, <3>2, OutcomeWritten
    <3>3. QED
      BY <1>4, <2>4, <3>1, <3>2 DEF Frees, Running
  <2>5. QED
    BY <2>1, <2>2, <2>3, <2>4, LostTasks
<1>5. CASE ~Running(j)
  <2>1. row'[j] # row[j]
    BY <1>1, <1>5 DEF Running
  <2>2. PICK n \in Nodes : Mark(n) /\ loop[n].job = j
    BY <1>1, <1>5, <2>1, RowChange
    DEF Running, WrittenByClient, WrittenByRecovery, WrittenByWorker, Refreshed
  <2>3. Tasks(j) # {}
    BY <1>1, <2>2 DEF Mark
  <2>4. Tasks(j)' = Tasks(j)
    BY <2>2, SameTasks DEF Mark
  <2>5. QED
    BY <2>3, <2>4
<1>6. QED
  BY <1>4, <1>5

\* A row that says running has a task on some node, whatever crashes, requeues, deletions and
\* late marks have happened, except for the ways of being stranded that the model records.
THEOREM RunningAttended == Spec => []Attended
<1>1. Init => Refreshed /\ Attended
  BY AtTypes DEF Init, Refreshed, Attended, Running
<1>2. Typed /\ Refreshed /\ Attended /\ [Next]_vars => Refreshed' /\ Attended'
  BY RefreshedStep, AttendedStep
<1>3. QED
  BY TypesHold, <1>1, <1>2, PTL DEF Spec
=============================================================================
