---------------------------- MODULE TaskLifecycle ----------------------------
(***************************************************************************)
(* What the task queue promises of its tasks, whatever becomes of the      *)
(* process that runs them: a task is released once all it waits for is     *)
(* completed, executes alone and apart from the tasks that use a resource  *)
(* of its own, is tried a bounded number of times, and is announced once,  *)
(* when it is final.  There are no workers, locks, timers or tables here.  *)
(***************************************************************************)
EXTENDS Naturals

CONSTANTS
  Tasks,
  Waits,       \* [Tasks -> SUBSET Tasks], what must be completed first
  Uses,        \* [Tasks -> SUBSET of some resources]
  MaxRetries   \* [Tasks -> Nat]

VARIABLES state, retries, executing, announced
vars == <<state, retries, executing, announced>>

Init ==
  /\ state = [t \in Tasks |-> "none"]
  /\ retries = [t \in Tasks |-> 0]
  /\ executing = {}
  /\ announced = [t \in Tasks |-> 0]

Moves(t, from, to) == state[t] \in from /\ state'[t] \in to
SameRetries(t) == retries'[t] = retries[t]

Submit(t) ==
  /\ Moves(t, {"none"}, IF Waits[t] = {} THEN {"pending", "scheduled"} ELSE {"pending"})
  /\ SameRetries(t)

Release(t) ==
  /\ Moves(t, {"pending"}, {"scheduled"})
  /\ \A d \in Waits[t] : state[d] = "completed"
  /\ SameRetries(t)

Begin(t) ==
  /\ Moves(t, {"scheduled"}, {"running"})
  /\ t \notin executing /\ t \in executing'
  /\ \A u \in executing' \ {t} : Uses[t] \cap Uses[u] = {}
  /\ SameRetries(t)

End(t) ==
  /\ Moves(t, {"running"}, {"completed", "failed"})
  /\ t \in executing /\ t \notin executing'
  /\ SameRetries(t)

\* the process that executed it is gone
Recover(t) ==
  /\ Moves(t, {"running"}, {"scheduled"})
  /\ t \notin executing
  /\ SameRetries(t)

TryAgain(t) ==
  /\ Moves(t, {"failed"}, {"scheduled"})
  /\ retries[t] < MaxRetries[t]
  /\ retries'[t] = retries[t] + 1

Cancel(t) ==
  /\ Moves(t, {"pending", "scheduled", "running"}, {"cancelled"})
  /\ SameRetries(t)

Stay(t) == state'[t] = state[t] /\ SameRetries(t)

Final(t) ==
  \/ state[t] = "completed"
  \/ state[t] = "failed" /\ retries[t] = MaxRetries[t]

Announce(t) ==
  \/ announced'[t] = announced[t]
  \/ announced[t] = 0 /\ announced'[t] = 1 /\ Final(t)'

TaskStep(t) ==
  /\ \/ Submit(t) \/ Release(t) \/ Begin(t) \/ End(t) \/ Recover(t)
     \/ TryAgain(t) \/ Cancel(t) \/ Stay(t)
  /\ t \in executing' \ executing => Begin(t)
  /\ Announce(t)

\* One step may concern several tasks: a batch, a poll, a process that dies.
Next == \A t \in Tasks : TaskStep(t)

Spec == Init /\ [][Next]_vars

=============================================================================
