---------------------------- MODULE JobLifecycle ----------------------------
(* What the nodes of the job scheduler promise of a job together: it is     *)
(* taken by one node at a time, by another one only after it was given      *)
(* back, and never again once it has succeeded.  There are no leases, rows, *)
(* queues or workers here.  A job that something has spoiled is promised    *)
(* nothing.                                                                 *)

CONSTANTS Jobs, Nodes

VARIABLES
  phase,    \* "none", "open", "done" or "spoiled"
  takers    \* the nodes on which the job is queued or executed
vars == <<phase, takers>>

Init ==
  /\ phase = [j \in Jobs |-> "none"]
  /\ takers = [j \in Jobs |-> {}]

Moves(j, from, to) == phase[j] = from /\ phase'[j] = to

Schedule(j) ==
  /\ Moves(j, "none", "open")
  /\ takers'[j] = {}

Take(j) ==
  /\ Moves(j, "open", "open")
  /\ takers[j] = {}
  /\ \E n \in Nodes : takers'[j] = {n}

\* It is rescheduled or waits, or was deleted.
GiveBack(j) ==
  /\ Moves(j, "open", "open")
  /\ takers[j] # {} /\ takers'[j] = {}

Finish(j) ==
  /\ Moves(j, "open", "done")
  /\ takers[j] # {} /\ takers'[j] = {}

Spoil(j) ==
  /\ phase[j] # "none" /\ phase'[j] = "spoiled"
  /\ takers'[j] = {}

Stay(j) == phase'[j] = phase[j] /\ takers'[j] = takers[j]

\* One step may concern several jobs: a node that dies spoils all it has taken.
Next ==
  \A j \in Jobs :
    Schedule(j) \/ Take(j) \/ GiveBack(j) \/ Finish(j) \/ Spoil(j) \/ Stay(j)

Spec == Init /\ [][Next]_vars
=============================================================================
