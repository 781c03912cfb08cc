----------------------------- MODULE PoolLeases -----------------------------
(* What the connection pool promises the calls of acquire: each is answered *)
(* once, and one that is given a connection has it to itself until it gives *)
(* it back; the connection was there when it was given and stays as long,   *)
(* and one that was destroyed never returns.  There are no timers, marks,   *)
(* queues or awaits here.  Nothing is promised about a connection that is   *)
(* spoiled, nor once the pool has been closed that any will stay.           *)

CONSTANTS Calls, NoConn

VARIABLES
  phase,    \* "asking", "served" or "done"
  lease,    \* the connection each call is served with
  present,  \* the connections that have been created and not destroyed
  gone,     \* the connections that have been destroyed
  spoiled,  \* the connections nothing is promised about
  open      \* the pool has not been closed
vars == <<phase, lease, present, gone, spoiled, open>>

Init ==
  /\ phase = [k \in Calls |-> "asking"]
  /\ lease = [k \in Calls |-> NoConn]
  /\ present = {} /\ gone = {} /\ spoiled = {} /\ open = TRUE

Moves(k, from, to) == phase[k] = from /\ phase'[k] = to
Has(k, c) == phase[k] = "served" /\ lease[k] = c

Stay(k) == phase'[k] = phase[k] /\ lease'[k] = lease[k]

Serve(k) ==
  /\ Moves(k, "asking", "served")
  /\ \E c \in present \cup spoiled \cup (IF open THEN {} ELSE gone) :
       /\ lease'[k] = c
       /\ c \in present \ spoiled => \A j \in Calls \ {k} : ~Has(j, c)'

\* It gives the connection back.
Finish(k) == Moves(k, "served", "done") /\ lease'[k] = NoConn

\* Its timer fires, the creation of its connection fails, or the pool is closed.
Fail(k) == Moves(k, "asking", "done") /\ lease'[k] = NoConn

\* One step may concern two calls: a connection given back is handed on at once.
CallSteps == \A k \in Calls : Stay(k) \/ Serve(k) \/ Finish(k) \/ Fail(k)

\* A destruction, if one is part of the step, spares what calls are served with.
ConnSteps ==
  /\ gone' = gone \cup (present \ present')
  /\ (present' \ present) \cap gone = {}
  /\ spoiled \subseteq spoiled'
  /\ open' => open
  /\ open' => \A k \in Calls, c \in (present \ present') \ spoiled' : ~Has(k, c)'

Next == CallSteps /\ ConnSteps

Spec == Init /\ [][Next]_vars
=============================================================================
