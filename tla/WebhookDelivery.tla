--------------------------- MODULE WebhookDelivery ---------------------------
(* What the delivery of webhooks promises of each: requests are made only   *)
(* for what is owed, one at a time and MaxTries at most; it ends delivered, *)
(* failed after the last try, or lost with the process, and stays so.       *)
(* There is no queue here, no chain, no flag and no back-off.               *)
EXTENDS Naturals

CONSTANTS Hooks, MaxTries

VARIABLES
  outcome,  \* "none", "owed", "asked", "delivered", "failed" or "lost"
  tries     \* the requests made for each
vars == <<outcome, tries>>

Init == outcome = [h \in Hooks |-> "none"] /\ tries = [h \in Hooks |-> 0]

Moves(h, from, to) == outcome[h] = from /\ outcome' = [outcome EXCEPT ![h] = to]

Accept(h) == Moves(h, "none", "owed") /\ UNCHANGED tries

Ask(h) ==
  /\ Moves(h, "owed", "asked")
  /\ tries[h] < MaxTries
  /\ tries' = [tries EXCEPT ![h] = @ + 1]

Answer(h) ==
  /\ \/ Moves(h, "asked", "delivered")
     \/ tries[h] < MaxTries /\ Moves(h, "asked", "owed")
     \/ tries[h] = MaxTries /\ Moves(h, "asked", "failed")
  /\ UNCHANGED tries

\* The process ends.
End ==
  /\ outcome' = [h \in Hooks |-> IF outcome[h] \in {"owed", "asked"} THEN "lost" ELSE outcome[h]]
  /\ UNCHANGED tries

Next == End \/ \E h \in Hooks : Accept(h) \/ Ask(h) \/ Answer(h)

Spec == Init /\ [][Next]_vars
=============================================================================
