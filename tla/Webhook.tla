------------------------------- MODULE Webhook -------------------------------
(***************************************************************************)
(* The delivery of webhooks in 4053-node-api-taskqueue: one queue in       *)
(* memory, emptied by chains of callbacks.  A chain is a call of           *)
(* processRetryQueue that is due, or the request it sent, whose end makes  *)
(* the next call due; `processing' tells whether a new item needs a chain. *)
(*                                                                         *)
(* TaskQueue announces a task at most once (AnnouncedOnce), so that an     *)
(* item of the queue is identified by the task it is about.                *)
(***************************************************************************)
EXTENDS Integers, Sequences, Functions

CONSTANTS
  Hooks,            \* tasks with a callback_url
  MAX_RETRIES,      \* requests per webhook
  MAX_BACKOFF       \* seconds

ASSUME RetriesAssumption == MAX_RETRIES \in Nat \ {0}
ASSUME BackoffAssumption == MAX_BACKOFF \in Nat \ {0}
\* The provers do not know that powers are natural numbers.
ASSUME PowerAssumption == \A n \in 1..MAX_RETRIES : 2^n \in Nat

VARIABLES
  \* the process
  retryQueue,   \* the webhooks queued
  processing,   \* the flag of that name
  callbacks,    \* calls of processRetryQueue due, at once or in 100 ms
  inFlight,     \* webhooks whose request has not settled
  broken,       \* those of them whose response broke off
  attempt,      \* item.attempt
  wait,         \* seconds from the failure to item.scheduledAt, 0 once over
  \* the database
  recorded,     \* rows of webhook_failures
  \* history
  sent,         \* webhooks handed to sendWebhook
  delivered,    \* webhooks answered with a 2xx status
  lost,         \* webhooks the process took with it
  requests      \* requests made for each

vars == <<retryQueue, processing, callbacks, inFlight, broken, attempt, wait, recorded, sent,
          delivered, lost, requests>>

Queued == Range(retryQueue)
Settled == delivered \cup recorded \cup lost

Init ==
  /\ retryQueue = <<>> /\ processing = FALSE /\ callbacks = 0
  /\ inFlight = {} /\ broken = {} /\ recorded = {} /\ sent = {} /\ delivered = {} /\ lost = {}
  /\ attempt = [h \in Hooks |-> 0]
  /\ wait = [h \in Hooks |-> 0]
  /\ requests = [h \in Hooks |-> 0]

-----------------------------------------------------------------------------
\* sendWebhook and enqueueRetry
sendWebhook(h) ==
  /\ h \notin sent
  /\ sent' = sent \cup {h}
  /\ retryQueue' = Append(retryQueue, h)
  /\ callbacks' = IF processing THEN callbacks ELSE callbacks + 1
  /\ UNCHANGED <<processing, inFlight, broken, attempt, wait, recorded, delivered, lost, requests>>

\* MUTANT of FlagDown: the flag is left up
FlagKept == processing
FlagDown == FALSE

\* processRetryQueue finds the queue empty
ChainEnds ==
  /\ callbacks > 0
  /\ retryQueue = <<>>
  /\ callbacks' = callbacks - 1
  /\ processing' = FlagDown
  /\ UNCHANGED <<retryQueue, inFlight, broken, attempt, wait, recorded, sent, delivered, lost,
                 requests>>

\* MUTANT of Shifted: the item stays in front
Unshifted == retryQueue
Shifted == Tail(retryQueue)

\* it finds an item that must wait and puts it behind the others; the next
\* call is due 100 ms later
Rotate ==
  /\ callbacks > 0
  /\ retryQueue # <<>> /\ wait[Head(retryQueue)] > 0
  /\ processing' = TRUE
  /\ retryQueue' = Append(Shifted, Head(retryQueue))
  /\ UNCHANGED <<callbacks, inFlight, broken, attempt, wait, recorded, sent, delivered, lost,
                 requests>>

\* it takes an item and sends the request
executeWebhook ==
  LET h == Head(retryQueue) IN
  /\ callbacks > 0
  /\ retryQueue # <<>> /\ wait[h] = 0
  /\ processing' = TRUE
  /\ callbacks' = callbacks - 1
  /\ retryQueue' = Tail(retryQueue)
  /\ inFlight' = inFlight \cup {h}
  /\ requests' = [requests EXCEPT ![h] = @ + 1]
  /\ UNCHANGED <<broken, attempt, wait, recorded, sent, delivered, lost>>

-----------------------------------------------------------------------------
(* How a request ends *)

\* MUTANT of CallDue: only an empty queue gets another call
CallDueIfEmpty == IF retryQueue = <<>> THEN callbacks + 1 ELSE callbacks
CallDue == callbacks + 1

\* The promise resolves, and the chain goes on.
Settle(h) ==
  /\ h \in inFlight \ broken
  /\ inFlight' = inFlight \ {h}
  /\ callbacks' = CallDue

\* a 2xx response
Delivered(h) ==
  /\ Settle(h)
  /\ delivered' = delivered \cup {h}
  /\ UNCHANGED <<retryQueue, processing, broken, attempt, wait, recorded, sent, lost, requests>>

\* MUTANT of MayRetry: one request too many
MayRetryOnceMore(h) == attempt[h] + 1 <= MAX_RETRIES

MayRetry(h) == attempt[h] + 1 < MAX_RETRIES

\* MUTANT of Backoff: milliseconds taken for seconds
BackoffInMilliseconds(n) == 2^n * 1000

Backoff(n) == IF 2^n < MAX_BACKOFF THEN 2^n ELSE MAX_BACKOFF

\* another status, an error or a timeout
Refused(h) ==
  /\ Settle(h)
  /\ attempt' = [attempt EXCEPT ![h] = @ + 1]
  /\ \/ /\ MayRetry(h)
        /\ wait' = [wait EXCEPT ![h] = Backoff(attempt[h] + 1)]
        /\ retryQueue' = Append(retryQueue, h)
        /\ UNCHANGED recorded
     \/ /\ ~MayRetry(h)
        /\ recorded' = recorded \cup {h}
        /\ UNCHANGED <<wait, retryQueue>>
  /\ UNCHANGED <<processing, broken, sent, delivered, lost, requests>>

\* The receiver closes the connection in the middle of its response: neither
\* the `end' of the response comes, nor the `error' or `timeout' of the request,
\* and the promise never resolves.
BreaksOff(h) ==
  /\ h \in inFlight \ broken
  /\ broken' = broken \cup {h}
  /\ UNCHANGED <<retryQueue, processing, callbacks, inFlight, attempt, wait, recorded, sent,
                 delivered, lost, requests>>

\* The back-off is over.
BackoffOver(h) ==
  /\ wait[h] > 0
  /\ wait' = [wait EXCEPT ![h] = 0]
  /\ UNCHANGED <<retryQueue, processing, callbacks, inFlight, broken, attempt, recorded, sent,
                 delivered, lost, requests>>

\* The process ends, for whatever reason: what it had in memory is gone.
Crash ==
  /\ lost' = lost \cup Queued \cup inFlight
  /\ retryQueue' = <<>> /\ processing' = FALSE /\ callbacks' = 0
  /\ inFlight' = {} /\ broken' = {}
  /\ wait' = [h \in Hooks |-> 0]
  /\ UNCHANGED <<attempt, recorded, sent, delivered, requests>>

Next ==
  \/ \E h \in Hooks : sendWebhook(h)
  \/ ChainEnds
  \/ Rotate
  \/ executeWebhook
  \/ \E h \in Hooks : Delivered(h)
  \/ \E h \in Hooks : Refused(h)
  \/ \E h \in Hooks : BreaksOff(h)
  \/ \E h \in Hooks : BackoffOver(h)
  \/ Crash

Spec == Init /\ [][Next]_vars

\* Callbacks run and time passes.  A request settles, at the latest by its
\* timeout, if its response does not break off.
Fairness ==
  /\ WF_vars(ChainEnds \/ Rotate \/ executeWebhook)
  /\ \A h \in Hooks : WF_vars(BackoffOver(h))
  /\ \A h \in Hooks : WF_vars(Delivered(h) \/ Refused(h) \/ BreaksOff(h))

FairSpec == Spec /\ Fairness

-----------------------------------------------------------------------------
(* Properties *)

\* Every variable has its type.
TypeOK ==
  /\ retryQueue \in Seq(Hooks)
  /\ processing \in BOOLEAN
  /\ callbacks \in Nat
  /\ inFlight \subseteq Hooks /\ broken \subseteq inFlight
  /\ recorded \subseteq Hooks /\ sent \subseteq Hooks
  /\ delivered \subseteq Hooks /\ lost \subseteq Hooks
  /\ attempt \in [Hooks -> Nat]
  /\ wait \in [Hooks -> 0..MAX_BACKOFF]
  /\ requests \in [Hooks -> Nat]

\* A webhook that was sent is queued once, in flight, or settled one way, never
\* two of these, whatever number of chains work on the queue.
Conserved ==
  /\ sent = Queued \cup inFlight \cup Settled
  /\ \A i, j \in DOMAIN retryQueue : retryQueue[i] = retryQueue[j] => i = j
  /\ Queued \cap (inFlight \cup Settled) = {}
  /\ inFlight \cap Settled = {}
  /\ delivered \cap recorded = {} /\ (delivered \cup recorded) \cap lost = {}

\* A receiver gets at most MAX_RETRIES requests, and a failure is recorded only
\* after that many.
AttemptsCounted ==
  \A h \in Hooks : /\ requests[h] <= MAX_RETRIES
                   /\ h \in recorded => requests[h] = MAX_RETRIES

\* As long as anything is queued there is a chain that will get to it, unless a
\* response that broke off holds it up: the flag is never up without a chain,
\* even when one of two chains takes it down.
NoLostWakeup == processing \/ retryQueue # <<>> => callbacks > 0 \/ inFlight # {}

\* A webhook that was sent is delivered, or its failure recorded, unless the
\* process ends or a response that broke off has stopped a chain.
SentSettlesUnlessBroken == \A h \in Hooks : h \in sent ~> h \in Settled \/ broken # {}

\* A webhook that was sent is delivered, or its failure recorded, unless the
\* process ends.
SentSettles == \A h \in Hooks : h \in sent ~> h \in Settled

\* The waits between the requests for a webhook are of 1, 4 and 16 seconds.
DocumentedBackoff ==
  [][\A h \in Hooks : wait'[h] > wait[h] => wait'[h] = 4^(attempt'[h] - 1)]_vars

\* What module WebhookDelivery promises.
Outcome(h) ==
  CASE h \in delivered -> "delivered"
    [] h \in recorded -> "failed"
    [] h \in lost -> "lost"
    [] h \in inFlight -> "asked"
    [] h \in Queued -> "owed"
    [] OTHER -> "none"

Delivery == INSTANCE WebhookDelivery WITH
  MaxTries <- MAX_RETRIES,
  outcome <- [h \in Hooks |-> Outcome(h)],
  tries <- requests
DeliveryImplemented == Delivery!Spec

=============================================================================
