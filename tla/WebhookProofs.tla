---------------------------- MODULE WebhookProofs ----------------------------
(* Proofs about Webhook, for any number of webhooks and of retries.        *)
EXTENDS Webhook, TLAPS

USE DEF FlagDown, Shifted, CallDue

\* What makes AttemptsCounted inductive: item.attempt counts the requests that
\* have failed.
AttemptsExact ==
  \A h \in Hooks :
    /\ h \notin sent => requests[h] = 0 /\ attempt[h] = 0
    /\ h \in Queued => requests[h] = attempt[h] /\ attempt[h] < MAX_RETRIES
    /\ h \in inFlight => requests[h] = attempt[h] + 1 /\ attempt[h] < MAX_RETRIES

IInv == TypeOK /\ Conserved /\ AttemptsExact /\ AttemptsCounted /\ NoLostWakeup

\* What taking the first item off the queue leaves.
LEMMA TailFacts ==
  ASSUME TypeOK, Conserved, retryQueue # <<>>
  PROVE /\ Head(retryQueue) \in Hooks /\ Head(retryQueue) \in Queued
        /\ Tail(retryQueue) \in Seq(Hooks)
        /\ Range(Tail(retryQueue)) = Queued \ {Head(retryQueue)}
        /\ \A i, j \in DOMAIN Tail(retryQueue) : Tail(retryQueue)[i] = Tail(retryQueue)[j] => i = j
<1> DEFINE q == retryQueue
<1>1. q \in Seq(Hooks) /\ q # <<>>
  BY DEF TypeOK
<1>2. /\ Len(q) \in Nat /\ Len(q) > 0 /\ DOMAIN q = 1..Len(q) /\ Head(q) = q[1]
      /\ Tail(q) \in Seq(Hooks) /\ DOMAIN Tail(q) = 1..(Len(q) - 1)
      /\ \A i \in DOMAIN Tail(q) : i \in Nat /\ Tail(q)[i] = q[i + 1] /\ i + 1 \in DOMAIN q
  BY <1>1
<1>3. 1 \in DOMAIN q /\ Head(q) \in Hooks /\ Head(q) \in Queued
  BY <1>1, <1>2 DEF Queued, Range
<1>4. \A i, j \in DOMAIN q : q[i] = q[j] => i = j
  BY DEF Conserved
<1>5. \A i \in DOMAIN q : i # 1 => i - 1 \in DOMAIN Tail(q) /\ Tail(q)[i - 1] = q[i]
  BY <1>2
<1>6. \A i \in DOMAIN Tail(q) : Tail(q)[i] # Head(q)
  BY <1>2, <1>3, <1>4
<1>7. Range(Tail(q)) = Queued \ {Head(q)}
  <2>1. ASSUME NEW x \in Range(Tail(q)) PROVE x \in Queued \ {Head(q)}
    <3>1. PICK i \in DOMAIN Tail(q) : x = Tail(q)[i]
      BY DEF Range
    <3>2. QED
      BY <3>1, <1>2, <1>6 DEF Queued, Range
  <2>2. ASSUME NEW x \in Queued \ {Head(q)} PROVE x \in Range(Tail(q))
    <3>1. PICK i \in DOMAIN q : x = q[i]
      BY DEF Queued, Range
    <3>2. i # 1
      BY <3>1, <1>2
    <3>3. QED
      BY <3>1, <3>2, <1>5 DEF Range
  <2>3. QED
    BY <2>1, <2>2
<1>8. \A i, j \in DOMAIN Tail(q) : Tail(q)[i] = Tail(q)[j] => i = j
  BY <1>2, <1>4
<1>9. QED
  BY <1>2, <1>3, <1>7, <1>8

\* What putting an item behind a queue makes of it.
LEMMA AppendFacts ==
  ASSUME NEW q \in Seq(Hooks), NEW h \in Hooks, h \notin Range(q),
         \A i, j \in DOMAIN q : q[i] = q[j] => i = j
  PROVE /\ Append(q, h) \in Seq(Hooks) /\ Append(q, h) # <<>>
        /\ Range(Append(q, h)) = Range(q) \cup {h}
        /\ \A i, j \in DOMAIN Append(q, h) : Append(q, h)[i] = Append(q, h)[j] => i = j
<1> DEFINE a == Append(q, h)
<1>1. /\ Len(q) \in Nat /\ DOMAIN q = 1..Len(q) /\ DOMAIN a = 1..(Len(q) + 1)
      /\ a \in Seq(Hooks) /\ a[Len(q) + 1] = h
      /\ \A i \in 1..Len(q) : a[i] = q[i]
  OBVIOUS
<1>2. Len(a) = Len(q) + 1 /\ a # <<>>
  BY <1>1
<1>3. Range(a) = Range(q) \cup {h}
  BY <1>1 DEF Range
<1>4. \A i \in DOMAIN q : q[i] # h
  BY DEF Range
<1>5. \A i, j \in DOMAIN a : a[i] = a[j] => i = j
  BY <1>1, <1>4
<1>6. QED
  BY <1>1, <1>2, <1>3, <1>5

\* Nothing is sent, queued or in flight at first.
LEMMA InitInv == Init => IInv
<1> SUFFICES ASSUME Init PROVE IInv
  OBVIOUS
<1>1. Queued = {} /\ Settled = {}
  BY DEF Init, Queued, Settled, Range
<1>2. TypeOK
  <2>1. 0 \in 0..MAX_BACKOFF /\ <<>> \in Seq(Hooks)
    BY BackoffAssumption
  <2>2. QED
    BY <2>1 DEF Init, TypeOK
<1>3. Conserved
  BY <1>1 DEF Init, Conserved
<1>4. AttemptsExact /\ AttemptsCounted
  BY <1>1, RetriesAssumption DEF Init, AttemptsExact, AttemptsCounted
<1>5. NoLostWakeup
  BY DEF Init, NoLostWakeup
<1>6. QED
  BY <1>2, <1>3, <1>4, <1>5 DEF IInv

\* The wait after a failure is one of those a row can have.
LEMMA BackoffType == ASSUME NEW n \in 1..MAX_RETRIES PROVE Backoff(n) \in 0..MAX_BACKOFF
  BY BackoffAssumption, PowerAssumption DEF Backoff

\* Every step preserves the invariant.
LEMMA NextInv == IInv /\ [Next]_vars => IInv'
<1> SUFFICES ASSUME IInv, [Next]_vars PROVE IInv'
  OBVIOUS
<1> USE DEF IInv, Queued, Settled
<1>1. ASSUME NEW h \in Hooks, sendWebhook(h) PROVE IInv'
  <2>1. h \notin Range(retryQueue) /\ retryQueue \in Seq(Hooks)
    BY <1>1 DEF sendWebhook, Conserved, TypeOK
  <2>2. /\ retryQueue' \in Seq(Hooks) /\ Range(retryQueue') = Range(retryQueue) \cup {h}
        /\ \A i, j \in DOMAIN retryQueue' : retryQueue'[i] = retryQueue'[j] => i = j
    BY <1>1, <2>1, AppendFacts DEF sendWebhook, Conserved
  <2>3. TypeOK'
    BY <1>1, <2>2 DEF sendWebhook, TypeOK
  <2>4. Conserved'
    BY <1>1, <2>2 DEF sendWebhook, Conserved
  <2>5. AttemptsExact' /\ AttemptsCounted'
    BY <1>1, <2>2, RetriesAssumption DEF sendWebhook, Conserved, AttemptsExact, AttemptsCounted
  <2>6. NoLostWakeup'
    BY <1>1 DEF sendWebhook, NoLostWakeup, TypeOK
  <2>7. QED
    BY <2>3, <2>4, <2>5, <2>6
<1>2. ASSUME ChainEnds PROVE IInv'
  <2>1. TypeOK'
    <3>1. callbacks' \in Nat /\ processing' = FALSE
      BY <1>2 DEF ChainEnds, TypeOK
    <3>2. UNCHANGED <<retryQueue, inFlight, broken, attempt, wait, recorded, sent, delivered, lost,
                      requests>>
      BY <1>2 DEF ChainEnds
    <3>3. QED
      BY <3>1, <3>2 DEF TypeOK
  <2>2. Conserved' /\ AttemptsExact' /\ AttemptsCounted'
    BY <1>2 DEF ChainEnds, Conserved, AttemptsExact, AttemptsCounted
  <2>3. NoLostWakeup'
    BY <1>2 DEF ChainEnds, NoLostWakeup
  <2>4. QED
    BY <2>1, <2>2, <2>3
<1>3. ASSUME Rotate PROVE IInv'
  <2> DEFINE h == Head(retryQueue)
             q == Tail(retryQueue)
  <2>1. /\ h \in Hooks /\ h \in Range(retryQueue) /\ q \in Seq(Hooks)
        /\ Range(q) = Range(retryQueue) \ {h}
        /\ \A i, j \in DOMAIN q : q[i] = q[j] => i = j
    BY <1>3, TailFacts DEF Rotate
  <2>2. /\ Append(q, h) \in Seq(Hooks) /\ Range(Append(q, h)) = Range(q) \cup {h}
        /\ \A i, j \in DOMAIN Append(q, h) : Append(q, h)[i] = Append(q, h)[j] => i = j
    BY <2>1, AppendFacts
  <2>3. retryQueue' = Append(q, h) /\ callbacks' > 0
    BY <1>3 DEF Rotate
  <2> HIDE DEF h, q
  <2>4. Range(retryQueue') = Range(retryQueue)
    BY <2>1, <2>2, <2>3
  <2>5. TypeOK'
    BY <1>3, <2>2, <2>3 DEF Rotate, TypeOK
  <2>6. Conserved'
    BY <1>3, <2>2, <2>3, <2>4 DEF Rotate, Conserved
  <2>7. AttemptsExact' /\ AttemptsCounted'
    BY <1>3, <2>4 DEF Rotate, AttemptsExact, AttemptsCounted
  <2>8. NoLostWakeup'
    BY <2>3 DEF NoLostWakeup
  <2>9. QED
    BY <2>5, <2>6, <2>7, <2>8
<1>4. ASSUME executeWebhook PROVE IInv'
  <2> DEFINE h == Head(retryQueue)
  <2>1. /\ h \in Hooks /\ h \in Range(retryQueue) /\ retryQueue' \in Seq(Hooks)
        /\ Range(retryQueue') = Range(retryQueue) \ {h}
        /\ \A i, j \in DOMAIN retryQueue' : retryQueue'[i] = retryQueue'[j] => i = j
    BY <1>4, TailFacts DEF executeWebhook
  <2>2. /\ inFlight' = inFlight \cup {h} /\ callbacks > 0 /\ callbacks' = callbacks - 1
        /\ requests' = [requests EXCEPT ![h] = @ + 1]
        /\ UNCHANGED <<broken, attempt, wait, recorded, sent, delivered, lost>>
        /\ processing' = TRUE
    BY <1>4 DEF executeWebhook
  <2> HIDE DEF h
  <2>3. TypeOK'
    BY <2>1, <2>2 DEF TypeOK
  <2>4. Conserved'
    BY <2>1, <2>2 DEF Conserved
  <2>5. AttemptsExact'
    BY <2>1, <2>2 DEF TypeOK, Conserved, AttemptsExact
  <2>6. AttemptsCounted'
    <3>1. requests[h] = attempt[h] /\ attempt[h] < MAX_RETRIES /\ h \notin recorded
      BY <2>1 DEF AttemptsExact, Conserved
    <3>2. QED
      BY <2>1, <2>2, <3>1, RetriesAssumption DEF TypeOK, AttemptsCounted
  <2>7. NoLostWakeup'
    BY <2>2 DEF NoLostWakeup
  <2>8. QED
    BY <2>3, <2>4, <2>5, <2>6, <2>7
<1>5. ASSUME NEW h \in Hooks, Delivered(h) PROVE IInv'
  <2>1. /\ h \in inFlight /\ h \notin broken /\ inFlight' = inFlight \ {h}
        /\ callbacks' = callbacks + 1 /\ delivered' = delivered \cup {h}
        /\ UNCHANGED <<retryQueue, processing, broken, attempt, wait, recorded, sent, lost, requests>>
    BY <1>5 DEF Delivered, Settle
  <2>2. TypeOK'
    BY <2>1 DEF TypeOK
  <2>3. Conserved'
    BY <2>1 DEF Conserved
  <2>4. AttemptsExact' /\ AttemptsCounted'
    BY <2>1 DEF AttemptsExact, AttemptsCounted
  <2>5. NoLostWakeup'
    BY <2>1 DEF NoLostWakeup, TypeOK
  <2>6. QED
    BY <2>2, <2>3, <2>4, <2>5
<1>6. ASSUME NEW h \in Hooks, Refused(h) PROVE IInv'
  <2>1. /\ h \in inFlight /\ h \notin broken /\ inFlight' = inFlight \ {h}
        /\ callbacks' = callbacks + 1 /\ attempt' = [attempt EXCEPT ![h] = @ + 1]
        /\ UNCHANGED <<processing, broken, sent, delivered, lost, requests>>
    BY <1>6 DEF Refused, Settle
  <2>2. /\ attempt \in [Hooks -> Nat] /\ requests \in [Hooks -> Nat] /\ MAX_RETRIES \in Nat
        /\ requests[h] = attempt[h] + 1 /\ attempt[h] < MAX_RETRIES
        /\ h \notin Range(retryQueue) /\ h \notin Settled /\ h \in sent
    BY <2>1, RetriesAssumption DEF TypeOK, AttemptsExact, Conserved
  <2>3. NoLostWakeup'
    BY <2>1 DEF NoLostWakeup, TypeOK
  <2>4. CASE /\ MayRetry(h)
             /\ wait' = [wait EXCEPT ![h] = Backoff(attempt[h] + 1)]
             /\ retryQueue' = Append(retryQueue, h)
             /\ UNCHANGED recorded
    <3>1. /\ retryQueue' \in Seq(Hooks) /\ Range(retryQueue') = Range(retryQueue) \cup {h}
          /\ \A i, j \in DOMAIN retryQueue' : retryQueue'[i] = retryQueue'[j] => i = j
      BY <2>2, <2>4, AppendFacts DEF TypeOK, Conserved
    <3>2. wait' \in [Hooks -> 0..MAX_BACKOFF]
      <4>1. Backoff(attempt[h] + 1) \in 0..MAX_BACKOFF
        BY <2>2, BackoffType
      <4>2. QED
        BY <2>4, <4>1 DEF TypeOK
    <3>3. TypeOK'
      BY <2>1, <2>4, <3>1, <3>2 DEF TypeOK
    <3>4. Conserved'
      <4>1. Queued' = Queued \cup {h} /\ inFlight' = inFlight \ {h} /\ UNCHANGED <<sent, Settled>>
        BY <2>1, <2>4, <3>1
      <4>2. /\ \A i, j \in DOMAIN retryQueue' : retryQueue'[i] = retryQueue'[j] => i = j
            /\ UNCHANGED <<delivered, recorded, lost>>
        BY <2>1, <2>4, <3>1
      <4>3. QED
        BY <2>1, <2>2, <4>1, <4>2 DEF Conserved
    <3>5. AttemptsExact'
      <4>1. attempt' = [attempt EXCEPT ![h] = @ + 1] /\ attempt'[h] = attempt[h] + 1
        BY <2>1 DEF TypeOK
      <4>2. requests'[h] = attempt'[h] /\ attempt'[h] < MAX_RETRIES /\ h \notin inFlight'
        BY <2>1, <2>2, <2>4, <4>1 DEF MayRetry
      <4>3. \A g \in Hooks : g # h => attempt'[g] = attempt[g]
        BY <4>1 DEF TypeOK
      <4>4. QED
        BY <2>1, <2>2, <3>1, <4>2, <4>3 DEF AttemptsExact
    <3>6. AttemptsCounted'
      BY <2>1, <2>4 DEF AttemptsCounted
    <3>7. QED
      BY <2>3, <3>3, <3>4, <3>5, <3>6
  <2>5. CASE ~MayRetry(h) /\ recorded' = recorded \cup {h} /\ UNCHANGED <<wait, retryQueue>>
    <3>1. requests[h] = MAX_RETRIES
      BY <2>2, <2>5 DEF MayRetry
    <3>2. TypeOK'
      BY <2>1, <2>5 DEF TypeOK
    <3>3. Conserved'
      BY <2>1, <2>2, <2>5 DEF Conserved
    <3>4. AttemptsExact'
      BY <2>1, <2>2, <2>5 DEF AttemptsExact
    <3>5. AttemptsCounted'
      BY <2>1, <2>5, <3>1 DEF AttemptsCounted
    <3>6. QED
      BY <2>3, <3>2, <3>3, <3>4, <3>5
  <2>6. QED
    BY <1>6, <2>4, <2>5, Zenon DEF Refused
<1>7. ASSUME NEW h \in Hooks, BreaksOff(h) PROVE IInv'
  BY <1>7 DEF BreaksOff, TypeOK, Conserved, AttemptsExact, AttemptsCounted, NoLostWakeup
<1>8. ASSUME NEW h \in Hooks, BackoffOver(h) PROVE IInv'
  <2>1. TypeOK'
    BY <1>8, BackoffAssumption DEF BackoffOver, TypeOK
  <2>2. QED
    BY <1>8, <2>1 DEF BackoffOver, Conserved, AttemptsExact, AttemptsCounted, NoLostWakeup
<1>9. ASSUME Crash PROVE IInv'
  <2>1. Range(retryQueue') = {}
    BY <1>9 DEF Crash, Range
  <2>2. TypeOK'
    <3>1. 0 \in 0..MAX_BACKOFF /\ <<>> \in Seq(Hooks)
      BY BackoffAssumption
    <3>2. Range(retryQueue) \subseteq Hooks
      BY DEF TypeOK, Range
    <3>3. lost' \subseteq Hooks
      BY <1>9, <3>2 DEF Crash, TypeOK
    <3>4. QED
      BY <1>9, <3>1, <3>3 DEF Crash, TypeOK
  <2>3. Conserved'
    BY <1>9, <2>1 DEF Crash, Conserved
  <2>4. AttemptsExact' /\ AttemptsCounted'
    BY <1>9, <2>1 DEF Crash, AttemptsExact, AttemptsCounted
  <2>5. NoLostWakeup'
    BY <1>9 DEF Crash, NoLostWakeup
  <2>6. QED
    BY <2>2, <2>3, <2>4, <2>5
<1>10. CASE UNCHANGED vars
  BY <1>10 DEF vars, TypeOK, Conserved, AttemptsExact, AttemptsCounted, NoLostWakeup
<1>11. QED
  BY <1>1, <1>2, <1>3, <1>4, <1>5, <1>6, <1>7, <1>8, <1>9, <1>10 DEF Next

\* IInv holds in every state the sender can reach.
THEOREM Invariance == Spec => []IInv
  BY InitInv, NextInv, PTL DEF Spec

\* Every variable keeps its type: among them, no wait exceeds MAX_BACKOFF.
THEOREM TypeCorrect == Spec => []TypeOK
  BY Invariance, PTL DEF IInv

\* No webhook is lost, doubled or settled twice, whatever chains there are.
THEOREM NothingLost == Spec => []Conserved
  BY Invariance, PTL DEF IInv

\* Every receiver gets at most MAX_RETRIES requests, all of them before a failure
\* is recorded.
THEOREM AttemptsAreCounted == Spec => []AttemptsCounted
  BY Invariance, PTL DEF IInv

\* A queue with items in it always has a chain, be it held up by a response that
\* broke off.
THEOREM NoWakeupLost == Spec => []NoLostWakeup
  BY Invariance, PTL DEF IInv

-----------------------------------------------------------------------------
(* The refinement.                                                          *)

\* A step after which one webhook has another outcome.
LEMMA OneMoves ==
  ASSUME NEW h \in Hooks, NEW from, NEW to,
         Outcome(h) = from, Outcome(h)' = to,
         \A k \in Hooks \ {h} : Outcome(k)' = Outcome(k)
  PROVE  Delivery!Moves(h, from, to)
BY DEF Delivery!Moves

\* A step after which none has.
LEMMA NoneMoves ==
  ASSUME \A k \in Hooks : Outcome(k)' = Outcome(k), UNCHANGED requests
  PROVE  UNCHANGED Delivery!vars
BY DEF Delivery!vars

\* What the outcome of a webhook is, when it is in one place only.
LEMMA OutcomeIs ==
  ASSUME Conserved, NEW h \in Hooks
  PROVE  /\ h \notin sent => Outcome(h) = "none"
         /\ h \in Queued => Outcome(h) = "owed"
         /\ h \in inFlight => Outcome(h) = "asked"
         /\ h \in delivered => Outcome(h) = "delivered"
         /\ h \in recorded => Outcome(h) = "failed"
         /\ h \in lost => Outcome(h) = "lost"
BY DEF Conserved, Outcome, Settled

\* Every step of the sender is a step of the abstract delivery, or none of it.
LEMMA StepRefines ==
  ASSUME IInv, IInv', [Next]_vars
  PROVE  [Delivery!Next]_(Delivery!vars)
<1> USE DEF Queued
<1>1. ASSUME NEW h \in Hooks, sendWebhook(h) PROVE Delivery!Accept(h)
  <2>1. /\ h \notin sent /\ UNCHANGED <<inFlight, delivered, recorded, lost, requests>>
        /\ retryQueue \in Seq(Hooks) /\ h \notin Range(retryQueue)
        /\ Range(retryQueue') = Range(retryQueue) \cup {h}
    BY <1>1, AppendFacts DEF sendWebhook, IInv, TypeOK, Conserved
  <2>2. Outcome(h) = "none" /\ Outcome(h)' = "owed"
    BY <2>1, OutcomeIs DEF IInv, Outcome, Conserved, Settled
  <2>3. \A k \in Hooks \ {h} : Outcome(k)' = Outcome(k)
    BY <2>1 DEF Outcome
  <2>4. QED
    BY <2>1, <2>2, <2>3, OneMoves DEF Delivery!Accept
<1>2. ASSUME ChainEnds \/ Rotate PROVE UNCHANGED Delivery!vars
  <2>1. UNCHANGED <<inFlight, delivered, recorded, lost, requests>>
    BY <1>2 DEF ChainEnds, Rotate
  <2>2. Range(retryQueue') = Range(retryQueue)
    <3>1. CASE ChainEnds
      BY <3>1 DEF ChainEnds
    <3>2. CASE Rotate
      <4> DEFINE h == Head(retryQueue)
                 q == Tail(retryQueue)
      <4>1. /\ h \in Hooks /\ h \in Range(retryQueue) /\ q \in Seq(Hooks)
            /\ Range(q) = Range(retryQueue) \ {h}
            /\ \A i, j \in DOMAIN q : q[i] = q[j] => i = j
        BY <3>2, TailFacts DEF Rotate, IInv
      <4>2. Range(Append(q, h)) = Range(q) \cup {h} /\ retryQueue' = Append(q, h)
        BY <3>2, <4>1, AppendFacts DEF Rotate
      <4> HIDE DEF h, q
      <4>3. QED
        BY <4>1, <4>2
    <3>3. QED
      BY <1>2, <3>1, <3>2
  <2>3. QED
    BY <2>1, <2>2, NoneMoves DEF Outcome
<1>3. ASSUME executeWebhook PROVE \E h \in Hooks : Delivery!Ask(h)
  <2>0. PICK h \in Hooks : h = Head(retryQueue)
    BY <1>3, TailFacts DEF executeWebhook, IInv
  <2>1. /\ h \in Range(retryQueue)
        /\ Range(retryQueue') = Range(retryQueue) \ {h}
    BY <1>3, <2>0, TailFacts DEF executeWebhook, IInv
  <2>2. /\ inFlight' = inFlight \cup {h} /\ requests' = [requests EXCEPT ![h] = @ + 1]
        /\ UNCHANGED <<delivered, recorded, lost>>
    BY <1>3, <2>0 DEF executeWebhook
  <2>3. /\ Outcome(h) = "owed"
        /\ h \notin delivered' \cup recorded' \cup lost' /\ h \in inFlight'
    BY <2>1, <2>2, OutcomeIs DEF IInv, Conserved, Settled
  <2>4. \A k \in Hooks \ {h} : Outcome(k)' = Outcome(k)
    BY <2>1, <2>2 DEF Outcome
  <2>5. requests[h] < MAX_RETRIES /\ Outcome(h)' = "asked"
    BY <2>1, <2>3 DEF IInv, AttemptsExact, Outcome
  <2>6. QED
    BY <2>1, <2>2, <2>3, <2>4, <2>5, OneMoves DEF Delivery!Ask
<1>4. ASSUME NEW h \in Hooks, Delivered(h) PROVE Delivery!Answer(h)
  <2>1. /\ h \in inFlight /\ inFlight' = inFlight \ {h} /\ delivered' = delivered \cup {h}
        /\ UNCHANGED <<retryQueue, recorded, lost, requests>>
    BY <1>4 DEF Delivered, Settle
  <2>2. Outcome(h) = "asked" /\ Outcome(h)' = "delivered"
    BY <2>1, OutcomeIs DEF IInv, Outcome
  <2>3. \A k \in Hooks \ {h} : Outcome(k)' = Outcome(k)
    BY <2>1 DEF Outcome
  <2>4. QED
    BY <2>1, <2>2, <2>3, OneMoves DEF Delivery!Answer
<1>5. ASSUME NEW h \in Hooks, Refused(h) PROVE Delivery!Answer(h)
  <2>1. /\ h \in inFlight /\ inFlight' = inFlight \ {h}
        /\ UNCHANGED <<delivered, lost, requests>>
    BY <1>5 DEF Refused, Settle
  <2>2. /\ Outcome(h) = "asked" /\ h \notin Range(retryQueue) /\ h \notin Settled
        /\ requests[h] = attempt[h] + 1 /\ attempt[h] \in Nat /\ attempt[h] < MAX_RETRIES
    BY <2>1, OutcomeIs DEF IInv, TypeOK, Conserved, AttemptsExact
  <2>3. CASE MayRetry(h) /\ retryQueue' = Append(retryQueue, h) /\ UNCHANGED recorded
    <3>1. Range(retryQueue') = Range(retryQueue) \cup {h}
      BY <2>2, <2>3, AppendFacts DEF IInv, TypeOK, Conserved
    <3>2. Outcome(h)' = "owed"
      BY <2>1, <2>2, <2>3, <3>1 DEF Outcome, Settled
    <3>3. \A k \in Hooks \ {h} : Outcome(k)' = Outcome(k)
      BY <2>1, <2>3, <3>1 DEF Outcome
    <3>4. requests[h] < MAX_RETRIES
      BY <2>2, <2>3, RetriesAssumption DEF MayRetry
    <3>5. QED
      BY <2>1, <2>2, <3>2, <3>3, <3>4, OneMoves DEF Delivery!Answer
  <2>4. CASE ~MayRetry(h) /\ recorded' = recorded \cup {h} /\ UNCHANGED retryQueue
    <3>1. Outcome(h)' = "failed"
      BY <2>1, <2>2, <2>4 DEF Outcome, Settled
    <3>2. \A k \in Hooks \ {h} : Outcome(k)' = Outcome(k)
      BY <2>1, <2>4 DEF Outcome
    <3>3. requests[h] = MAX_RETRIES
      BY <2>2, <2>4, RetriesAssumption DEF MayRetry
    <3>4. QED
      BY <2>1, <2>2, <3>1, <3>2, <3>3, OneMoves DEF Delivery!Answer
  <2>5. QED
    BY <1>5, <2>3, <2>4 DEF Refused
<1>6. ASSUME NEW h \in Hooks, BreaksOff(h) \/ BackoffOver(h) PROVE UNCHANGED Delivery!vars
  BY <1>6, NoneMoves DEF BreaksOff, BackoffOver, Outcome
<1>7. ASSUME Crash PROVE Delivery!End
  <2>1. /\ lost' = lost \cup Queued \cup inFlight /\ inFlight' = {} /\ Range(retryQueue') = {}
        /\ UNCHANGED <<delivered, recorded, requests>>
    BY <1>7 DEF Crash, Range
  <2>2. ASSUME NEW h \in Hooks
        PROVE  Outcome(h)' = IF Outcome(h) \in {"owed", "asked"} THEN "lost" ELSE Outcome(h)
    BY <2>1 DEF IInv, Conserved, Outcome, Settled
  <2>3. QED
    BY <2>1, <2>2 DEF Delivery!End
<1>8. CASE UNCHANGED vars
  BY <1>8, NoneMoves DEF vars, Outcome
<1>9. QED
  BY <1>1, <1>2, <1>3, <1>4, <1>5, <1>6, <1>7, <1>8 DEF Next, Delivery!Next

\* For any number of webhooks, chains and crashes, every webhook fares as WebhookDelivery
\* promises.
THEOREM Refinement == Spec => DeliveryImplemented
<1>1. Init => Delivery!Init
  BY DEF Init, Outcome, Queued, Range, Delivery!Init
<1>2. QED
  BY <1>1, StepRefines, Invariance, PTL DEF DeliveryImplemented, Delivery!Spec, Spec

=============================================================================
