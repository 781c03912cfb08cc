------------------------ MODULE ConnectionPoolProofs ------------------------
(* Proofs about ConnectionPool, for every number of calls and every size.   *)
EXTENDS ConnectionPool, TLAPS, FiniteSetTheorems

(* The inductive invariant behind these properties.                         *)

\* Call k works on connection c or owns it.
Engaging == {"validating", "destroying", "created", "holding", "lost"}
Engaged(k, c) == picked[k] = c /\ stage[k] \in Engaging

\* Who works on a connection works on one that exists.
PickedExists == \A k \in Calls : stage[k] \in Engaging => picked[k] \in 1..created

\* An uncontended connection of the pool is engaged by one call at most, and is
\* marked if that call owns it.
Exclusive ==
  \A c \in pool \ contended :
    /\ \A j, k \in Calls : Engaged(j, c) /\ Engaged(k, c) => j = k
    /\ \A k \in Calls : Owns(k, c) => c \in inUse

\* While the pool is open, an uncontended connection that a call works on is in the
\* pool and not about to be destroyed by a cleanup.
Spared ==
  closed = "open" =>
    /\ closing = {}
    /\ \A k \in Calls : stage[k] \in Engaging /\ picked[k] \notin contended =>
         picked[k] \in pool \ doomed

\* Unless creations overlapped, the one in flight has its place kept.
PlaceKept ==
  ~crowded =>
    /\ \A j, k \in Calls : stage[j] = "creating" /\ stage[k] = "creating" => j = k
    /\ \A k \in Calls : stage[k] = "creating" => toInit = 0 /\ HasRoom
    /\ Cardinality(pool) + toInit <= MaxConnections

\* A call has its callback in the queue, once, exactly as long as it waits.
WaitersQueued ==
  /\ \A k \in Calls : stage[k] = "waiting" <=> k \in Range(waitingQueue)
  /\ \A i, j \in DOMAIN waitingQueue : waitingQueue[i] = waitingQueue[j] => i = j

IInv ==
  /\ TypeOK
  /\ PickedExists
  /\ WaitersQueued
  /\ Exclusive
  /\ Spared
  /\ PlaceKept
  /\ UseIsOwed

\* What a release and a cleanup do is always looked into.
USE DEF NobodyWaits, Unmarked, MarkedAgain, Cleanable

-----------------------------------------------------------------------------
(* Facts about the data.                                                    *)

\* A pool is finite, and its size is a number.
LEMMA PoolFinite == ASSUME TypeOK PROVE IsFiniteSet(pool) /\ Cardinality(pool) \in Nat
<1>1. IsFiniteSet(1..created)
  BY FS_Interval DEF TypeOK
<1>2. IsFiniteSet(pool)
  BY <1>1, FS_Subset DEF TypeOK
<1>3. QED
  BY <1>2, FS_CardinalityType

\* A new connection is not in the pool and makes it larger by one.
LEMMA PoolGrows ==
  ASSUME TypeOK
  PROVE  /\ created + 1 \notin pool
         /\ Cardinality(pool \cup {created + 1}) = Cardinality(pool) + 1
<1>1. created + 1 \notin pool
  BY DEF TypeOK
<1>2. QED
  BY <1>1, PoolFinite, FS_AddElement

\* Whatever is taken from the pool, it does not become larger.
LEMMA PoolShrinks ==
  ASSUME TypeOK, NEW S \in SUBSET pool
  PROVE  Cardinality(S) \in Nat /\ Cardinality(S) <= Cardinality(pool)
<1>1. IsFiniteSet(S)
  BY PoolFinite, FS_Subset
<1>2. Cardinality(S) \in Nat
  BY <1>1, FS_CardinalityType
<1>3. QED
  BY <1>2, PoolFinite, FS_Subset

\* Appending a new element keeps a sequence free of duplicates.
LEMMA AppendRange ==
  ASSUME NEW S, NEW q \in Seq(S), NEW x \in S
  PROVE  /\ Append(q, x) \in Seq(S)
         /\ Range(Append(q, x)) = Range(q) \cup {x}
<1>1. /\ Append(q, x) \in Seq(S)
      /\ Len(Append(q, x)) = Len(q) + 1
      /\ \A i \in 1..Len(q) : Append(q, x)[i] = q[i]
      /\ Append(q, x)[Len(q) + 1] = x
  OBVIOUS
<1>2. DOMAIN q = 1..Len(q) /\ DOMAIN Append(q, x) = 1..(Len(q) + 1) /\ Len(q) \in Nat
  BY <1>1
<1>3. Range(q) \cup {x} \subseteq Range(Append(q, x))
  BY <1>1, <1>2 DEF Range
<1>4. ASSUME NEW y \in Range(Append(q, x)) PROVE y \in Range(q) \cup {x}
  <2>1. PICK i \in 1..(Len(q) + 1) : y = Append(q, x)[i]
    BY <1>2 DEF Range
  <2>2. CASE i = Len(q) + 1
    BY <2>1, <2>2, <1>1
  <2>3. CASE i \in 1..Len(q)
    BY <2>1, <2>3, <1>1, <1>2 DEF Range
  <2>4. QED
    BY <2>1, <2>2, <2>3, <1>2
<1>5. QED
  BY <1>1, <1>3, <1>4

NoDuplicates(q) == \A i, j \in DOMAIN q : q[i] = q[j] => i = j

LEMMA AppendUnique ==
  ASSUME NEW S, NEW q \in Seq(S), NEW x \in S, x \notin Range(q), NoDuplicates(q)
  PROVE  NoDuplicates(Append(q, x))
<1>1. /\ Len(Append(q, x)) = Len(q) + 1
      /\ \A i \in 1..Len(q) : Append(q, x)[i] = q[i]
      /\ Append(q, x)[Len(q) + 1] = x
      /\ DOMAIN q = 1..Len(q) /\ DOMAIN Append(q, x) = 1..(Len(q) + 1) /\ Len(q) \in Nat
  OBVIOUS
<1>2. \A i \in 1..Len(q) : q[i] # x
  BY <1>1 DEF Range
<1>3. SUFFICES ASSUME NEW i \in 1..(Len(q) + 1), NEW j \in 1..(Len(q) + 1),
                      Append(q, x)[i] = Append(q, x)[j]
               PROVE  i = j
  BY <1>1 DEF NoDuplicates
<1>4. CASE i \in 1..Len(q) /\ j \in 1..Len(q)
  BY <1>1, <1>3, <1>4 DEF NoDuplicates
<1>5. CASE i = Len(q) + 1 \/ j = Len(q) + 1
  BY <1>1, <1>2, <1>3, <1>5
<1>6. QED
  BY <1>1, <1>4, <1>5

\* The head of a queue without duplicates is not in its tail.
LEMMA TailRange ==
  ASSUME NEW S, NEW q \in Seq(S), q # <<>>, NoDuplicates(q)
  PROVE  /\ Head(q) \in S /\ Head(q) \in Range(q)
         /\ Tail(q) \in Seq(S)
         /\ Range(Tail(q)) = Range(q) \ {Head(q)}
         /\ NoDuplicates(Tail(q))
<1>1. /\ Len(q) \in Nat \ {0} /\ DOMAIN q = 1..Len(q)
      /\ Tail(q) \in Seq(S) /\ Len(Tail(q)) = Len(q) - 1
      /\ DOMAIN Tail(q) = 1..(Len(q) - 1)
      /\ \A i \in 1..(Len(q) - 1) : Tail(q)[i] = q[i + 1]
      /\ Head(q) = q[1] /\ q[1] \in S
  OBVIOUS
<1>2. Head(q) \in Range(q)
  BY <1>1 DEF Range
<1>3. ASSUME NEW y \in Range(Tail(q)) PROVE y \in Range(q) \ {Head(q)}
  <2>1. PICK i \in 1..(Len(q) - 1) : y = q[i + 1]
    BY <1>1 DEF Range
  <2>2. i + 1 \in DOMAIN q /\ 1 \in DOMAIN q /\ i + 1 # 1
    BY <1>1
  <2>3. QED
    BY <2>1, <2>2, <1>1 DEF Range, NoDuplicates
<1>4. ASSUME NEW y \in Range(q), y # Head(q) PROVE y \in Range(Tail(q))
  <2>1. PICK i \in 1..Len(q) : y = q[i]
    BY <1>1 DEF Range
  <2>2. i - 1 \in 1..(Len(q) - 1)
    BY <2>1, <1>1, <1>4
  <2>3. y = Tail(q)[i - 1]
    BY <2>1, <2>2, <1>1
  <2>4. QED
    BY <2>2, <2>3, <1>1 DEF Range
<1>5. NoDuplicates(Tail(q))
  BY <1>1 DEF NoDuplicates
<1>6. QED
  BY <1>1, <1>2, <1>3, <1>4, <1>5

-----------------------------------------------------------------------------
(* Types.                                                                   *)

USE DEF callVars, initVars, closeVars, history

\* What a call may become is a stage.
LEMMA StageTypes ==
  /\ \A k \in Calls : Given(k) \in {"holding", "lost"}
  /\ Engaging \subseteq Stages /\ Pending \subseteq Stages /\ Working \subseteq Pending
BY DEF Given, Engaging, Stages, Pending, Working

LEMMA CreateOrQueueTypes ==
  ASSUME TypeOK, NEW k \in Calls, CreateOrQueue(k)
  PROVE  /\ \/ stage' = [stage EXCEPT ![k] = "creating"]
            \/ stage' = [stage EXCEPT ![k] = "queueing"]
         /\ stage' \in [Calls -> Stages]
         /\ crowded' \in BOOLEAN
<1>1. CASE HasRoom
  <2>1. stage' = [stage EXCEPT ![k] = "creating"] /\ crowded' = (crowded \/ CreationInFlight)
    BY <1>1 DEF CreateOrQueue
  <2>2. stage' \in [Calls -> Stages]
    BY <2>1 DEF TypeOK, Stages, Pending, Working
  <2>3. crowded' \in BOOLEAN
    BY <2>1, Zenon
  <2>4. QED
    BY <2>1, <2>2, <2>3
<1>2. CASE ~HasRoom
  <2>1. stage' = [stage EXCEPT ![k] = "queueing"] /\ crowded' = crowded
    BY <1>2 DEF CreateOrQueue
  <2>2. QED
    BY <2>1 DEF TypeOK, Stages, Pending, Working
<1>3. QED
  BY <1>1, <1>2

\* Every step preserves the types.
LEMMA TypeStep ==
  ASSUME TypeOK, PickedExists, [Next]_vars PROVE TypeOK'
<1> USE StageTypes DEF TypeOK
<1>1. CASE InitCreated
  BY <1>1, PoolAssumption DEF InitCreated
<1>2. CASE InitFails
  BY <1>2, PoolAssumption DEF InitFails
<1>3. ASSUME NEW k \in Calls, AcquireIdle(k) PROVE TypeOK'
  <2>1. PICK c \in Idle :
          /\ picked' = [picked EXCEPT ![k] = c]
          /\ contended' = IF InTransit(c) THEN contended \cup {c} ELSE contended
    BY <1>3, Zenon DEF AcquireIdle
  <2>2. c \in 1..created
    BY DEF Idle
  <2>3. contended' \subseteq 1..created
    BY <2>1, <2>2
  <2>4. QED
    BY <1>3, <2>1, <2>2, <2>3 DEF AcquireIdle, Stages, Pending, Working
<1>4. ASSUME NEW k \in Calls, AcquireOther(k) PROVE TypeOK'
  BY <1>4, CreateOrQueueTypes DEF AcquireOther
<1>5. ASSUME NEW k \in Calls, Validated(k) PROVE TypeOK'
  BY <1>5 DEF Validated, PickedExists, Engaging, Stages
<1>6. ASSUME NEW k \in Calls, Invalid(k) PROVE TypeOK'
  BY <1>6 DEF Invalid, Stages, Pending, Working
<1>7. ASSUME NEW k \in Calls, Destroyed(k) PROVE TypeOK'
  BY <1>7 DEF Destroyed, Stages, Pending, Working
<1>8. ASSUME NEW k \in Calls, SizeCheck(k) PROVE TypeOK'
  BY <1>8, CreateOrQueueTypes DEF SizeCheck
<1>9. ASSUME NEW k \in Calls, Created(k) PROVE TypeOK'
  BY <1>9 DEF Created, Stages, Pending, Working
<1>10. ASSUME NEW k \in Calls, CreateFails(k) PROVE TypeOK'
  BY <1>10 DEF CreateFails, Stages
<1>11. ASSUME NEW k \in Calls, TakeCreated(k) PROVE TypeOK'
  BY <1>11 DEF TakeCreated, PickedExists, Engaging, Stages
<1>12. ASSUME NEW k \in Calls, Enqueue(k) PROVE TypeOK'
  BY <1>12 DEF Enqueue, Stages, Pending, Working
<1>13. ASSUME NEW k \in Calls, Expire(k) PROVE TypeOK'
  BY <1>13 DEF Expire
<1>14. ASSUME NEW k \in Calls, ReleaseUnknown(k) PROVE TypeOK'
  BY <1>14 DEF ReleaseUnknown, Stages
<1>15. ASSUME NEW k \in Calls, ReleaseIdle(k) PROVE TypeOK'
  BY <1>15 DEF ReleaseIdle, Stages
<1>16. ASSUME NEW k \in Calls, ReleaseToWaiter(k) PROVE TypeOK'
  <2> DEFINE w == Head(waitingQueue)
  <2>1. w \in Calls /\ Tail(waitingQueue) \in Seq(Calls)
    BY <1>16 DEF ReleaseToWaiter
  <2>2. picked[k] \in 1..created
    BY <1>16 DEF ReleaseToWaiter
  <2>3. stage' = [stage EXCEPT ![k] = "released", ![w] = Given(w)]
    BY <1>16 DEF ReleaseToWaiter
  <2>4. stage' \in [Calls -> Stages]
    BY <2>1, <2>3 DEF Stages
  <2>5. picked' \in [Calls -> (1..created) \cup {NoConn}]
    BY <1>16, <2>1, <2>2 DEF ReleaseToWaiter
  <2>6. QED
    BY <1>16, <2>1, <2>2, <2>4, <2>5 DEF ReleaseToWaiter
<1>17. CASE Cleanup
  <2>1. PICK S \in SUBSET Idle : doomed' = doomed \cup S
                              /\ contended' = contended \cup {c \in S : InTransit(c)}
    BY <1>17, Zenon DEF Cleanup
  <2>2. S \subseteq 1..created
    BY DEF Idle
  <2>3. QED
    BY <1>17, <2>1, <2>2 DEF Cleanup
<1>18. ASSUME NEW c \in doomed, CleanupDestroyed(c) PROVE TypeOK'
  BY <1>18 DEF CleanupDestroyed
<1>19. CASE Close
  BY <1>19 DEF Close
<1>20. ASSUME NEW c \in closing, CloseDestroyed(c) PROVE TypeOK'
  BY <1>20 DEF CloseDestroyed
<1>21. CASE CloseEnds
  <2>1. stage' \in [Calls -> Stages]
    BY <1>21 DEF CloseEnds, Stages, Pending
  <2>2. QED
    BY <1>21, <2>1 DEF CloseEnds
<1>22. CASE UNCHANGED vars
  BY <1>22 DEF vars
<1>23. QED
  BY <1>1, <1>2, <1>3, <1>4, <1>5, <1>6, <1>7, <1>8, <1>9, <1>10, <1>11, <1>12, <1>13,
     <1>14, <1>15, <1>16, <1>17, <1>18, <1>19, <1>20, <1>21, <1>22 DEF Next, Release

-----------------------------------------------------------------------------
(* The connections that calls work on exist.                                *)
LEMMA PickedStep ==
  ASSUME TypeOK, PickedExists, [Next]_vars PROVE PickedExists'
<1> USE DEF TypeOK, PickedExists, Engaging
<1>1. CASE InitCreated \/ InitFails
  BY <1>1 DEF InitCreated, InitFails
<1>2. ASSUME NEW k \in Calls, AcquireIdle(k) PROVE PickedExists'
  BY <1>2 DEF AcquireIdle, Idle
<1>3. ASSUME NEW k \in Calls, AcquireOther(k) \/ SizeCheck(k) PROVE PickedExists'
  <2>1. \/ stage' = [stage EXCEPT ![k] = "creating"]
        \/ stage' = [stage EXCEPT ![k] = "queueing"]
    BY <1>3, CreateOrQueueTypes DEF AcquireOther, SizeCheck
  <2>2. created' = created /\ \A j \in Calls \ {k} : picked'[j] = picked[j]
    BY <1>3 DEF AcquireOther, SizeCheck
  <2>3. QED
    BY <2>1, <2>2
<1>4. ASSUME NEW k \in Calls, Validated(k) \/ TakeCreated(k) PROVE PickedExists'
  BY <1>4 DEF Validated, TakeCreated
<1>5. ASSUME NEW k \in Calls, Invalid(k) \/ Destroyed(k) PROVE PickedExists'
  BY <1>5 DEF Invalid, Destroyed
<1>6. ASSUME NEW k \in Calls, Created(k) PROVE PickedExists'
  BY <1>6 DEF Created
<1>7. ASSUME NEW k \in Calls, CreateFails(k) \/ Enqueue(k) \/ Expire(k) PROVE PickedExists'
  BY <1>7 DEF CreateFails, Enqueue, Expire
<1>8. ASSUME NEW k \in Calls, ReleaseUnknown(k) \/ ReleaseIdle(k) PROVE PickedExists'
  BY <1>8 DEF ReleaseUnknown, ReleaseIdle
<1>9. ASSUME NEW k \in Calls, ReleaseToWaiter(k) PROVE PickedExists'
  <2> DEFINE w == Head(waitingQueue)
  <2>1. w \in Calls /\ picked[k] \in 1..created /\ created' = created
    BY <1>9 DEF ReleaseToWaiter
  <2>2. picked' = [picked EXCEPT ![w] = picked[k]]
    BY <1>9 DEF ReleaseToWaiter
  <2>3. stage' = [stage EXCEPT ![k] = "released", ![w] = Given(w)]
    BY <1>9 DEF ReleaseToWaiter
  <2>4. QED
    BY <2>1, <2>2, <2>3
<1>10. CASE Cleanup \/ Close
  BY <1>10 DEF Cleanup, Close
<1>11. ASSUME NEW c, CleanupDestroyed(c) \/ CloseDestroyed(c) PROVE PickedExists'
  BY <1>11 DEF CleanupDestroyed, CloseDestroyed
<1>12. CASE CloseEnds
  BY <1>12 DEF CloseEnds
<1>13. CASE UNCHANGED vars
  BY <1>13 DEF vars
<1>14. QED
  BY <1>1, <1>2, <1>3, <1>4, <1>5, <1>6, <1>7, <1>8, <1>9, <1>10, <1>11, <1>12, <1>13 DEF Next, Release

-----------------------------------------------------------------------------
(* The waiting queue.                                                       *)

\* A step that moves calls between stages other than "waiting" leaves the queue right.
LEMMA QueueKept ==
  ASSUME WaitersQueued, waitingQueue' = waitingQueue,
         \A k \in Calls : stage'[k] = "waiting" <=> stage[k] = "waiting"
  PROVE  WaitersQueued'
BY DEF WaitersQueued

LEMMA QueueStep ==
  ASSUME TypeOK, WaitersQueued, [Next]_vars PROVE WaitersQueued'
<1> DEFINE Same == \A k \in Calls : stage'[k] = "waiting" <=> stage[k] = "waiting"
<1>1. CASE InitCreated \/ InitFails \/ Cleanup \/ Close
  BY <1>1, QueueKept DEF InitCreated, InitFails, Cleanup, Close
<1>2. ASSUME NEW k \in Calls,
             AcquireIdle(k) \/ Validated(k) \/ Invalid(k) \/ Destroyed(k)
      PROVE  WaitersQueued'
  <2>1. Same /\ waitingQueue' = waitingQueue
    BY <1>2 DEF AcquireIdle, Validated, Invalid, Destroyed, Given, TypeOK
  <2>2. QED
    BY <2>1, QueueKept
<1>3. ASSUME NEW k \in Calls, AcquireOther(k) \/ SizeCheck(k) PROVE WaitersQueued'
  <2>1. \/ stage' = [stage EXCEPT ![k] = "creating"]
        \/ stage' = [stage EXCEPT ![k] = "queueing"]
    BY <1>3, CreateOrQueueTypes DEF AcquireOther, SizeCheck
  <2>2. stage[k] \in {"idle", "destroyed"} /\ waitingQueue' = waitingQueue
    BY <1>3 DEF AcquireOther, SizeCheck
  <2>3. Same
    BY <2>1, <2>2 DEF TypeOK
  <2>4. QED
    BY <2>2, <2>3, QueueKept
<1>4. ASSUME NEW k \in Calls,
             Created(k) \/ CreateFails(k) \/ TakeCreated(k) \/ Expire(k)
      PROVE  WaitersQueued'
  <2>1. Same /\ waitingQueue' = waitingQueue
    BY <1>4 DEF Created, CreateFails, TakeCreated, Expire, Given, TypeOK
  <2>2. QED
    BY <2>1, QueueKept
<1>5. ASSUME NEW k \in Calls, Enqueue(k) PROVE WaitersQueued'
  <2>1. k \notin Range(waitingQueue) /\ NoDuplicates(waitingQueue)
    BY <1>5 DEF Enqueue, WaitersQueued, NoDuplicates
  <2>2. waitingQueue' = Append(waitingQueue, k) /\ waitingQueue \in Seq(Calls)
    BY <1>5 DEF Enqueue, TypeOK
  <2>3. Range(waitingQueue') = Range(waitingQueue) \cup {k}
    BY <2>2, AppendRange
  <2>4. NoDuplicates(waitingQueue')
    BY <2>1, <2>2, AppendUnique
  <2>5. \A j \in Calls : stage'[j] = "waiting" <=> j \in Range(waitingQueue')
    BY <1>5, <2>3 DEF Enqueue, WaitersQueued, TypeOK
  <2>6. QED
    BY <2>4, <2>5 DEF WaitersQueued, NoDuplicates
<1>6. ASSUME NEW k \in Calls, ReleaseUnknown(k) \/ ReleaseIdle(k) PROVE WaitersQueued'
  <2>1. Same /\ waitingQueue' = waitingQueue
    BY <1>6 DEF ReleaseUnknown, ReleaseIdle, TypeOK
  <2>2. QED
    BY <2>1, QueueKept
<1>7. ASSUME NEW k \in Calls, ReleaseToWaiter(k) PROVE WaitersQueued'
  <2> DEFINE w == Head(waitingQueue)
  <2>1. NoDuplicates(waitingQueue) /\ waitingQueue # <<>> /\ waitingQueue \in Seq(Calls)
    BY <1>7 DEF ReleaseToWaiter, WaitersQueued, NoDuplicates, TypeOK
  <2>2. /\ w \in Calls
        /\ Range(Tail(waitingQueue)) = Range(waitingQueue) \ {w}
        /\ NoDuplicates(Tail(waitingQueue))
    BY <2>1, TailRange
  <2>3. stage' = [stage EXCEPT ![k] = "released", ![w] = Given(w)]
    BY <1>7 DEF ReleaseToWaiter
  <2>4. waitingQueue' = Tail(waitingQueue) /\ stage[k] = "holding"
    BY <1>7 DEF ReleaseToWaiter
  <2>5. \A j \in Calls : stage'[j] = "waiting" <=> j \in Range(waitingQueue')
    BY <2>2, <2>3, <2>4 DEF WaitersQueued, TypeOK, Given
  <2>6. QED
    BY <2>2, <2>4, <2>5 DEF WaitersQueued, NoDuplicates
<1>8. ASSUME NEW c, CleanupDestroyed(c) \/ CloseDestroyed(c) PROVE WaitersQueued'
  BY <1>8, QueueKept DEF CleanupDestroyed, CloseDestroyed
<1>9. CASE CloseEnds
  <2>1. /\ waitingQueue' = <<>>
        /\ \A k \in Calls : stage'[k] = IF k \in Range(waitingQueue) THEN "dropped" ELSE stage[k]
    BY <1>9 DEF CloseEnds
  <2>2. DOMAIN waitingQueue' = {} /\ Range(waitingQueue') = {}
    BY <2>1 DEF Range
  <2>3. \A k \in Calls : stage'[k] # "waiting"
    BY <2>1 DEF WaitersQueued
  <2>4. QED
    BY <2>2, <2>3 DEF WaitersQueued
<1>10. CASE UNCHANGED vars
  BY <1>10, QueueKept DEF vars
<1>11. QED
  BY <1>1, <1>2, <1>3, <1>4, <1>5, <1>6, <1>7, <1>8, <1>9, <1>10 DEF Next, Release

-----------------------------------------------------------------------------
(* Who may work on an uncontended connection.                               *)

\* A step keeps Exclusive if it engages no call anew and unmarks no connection.
LEMMA ExclusiveKept ==
  ASSUME Exclusive, pool' \subseteq pool, contended \subseteq contended',
         \A k \in Calls : \A c \in pool' \ contended' :
           /\ Engaged(k, c)' => Engaged(k, c)
           /\ Owns(k, c)' => Owns(k, c) \/ c \in inUse'
           /\ c \in inUse => c \in inUse'
  PROVE  Exclusive'
BY DEF Exclusive

LEMMA ExclusiveStep ==
  ASSUME TypeOK, PickedExists, WaitersQueued, Exclusive, [Next]_vars
  PROVE  Exclusive'
<1> USE DEF TypeOK, Engaged, Owns, Engaging
<1>1. CASE InitCreated
  <2>1. \A k \in Calls : ~Engaged(k, created + 1) /\ ~Owns(k, created + 1)
    BY DEF PickedExists
  <2>2. pool' = pool \cup {created + 1} /\ UNCHANGED <<inUse, contended, stage, picked>>
    BY <1>1 DEF InitCreated
  <2>3. QED
    BY <2>1, <2>2 DEF Exclusive
<1>2. CASE InitFails \/ Cleanup \/ Close
  <2>1. UNCHANGED <<pool, inUse, stage, picked>> /\ contended \subseteq contended'
    BY <1>2 DEF InitFails, Cleanup, Close
  <2>2. QED
    BY <2>1, ExclusiveKept
<1>3. ASSUME NEW k \in Calls, AcquireIdle(k) PROVE Exclusive'
  <2>1. PICK c \in Idle :
          /\ picked' = [picked EXCEPT ![k] = c]
          /\ contended' = IF InTransit(c) THEN contended \cup {c} ELSE contended
    BY <1>3, Zenon DEF AcquireIdle
  <2>2. /\ stage[k] = "idle" /\ stage' = [stage EXCEPT ![k] = "validating"]
        /\ UNCHANGED <<pool, inUse>>
    BY <1>3 DEF AcquireIdle
  <2>3. \A j \in Calls : c \notin contended' => ~Engaged(j, c)
    <3>1. SUFFICES ASSUME NEW j \in Calls, c \notin contended', Engaged(j, c) PROVE FALSE
      OBVIOUS
    <3>2. ~InTransit(c) /\ c \notin contended
      BY <2>1, <3>1
    <3>3. stage[j] \notin Working
      BY <3>1, <3>2 DEF InTransit, PickedBy
    <3>4. Owns(j, c)
      BY <3>1, <3>3 DEF Working
    <3>5. QED
      BY <3>2, <3>4 DEF Exclusive, Idle
  <2>4. \A j \in Calls : \A d \in pool : j # k \/ d # c =>
          /\ Engaged(j, d)' => Engaged(j, d)
          /\ Owns(j, d)' => Owns(j, d)
    BY <2>1, <2>2
  <2>5. ~Owns(k, c)' /\ contended \subseteq contended'
    BY <2>1, <2>2
  <2>6. QED
    BY <2>2, <2>3, <2>4, <2>5 DEF Exclusive
<1>4. ASSUME NEW k \in Calls, AcquireOther(k) \/ SizeCheck(k) PROVE Exclusive'
  <2>1. \/ stage' = [stage EXCEPT ![k] = "creating"]
        \/ stage' = [stage EXCEPT ![k] = "queueing"]
    BY <1>4, CreateOrQueueTypes DEF AcquireOther, SizeCheck
  <2>2. UNCHANGED <<pool, inUse, contended>> /\ \A j \in Calls \ {k} : picked'[j] = picked[j]
    BY <1>4 DEF AcquireOther, SizeCheck
  <2>3. QED
    BY <2>1, <2>2, ExclusiveKept
<1>5. ASSUME NEW k \in Calls, Validated(k) \/ TakeCreated(k) PROVE Exclusive'
  <2>1. /\ stage[k] \in Engaging /\ stage' = [stage EXCEPT ![k] = Given(k)]
        /\ inUse' = inUse \cup {picked[k]} /\ UNCHANGED <<pool, contended, picked>>
    BY <1>5 DEF Validated, TakeCreated
  <2>2. \A j \in Calls : \A c \in pool :
          /\ Engaged(j, c)' => Engaged(j, c)
          /\ Owns(j, c)' => Owns(j, c) \/ c \in inUse'
    BY <2>1, StageTypes
  <2>3. QED
    BY <2>1, <2>2, ExclusiveKept
<1>6. ASSUME NEW k \in Calls, Invalid(k) \/ Destroyed(k) PROVE Exclusive'
  <2>1. /\ stage[k] \in Engaging /\ \A j \in Calls \ {k} : stage'[j] = stage[j]
        /\ stage'[k] \in {"destroying", "destroyed"}
        /\ pool' \subseteq pool /\ UNCHANGED <<inUse, contended, picked>>
    BY <1>6 DEF Invalid, Destroyed
  <2>2. QED
    BY <2>1, ExclusiveKept
<1>7. ASSUME NEW k \in Calls, Created(k) PROVE Exclusive'
  <2>1. \A j \in Calls : ~Engaged(j, created + 1) /\ ~Owns(j, created + 1)
    BY DEF PickedExists
  <2>2. /\ pool' = pool \cup {created + 1} /\ UNCHANGED <<inUse, contended>>
        /\ picked' = [picked EXCEPT ![k] = created + 1]
        /\ stage' = [stage EXCEPT ![k] = "created"]
    BY <1>7 DEF Created
  <2>3. \A j \in Calls : \A c \in pool' : j # k \/ c # created + 1 =>
          /\ Engaged(j, c)' => Engaged(j, c)
          /\ Owns(j, c)' => Owns(j, c)
    BY <2>2
  <2>4. ~Owns(k, created + 1)'
    BY <2>2
  <2>5. QED
    BY <2>1, <2>2, <2>3, <2>4 DEF Exclusive
<1>8. ASSUME NEW k \in Calls, CreateFails(k) \/ Enqueue(k) \/ Expire(k) PROVE Exclusive'
  BY <1>8, ExclusiveKept DEF CreateFails, Enqueue, Expire
<1>9. ASSUME NEW k \in Calls, ReleaseUnknown(k) PROVE Exclusive'
  BY <1>9, ExclusiveKept DEF ReleaseUnknown
<1>10. ASSUME NEW k \in Calls, ReleaseIdle(k) PROVE Exclusive'
  <2>1. /\ stage[k] = "holding" /\ stage' = [stage EXCEPT ![k] = "released"]
        /\ inUse' = inUse \ {picked[k]} /\ UNCHANGED <<pool, contended, picked>>
    BY <1>10 DEF ReleaseIdle
  <2>2. \A j \in Calls : \A c \in pool : Engaged(j, c)' => Engaged(j, c) /\ j # k
    BY <2>1
  <2>3. \A j \in Calls : \A c \in pool : Owns(j, c)' => Owns(j, c) /\ j # k
    BY <2>1
  <2>4. picked[k] \in pool \ contended => \A j \in Calls : ~Owns(j, picked[k])'
    BY <2>1, <2>3 DEF Exclusive
  <2>5. QED
    BY <2>1, <2>2, <2>3, <2>4 DEF Exclusive
<1>11. ASSUME NEW k \in Calls, ReleaseToWaiter(k) PROVE Exclusive'
  <2> DEFINE w == Head(waitingQueue)
  <2>1. w \in Calls /\ stage[w] = "waiting"
    BY <1>11, TailRange DEF ReleaseToWaiter, WaitersQueued, NoDuplicates
  <2>2. stage[k] = "holding" /\ inUse' = inUse \cup {picked[k]} /\ UNCHANGED <<pool, contended>>
    BY <1>11 DEF ReleaseToWaiter
  <2>3. picked' = [picked EXCEPT ![w] = picked[k]]
    BY <1>11 DEF ReleaseToWaiter
  <2>4. stage' = [stage EXCEPT ![k] = "released", ![w] = Given(w)]
    BY <1>11 DEF ReleaseToWaiter
  <2>5. \A j \in Calls : \A c \in pool : Engaged(j, c)' =>
          \/ j # k /\ Engaged(j, c)
          \/ j = w /\ c = picked[k]
    BY <2>1, <2>2, <2>3, <2>4
  <2>6. \A j \in Calls : \A c \in pool : Owns(j, c)' => Owns(j, c) \/ c \in inUse'
    BY <2>1, <2>2, <2>3, <2>4
  <2>7. Engaged(k, picked[k])
    BY <2>2
  <2>8. SUFFICES ASSUME NEW c \in pool \ contended
                 PROVE  /\ \A i, j \in Calls : Engaged(i, c)' /\ Engaged(j, c)' => i = j
                        /\ \A j \in Calls : Owns(j, c)' => c \in inUse'
    BY <2>2 DEF Exclusive
  <2>9. /\ \A i, j \in Calls : Engaged(i, c) /\ Engaged(j, c) => i = j
        /\ \A j \in Calls : Owns(j, c) => c \in inUse
    BY DEF Exclusive
  <2>10. \A j \in Calls : Owns(j, c)' => c \in inUse'
    BY <2>2, <2>6, <2>9
  <2>11. CASE c = picked[k]
    <3>1. \A j \in Calls : Engaged(j, c)' => j = w
      BY <2>5, <2>7, <2>9, <2>11
    <3>2. QED
      BY <2>10, <3>1
  <2>12. CASE c # picked[k]
    <3>1. \A j \in Calls : Engaged(j, c)' => Engaged(j, c)
      BY <2>5, <2>12
    <3>2. QED
      BY <2>9, <2>10, <3>1
  <2>13. QED
    BY <2>11, <2>12
<1>12. ASSUME NEW c, CleanupDestroyed(c) \/ CloseDestroyed(c) PROVE Exclusive'
  BY <1>12, ExclusiveKept DEF CleanupDestroyed, CloseDestroyed
<1>13. CASE CloseEnds
  BY <1>13 DEF CloseEnds, Exclusive
<1>14. CASE UNCHANGED vars
  BY <1>14, ExclusiveKept DEF vars
<1>15. QED
  BY <1>1, <1>2, <1>3, <1>4, <1>5, <1>6, <1>7, <1>8, <1>9, <1>10, <1>11, <1>12, <1>13, <1>14
     DEF Next, Release

-----------------------------------------------------------------------------
(* What a call works on is not destroyed under it.                          *)

\* A step keeps Spared if it gives no call a connection and destroys none.
LEMMA SparedKept ==
  ASSUME TypeOK, Spared, closed' = closed, closing' = closing, doomed' \subseteq doomed,
         pool \subseteq pool', contended \subseteq contended',
         \A k \in Calls : stage'[k] \in Engaging =>
           stage[k] \in Engaging /\ picked'[k] = picked[k]
  PROVE  Spared'
BY DEF Spared

LEMMA SparedStep ==
  ASSUME TypeOK, WaitersQueued, Exclusive, Spared, [Next]_vars
  PROVE  Spared'
<1> USE DEF TypeOK, Engaging
<1>1. CASE InitCreated \/ InitFails
  BY <1>1, SparedKept DEF InitCreated, InitFails
<1>2. ASSUME NEW k \in Calls, AcquireIdle(k) PROVE Spared'
  <2>1. PICK c \in Idle :
          /\ picked' = [picked EXCEPT ![k] = c]
          /\ contended' = IF InTransit(c) THEN contended \cup {c} ELSE contended
    BY <1>2, Zenon DEF AcquireIdle
  <2>2. UNCHANGED <<pool, doomed, closed, closing>>
        /\ stage' = [stage EXCEPT ![k] = "validating"]
    BY <1>2 DEF AcquireIdle
  <2>3. c \in pool /\ (c \in doomed => c \in contended')
    BY <2>1 DEF Idle, InTransit
  <2>4. contended \subseteq contended'
    BY <2>1
  <2>5. QED
    BY <2>1, <2>2, <2>3, <2>4 DEF Spared
<1>3. ASSUME NEW k \in Calls, AcquireOther(k) \/ SizeCheck(k) PROVE Spared'
  <2>1. \/ stage' = [stage EXCEPT ![k] = "creating"]
        \/ stage' = [stage EXCEPT ![k] = "queueing"]
    BY <1>3, CreateOrQueueTypes DEF AcquireOther, SizeCheck
  <2>2. UNCHANGED <<pool, doomed, closed, closing, contended>>
        /\ \A j \in Calls \ {k} : picked'[j] = picked[j]
    BY <1>3 DEF AcquireOther, SizeCheck
  <2>3. QED
    BY <2>1, <2>2, SparedKept
<1>4. ASSUME NEW k \in Calls, Validated(k) \/ TakeCreated(k) PROVE Spared'
  BY <1>4, SparedKept DEF Validated, TakeCreated
<1>5. ASSUME NEW k \in Calls, Invalid(k) PROVE Spared'
  BY <1>5, SparedKept DEF Invalid
<1>6. ASSUME NEW k \in Calls, Destroyed(k) PROVE Spared'
  <2>1. /\ stage[k] = "destroying" /\ stage' = [stage EXCEPT ![k] = "destroyed"]
        /\ pool' = pool \ {picked[k]}
        /\ UNCHANGED <<picked, doomed, closed, closing, contended>>
    BY <1>6 DEF Destroyed
  <2>2. SUFFICES ASSUME closed = "open", NEW j \in Calls, stage'[j] \in Engaging,
                        picked[j] \notin contended
                 PROVE  picked[j] \in pool' \ doomed
    BY <2>1 DEF Spared
  <2>3. j # k /\ stage[j] \in Engaging
    BY <2>1, <2>2
  <2>4. picked[j] \in pool \ doomed
    BY <2>2, <2>3 DEF Spared
  <2>5. picked[j] # picked[k]
    BY <2>1, <2>2, <2>3, <2>4 DEF Exclusive, Engaged
  <2>6. QED
    BY <2>1, <2>4, <2>5
<1>7. ASSUME NEW k \in Calls, Created(k) PROVE Spared'
  <2>1. created + 1 \notin doomed
    OBVIOUS
  <2>2. QED
    BY <1>7, <2>1 DEF Created, Spared
<1>8. ASSUME NEW k \in Calls, CreateFails(k) \/ Enqueue(k) \/ Expire(k) PROVE Spared'
  BY <1>8, SparedKept DEF CreateFails, Enqueue, Expire
<1>9. ASSUME NEW k \in Calls, ReleaseUnknown(k) \/ ReleaseIdle(k) PROVE Spared'
  BY <1>9, SparedKept DEF ReleaseUnknown, ReleaseIdle
<1>10. ASSUME NEW k \in Calls, ReleaseToWaiter(k) PROVE Spared'
  <2> DEFINE w == Head(waitingQueue)
  <2>1. w \in Calls /\ stage[k] = "holding" /\ UNCHANGED <<pool, doomed, closed, closing, contended>>
    BY <1>10 DEF ReleaseToWaiter
  <2>2. picked' = [picked EXCEPT ![w] = picked[k]]
    BY <1>10 DEF ReleaseToWaiter
  <2>3. stage' = [stage EXCEPT ![k] = "released", ![w] = Given(w)]
    BY <1>10 DEF ReleaseToWaiter
  <2>4. QED
    BY <2>1, <2>2, <2>3 DEF Spared
<1>11. CASE Cleanup
  <2>1. PICK S \in SUBSET Idle : doomed' = doomed \cup S
                              /\ contended' = contended \cup {c \in S : InTransit(c)}
    BY <1>11, Zenon DEF Cleanup
  <2>2. UNCHANGED <<pool, stage, picked, closed, closing>>
    BY <1>11 DEF Cleanup
  <2>3. SUFFICES ASSUME closed = "open", NEW j \in Calls, stage[j] \in Engaging,
                        picked[j] \notin contended'
                 PROVE  picked[j] \in pool \ doomed'
    BY <2>2 DEF Spared
  <2>4. picked[j] \in (pool \ doomed) \ contended
    BY <2>1, <2>3 DEF Spared
  <2>5. picked[j] \notin S
    <3>1. SUFFICES ASSUME picked[j] \in S PROVE FALSE
      OBVIOUS
    <3>2. ~InTransit(picked[j])
      BY <2>1, <2>3, <3>1
    <3>3. Owns(j, picked[j])
      BY <2>3, <3>2 DEF InTransit, PickedBy, Working, Owns
    <3>4. QED
      BY <2>4, <3>1, <3>3 DEF Exclusive, Idle
  <2>6. QED
    BY <2>1, <2>4, <2>5
<1>12. ASSUME NEW c \in doomed, CleanupDestroyed(c) PROVE Spared'
  BY <1>12 DEF CleanupDestroyed, Spared
<1>13. ASSUME NEW c \in closing, CloseDestroyed(c) PROVE Spared'
  BY <1>13 DEF CloseDestroyed, Spared
<1>14. CASE Close \/ CloseEnds
  BY <1>14 DEF Close, CloseEnds, Spared
<1>15. CASE UNCHANGED vars
  BY <1>15 DEF vars, Spared
<1>16. QED
  BY <1>1, <1>2, <1>3, <1>4, <1>5, <1>6, <1>7, <1>8, <1>9, <1>10, <1>11, <1>12, <1>13, <1>14, <1>15
     DEF Next, Release

-----------------------------------------------------------------------------
(* The size of the pool.                                                    *)

\* A step keeps PlaceKept if it begins no creation and adds no connection.
LEMMA PlaceLeft ==
  ASSUME TypeOK, PlaceKept, pool' \subseteq pool, crowded' = crowded,
         toInit' = toInit \/ toInit' = 0,
         \A k \in Calls : stage'[k] = "creating" => stage[k] = "creating"
  PROVE  PlaceKept'
<1>1. /\ Cardinality(pool') \in Nat /\ Cardinality(pool') <= Cardinality(pool)
      /\ Cardinality(pool) \in Nat /\ toInit \in Nat
  BY PoolFinite, PoolShrinks DEF TypeOK
<1>2. HasRoom => HasRoom'
  BY <1>1, PoolAssumption DEF HasRoom
<1>3. QED
  BY <1>1, <1>2, PoolAssumption DEF PlaceKept

LEMMA PlaceStep ==
  ASSUME TypeOK, PlaceKept, WaitersQueued, [Next]_vars PROVE PlaceKept'
<1> USE DEF TypeOK
<1>1. CASE InitCreated
  <2>1. /\ Cardinality(pool') = Cardinality(pool) + 1 /\ toInit' = toInit - 1
        /\ toInit \in Nat \ {0} /\ Cardinality(pool) \in Nat
        /\ UNCHANGED <<stage, crowded>>
    BY <1>1, PoolGrows, PoolFinite DEF InitCreated
  <2>2. ~crowded => \A k \in Calls : stage[k] # "creating"
    BY <2>1 DEF PlaceKept
  <2>3. ~crowded => Cardinality(pool') + toInit' <= MaxConnections
    BY <2>1, PoolAssumption DEF PlaceKept
  <2>4. QED
    BY <2>1, <2>2, <2>3 DEF PlaceKept
<1>2. CASE InitFails
  BY <1>2, PlaceLeft DEF InitFails
<1>3. ASSUME NEW k \in Calls,
             AcquireIdle(k) \/ Validated(k) \/ Invalid(k) \/ Destroyed(k) \/ TakeCreated(k)
      PROVE  PlaceKept'
  BY <1>3, PlaceLeft DEF AcquireIdle, Validated, Invalid, Destroyed, TakeCreated, Given
<1>4. ASSUME NEW k \in Calls, AcquireOther(k) \/ SizeCheck(k) PROVE PlaceKept'
  <2>1. CreateOrQueue(k) /\ UNCHANGED <<pool, toInit>>
    BY <1>4 DEF AcquireOther, SizeCheck
  <2>2. CASE ~HasRoom
    <3>1. stage' = [stage EXCEPT ![k] = "queueing"] /\ crowded' = crowded
      BY <2>1, <2>2 DEF CreateOrQueue
    <3>2. QED
      BY <2>1, <3>1, PlaceLeft
  <2>3. CASE HasRoom
    <3>1. stage' = [stage EXCEPT ![k] = "creating"] /\ crowded' = (crowded \/ CreationInFlight)
      BY <2>1, <2>3 DEF CreateOrQueue
    <3>2. SUFFICES ASSUME ~crowded' PROVE PlaceKept'
      BY DEF PlaceKept
    <3>3. ~crowded /\ ~CreationInFlight
      BY <3>1, <3>2
    <3>4. toInit = 0 /\ \A j \in Calls : stage[j] # "creating"
      BY <3>3, PoolAssumption DEF CreationInFlight
    <3>5. HasRoom' /\ Cardinality(pool') = Cardinality(pool) /\ toInit' = toInit
      BY <2>1, <2>3 DEF HasRoom
    <3>6. Cardinality(pool) + toInit <= MaxConnections
      BY <3>3 DEF PlaceKept
    <3>7. QED
      BY <2>1, <3>1, <3>4, <3>5, <3>6 DEF PlaceKept
  <2>4. QED
    BY <2>2, <2>3
<1>5. ASSUME NEW k \in Calls, Created(k) PROVE PlaceKept'
  <2>1. /\ Cardinality(pool') = Cardinality(pool) + 1 /\ Cardinality(pool) \in Nat
        /\ stage[k] = "creating" /\ stage' = [stage EXCEPT ![k] = "created"]
        /\ UNCHANGED <<toInit, crowded>>
    BY <1>5, PoolGrows, PoolFinite DEF Created
  <2>2. ~crowded => toInit = 0 /\ HasRoom /\ \A j \in Calls \ {k} : stage[j] # "creating"
    BY <2>1 DEF PlaceKept
  <2>3. ~crowded => Cardinality(pool') + toInit' <= MaxConnections
    BY <2>1, <2>2, PoolAssumption DEF HasRoom
  <2>4. QED
    BY <2>1, <2>2, <2>3 DEF PlaceKept
<1>6. ASSUME NEW k \in Calls, CreateFails(k) \/ Enqueue(k) \/ Expire(k) PROVE PlaceKept'
  BY <1>6, PlaceLeft DEF CreateFails, Enqueue, Expire
<1>7. ASSUME NEW k \in Calls, ReleaseUnknown(k) \/ ReleaseIdle(k) PROVE PlaceKept'
  BY <1>7, PlaceLeft DEF ReleaseUnknown, ReleaseIdle
<1>8. ASSUME NEW k \in Calls, ReleaseToWaiter(k) PROVE PlaceKept'
  <2> DEFINE w == Head(waitingQueue)
  <2>1. w \in Calls /\ UNCHANGED <<pool, toInit, crowded>>
    BY <1>8 DEF ReleaseToWaiter
  <2>2. stage' = [stage EXCEPT ![k] = "released", ![w] = Given(w)]
    BY <1>8 DEF ReleaseToWaiter
  <2>3. QED
    BY <2>1, <2>2, PlaceLeft DEF Given
<1>9. CASE Cleanup \/ Close
  BY <1>9, PlaceLeft DEF Cleanup, Close
<1>10. ASSUME NEW c, CleanupDestroyed(c) \/ CloseDestroyed(c) PROVE PlaceKept'
  BY <1>10, PlaceLeft DEF CleanupDestroyed, CloseDestroyed
<1>11. CASE CloseEnds
  BY <1>11, PlaceLeft DEF CloseEnds
<1>12. CASE UNCHANGED vars
  BY <1>12, PlaceLeft DEF vars
<1>13. QED
  BY <1>1, <1>2, <1>3, <1>4, <1>5, <1>6, <1>7, <1>8, <1>9, <1>10, <1>11, <1>12 DEF Next, Release

-----------------------------------------------------------------------------
(* What is marked is owed to a caller.                                      *)

\* A step keeps UseIsOwed if no owner ceases to own what remains marked.
LEMMA OwedKept ==
  ASSUME UseIsOwed, pool' \cap inUse' \subseteq pool \cap inUse,
         \A k \in Calls : \A c \in pool' \cap inUse' : Owns(k, c) => Owns(k, c)'
  PROVE  UseIsOwed'
BY DEF UseIsOwed

LEMMA OwedStep ==
  ASSUME TypeOK, WaitersQueued, UseIsOwed, [Next]_vars PROVE UseIsOwed'
<1> USE DEF TypeOK, Owns
<1>1. CASE InitCreated \/ InitFails \/ Cleanup \/ Close
  BY <1>1, OwedKept DEF InitCreated, InitFails, Cleanup, Close
<1>2. ASSUME NEW k \in Calls,
             AcquireIdle(k) \/ Invalid(k) \/ Destroyed(k)
      PROVE  UseIsOwed'
  BY <1>2, OwedKept DEF AcquireIdle, Invalid, Destroyed
<1>3. ASSUME NEW k \in Calls, AcquireOther(k) \/ SizeCheck(k) PROVE UseIsOwed'
  <2>1. \/ stage' = [stage EXCEPT ![k] = "creating"]
        \/ stage' = [stage EXCEPT ![k] = "queueing"]
    BY <1>3, CreateOrQueueTypes DEF AcquireOther, SizeCheck
  <2>2. /\ stage[k] \notin {"holding", "lost"} /\ UNCHANGED <<pool, inUse>>
        /\ \A j \in Calls \ {k} : picked'[j] = picked[j]
    BY <1>3 DEF AcquireOther, SizeCheck
  <2>3. QED
    BY <2>1, <2>2, OwedKept
<1>4. ASSUME NEW k \in Calls, Validated(k) \/ TakeCreated(k) PROVE UseIsOwed'
  <2>1. /\ stage' = [stage EXCEPT ![k] = Given(k)] /\ stage[k] \notin {"holding", "lost"}
        /\ inUse' = inUse \cup {picked[k]} /\ UNCHANGED <<pool, picked>>
    BY <1>4 DEF Validated, TakeCreated
  <2>2. Owns(k, picked[k])'
    BY <2>1, StageTypes
  <2>3. \A j \in Calls : \A c : Owns(j, c) => Owns(j, c)'
    BY <2>1
  <2>4. QED
    BY <2>1, <2>2, <2>3 DEF UseIsOwed
<1>5. ASSUME NEW k \in Calls, Created(k) PROVE UseIsOwed'
  <2>1. created + 1 \notin inUse
    OBVIOUS
  <2>2. QED
    BY <1>5, <2>1, OwedKept DEF Created
<1>6. ASSUME NEW k \in Calls, CreateFails(k) \/ Enqueue(k) \/ Expire(k) PROVE UseIsOwed'
  BY <1>6, OwedKept DEF CreateFails, Enqueue, Expire
<1>7. ASSUME NEW k \in Calls, ReleaseUnknown(k) \/ ReleaseIdle(k) PROVE UseIsOwed'
  <2>1. /\ stage' = [stage EXCEPT ![k] = "released"] /\ UNCHANGED <<pool, picked>>
        /\ picked[k] \notin pool' \cap inUse' /\ inUse' \subseteq inUse
    BY <1>7 DEF ReleaseUnknown, ReleaseIdle
  <2>2. QED
    BY <2>1, OwedKept
<1>8. ASSUME NEW k \in Calls, ReleaseToWaiter(k) PROVE UseIsOwed'
  <2> DEFINE w == Head(waitingQueue)
  <2>1. w \in Calls /\ stage[w] = "waiting"
    BY <1>8, TailRange DEF ReleaseToWaiter, WaitersQueued, NoDuplicates
  <2>2. stage[k] = "holding" /\ inUse' = inUse \cup {picked[k]} /\ pool' = pool
    BY <1>8 DEF ReleaseToWaiter
  <2>3. picked' = [picked EXCEPT ![w] = picked[k]]
    BY <1>8 DEF ReleaseToWaiter
  <2>4. stage' = [stage EXCEPT ![k] = "released", ![w] = Given(w)]
    BY <1>8 DEF ReleaseToWaiter
  <2>5. picked'[w] = picked[k] /\ stage'[w] \in {"holding", "lost"}
    BY <2>1, <2>2, <2>3, <2>4 DEF Given
  <2>6. \A j \in Calls : \A c \in pool : Owns(j, c) /\ c # picked[k] => Owns(j, c)'
    BY <2>1, <2>2, <2>3, <2>4
  <2>7. SUFFICES ASSUME NEW c \in pool \cap inUse' PROVE \E j \in Calls : Owns(j, c)'
    BY <2>2 DEF UseIsOwed
  <2>8. CASE c = picked[k]
    BY <2>1, <2>5, <2>8
  <2>9. CASE c # picked[k]
    <3>1. PICK j \in Calls : Owns(j, c)
      BY <2>2, <2>7, <2>9 DEF UseIsOwed
    <3>2. QED
      BY <2>6, <2>7, <2>9, <3>1
  <2>10. QED
    BY <2>8, <2>9
<1>9. ASSUME NEW c, CleanupDestroyed(c) \/ CloseDestroyed(c) PROVE UseIsOwed'
  BY <1>9, OwedKept DEF CleanupDestroyed, CloseDestroyed
<1>10. CASE CloseEnds
  BY <1>10 DEF CloseEnds, UseIsOwed
<1>11. CASE UNCHANGED vars
  BY <1>11, OwedKept DEF vars
<1>12. QED
  BY <1>1, <1>2, <1>3, <1>4, <1>5, <1>6, <1>7, <1>8, <1>9, <1>10, <1>11 DEF Next, Release

-----------------------------------------------------------------------------
(* The invariant holds in every behaviour, and with it the properties.      *)

LEMMA InitIInv == Init => IInv
<1> SUFFICES ASSUME Init PROVE IInv
  OBVIOUS
<1> USE DEF Init
<1>1. TypeOK
  <2>1. timer \in BOOLEAN
    BY Zenon
  <2>2. waitingQueue \in Seq(Calls)
    OBVIOUS
  <2>3. picked \in [Calls -> (1..created) \cup {NoConn}] /\ stage \in [Calls -> Stages]
    BY DEF Stages
  <2>4. toInit \in 0..MinConnections
    BY PoolAssumption
  <2>5. crowded \in BOOLEAN /\ closed \in {"open", "closing", "closed"} /\ created \in Nat
    OBVIOUS
  <2>6. QED
    BY <2>1, <2>2, <2>3, <2>4, <2>5, Zenon DEF TypeOK
<1>2. Cardinality(pool) = 0
  BY FS_EmptySet
<1>3. PlaceKept
  BY <1>2, PoolAssumption DEF PlaceKept, HasRoom
<1>4. WaitersQueued
  BY DEF WaitersQueued, Range
<1>5. PickedExists /\ Exclusive /\ Spared /\ UseIsOwed
  BY DEF PickedExists, Exclusive, Spared, UseIsOwed, Engaging
<1>6. QED
  BY <1>1, <1>3, <1>4, <1>5 DEF IInv

LEMMA StepIInv == IInv /\ [Next]_vars => IInv'
BY TypeStep, PickedStep, QueueStep, ExclusiveStep, SparedStep, PlaceStep, OwedStep DEF IInv

LEMMA Invariance == Spec => []IInv
BY InitIInv, StepIInv, PTL DEF Spec

\* The variables of the pool keep their types.
THEOREM TypeCorrect == Spec => []TypeOK
<1>1. IInv => TypeOK
  BY DEF IInv
<1>2. QED
  BY <1>1, Invariance, PTL

\* However calls, failures, timeouts, cleanups and close interleave, a connection that
\* no two operations worked on at once has one owner.
THEOREM NoSharing == Spec => []OneHolder
<1>1. IInv => OneHolder
  BY DEF IInv, Exclusive, OneHolder, Engaged, Owns, Engaging
<1>2. QED
  BY <1>1, Invariance, PTL

\* In an open pool nothing destroys a connection that a caller holds, with the same
\* exception.
THEOREM NoneDestroyedInUse == Spec => []HeldIsPooled
<1>1. IInv => HeldIsPooled
  BY DEF IInv, Spared, HeldIsPooled, Engaging, TypeOK
<1>2. QED
  BY <1>1, Invariance, PTL

\* The pool keeps to its size for every size, as long as creations do not overlap.
THEOREM SizeKept == Spec => []SizeBounded
<1>1. IInv => SizeBounded
  <2>1. SUFFICES ASSUME IInv, ~crowded PROVE Cardinality(pool) <= MaxConnections
    BY DEF SizeBounded
  <2>2. Cardinality(pool) \in Nat /\ toInit \in Nat
    BY <2>1, PoolFinite DEF IInv, TypeOK
  <2>3. Cardinality(pool) + toInit <= MaxConnections
    BY <2>1 DEF IInv, PlaceKept
  <2>4. QED
    BY <2>2, <2>3, PoolAssumption
<1>2. QED
  BY <1>1, Invariance, PTL

\* A connection is lost for the pool only by being given to a call that has timed out.
THEOREM LeakOnlyByTimeout == Spec => []UseIsOwed
<1>1. IInv => UseIsOwed
  BY DEF IInv
<1>2. QED
  BY <1>1, Invariance, PTL

\* A step that adds no connection and frees none, and adds no waiter, makes no new pair
\* of a waiter and an idle connection.
LEMMA NoNewPair ==
  ASSUME Idle' \subseteq Idle, waitingQueue' # <<>> => waitingQueue # <<>>
  PROVE  ~(IdleBesideWaiter' /\ ~IdleBesideWaiter)
BY DEF IdleBesideWaiter

\* No release, and nothing else but a late push or a creation, leaves a waiter beside
\* an idle connection.
THEOREM NoMissedRelease == Spec => ReleaseWakes
<1> DEFINE Fine == IdleBesideWaiter' /\ ~IdleBesideWaiter =>
                     created' # created \/ Len(waitingQueue') > Len(waitingQueue)
<1>1. ASSUME TypeOK, [Next]_vars PROVE Fine
  <2> USE DEF Idle
  <2>1. CASE InitCreated
    BY <2>1, <1>1 DEF InitCreated, TypeOK
  <2>2. CASE InitFails \/ Cleanup \/ Close
    BY <2>2, NoNewPair DEF InitFails, Cleanup, Close
  <2>3. ASSUME NEW k \in Calls,
               \/ AcquireIdle(k) \/ AcquireOther(k) \/ Validated(k) \/ Invalid(k)
               \/ Destroyed(k) \/ SizeCheck(k) \/ CreateFails(k) \/ TakeCreated(k) \/ Expire(k)
        PROVE  Fine
    BY <2>3, NoNewPair DEF AcquireIdle, AcquireOther, Validated, Invalid, Destroyed, SizeCheck,
       CreateFails, TakeCreated, Expire
  <2>4. ASSUME NEW k \in Calls, Created(k) PROVE Fine
    BY <2>4, <1>1 DEF Created, TypeOK
  <2>5. ASSUME NEW k \in Calls, Enqueue(k) PROVE Fine
    <3>1. Len(waitingQueue') = Len(waitingQueue) + 1 /\ Len(waitingQueue) \in Nat
      BY <2>5, <1>1 DEF Enqueue, TypeOK
    <3>2. QED
      BY <3>1
  <2>6. ASSUME NEW k \in Calls, ReleaseUnknown(k) \/ ReleaseIdle(k) PROVE Fine
    <3>1. waitingQueue' = <<>> \/ (Idle' \subseteq Idle /\ waitingQueue' = waitingQueue)
      BY <2>6 DEF ReleaseUnknown, ReleaseIdle
    <3>2. QED
      BY <3>1, NoNewPair DEF IdleBesideWaiter
  <2>7. ASSUME NEW k \in Calls, ReleaseToWaiter(k) PROVE Fine
    BY <2>7, NoNewPair DEF ReleaseToWaiter
  <2>8. ASSUME NEW c, CleanupDestroyed(c) \/ CloseDestroyed(c) PROVE Fine
    BY <2>8, NoNewPair DEF CleanupDestroyed, CloseDestroyed
  <2>9. CASE CloseEnds
    BY <2>9, NoNewPair DEF CloseEnds
  <2>10. CASE UNCHANGED vars
    BY <2>10, NoNewPair DEF vars
  <2>11. QED
    BY <1>1, <2>1, <2>2, <2>3, <2>4, <2>5, <2>6, <2>7, <2>8, <2>9, <2>10 DEF Next, Release
<1>2. TypeOK /\ [Next]_vars => [Fine]_vars
  BY <1>1
<1>3. QED
  BY <1>2, TypeCorrect, PTL DEF Spec, ReleaseWakes

-----------------------------------------------------------------------------
(* The pool implements PoolLeases.                                          *)

\* What a step may do to the connections.
LEMMA ConnChange ==
  ASSUME TypeOK, [Next]_vars
  PROVE /\ \/ created' = created /\ pool' \subseteq pool
           \/ created' = created + 1 /\ pool' = pool \cup {created + 1}
        /\ contended \subseteq contended'
        /\ closed' = "open" => closed = "open"
<1> DEFINE Same == UNCHANGED <<created, pool, contended, closed>>
           Goal == /\ \/ created' = created /\ pool' \subseteq pool
                      \/ created' = created + 1 /\ pool' = pool \cup {created + 1}
                   /\ contended \subseteq contended'
                   /\ closed' = "open" => closed = "open"
<1>1. CASE InitCreated \/ InitFails
  BY <1>1 DEF InitCreated, InitFails, closeVars, history
<1>2. ASSUME NEW k \in Calls, AcquireIdle(k) \/ AcquireOther(k) \/ SizeCheck(k) PROVE Goal
  <2>1. UNCHANGED <<created, pool, closed>>
    BY <1>2 DEF AcquireIdle, AcquireOther, SizeCheck, closeVars
  <2>2. contended \subseteq contended'
    BY <1>2 DEF AcquireIdle, AcquireOther, SizeCheck
  <2>3. QED
    BY <2>1, <2>2
<1>3. ASSUME NEW k \in Calls,
             Validated(k) \/ Invalid(k) \/ CreateFails(k) \/ TakeCreated(k) \/ Enqueue(k) \/ Expire(k)
      PROVE Goal
  BY <1>3 DEF Validated, Invalid, CreateFails, TakeCreated, Enqueue, Expire, closeVars, history
<1>4. ASSUME NEW k \in Calls, Destroyed(k) \/ Created(k) PROVE Goal
  BY <1>4 DEF Destroyed, Created, closeVars, history
<1>5. ASSUME NEW k \in Calls, Release(k) PROVE Goal
  BY <1>5 DEF Release, ReleaseUnknown, ReleaseIdle, ReleaseToWaiter, closeVars, history
<1>6. CASE Cleanup
  BY <1>6 DEF Cleanup, closeVars
<1>7. CASE Close \/ CloseEnds
  BY <1>7 DEF Close, CloseEnds, history
<1>8. ASSUME NEW c, CleanupDestroyed(c) \/ CloseDestroyed(c) PROVE Goal
  BY <1>8 DEF CleanupDestroyed, CloseDestroyed, closeVars, history
<1>9. CASE UNCHANGED vars
  BY <1>9 DEF vars, closeVars, history
<1>10. QED
  BY <1>1, <1>2, <1>3, <1>4, <1>5, <1>6, <1>7, <1>8, <1>9 DEF Next

\* To have a connection is to own it.
LEMMA HasIsOwns ==
  \A k \in Calls : \A c :
    /\ Leases!Has(k, c) <=> Owns(k, c)
    /\ Leases!Has(k, c)' <=> Owns(k, c)'
BY DEF Leases!Has, Owns, Phase

LEMMA ConnectionsRefine ==
  ASSUME IInv, IInv', [Next]_vars
  PROVE Leases!ConnSteps
<1>1. pool \subseteq 1..created /\ created \in Nat
  BY DEF IInv, TypeOK
<1>2. /\ \/ created' = created /\ pool' \subseteq pool
         \/ created' = created + 1 /\ pool' = pool \cup {created + 1}
      /\ contended \subseteq contended' /\ (closed' = "open" => closed = "open")
  BY ConnChange DEF IInv
<1> DEFINE Gone == /\ (1..created') \ pool' = ((1..created) \ pool) \cup (pool \ pool')
               /\ (pool' \ pool) \cap ((1..created) \ pool) = {}
<1>3. ASSUME created' = created, pool' \subseteq pool PROVE Gone
  <2>1. /\ (1..created) \ pool' = ((1..created) \ pool) \cup (pool \ pool')
        /\ pool' \ pool = {}
    BY <1>1, <1>3
  <2>2. QED
    BY <1>3, <2>1
<1>4. ASSUME created' = created + 1, pool' = pool \cup {created + 1} PROVE Gone
  <2>1. 1..(created + 1) = (1..created) \cup {created + 1} /\ created + 1 \notin 1..created
    BY <1>1
  <2>2. /\ (1..(created + 1)) \ (pool \cup {created + 1}) = (1..created) \ pool
        /\ (pool \cup {created + 1}) \ pool = {created + 1}
        /\ pool \ (pool \cup {created + 1}) = {}
    BY <1>1, <2>1
  <2>3. QED
    BY <1>4, <2>1, <2>2
<1>5. Gone
  BY <1>2, <1>3, <1>4
<1>6. ASSUME closed' = "open", NEW k \in Calls, NEW c \in (pool \ pool') \ contended'
      PROVE ~Owns(k, c)'
  BY <1>6 DEF IInv, Spared, Owns, Engaging
<1>7. QED
  BY <1>2, <1>5, <1>6, HasIsOwns DEF Leases!ConnSteps

\* A call to which nothing happens.
LEMMA CallStays ==
  ASSUME NEW k \in Calls, Phase(k)' = Phase(k), Phase(k) = "served" => picked'[k] = picked[k]
  PROVE Leases!Stay(k)
BY DEF Leases!Stay

\* A call is served with a connection that exists, unless the pool was closed, and that is
\* nobody else's, unless it is contended.
LEMMA CallServed ==
  ASSUME IInv, IInv', NEW k \in Calls,
         Phase(k) = "asking", stage'[k] \in {"holding", "lost"},
         pool' = pool, contended' = contended,
         picked'[k] \in pool \cup contended \cup (IF closed = "open" THEN {} ELSE 1..created)
  PROVE Leases!Serve(k)
<1>1. PICK c : c = picked'[k]
  OBVIOUS
<1>2. Phase(k)' = "served"
  BY DEF Phase
<1>3. c \in pool \ contended => \A j \in Calls \ {k} : ~Owns(j, c)'
  BY <1>1 DEF IInv, Exclusive, Owns, Engaged, Engaging
<1>4. c \in pool \ contended => \A j \in Calls \ {k} : ~Leases!Has(j, c)'
  BY <1>3, HasIsOwns
<1>5. c \in pool \cup contended \cup (IF closed = "open" THEN {} ELSE (1..created) \ pool)
  BY <1>1
<1>6. QED
  BY <1>1, <1>2, <1>4, <1>5 DEF Leases!Serve, Leases!Moves

LEMMA CallRefines ==
  ASSUME IInv, IInv', [Next]_vars, NEW k \in Calls
  PROVE Leases!Stay(k) \/ Leases!Serve(k) \/ Leases!Finish(k) \/ Leases!Fail(k)
<1> DEFINE Goal == Leases!Stay(k) \/ Leases!Serve(k) \/ Leases!Finish(k) \/ Leases!Fail(k)
<1>1. TypeOK
  BY DEF IInv
<1>2. ASSUME stage'[k] = stage[k], picked'[k] = picked[k] PROVE Goal
  BY <1>2, CallStays DEF Phase
<1>3. ASSUME UNCHANGED <<stage, picked>> PROVE Goal
  BY <1>2, <1>3
<1>4. ASSUME stage[k] \in Working \cup {"idle"}, stage'[k] \in Working \cup {"waiting"} PROVE Goal
  BY <1>4, CallStays DEF Phase, Working
<1>5. ASSUME stage[k] = "holding", stage'[k] = "released" PROVE Goal
  BY <1>5 DEF Phase, Leases!Finish, Leases!Moves
<1>6. ASSUME stage[k] \in {"creating", "waiting"}, stage'[k] \in {"rejected", "dropped"} PROVE Goal
  BY <1>6 DEF Phase, Leases!Fail, Leases!Moves
<1>7. CASE InitCreated \/ InitFails \/ Cleanup \/ Close \/ UNCHANGED vars
  BY <1>3, <1>7 DEF InitCreated, InitFails, Cleanup, Close, vars, callVars
<1>8. ASSUME NEW c, CleanupDestroyed(c) \/ CloseDestroyed(c) PROVE Goal
  BY <1>3, <1>8 DEF CleanupDestroyed, CloseDestroyed, callVars
<1>9. ASSUME NEW l \in Calls, AcquireIdle(l) \/ AcquireOther(l) \/ SizeCheck(l) PROVE Goal
  <2>1. /\ stage[l] \in Working \cup {"idle"}
        /\ \E s \in {"validating", "creating", "queueing"} : stage' = [stage EXCEPT ![l] = s]
        /\ \A m \in Calls \ {l} : picked'[m] = picked[m]
    BY <1>1, <1>9, CreateOrQueueTypes DEF AcquireIdle, AcquireOther, SizeCheck, TypeOK, Working
  <2>2. QED
    BY <1>1, <1>2, <1>4, <2>1 DEF TypeOK, Working
<1>10. ASSUME NEW l \in Calls, Invalid(l) \/ Destroyed(l) \/ Created(l) \/ Enqueue(l) PROVE Goal
  <2>1. /\ stage[l] \in Working
        /\ \E s \in {"destroying", "destroyed", "created", "waiting"} : stage' = [stage EXCEPT ![l] = s]
        /\ \A m \in Calls \ {l} : picked'[m] = picked[m]
    BY <1>1, <1>10 DEF Invalid, Destroyed, Created, Enqueue, TypeOK, Working
  <2>2. QED
    BY <1>1, <1>2, <1>4, <2>1 DEF TypeOK, Working
<1>11. ASSUME NEW l \in Calls, Validated(l) \/ TakeCreated(l) PROVE Goal
  <2>1. /\ stage[l] \in {"validating", "created"} /\ stage' = [stage EXCEPT ![l] = Given(l)]
        /\ UNCHANGED <<pool, contended, picked>>
    BY <1>11 DEF Validated, TakeCreated, history
  <2>2. CASE l = k
    <3>1. stage'[k] \in {"holding", "lost"} /\ Phase(k) = "asking" /\ stage[k] \in Engaging
      BY <1>1, <2>1, <2>2 DEF TypeOK, Given, Phase, Engaging
    <3>2. picked[k] \in 1..created /\ (closed = "open" => picked[k] \in pool \cup contended)
      BY <3>1 DEF IInv, PickedExists, Spared
    <3>3. QED
      BY <2>1, <3>1, <3>2, CallServed
  <2>3. CASE l # k
    BY <1>1, <1>2, <2>1, <2>3 DEF TypeOK
  <2>4. QED
    BY <2>2, <2>3
<1>12. ASSUME NEW l \in Calls, CreateFails(l) PROVE Goal
  BY <1>1, <1>2, <1>6, <1>12 DEF CreateFails, TypeOK
<1>13. ASSUME NEW l \in Calls, Expire(l) PROVE Goal
  BY <1>3, <1>13 DEF Expire
<1>14. ASSUME NEW l \in Calls, ReleaseUnknown(l) \/ ReleaseIdle(l) PROVE Goal
  BY <1>1, <1>2, <1>5, <1>14 DEF ReleaseUnknown, ReleaseIdle, TypeOK
<1>15. ASSUME NEW l \in Calls, ReleaseToWaiter(l) PROVE Goal
  <2> DEFINE w == Head(waitingQueue)
  <2>1. w \in Calls /\ stage[w] = "waiting"
    BY <1>1, <1>15, TailRange DEF ReleaseToWaiter, IInv, WaitersQueued, NoDuplicates, TypeOK
  <2>2. /\ stage[l] = "holding" /\ picked[l] \in pool /\ UNCHANGED <<pool, contended>>
        /\ stage' = [stage EXCEPT ![l] = "released", ![w] = Given(w)]
        /\ picked' = [picked EXCEPT ![w] = picked[l]]
    BY <1>15 DEF ReleaseToWaiter, history
  <2> HIDE DEF w
  <2>3. CASE k = w
    <3>1. stage'[k] \in {"holding", "lost"} /\ Phase(k) = "asking" /\ picked'[k] = picked[l]
      BY <1>1, <2>1, <2>2, <2>3 DEF TypeOK, Given, Phase
    <3>2. QED
      BY <2>2, <3>1, CallServed
  <2>4. CASE k = l
    BY <1>1, <1>5, <2>1, <2>2, <2>4 DEF TypeOK
  <2>5. CASE k # w /\ k # l
    BY <1>1, <1>2, <2>1, <2>2, <2>5 DEF TypeOK
  <2>6. QED
    BY <2>3, <2>4, <2>5
<1>16. CASE CloseEnds
  <2>1. /\ stage' = [m \in Calls |-> IF m \in Range(waitingQueue) THEN "dropped" ELSE stage[m]]
        /\ picked' = picked
    BY <1>16 DEF CloseEnds
  <2>2. k \in Range(waitingQueue) => stage[k] = "waiting"
    BY DEF IInv, WaitersQueued
  <2>3. QED
    BY <1>2, <1>6, <2>1, <2>2
<1>17. QED
  BY <1>7, <1>8, <1>9, <1>10, <1>11, <1>12, <1>13, <1>14, <1>15, <1>16 DEF Next, Release

\* For any number of calls and any sizes, the pool keeps the promises of PoolLeases.
THEOREM Refinement == Spec => LeasesImplemented
<1>1. Init => Leases!Init
  BY DEF Init, Phase, Leases!Init
<1>2. IInv /\ IInv' /\ [Next]_vars => [Leases!Next]_(Leases!vars)
  BY CallRefines, ConnectionsRefine DEF Leases!Next, Leases!CallSteps
<1>3. QED
  BY <1>1, <1>2, Invariance, PTL DEF Spec, LeasesImplemented, Leases!Spec
=============================================================================
