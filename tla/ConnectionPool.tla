--------------------------- MODULE ConnectionPool ---------------------------
(* The connection pool of 5012 (src/pool/ConnectionPool.ts).  The pool is   *)
(* single-threaded, but acquire, destroyConnection, initialize and close    *)
(* await: an action is what runs from one await to the next.  A call of     *)
(* acquire is a process; the caller it serves releases what it was given,   *)
(* once.                                                                    *)
EXTENDS Naturals, FiniteSets, Sequences, Functions

CONSTANTS
  Calls,            \* the calls of acquire that are made
  NoConn,           \* a call that works on no connection
  MinConnections,   \* config.minConnections
  MaxConnections    \* config.maxConnections

ASSUME PoolAssumption ==
  /\ MinConnections \in Nat
  /\ MaxConnections \in Nat
  /\ MinConnections <= MaxConnections
  /\ NoConn \notin Nat
  /\ IsFiniteSet(Calls)

\* Where a call is.  "destroyed", "created" and "queueing" are the gaps of one
\* microtask between an async function that has returned and the continuation
\* of the one that awaits it.
Working == {"validating", "destroying", "destroyed", "creating", "created", "queueing"}
Microtask == {"destroyed", "created", "queueing"}
\* The timer of the call is running: it has neither been given anything nor failed.
Pending == Working \cup {"waiting", "dropped"}
\* "lost": given a connection after its promise was rejected by the timer.
Stages == Pending \cup {"idle", "holding", "lost", "released", "rejected"}

VARIABLES
  pool,          \* the connections in the map; a connection is its rank of insertion
  created,       \* the number of connections inserted so far
  inUse,         \* the connections whose field inUse is set, in the map or not
  waitingQueue,  \* the calls whose callback waits
  stage,         \* where each call is
  picked,        \* the connection a call works on, or was given
  expired,       \* the calls whose timer has rejected their promise
  toInit,        \* the connections initialize has still to create
  timer,         \* whether cleanupTimer is set
  doomed,        \* the connections a cleanup is destroying
  closing,       \* the connections close is destroying
  closed,        \* "open", "closing" or "closed"
  contended,     \* history: the connections that two operations have worked on at once
  crowded        \* history: a creation was begun while another was in flight

callVars == <<stage, picked, expired>>
initVars == <<toInit, timer>>
closeVars == <<closing, closed>>
history == <<contended, crowded>>
vars == <<pool, created, inUse, waitingQueue, callVars, initVars, doomed, closeVars, history>>

Init ==
  /\ pool = {} /\ created = 0 /\ inUse = {} /\ waitingQueue = <<>>
  /\ stage = [k \in Calls |-> "idle"]
  /\ picked = [k \in Calls |-> NoConn]
  /\ expired = {}
  /\ toInit = MinConnections
  /\ timer = (MinConnections = 0)
  /\ doomed = {} /\ closing = {} /\ closed = "open"
  /\ contended = {} /\ crowded = FALSE

-----------------------------------------------------------------------------
\* MUTANT of Idle: the field inUse is not looked at.
Pooled == pool
Idle == pool \ inUse

\* find() takes the first idle connection of the map.
IsFirstIdle(c) == c \in Idle /\ \A d \in Idle : c <= d

\* Some call has picked c, and an await is between this and its effect.
PickedBy(k, c) == picked[k] = c /\ stage[k] \in Working
InTransit(c) == (\E k \in Calls : PickedBy(k, c)) \/ c \in doomed \cup closing

CreationInFlight == toInit > 0 \/ \E k \in Calls : stage[k] = "creating"

\* Timers do not fire between two microtasks.
Settled ==
  /\ \A k \in Calls : stage[k] \notin Microtask
  /\ ~(closed = "closing" /\ closing = {})

\* What resolve() does for a call.
Given(k) == IF k \in expired THEN "lost" ELSE "holding"

-----------------------------------------------------------------------------
(* initialize: minConnections creations, one after the other, then the      *)
(* timer of the cleanup, whether or not the pool was closed meanwhile.      *)
InitCreated ==
  /\ toInit > 0
  /\ created' = created + 1
  /\ pool' = pool \cup {created + 1}
  /\ toInit' = toInit - 1
  /\ timer' = (toInit = 1)
  /\ UNCHANGED <<inUse, waitingQueue, callVars, doomed, closeVars, history>>

\* A creation fails: the rest of initialize, with the timer, is not done.
InitFails ==
  /\ toInit > 0
  /\ toInit' = 0
  /\ UNCHANGED <<pool, created, inUse, waitingQueue, callVars, timer, doomed, closeVars, history>>

-----------------------------------------------------------------------------
\* MUTANT of HasRoom: off by one.
HasRoomOffByOne == Cardinality(pool) <= MaxConnections

HasRoom == Cardinality(pool) < MaxConnections

\* The second half of tryAcquire: begin a creation, or return false.
CreateOrQueue(k) ==
  IF HasRoom
    THEN /\ stage' = [stage EXCEPT ![k] = "creating"]
         /\ crowded' = (crowded \/ CreationInFlight)
    ELSE /\ stage' = [stage EXCEPT ![k] = "queueing"]
         /\ UNCHANGED crowded

\* acquire, up to its first await: an idle connection is to be validated.
AcquireIdle(k) ==
  /\ stage[k] = "idle"
  /\ \E c \in Idle :
       /\ IsFirstIdle(c)
       /\ picked' = [picked EXCEPT ![k] = c]
       /\ contended' = IF InTransit(c) THEN contended \cup {c} ELSE contended
  /\ stage' = [stage EXCEPT ![k] = "validating"]
  /\ UNCHANGED <<pool, created, inUse, waitingQueue, expired, initVars, doomed, closeVars, crowded>>

\* acquire, up to its first await: no connection is idle.
AcquireOther(k) ==
  /\ stage[k] = "idle"
  /\ Idle = {}
  /\ CreateOrQueue(k)
  /\ UNCHANGED <<pool, created, inUse, waitingQueue, picked, expired, initVars, doomed, closeVars, contended>>

\* The validation succeeded: the connection is marked and handed out, without
\* another look at what happened to it meanwhile.
Validated(k) ==
  /\ stage[k] = "validating"
  /\ inUse' = inUse \cup {picked[k]}
  /\ stage' = [stage EXCEPT ![k] = Given(k)]
  /\ UNCHANGED <<pool, created, waitingQueue, picked, expired, initVars, doomed, closeVars, history>>

\* The validation failed; a connection that is gone needs no destruction.
Invalid(k) ==
  /\ stage[k] = "validating"
  /\ stage' = [stage EXCEPT ![k] = IF picked[k] \in pool THEN "destroying" ELSE "destroyed"]
  /\ UNCHANGED <<pool, created, inUse, waitingQueue, picked, expired, initVars, doomed, closeVars, history>>

\* factory.destroy has settled, well or not.
Destroyed(k) ==
  /\ stage[k] = "destroying"
  /\ pool' = pool \ {picked[k]}
  /\ stage' = [stage EXCEPT ![k] = "destroyed"]
  /\ UNCHANGED <<created, inUse, waitingQueue, picked, expired, initVars, doomed, closeVars, history>>

\* tryAcquire goes on after destroyConnection.
SizeCheck(k) ==
  /\ stage[k] = "destroyed"
  /\ picked' = [picked EXCEPT ![k] = NoConn]
  /\ CreateOrQueue(k)
  /\ UNCHANGED <<pool, created, inUse, waitingQueue, expired, initVars, doomed, closeVars, contended>>

\* createConnection: factory.create succeeded, the map has an idle connection more.
Created(k) ==
  /\ stage[k] = "creating"
  /\ created' = created + 1
  /\ pool' = pool \cup {created + 1}
  /\ picked' = [picked EXCEPT ![k] = created + 1]
  /\ stage' = [stage EXCEPT ![k] = "created"]
  /\ UNCHANGED <<inUse, waitingQueue, expired, initVars, doomed, closeVars, history>>

CreateFails(k) ==
  /\ stage[k] = "creating"
  /\ stage' = [stage EXCEPT ![k] = "rejected"]
  /\ UNCHANGED <<pool, created, inUse, waitingQueue, picked, expired, initVars, doomed, closeVars, history>>

\* tryAcquire goes on after createConnection.
TakeCreated(k) ==
  /\ stage[k] = "created"
  /\ inUse' = inUse \cup {picked[k]}
  /\ stage' = [stage EXCEPT ![k] = Given(k)]
  /\ UNCHANGED <<pool, created, waitingQueue, picked, expired, initVars, doomed, closeVars, history>>

\* acquire goes on after tryAcquire has returned false.
Enqueue(k) ==
  /\ stage[k] = "queueing"
  /\ waitingQueue' = Append(waitingQueue, k)
  /\ stage' = [stage EXCEPT ![k] = "waiting"]
  /\ UNCHANGED <<pool, created, inUse, picked, expired, initVars, doomed, closeVars, history>>

\* The timer of a call rejects its promise and changes nothing else.
Expire(k) ==
  /\ Settled
  /\ stage[k] \in Pending
  /\ k \notin expired
  /\ expired' = expired \cup {k}
  /\ UNCHANGED <<pool, created, inUse, waitingQueue, stage, picked, initVars, doomed, closeVars, history>>

-----------------------------------------------------------------------------
\* release by the caller that call k has served.
ReleaseUnknown(k) ==
  /\ stage[k] = "holding"
  /\ picked[k] \notin pool
  /\ stage' = [stage EXCEPT ![k] = "released"]
  /\ UNCHANGED <<pool, created, inUse, waitingQueue, picked, expired, initVars, doomed, closeVars, history>>

\* MUTANT of NobodyWaits: the queue is not looked at.
NobodyAsked == TRUE
NobodyWaits == waitingQueue = <<>>

\* MUTANT of Unmarked: the connection stays marked.
StillMarked(c) == inUse
Unmarked(c) == inUse \ {c}

ReleaseIdle(k) ==
  /\ stage[k] = "holding"
  /\ picked[k] \in pool
  /\ NobodyWaits
  /\ inUse' = Unmarked(picked[k])
  /\ stage' = [stage EXCEPT ![k] = "released"]
  /\ UNCHANGED <<pool, created, waitingQueue, picked, expired, initVars, doomed, closeVars, history>>

\* MUTANT of MarkedAgain: the connection handed over is not marked again.
MarkedNoMore(c) == Unmarked(c)
MarkedAgain(c) == inUse \cup {c}

\* The first waiter gets the connection, even if its timer has fired.
ReleaseToWaiter(k) ==
  /\ stage[k] = "holding"
  /\ picked[k] \in pool
  /\ ~NobodyWaits
  /\ LET w == Head(waitingQueue)
     IN  /\ stage' = [stage EXCEPT ![k] = "released", ![w] = Given(w)]
         /\ picked' = [picked EXCEPT ![w] = picked[k]]
  /\ waitingQueue' = Tail(waitingQueue)
  /\ inUse' = MarkedAgain(picked[k])
  /\ UNCHANGED <<pool, created, expired, initVars, doomed, closeVars, history>>

Release(k) == ReleaseUnknown(k) \/ ReleaseIdle(k) \/ ReleaseToWaiter(k)

-----------------------------------------------------------------------------
\* MUTANT of Cleanable: connections in use are not spared.
CleanableUsed == pool
Cleanable == Idle

\* cleanupIdleConnections: of the connections that were idle too long, the last
\* minConnections are kept and the destruction of the others is begun.
Cleanup ==
  /\ Settled
  /\ timer
  /\ \E S \in SUBSET Cleanable \ {{}} :
       /\ \E kept \in SUBSET (Cleanable \ S) :
            /\ Cardinality(kept) = MinConnections
            /\ \A c \in S, d \in kept : c < d
       /\ doomed' = doomed \cup S
       /\ contended' = contended \cup {c \in S : InTransit(c)}
  /\ UNCHANGED <<pool, created, inUse, waitingQueue, callVars, initVars, closeVars, crowded>>

CleanupDestroyed(c) ==
  /\ c \in doomed
  /\ doomed' = doomed \ {c}
  /\ pool' = pool \ {c}
  /\ UNCHANGED <<created, inUse, waitingQueue, callVars, initVars, closeVars, history>>

\* close, up to its await: every connection is destroyed, used or not.
Close ==
  /\ closed = "open"
  /\ closed' = "closing"
  /\ closing' = pool
  /\ timer' = FALSE
  /\ UNCHANGED <<pool, created, inUse, waitingQueue, callVars, toInit, doomed, history>>

CloseDestroyed(c) ==
  /\ c \in closing
  /\ closing' = closing \ {c}
  /\ pool' = pool \ {c}
  /\ UNCHANGED <<created, inUse, waitingQueue, callVars, initVars, doomed, closed, history>>

\* close goes on: the map and the queue are emptied; the callbacks of the queue, of
\* the calls that are then "dropped", are forgotten.  acquire still works.
CloseEnds ==
  /\ closed = "closing"
  /\ closing = {}
  /\ closed' = "closed"
  /\ pool' = {}
  /\ waitingQueue' = <<>>
  /\ stage' = [k \in Calls |-> IF k \in Range(waitingQueue) THEN "dropped" ELSE stage[k]]
  /\ UNCHANGED <<created, inUse, picked, expired, initVars, doomed, closing, history>>

-----------------------------------------------------------------------------
Next ==
  \/ InitCreated \/ InitFails
  \/ \E k \in Calls :
       \/ AcquireIdle(k) \/ AcquireOther(k)
       \/ Validated(k) \/ Invalid(k) \/ Destroyed(k) \/ SizeCheck(k)
       \/ Created(k) \/ CreateFails(k) \/ TakeCreated(k)
       \/ Enqueue(k) \/ Expire(k) \/ Release(k)
  \/ Cleanup \/ Close \/ CloseEnds
  \/ \E c \in doomed : CleanupDestroyed(c)
  \/ \E c \in closing : CloseDestroyed(c)

Spec == Init /\ [][Next]_vars

-----------------------------------------------------------------------------
\* The types of the variables.
TypeOK ==
  /\ created \in Nat
  /\ pool \subseteq 1..created /\ inUse \subseteq 1..created
  /\ doomed \subseteq 1..created /\ closing \subseteq 1..created
  /\ contended \subseteq 1..created
  /\ waitingQueue \in Seq(Calls)
  /\ stage \in [Calls -> Stages]
  /\ picked \in [Calls -> (1..created) \cup {NoConn}]
  /\ expired \subseteq Calls
  /\ toInit \in 0..MinConnections
  /\ timer \in BOOLEAN /\ crowded \in BOOLEAN
  /\ closed \in {"open", "closing", "closed"}

Owns(k, c) == picked[k] = c /\ stage[k] \in {"holding", "lost"}

\* No two calls own one connection, through all failing validations and creations,
\* timeouts, hand-overs by release, cleanups and close, unless acquire picked the
\* connection while another operation was between picking and marking it.  (acquire
\* looks at inUse before an await and sets it after.)
OneHolder ==
  \A j, k \in Calls : \A c \in pool \ contended : Owns(j, c) /\ Owns(k, c) => j = k

\* While the pool is open, a connection in a caller's hands has not been destroyed,
\* with the same exception.
HeldIsPooled ==
  closed = "open" =>
    \A k \in Calls : stage[k] \in {"holding", "lost"} => picked[k] \in pool \cup contended

\* There are never more than maxConnections connections unless a creation was begun
\* while another one was in flight.
SizeBounded == crowded \/ Cardinality(pool) <= MaxConnections

\* Each connection counted as used is owed to a caller that holds it or was given to
\* a call whose timer had fired; nothing else makes the pool leak.
UseIsOwed == \A c \in pool \cap inUse : \E k \in Calls : Owns(k, c)

\* A waiter and an idle connection come to be side by side only when the callback is
\* pushed too late (a release came in the gap after tryAcquire) or a connection was
\* created: no release and no destruction leaves a waiter beside an idle connection.
IdleBesideWaiter == Idle # {} /\ waitingQueue # <<>>
ReleaseWakes ==
  [][IdleBesideWaiter' /\ ~IdleBesideWaiter =>
       created' # created \/ Len(waitingQueue') > Len(waitingQueue)]_vars

\* What module PoolLeases promises.  A contended connection is spoiled; a call whose
\* timer has fired is served nevertheless if it is given a connection.
Phase(k) ==
  CASE stage[k] \in {"holding", "lost"} -> "served"
    [] stage[k] \in {"released", "rejected", "dropped"} -> "done"
    [] OTHER -> "asking"

Leases == INSTANCE PoolLeases WITH
  phase <- [k \in Calls |-> Phase(k)],
  lease <- [k \in Calls |-> IF Phase(k) = "served" THEN picked[k] ELSE NoConn],
  present <- pool,
  gone <- (1..created) \ pool,
  spoiled <- contended,
  open <- (closed = "open")
LeasesImplemented == Leases!Spec

=============================================================================
