--------------------------- MODULE DependencyCycle ---------------------------
(* The search for dependency cycles of 4053-node-api-taskqueue: enqueue and *)
(* batchEnqueue of queue.js with checkCycle of database.js, whose recursion *)
(* is a stack of calls here.  The definition module TaskQueue uses instead  *)
(* is WaitsForItself: some set of tasks waits for itself.  Dependency lists *)
(* may name a task twice, or name the task they belong to.                  *)
EXTENDS Naturals, Sequences, FiniteSets, Functions

CONSTANTS
  Ids,      \* ids of tasks
  NoTask,   \* taskId outside checkCycle
  MaxDeps   \* bound: length of a dependency list

ASSUME IdsAssumption == IsFiniteSet(Ids) /\ NoTask \notin Ids /\ MaxDeps \in Nat

VARIABLES
  deps,         \* depend_tasks of the rows of the table tasks
  pc,           \* "idle", "checking" a request, or the outcome of the checks
  request,      \* depend_tasks of the tasks of the request
  virtualDeps,  \* what a search may look up besides the table
  unchecked,    \* tasks of the request whose turn is still to come
  task,         \* checkCycle: taskId
  roots,        \* checkCycle: what is left of dependTasks
  visited, stack,
  calls         \* calls of hasCycleFrom: currentId, and what is left of its deps

searchVars == <<task, roots, visited, stack, calls>>
requestVars == <<request, virtualDeps>>
vars == <<deps, pc, requestVars, unchecked, searchVars>>

NoLists == [id \in {} |-> <<>>]
Lists == UNION {[1..n -> Ids] : n \in 0..MaxDeps}
With(r, d) == [id \in DOMAIN r \cup DOMAIN d |-> IF id \in DOMAIN r THEN r[id] ELSE d[id]]

Init ==
  /\ deps = NoLists
  /\ pc = "idle"
  /\ request = NoLists /\ virtualDeps = NoLists /\ unchecked = {}
  /\ task = NoTask /\ roots = <<>> /\ visited = {} /\ stack = {} /\ calls = <<>>

-----------------------------------------------------------------------------
(* queue.js                                                                 *)

Receive(r, v) ==
  /\ DOMAIN r # {} /\ DOMAIN r \cap DOMAIN deps = {}
  /\ pc' = "checking"
  /\ request' = r /\ virtualDeps' = v /\ unchecked' = DOMAIN r
  /\ UNCHANGED <<deps, searchVars>>

\* enqueue has no virtualDeps.
enqueue(id, list) == Receive([i \in {id} |-> list], NoLists)
batchEnqueue(r) == Receive(r, r)

BetweenTasks == pc = "checking" /\ calls = <<>> /\ roots = <<>>
DepsExist(id) == Range(request[id]) \subseteq DOMAIN deps \cup DOMAIN virtualDeps

\* The next task of the request: checkCycle is called ...
CheckTask(id) ==
  /\ BetweenTasks
  /\ id \in unchecked
  /\ DepsExist(id)
  /\ unchecked' = unchecked \ {id}
  /\ task' = id /\ roots' = request[id]
  /\ UNCHANGED <<deps, pc, requestVars, visited, stack, calls>>

\* ... unless a dependency does not exist.
RefuseMissing(id) ==
  /\ BetweenTasks
  /\ id \in unchecked
  /\ ~DepsExist(id)
  /\ pc' = "missing"
  /\ UNCHANGED <<deps, requestVars, unchecked, searchVars>>

Accept ==
  /\ BetweenTasks
  /\ unchecked = {}
  /\ pc' = "accepted"
  /\ UNCHANGED <<deps, requestVars, unchecked, searchVars>>

\* The request is done with, and what was said of it forgotten.
End ==
  /\ pc' = "idle"
  /\ request' = NoLists /\ virtualDeps' = NoLists /\ unchecked' = {}
  /\ task' = NoTask /\ roots' = <<>> /\ visited' = {} /\ stack' = {} /\ calls' = <<>>

\* createTask, batchCreateTasks
Insert ==
  /\ pc = "accepted"
  /\ deps' = With(request, deps)
  /\ End

\* The error is thrown to the route.
Throw ==
  /\ pc \in {"cycle", "missing"}
  /\ End
  /\ UNCHANGED deps

-----------------------------------------------------------------------------
(* database.js: checkCycle                                                  *)

\* MUTANT of getDepsForTask: looks at the database only
getStoredDepsForTask(id) == IF id \in DOMAIN deps THEN deps[id] ELSE <<>>
getDepsForTask(id) ==
  IF id \in DOMAIN virtualDeps THEN virtualDeps[id]
  ELSE IF id \in DOMAIN deps THEN deps[id] ELSE <<>>

Call(id) == [id |-> id, left |-> getDepsForTask(id)]
RefuseCycle ==
  /\ pc' = "cycle"
  /\ UNCHANGED <<deps, requestVars, unchecked, searchVars>>

\* The next of dependTasks: each is searched from anew.
AtRoot == pc = "checking" /\ calls = <<>> /\ roots # <<>>
SearchFrom(d) ==
  /\ AtRoot
  /\ d = Head(roots) /\ d # task
  /\ roots' = Tail(roots)
  /\ visited' = {task, d} /\ stack' = {task, d} /\ calls' = <<Call(d)>>
  /\ UNCHANGED <<deps, pc, requestVars, unchecked, task>>
DependsOnItself == AtRoot /\ Head(roots) = task /\ RefuseCycle

\* hasCycleFrom: the next of the deps of the innermost call.
Top == calls[Len(calls)]
AtDep(d) == pc = "checking" /\ calls # <<>> /\ Top.left # <<>> /\ d = Head(Top.left)
Looked == [calls EXCEPT ![Len(calls)].left = Tail(@)]

\* MUTANT of Recorded: a task may be visited again
Unrecorded(id) == visited
Recorded(id) == visited \cup {id}

Descend(d) ==
  /\ AtDep(d) /\ d \notin visited
  /\ visited' = Recorded(d) /\ stack' = stack \cup {d}
  /\ calls' = Append(Looked, Call(d))
  /\ UNCHANGED <<deps, pc, requestVars, unchecked, task, roots>>

CloseCycle(d) == AtDep(d) /\ d \in visited /\ d \in stack /\ RefuseCycle

Skip(d) ==
  /\ AtDep(d) /\ d \in visited /\ d \notin stack
  /\ calls' = Looked
  /\ UNCHANGED <<deps, pc, requestVars, unchecked, task, roots, visited, stack>>

\* MUTANT of Unstacked: the task stays on the stack
Kept(id) == stack
Unstacked(id) == stack \ {id}

Return ==
  /\ pc = "checking" /\ calls # <<>> /\ Top.left = <<>>
  /\ stack' = Unstacked(Top.id)
  /\ calls' = SubSeq(calls, 1, Len(calls) - 1)
  /\ UNCHANGED <<deps, pc, requestVars, unchecked, task, roots, visited>>

-----------------------------------------------------------------------------
Request ==
  /\ pc = "idle"
  /\ \/ \E id \in Ids, list \in Lists : enqueue(id, list)
     \/ \E S \in SUBSET (Ids \ DOMAIN deps) : \E r \in [S -> Lists] : batchEnqueue(r)

Next ==
  \/ Request
  \/ \E id \in unchecked : CheckTask(id) \/ RefuseMissing(id)
  \/ Accept \/ Insert \/ Throw
  \/ DependsOnItself \/ Return
  \/ \E d \in Ids : SearchFrom(d) \/ Descend(d) \/ CloseCycle(d) \/ Skip(d)

Spec == Init /\ [][Next]_vars

-----------------------------------------------------------------------------
(* Properties *)

WaitsForItself(d) ==
  \E C \in SUBSET DOMAIN d : C # {} /\ \A c \in C : Range(d[c]) \cap C # {}

Graph == With(request, deps)

\* The search refuses a request only if it would close a cycle, and accepts it only if
\* it does not: neither a diamond nor a dependency named twice is taken for a cycle, and
\* none is missed, although each search forgets what the last one has visited.
SearchIsExact ==
  /\ pc = "cycle" => WaitsForItself(Graph)
  /\ pc = "accepted" => ~WaitsForItself(Graph)

\* The accepted requests together never close a cycle, and no dependency dangles.
StoredAcyclic ==
  /\ ~WaitsForItself(deps)
  /\ \A id \in DOMAIN deps : Range(deps[id]) \subseteq DOMAIN deps

\* Every step of a search brings it nearer to its end, on graphs with cycles too: there
\* are fewer tasks to check, or as many and fewer roots, or fewer ids unvisited, or
\* fewer calls, or fewer deps left to the innermost one.
Measure ==
  <<Cardinality(unchecked), Len(roots), Cardinality(Ids \ visited), Len(calls),
    IF calls = <<>> THEN 0 ELSE Len(Top.left)>>
Less(a, b) == \E i \in DOMAIN a : a[i] < b[i] /\ \A j \in 1..(i - 1) : a[j] = b[j]
SearchProgresses ==
  [][pc = "checking" /\ pc' = "checking" => Less(Measure', Measure)]_vars

=============================================================================
