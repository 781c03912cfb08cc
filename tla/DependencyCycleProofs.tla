------------------------ MODULE DependencyCycleProofs ------------------------
(* Proofs about DependencyCycle, for any graph of dependencies.            *)
EXTENDS DependencyCycle, TLAPS, FiniteSetTheorems, SequenceTheorems

(* The inductive invariant.                                                 *)

IsTable(f) == f \in [DOMAIN f -> Seq(Ids)] /\ DOMAIN f \subseteq Ids

\* The types of the variables, and which of them are in use.
TypeOK ==
  /\ IsTable(deps) /\ IsTable(request)
  /\ DOMAIN request \cap DOMAIN deps = {}
  /\ \/ virtualDeps = request
     \/ virtualDeps = NoLists /\ \E id \in Ids : DOMAIN request = {id}
  /\ pc \in {"idle", "checking", "accepted", "cycle", "missing"}
  /\ unchecked \subseteq DOMAIN request
  /\ task \in (DOMAIN request \ unchecked) \cup {NoTask}
  /\ roots \in Seq(Ids) /\ visited \subseteq Ids /\ stack \subseteq Ids
  /\ calls \in Seq([id : Ids, left : Seq(Ids)])
  /\ pc = "idle" => task = NoTask
  /\ task = NoTask => roots = <<>> /\ calls = <<>>
  /\ task # NoTask => Range(roots) \subseteq Range(request[task])

Deps(id) == Range(getDepsForTask(id))
Loop(C) == C # {} /\ \A c \in C : Range(Graph[c]) \cap C # {}
\* No set of tasks that waits for itself has d in it.
Safe(d) == \A C \in SUBSET DOMAIN Graph : Loop(C) => d \notin C

\* The calls are a path of dependencies that starts from the task, and the stack holds
\* what is on it.
Path ==
  calls # <<>> =>
    /\ calls[1].id \in Range(request[task])
    /\ \A i \in DOMAIN calls : calls[i].id # task /\ Range(calls[i].left) \subseteq Deps(calls[i].id)
    /\ \A i \in 1..(Len(calls) - 1) : calls[i + 1].id \in Deps(calls[i].id)
    /\ \A i, j \in DOMAIN calls : calls[i].id = calls[j].id => i = j
    /\ stack = {task} \cup {calls[i].id : i \in DOMAIN calls}
    /\ stack \subseteq visited

\* What was visited and left depends only on such, and no loop is among it; a call has
\* still to look at its other deps, or is in the call for one.
Finished == visited \ stack
Called(i) == IF i = Len(calls) THEN {} ELSE {calls[i + 1].id}
Explored ==
  calls # <<>> =>
    /\ \A f \in Finished : Deps(f) \subseteq Finished
    /\ \A C \in SUBSET Finished : C # {} => \E c \in C : Deps(c) \cap C = {}
    /\ \A i \in DOMAIN calls :
         Deps(calls[i].id) \subseteq Range(calls[i].left) \cup Finished \cup Called(i)

\* The roots that have been searched are safe, and so are the tasks checked before.
InSearch(d) == calls # <<>> /\ d = calls[1].id
RootsCleared ==
  task # NoTask =>
    \A d \in Range(request[task]) : d \in Range(roots) \/ Safe(d) \/ InSearch(d)
TasksCleared ==
  \A t \in DOMAIN request \ unchecked : DepsExist(t) /\ (t = task \/ Safe(t))
Cleared ==
  /\ pc \in {"checking", "accepted"} => RootsCleared /\ TasksCleared
  /\ pc = "accepted" => unchecked = {} /\ roots = <<>> /\ calls = <<>>

IInv == TypeOK /\ Path /\ Explored /\ Cleared /\ StoredAcyclic /\ SearchIsExact

-----------------------------------------------------------------------------
(* Lists and lookups                                                        *)

LEMMA ListFacts ==
  ASSUME NEW s \in Seq(Ids)
  PROVE /\ Range(s) \subseteq Ids /\ Len(s) \in Nat
        /\ s = <<>> => Range(s) = {}
        /\ s # <<>> => /\ Head(s) \in Ids /\ Tail(s) \in Seq(Ids) /\ Len(Tail(s)) = Len(s) - 1
                       /\ Range(s) = {Head(s)} \cup Range(Tail(s))
<1>1. DOMAIN s = 1..Len(s) /\ Len(s) \in Nat /\ \A i \in 1..Len(s) : s[i] \in Ids
  OBVIOUS
<1>2. Range(s) \subseteq Ids
  BY <1>1 DEF Range
<1>3. s = <<>> => Range(s) = {}
  BY <1>1 DEF Range
<1>4. ASSUME s # <<>>
      PROVE /\ Head(s) \in Ids /\ Tail(s) \in Seq(Ids) /\ Len(Tail(s)) = Len(s) - 1
            /\ Range(s) = {Head(s)} \cup Range(Tail(s))
  <2>1. /\ Len(s) > 0 /\ Head(s) = s[1] /\ Tail(s) \in Seq(Ids) /\ Len(Tail(s)) = Len(s) - 1
        /\ DOMAIN Tail(s) = 1..(Len(s) - 1)
        /\ \A i \in 1..(Len(s) - 1) : Tail(s)[i] = s[i + 1]
    BY <1>4
  <2>2. ASSUME NEW x \in Range(s) PROVE x \in {Head(s)} \cup Range(Tail(s))
    <3>1. PICK i \in 1..Len(s) : x = s[i]
      BY <1>1 DEF Range
    <3>2. CASE i = 1
      BY <2>1, <3>1, <3>2
    <3>3. CASE i # 1
      <4>1. i - 1 \in 1..(Len(s) - 1) /\ x = Tail(s)[i - 1]
        BY <1>1, <2>1, <3>1, <3>3
      <4>2. QED
        BY <4>1, <2>1 DEF Range
    <3>4. QED
      BY <3>2, <3>3
  <2>3. ASSUME NEW x \in Range(Tail(s)) PROVE x \in Range(s)
    <3>1. PICK i \in 1..(Len(s) - 1) : x = Tail(s)[i]
      BY <2>1 DEF Range
    <3>2. i + 1 \in 1..Len(s) /\ x = s[i + 1]
      BY <1>1, <2>1, <3>1
    <3>3. QED
      BY <1>1, <3>2 DEF Range
  <2>4. Head(s) \in Range(s)
    BY <1>1, <2>1 DEF Range
  <2>5. QED
    BY <1>1, <2>1, <2>2, <2>3, <2>4
<1>5. QED
  BY <1>1, <1>2, <1>3, <1>4

\* The graph of a request is that of the tables, each on its own part of the ids.
LEMMA GraphFacts ==
  ASSUME TypeOK
  PROVE /\ IsTable(Graph) /\ DOMAIN Graph = DOMAIN request \cup DOMAIN deps
        /\ \A t \in DOMAIN request : Graph[t] = request[t]
        /\ \A t \in DOMAIN deps : Graph[t] = deps[t]
<1>1. DOMAIN Graph = DOMAIN request \cup DOMAIN deps
  BY DEF Graph, With
<1>2. /\ \A t \in DOMAIN request : Graph[t] = request[t]
      /\ \A t \in DOMAIN deps : Graph[t] = deps[t]
  BY DEF Graph, With, TypeOK
<1>3. \A t \in DOMAIN Graph : Graph[t] \in Seq(Ids)
  BY <1>1, <1>2 DEF TypeOK, IsTable
<1>4. DOMAIN Graph \subseteq Ids
  BY <1>1 DEF TypeOK, IsTable
<1>5. Graph \in [DOMAIN Graph -> Seq(Ids)]
  BY <1>3 DEF Graph, With
<1>6. QED
  BY <1>1, <1>2, <1>4, <1>5 DEF IsTable

\* What a search looks up: the graph of the request, but for the task it is about,
\* which nothing but a batch can look up before it is stored.
LEMMA Lookup ==
  ASSUME TypeOK
  PROVE /\ \A c \in Ids : getDepsForTask(c) \in Seq(Ids) /\ Deps(c) \subseteq Ids
        /\ task # NoTask =>
             \A c \in Ids : c # task =>
               Deps(c) = IF c \in DOMAIN Graph THEN Range(Graph[c]) ELSE {}
<1>1. ASSUME NEW c \in Ids PROVE getDepsForTask(c) \in Seq(Ids)
  <2>1. <<>> \in Seq(Ids)
    OBVIOUS
  <2>2. c \in DOMAIN deps => deps[c] \in Seq(Ids)
    BY DEF TypeOK, IsTable
  <2>3. c \in DOMAIN virtualDeps => virtualDeps[c] \in Seq(Ids)
    BY DEF TypeOK, IsTable, NoLists
  <2>4. QED
    BY <2>1, <2>2, <2>3 DEF getDepsForTask
<1>2. ASSUME NEW c \in Ids PROVE Deps(c) \subseteq Ids
  BY <1>1, ListFacts DEF Deps
<1>3. ASSUME task # NoTask, NEW c \in Ids, c # task
      PROVE Deps(c) = IF c \in DOMAIN Graph THEN Range(Graph[c]) ELSE {}
  <2>1. task \in DOMAIN request
    BY <1>3 DEF TypeOK
  <2>2. c \in DOMAIN request => virtualDeps = request
    <3>1. \A id : DOMAIN request = {id} => c \notin DOMAIN request
      BY <1>3, <2>1
    <3>2. QED
      BY <3>1 DEF TypeOK
  <2>3. c \notin DOMAIN request => c \notin DOMAIN virtualDeps
    BY DEF TypeOK, NoLists
  <2>4. c \in DOMAIN Graph => getDepsForTask(c) = Graph[c]
    BY <2>2, <2>3, GraphFacts DEF getDepsForTask
  <2>5. c \notin DOMAIN Graph => getDepsForTask(c) = <<>>
    BY <2>3, GraphFacts DEF getDepsForTask
  <2>6. Range(<<>>) = {}
    BY DEF Range
  <2>7. QED
    BY <2>4, <2>5, <2>6 DEF Deps
<1>4. QED
  BY <1>1, <1>2, <1>3

-----------------------------------------------------------------------------
(* The stack of calls                                                       *)

CallRecords == [id : Ids, left : Seq(Ids)]

LEMMA CallsFacts ==
  ASSUME TypeOK, calls # <<>>
  PROVE /\ Len(calls) \in Nat \ {0} /\ DOMAIN calls = 1..Len(calls) /\ calls \in Seq(CallRecords)
        /\ \A i \in 1..Len(calls) : /\ calls[i] \in CallRecords
                                    /\ calls[i].id \in Ids /\ calls[i].left \in Seq(Ids)
        /\ 1 \in 1..Len(calls) /\ Len(calls) \in 1..Len(calls)
        /\ Top \in CallRecords /\ Top.id \in Ids /\ Top.left \in Seq(Ids)
        /\ task # NoTask /\ task \in DOMAIN request /\ task \in Ids /\ request[task] \in Seq(Ids)
<1>1. calls \in Seq(CallRecords)
  BY DEF TypeOK, CallRecords
<1>2. /\ Len(calls) \in Nat \ {0} /\ DOMAIN calls = 1..Len(calls)
      /\ \A i \in 1..Len(calls) : calls[i] \in CallRecords
      /\ 1 \in 1..Len(calls) /\ Len(calls) \in 1..Len(calls)
  BY <1>1
<1>3. \A c \in CallRecords : c.id \in Ids /\ c.left \in Seq(Ids)
  BY DEF CallRecords
<1>4. task # NoTask /\ task \in DOMAIN request
  BY DEF TypeOK
<1>5. task \in Ids /\ request[task] \in Seq(Ids)
  BY <1>4 DEF TypeOK, IsTable
<1>6. QED
  BY <1>1, <1>2, <1>3, <1>4, <1>5 DEF Top

\* Looking at the next dep of the innermost call changes no more than that.
LEMMA LookedFacts ==
  ASSUME TypeOK, calls # <<>>, Top.left # <<>>
  PROVE /\ Looked \in Seq(CallRecords) /\ Len(Looked) = Len(calls)
        /\ \A i \in 1..Len(calls) :
             /\ Looked[i].id = calls[i].id
             /\ Looked[i].left = IF i = Len(calls) THEN Tail(Top.left) ELSE calls[i].left
<1> DEFINE n == Len(calls)
<1>1. Tail(Top.left) \in Seq(Ids)
  BY CallsFacts, ListFacts
<1>2. Looked = [calls EXCEPT ![n] = [Top EXCEPT !.left = Tail(Top.left)]]
  BY DEF Looked, Top
<1>3. [Top EXCEPT !.left = Tail(Top.left)] \in CallRecords
  BY <1>1, CallsFacts DEF CallRecords
<1>4. Looked \in Seq(CallRecords) /\ Len(Looked) = n
  BY <1>2, <1>3, CallsFacts
<1>5. \A i \in 1..n : Looked[i] = IF i = n THEN [Top EXCEPT !.left = Tail(Top.left)] ELSE calls[i]
  BY <1>2, CallsFacts
<1>6. /\ [Top EXCEPT !.left = Tail(Top.left)].id = Top.id
      /\ [Top EXCEPT !.left = Tail(Top.left)].left = Tail(Top.left)
  BY CallsFacts DEF CallRecords
<1>7. QED
  BY <1>4, <1>5, <1>6 DEF Top

LEMMA PushSeq ==
  ASSUME NEW S, NEW s \in Seq(S), NEW x \in S
  PROVE /\ Append(s, x) \in Seq(S) /\ Len(Append(s, x)) = Len(s) + 1
        /\ DOMAIN Append(s, x) = 1..(Len(s) + 1)
        /\ \A i \in 1..Len(s) : Append(s, x)[i] = s[i]
        /\ Append(s, x)[Len(s) + 1] = x
  OBVIOUS

LEMMA PopSeq ==
  ASSUME NEW S, NEW s \in Seq(S), NEW n \in Nat, n = Len(s) - 1
  PROVE /\ SubSeq(s, 1, n) \in Seq(S) /\ Len(SubSeq(s, 1, n)) = n
        /\ \A i \in 1..n : SubSeq(s, 1, n)[i] = s[i]
<1>1. SubSeq(s, 1, n) \in Seq(S)
  OBVIOUS
<1>2. Len(SubSeq(s, 1, n)) = n
  OBVIOUS
<1>3. \A i \in 1..n : SubSeq(s, 1, n)[i] = s[i]
  OBVIOUS
<1>4. QED
  BY <1>1, <1>2, <1>3

\* Returning takes the innermost call away.
LEMMA PopFacts ==
  ASSUME TypeOK, calls # <<>>, NEW c, c = SubSeq(calls, 1, Len(calls) - 1)
  PROVE /\ c \in Seq(CallRecords) /\ Len(c) = Len(calls) - 1
        /\ DOMAIN c = 1..(Len(calls) - 1) /\ (c # <<>> <=> Len(calls) # 1)
        /\ \A i \in 1..(Len(calls) - 1) : c[i] = calls[i]
<1> DEFINE n == Len(calls) - 1
<1>1. calls \in Seq(CallRecords) /\ Len(calls) \in Nat \ {0} /\ n \in Nat
  BY CallsFacts
<1> HIDE DEF n
<1>2. n = Len(calls) - 1
  BY DEF n
<1>3. c \in Seq(CallRecords) /\ Len(c) = n /\ \A i \in 1..n : c[i] = calls[i]
  BY <1>1, <1>2, PopSeq
<1>4. DOMAIN c = 1..n
  BY <1>3
<1>5. c = <<>> <=> Len(c) = 0
  BY <1>3, EmptySeq
<1>6. QED
  BY <1>1, <1>2, <1>3, <1>4, <1>5

-----------------------------------------------------------------------------
(* Loops                                                                    *)

\* Nothing in a set that is closed under dependencies and holds no loop waits for itself.
LEMMA ClosedIsSafe ==
  ASSUME TypeOK, task # NoTask,
         NEW F \in SUBSET Ids, task \notin F,
         \A f \in F : Deps(f) \subseteq F,
         \A C \in SUBSET F : C # {} => \E c \in C : Deps(c) \cap C = {},
         NEW d \in F
  PROVE Safe(d)
<1> SUFFICES ASSUME NEW C \in SUBSET DOMAIN Graph, Loop(C), d \in C PROVE FALSE
  BY DEF Safe
<1>1. C \cap F # {} /\ C \cap F \in SUBSET F
  OBVIOUS
<1>2. PICK c \in C \cap F : Deps(c) \cap (C \cap F) = {}
  BY <1>1
<1>3. Deps(c) = Range(Graph[c])
  BY <1>2, Lookup
<1>4. Deps(c) \cap C # {}
  BY <1>2, <1>3 DEF Loop
<1>5. QED
  BY <1>2, <1>4

\* When all its roots have been searched, the task is in no loop.
LEMMA TaskSafe ==
  ASSUME TypeOK, RootsCleared, task # NoTask, roots = <<>>, calls = <<>>
  PROVE Safe(task)
<1> SUFFICES ASSUME NEW C \in SUBSET DOMAIN Graph, Loop(C), task \in C PROVE FALSE
  BY DEF Safe
<1>1. task \in DOMAIN request
  BY DEF TypeOK
<1>2. Graph[task] = request[task]
  BY <1>1, GraphFacts
<1>3. PICK d \in Range(request[task]) : d \in C
  BY <1>2 DEF Loop
<1>4. Safe(d)
  BY <1>3 DEF RootsCleared, Range, InSearch
<1>5. QED
  BY <1>3, <1>4 DEF Safe

\* A loop without tasks of the request is one that is stored.
LEMMA OnlyStored ==
  ASSUME TypeOK, StoredAcyclic, \A t \in DOMAIN request : Safe(t)
  PROVE ~WaitsForItself(Graph)
<1> SUFFICES ASSUME NEW C \in SUBSET DOMAIN Graph, C # {},
                    \A c \in C : Range(Graph[c]) \cap C # {}
             PROVE FALSE
  BY DEF WaitsForItself
<1>1. \A t \in DOMAIN request : t \notin C
  BY DEF Safe, Loop
<1>2. C \subseteq DOMAIN deps /\ \A c \in C : Graph[c] = deps[c]
  BY <1>1, GraphFacts
<1>3. WaitsForItself(deps)
  BY <1>2 DEF WaitsForItself
<1>4. QED
  BY <1>3 DEF StoredAcyclic

-----------------------------------------------------------------------------
(* The invariant is inductive.                                              *)

LEMMA NoListsFacts ==
  /\ IsTable(NoLists) /\ DOMAIN NoLists = {} /\ <<>> \in Seq(Ids) /\ Range(<<>>) = {}
  /\ \A r : DOMAIN r = {} => ~WaitsForItself(r)
<1>1. IsTable(NoLists) /\ DOMAIN NoLists = {} /\ <<>> \in Seq(Ids)
  BY DEF IsTable, NoLists
<1>2. Range(<<>>) = {}
  BY DEF Range
<1>3. \A r : DOMAIN r = {} => ~WaitsForItself(r)
  BY DEF WaitsForItself
<1>4. QED
  BY <1>1, <1>2, <1>3

LEMMA InitInv == Init => IInv
<1> SUFFICES ASSUME Init PROVE IInv
  OBVIOUS
<1>1. TypeOK
  <2>1. calls \in Seq([id : Ids, left : Seq(Ids)])
    BY DEF Init
  <2>2. QED
    BY <2>1, NoListsFacts DEF Init, TypeOK
<1>2. Path /\ Explored /\ Cleared
  BY DEF Init, Path, Explored, Cleared
<1>3. StoredAcyclic
  BY NoListsFacts DEF Init, StoredAcyclic
<1>4. SearchIsExact
  BY DEF Init, SearchIsExact
<1>5. QED
  BY <1>1, <1>2, <1>3, <1>4 DEF IInv

\* What does not depend on the search stays as it is while the request does.
LEMMA SameGraph ==
  ASSUME UNCHANGED <<deps, requestVars>>
  PROVE /\ Graph' = Graph /\ \A d : Safe(d)' = Safe(d)
        /\ \A id : getDepsForTask(id)' = getDepsForTask(id) /\ Deps(id)' = Deps(id)
        /\ \A id : DepsExist(id)' = DepsExist(id)
        /\ StoredAcyclic' = StoredAcyclic /\ WaitsForItself(Graph)' = WaitsForItself(Graph)
<1>1. deps' = deps /\ request' = request /\ virtualDeps' = virtualDeps
  BY DEF requestVars
<1>2. Graph' = Graph
  BY <1>1 DEF Graph, With
<1>3. \A d : Safe(d)' = Safe(d)
  BY <1>2 DEF Safe, Loop
<1>4. \A id : getDepsForTask(id)' = getDepsForTask(id)
  BY <1>1 DEF getDepsForTask
<1>5. \A id : Deps(id)' = Deps(id)
  BY <1>4 DEF Deps
<1>6. \A id : DepsExist(id)' = DepsExist(id)
  BY <1>1 DEF DepsExist
<1>7. StoredAcyclic' = StoredAcyclic
  BY <1>1 DEF StoredAcyclic
<1>8. WaitsForItself(Graph)' = WaitsForItself(Graph)
  BY <1>2 DEF WaitsForItself
<1>9. QED
  BY <1>2, <1>3, <1>4, <1>5, <1>6, <1>7, <1>8

\* The calls after a step of a search, put in terms of the old graph.
LEMMA NextPath ==
  ASSUME UNCHANGED <<deps, requestVars, task>>,
         calls' # <<>> =>
           /\ calls'[1].id \in Range(request[task])
           /\ \A i \in DOMAIN calls' :
                calls'[i].id # task /\ Range(calls'[i].left) \subseteq Deps(calls'[i].id)
           /\ \A i \in 1..(Len(calls') - 1) : calls'[i + 1].id \in Deps(calls'[i].id)
           /\ \A i, j \in DOMAIN calls' : calls'[i].id = calls'[j].id => i = j
           /\ stack' = {task} \cup {calls'[i].id : i \in DOMAIN calls'}
           /\ stack' \subseteq visited'
  PROVE Path'
<1>1. \A i : Deps(calls[i].id)' = Deps(calls'[i].id)
  BY DEF Deps, getDepsForTask, requestVars
<1>2. task' = task /\ request' = request
  BY DEF requestVars
<1>3. ASSUME calls' # <<>>
      PROVE /\ calls'[1].id \in Range(request'[task'])
            /\ \A i \in DOMAIN calls' : calls'[i].id # task' /\ Range(calls'[i].left) \subseteq Deps(calls[i].id)'
            /\ \A i \in 1..(Len(calls') - 1) : calls'[i + 1].id \in Deps(calls[i].id)'
            /\ \A i, j \in DOMAIN calls' : calls'[i].id = calls'[j].id => i = j
            /\ stack' = {task'} \cup {calls'[i].id : i \in DOMAIN calls'}
            /\ stack' \subseteq visited'
  <2>1. calls'[1].id \in Range(request'[task'])
    BY <1>2, <1>3
  <2>2. \A i \in DOMAIN calls' : calls'[i].id # task' /\ Range(calls'[i].left) \subseteq Deps(calls[i].id)'
    BY <1>1, <1>2, <1>3
  <2>3. \A i \in 1..(Len(calls') - 1) : calls'[i + 1].id \in Deps(calls[i].id)'
    BY <1>1, <1>3
  <2>4. \A i, j \in DOMAIN calls' : calls'[i].id = calls'[j].id => i = j
    BY <1>3
  <2>5. stack' = {task'} \cup {calls'[i].id : i \in DOMAIN calls'}
    BY <1>2, <1>3
  <2>6. stack' \subseteq visited'
    BY <1>3
  <2>7. QED
    BY <2>1, <2>2, <2>3, <2>4, <2>5, <2>6, Zenon
<1>4. QED
  BY <1>3, Zenon DEF Path

LEMMA SamePath ==
  ASSUME Path, UNCHANGED <<deps, requestVars, task>>, visited' = visited, stack' = stack, calls' = calls
  PROVE  Path'
<1>1. UNCHANGED <<deps, requestVars, task>>
  OBVIOUS
<1>2. ASSUME calls' # <<>>
      PROVE /\ calls'[1].id \in Range(request[task])
            /\ \A i \in DOMAIN calls' :
                 calls'[i].id # task /\ Range(calls'[i].left) \subseteq Deps(calls'[i].id)
            /\ \A i \in 1..(Len(calls') - 1) : calls'[i + 1].id \in Deps(calls'[i].id)
            /\ \A i, j \in DOMAIN calls' : calls'[i].id = calls'[j].id => i = j
            /\ stack' = {task} \cup {calls'[i].id : i \in DOMAIN calls'}
            /\ stack' \subseteq visited'
  <2>1. calls # <<>>
    BY <1>2
  <2>2. calls[1].id \in Range(request[task]) /\ stack \subseteq visited
    BY <2>1 DEF Path
  <2>3. \A i \in DOMAIN calls : calls[i].id # task /\ Range(calls[i].left) \subseteq Deps(calls[i].id)
    BY <2>1 DEF Path
  <2>4. \A i \in 1..(Len(calls) - 1) : calls[i + 1].id \in Deps(calls[i].id)
    BY <2>1 DEF Path
  <2>5. \A i, j \in DOMAIN calls : calls[i].id = calls[j].id => i = j
    BY <2>1 DEF Path
  <2>6. stack = {task} \cup {calls[i].id : i \in DOMAIN calls}
    BY <2>1 DEF Path
  <2>7. QED
    BY <2>2, <2>3, <2>4, <2>5, <2>6
<1>3. QED
  BY <1>1, <1>2, NextPath

LEMMA SameExplored ==
  ASSUME Explored, UNCHANGED <<deps, requestVars>>, visited' = visited, stack' = stack, calls' = calls
  PROVE  Explored'
<1>1. /\ Finished' = Finished /\ \A i : Called(i)' = Called(i)
      /\ \A x : Deps(x)' = Deps(x) /\ \A i : Deps(calls[i].id)' = Deps(calls[i].id)
  BY SameGraph DEF Finished, Called
<1>2. QED
  BY <1>1 DEF Explored

LEMMA NextExplored ==
  ASSUME UNCHANGED <<deps, requestVars>>, NEW F, F = visited' \ stack',
         calls' # <<>> =>
           /\ \A f \in F : Deps(f) \subseteq F
           /\ \A C \in SUBSET F : C # {} => \E c \in C : Deps(c) \cap C = {}
           /\ \A i \in DOMAIN calls' :
                Deps(calls'[i].id) \subseteq
                  Range(calls'[i].left) \cup F \cup
                    (IF i = Len(calls') THEN {} ELSE {calls'[i + 1].id})
  PROVE Explored'
<1>1. \A i : Deps(calls[i].id)' = Deps(calls'[i].id)
  BY DEF Deps, getDepsForTask, requestVars
<1>2. Finished' = F /\ \A x : Deps(x)' = Deps(x)
  BY SameGraph DEF Finished
<1>3. \A i : Called(i)' = IF i = Len(calls') THEN {} ELSE {calls'[i + 1].id}
  BY DEF Called
<1>4. ASSUME calls' # <<>>, NEW i \in DOMAIN calls'
      PROVE Deps(calls[i].id)' \subseteq Range(calls'[i].left) \cup Finished' \cup Called(i)'
  BY <1>1, <1>2, <1>3, <1>4
<1>5. ASSUME calls' # <<>>
      PROVE /\ \A f \in Finished' : Deps(f)' \subseteq Finished'
            /\ \A C \in SUBSET Finished' : C # {} => \E c \in C : Deps(c)' \cap C = {}
  BY <1>2, <1>5
<1>6. QED
  BY <1>4, <1>5 DEF Explored

\* A request begins with nothing checked.
LEMMA RequestInv ==
  ASSUME IInv, Request
  PROVE IInv'
<1>1. PICK r, v : /\ Receive(r, v) /\ IsTable(r)
                  /\ \/ v = r
                     \/ v = NoLists /\ \E id \in Ids : DOMAIN r = {id}
  <2>1. \A list \in Lists : list \in Seq(Ids)
    BY IdsAssumption DEF Lists
  <2>2. ASSUME NEW id \in Ids, NEW list \in Lists
        PROVE IsTable([i \in {id} |-> list]) /\ DOMAIN [i \in {id} |-> list] = {id}
    BY <2>1 DEF IsTable
  <2>3. ASSUME NEW S \in SUBSET (Ids \ DOMAIN deps), NEW r \in [S -> Lists] PROVE IsTable(r)
    BY <2>1 DEF IsTable
  <2>4. CASE \E id \in Ids, list \in Lists : enqueue(id, list)
    BY <2>2, <2>4 DEF enqueue
  <2>5. CASE \E S \in SUBSET (Ids \ DOMAIN deps) : \E r \in [S -> Lists] : batchEnqueue(r)
    BY <2>3, <2>5 DEF batchEnqueue
  <2>6. QED
    BY <2>4, <2>5 DEF Request
<1>2. pc = "idle" /\ task = NoTask /\ roots = <<>> /\ calls = <<>>
  BY DEF Request, IInv, TypeOK
<1>3. /\ DOMAIN r \cap DOMAIN deps = {} /\ pc' = "checking"
      /\ request' = r /\ virtualDeps' = v /\ unchecked' = DOMAIN r /\ deps' = deps
      /\ task' = task /\ roots' = roots /\ visited' = visited /\ stack' = stack /\ calls' = calls
  BY <1>1 DEF Receive, searchVars
<1>4. TypeOK'
  BY <1>1, <1>2, <1>3 DEF IInv, TypeOK, IsTable
<1>5. Path' /\ Explored'
  BY <1>2, <1>3 DEF Path, Explored
<1>6. Cleared'
  BY <1>2, <1>3 DEF Cleared, RootsCleared, TasksCleared
<1>7. StoredAcyclic'
  BY <1>3 DEF IInv, StoredAcyclic
<1>8. SearchIsExact'
  BY <1>3 DEF SearchIsExact
<1>9. QED
  BY <1>4, <1>5, <1>6, <1>7, <1>8 DEF IInv

\* Between two tasks, the last one has turned out to be in no loop.
LEMMA CheckedAreSafe ==
  ASSUME IInv, BetweenTasks
  PROVE \A t \in DOMAIN request \ unchecked : DepsExist(t) /\ Safe(t)
<1>1. RootsCleared /\ TasksCleared /\ TypeOK
  BY DEF IInv, Cleared, BetweenTasks
<1>2. task # NoTask => Safe(task)
  BY <1>1, TaskSafe DEF BetweenTasks
<1>3. \A t \in DOMAIN request : t # NoTask
  BY <1>1, IdsAssumption DEF TypeOK, IsTable
<1>4. QED
  BY <1>1, <1>2, <1>3 DEF TasksCleared

LEMMA CheckTaskInv ==
  ASSUME IInv, NEW id \in unchecked, CheckTask(id)
  PROVE IInv'
<1>1. /\ pc = "checking" /\ pc' = "checking" /\ calls = <<>> /\ calls' = <<>> /\ DepsExist(id)
      /\ UNCHANGED <<deps, requestVars>> /\ visited' = visited /\ stack' = stack
      /\ task' = id /\ roots' = request[id] /\ unchecked' = unchecked \ {id} /\ BetweenTasks
      /\ request' = request /\ deps' = deps /\ virtualDeps' = virtualDeps
  BY DEF CheckTask, BetweenTasks, requestVars
<1>2. TypeOK
  BY DEF IInv
<1>3. id \in DOMAIN request /\ id # NoTask /\ request[id] \in Seq(Ids)
  BY <1>2, IdsAssumption DEF TypeOK, IsTable
<1>4. TypeOK'
  <2>1. IsTable(deps') /\ IsTable(request')
    BY <1>1, <1>2 DEF TypeOK
  <2>2. calls' \in Seq([id : Ids, left : Seq(Ids)]) /\ visited' \subseteq Ids /\ stack' \subseteq Ids
    BY <1>1, <1>2 DEF TypeOK
  <2>3. unchecked' \subseteq DOMAIN request' /\ task' \in DOMAIN request' \ unchecked' /\ task' # NoTask
    BY <1>1, <1>2, <1>3 DEF TypeOK
  <2>4. roots' \in Seq(Ids) /\ Range(roots') \subseteq Range(request'[task'])
    BY <1>1, <1>3
  <2>5. /\ DOMAIN request' \cap DOMAIN deps' = {}
        /\ \/ virtualDeps' = request'
           \/ virtualDeps' = NoLists /\ \E i \in Ids : DOMAIN request' = {i}
    BY <1>1, <1>2 DEF TypeOK
  <2>6. QED
    BY <1>1, <2>1, <2>2, <2>3, <2>4, <2>5 DEF TypeOK, IsTable
<1>5. Path' /\ Explored'
  BY <1>1 DEF Path, Explored
<1>6. RootsCleared'
  BY <1>1 DEF RootsCleared
<1>7. TasksCleared'
  BY <1>1, SameGraph, CheckedAreSafe DEF TasksCleared
<1>8. Cleared'
  BY <1>1, <1>6, <1>7 DEF Cleared
<1>9. StoredAcyclic' /\ SearchIsExact'
  BY <1>1, SameGraph DEF IInv, SearchIsExact
<1>10. QED
  BY <1>4, <1>5, <1>8, <1>9 DEF IInv

\* An outcome changes nothing else, and must be the right one.
LEMMA OutcomeInv ==
  ASSUME IInv, UNCHANGED <<deps, requestVars, unchecked, searchVars>>,
         \/ pc' = "missing"
         \/ pc' = "cycle" /\ WaitsForItself(Graph)
         \/ pc' = "accepted" /\ unchecked = {} /\ BetweenTasks
  PROVE IInv'
<1>1. /\ deps' = deps /\ request' = request /\ virtualDeps' = virtualDeps /\ unchecked' = unchecked
      /\ task' = task /\ roots' = roots /\ visited' = visited /\ stack' = stack /\ calls' = calls
      /\ UNCHANGED <<deps, requestVars>>
  BY DEF requestVars, searchVars
<1>2. TypeOK'
  BY <1>1 DEF IInv, TypeOK, IsTable
<1>3. Path'
  <2>1. Path /\ UNCHANGED <<deps, requestVars, task>>
    BY <1>1 DEF IInv
  <2>2. QED
    BY <1>1, <2>1, SamePath
<1>4. Explored'
  BY <1>1, SameExplored DEF IInv
<1>5. pc' = "accepted" => ~WaitsForItself(Graph) /\ RootsCleared /\ TasksCleared
  BY CheckedAreSafe, OnlyStored DEF IInv, BetweenTasks, Cleared
<1>6. RootsCleared' = RootsCleared /\ TasksCleared' = TasksCleared
  BY <1>1, SameGraph DEF RootsCleared, TasksCleared, InSearch
<1>7. Cleared'
  BY <1>1, <1>5, <1>6 DEF Cleared, BetweenTasks
<1>8. StoredAcyclic' /\ SearchIsExact'
  BY <1>1, <1>5, SameGraph DEF IInv, SearchIsExact
<1>9. QED
  BY <1>2, <1>3, <1>4, <1>7, <1>8 DEF IInv

\* At the end of a request nothing is left of it but what was inserted.
LEMMA EndInv ==
  ASSUME IInv, End, deps' = deps \/ (pc = "accepted" /\ deps' = Graph)
  PROVE IInv'
<1>1. /\ pc' = "idle" /\ request' = NoLists /\ virtualDeps' = NoLists /\ unchecked' = {}
      /\ task' = NoTask /\ roots' = <<>> /\ visited' = {} /\ stack' = {} /\ calls' = <<>>
  BY DEF End
<1>2. TypeOK
  BY DEF IInv
<1>3. IsTable(deps')
  BY <1>2, GraphFacts DEF TypeOK
<1>4. TypeOK'
  <2>1. calls' \in Seq([id : Ids, left : Seq(Ids)])
    BY <1>1
  <2>2. QED
    BY <1>1, <1>3, <2>1, NoListsFacts DEF TypeOK, IsTable
<1>5. Path' /\ Explored' /\ Cleared' /\ SearchIsExact'
  BY <1>1 DEF Path, Explored, Cleared, SearchIsExact
<1>6. StoredAcyclic'
  <2>1. CASE deps' = deps
    BY <2>1 DEF IInv, StoredAcyclic
  <2>2. CASE pc = "accepted" /\ deps' = Graph
    <3>1. ~WaitsForItself(Graph)
      BY <2>2 DEF IInv, SearchIsExact
    <3>2. \A t \in DOMAIN request : DepsExist(t)
      BY <2>2 DEF IInv, Cleared, TasksCleared
    <3>3. DOMAIN virtualDeps \subseteq DOMAIN request
      BY <1>2, NoListsFacts DEF TypeOK
    <3>4. \A t \in DOMAIN Graph : Range(Graph[t]) \subseteq DOMAIN Graph
      BY <1>2, <3>2, <3>3, GraphFacts DEF IInv, StoredAcyclic, DepsExist
    <3>5. QED
      BY <2>2, <3>1, <3>4 DEF StoredAcyclic, WaitsForItself
  <2>3. QED
    BY <2>1, <2>2
<1>7. QED
  BY <1>4, <1>5, <1>6 DEF IInv

\* A search goes on: what the steps of a search have in common.
LEMMA SearchStepInv ==
  ASSUME IInv, pc = "checking", task # NoTask,
         UNCHANGED <<deps, pc, requestVars, unchecked, task>>,
         roots' \in Seq(Ids), Range(roots') \subseteq Range(request[task]),
         visited' \subseteq Ids, stack' \subseteq Ids, calls' \in Seq(CallRecords),
         Path', Explored', RootsCleared'
  PROVE IInv'
<1>1. /\ deps' = deps /\ request' = request /\ virtualDeps' = virtualDeps /\ unchecked' = unchecked
      /\ pc' = pc /\ task' = task /\ UNCHANGED <<deps, requestVars>>
  BY DEF requestVars
<1>2. TypeOK'
  BY <1>1 DEF IInv, TypeOK, IsTable, CallRecords
<1>3. TasksCleared'
  BY <1>1, SameGraph DEF IInv, Cleared, TasksCleared
<1>4. Cleared'
  BY <1>1, <1>3 DEF Cleared
<1>5. StoredAcyclic' /\ SearchIsExact'
  BY <1>1, SameGraph DEF IInv, SearchIsExact
<1>6. QED
  BY <1>2, <1>4, <1>5 DEF IInv

LEMMA SearchFromInv ==
  ASSUME IInv, NEW d \in Ids, SearchFrom(d)
  PROVE IInv'
<1>1. /\ pc = "checking" /\ calls = <<>> /\ roots # <<>> /\ d = Head(roots) /\ d # task
      /\ roots' = Tail(roots) /\ visited' = {task, d} /\ stack' = {task, d} /\ calls' = <<Call(d)>>
      /\ UNCHANGED <<deps, pc, requestVars, unchecked, task>>
      /\ UNCHANGED <<deps, requestVars>> /\ request' = request /\ task' = task
  BY DEF SearchFrom, AtRoot, requestVars
<1>2. TypeOK /\ task # NoTask /\ task \in Ids /\ roots \in Seq(Ids)
      /\ Range(roots) \subseteq Range(request[task])
  BY <1>1 DEF IInv, TypeOK, IsTable
<1>3. roots' \in Seq(Ids) /\ Range(roots) = {d} \cup Range(roots')
  BY <1>1, <1>2, ListFacts
<1>4. /\ Call(d) \in CallRecords /\ Call(d).id = d /\ Call(d).left = getDepsForTask(d)
      /\ Range(getDepsForTask(d)) = Deps(d)
  BY <1>2, Lookup DEF Call, CallRecords, Deps
<1>5. calls' \in Seq(CallRecords) /\ calls' # <<>> /\ DOMAIN calls' = {1} /\ Len(calls') = 1
      /\ calls'[1] = Call(d)
  BY <1>1, <1>4
<1>6. Path'
  <2>1. \A i \in DOMAIN calls' : calls'[i].id # task' /\ Range(calls'[i].left) \subseteq Deps(calls'[i].id)
    BY <1>1, <1>4, <1>5
  <2>2. stack' = {task'} \cup {calls'[i].id : i \in DOMAIN calls'}
    BY <1>1, <1>4, <1>5
  <2>3. 1..(Len(calls') - 1) = {}
    BY <1>5
  <2>4. calls'[1].id \in Range(request'[task'])
    BY <1>1, <1>2, <1>3, <1>4, <1>5
  <2>5. \A i, j \in DOMAIN calls' : calls'[i].id = calls'[j].id => i = j
    BY <1>5
  <2>6. QED
    BY <1>1, <2>1, <2>2, <2>3, <2>4, <2>5, NextPath
<1>7. Explored'
  <2>1. visited' \ stack' = {}
    BY <1>1
  <2>2. \A i \in DOMAIN calls' : Deps(calls'[i].id) \subseteq Range(calls'[i].left)
    BY <1>4, <1>5
  <2>3. QED
    BY <1>1, <2>1, <2>2, NextExplored
<1>8. RootsCleared'
  <2>1. RootsCleared
    BY <1>1 DEF IInv, Cleared
  <2>2. \A x : Safe(x)' = Safe(x)
    BY <1>1, SameGraph
  <2>3. calls'[1].id = d
    BY <1>4, <1>5
  <2>4. QED
    BY <1>1, <1>2, <1>3, <1>5, <2>1, <2>2, <2>3 DEF RootsCleared, InSearch
<1>9. QED
  BY <1>1, <1>2, <1>3, <1>5, <1>6, <1>7, <1>8, SearchStepInv

LEMMA DescendInv ==
  ASSUME IInv, NEW d \in Ids, Descend(d)
  PROVE IInv'
<1> DEFINE n == Len(calls)
<1>1. /\ pc = "checking" /\ calls # <<>> /\ Top.left # <<>> /\ d = Head(Top.left) /\ d \notin visited
      /\ visited' = visited \cup {d} /\ stack' = stack \cup {d}
      /\ calls' = Append(Looked, Call(d))
      /\ UNCHANGED <<deps, pc, requestVars, unchecked, task>> /\ UNCHANGED <<deps, requestVars>>
      /\ roots' = roots /\ task' = task /\ request' = request
  BY DEF Descend, Recorded, AtDep, requestVars
<1>2. TypeOK /\ Path /\ Explored
  BY DEF IInv
<1>3. /\ n \in Nat \ {0} /\ DOMAIN calls = 1..n /\ calls[n] = Top
      /\ \A i \in 1..n : calls[i].id \in Ids /\ calls[i].left \in Seq(Ids)
      /\ task # NoTask /\ task \in Ids
  BY <1>1, <1>2, CallsFacts DEF Top
<1>4. /\ Call(d) \in CallRecords /\ Call(d).id = d /\ Call(d).left = getDepsForTask(d)
      /\ Range(getDepsForTask(d)) = Deps(d)
  BY <1>2, Lookup DEF Call, CallRecords, Deps
<1>5. /\ Looked \in Seq(CallRecords) /\ Len(Looked) = n
      /\ \A i \in 1..n : /\ Looked[i].id = calls[i].id
                         /\ Looked[i].left = IF i = n THEN Tail(calls[n].left) ELSE calls[i].left
  BY <1>1, <1>2, <1>3, LookedFacts
<1>6. /\ calls' \in Seq(CallRecords) /\ Len(calls') = n + 1 /\ DOMAIN calls' = 1..(n + 1)
      /\ \A i \in 1..n : calls'[i] = Looked[i]
      /\ calls'[n + 1] = Call(d)
  BY <1>1, <1>4, <1>5, PushSeq
<1>7. Range(calls[n].left) = {d} \cup Range(Tail(calls[n].left))
  BY <1>1, <1>3, ListFacts
<1> HIDE DEF n
<1>8. /\ calls[1].id \in Range(request[task])
      /\ \A i \in 1..n : calls[i].id # task /\ Range(calls[i].left) \subseteq Deps(calls[i].id)
      /\ \A i \in 1..(n - 1) : calls[i + 1].id \in Deps(calls[i].id)
      /\ \A i, j \in 1..n : calls[i].id = calls[j].id => i = j
      /\ stack = {task} \cup {calls[i].id : i \in 1..n}
      /\ stack \subseteq visited
  BY <1>1, <1>2, <1>3 DEF Path, n
<1>9. d \notin stack /\ d # task /\ \A i \in 1..n : calls[i].id # d
  BY <1>1, <1>8
<1>10. \A i \in 1..(n + 1) : i \in 1..n \/ i = n + 1
  BY <1>3
<1>11. /\ \A i \in 1..n : calls'[i].id = calls[i].id
       /\ \A i \in 1..n : calls'[i].left = IF i = n THEN Tail(calls[n].left) ELSE calls[i].left
       /\ calls'[n + 1].id = d /\ calls'[n + 1].left = getDepsForTask(d)
  BY <1>4, <1>5, <1>6
<1>12. Path'
  <2>1. calls'[1].id \in Range(request[task])
    BY <1>3, <1>8, <1>11
  <2>2. \A i \in 1..(n + 1) : calls'[i].id # task /\ Range(calls'[i].left) \subseteq Deps(calls'[i].id)
    BY <1>4, <1>7, <1>8, <1>9, <1>10, <1>11
  <2>3. \A i \in 1..n : calls'[i + 1].id \in Deps(calls'[i].id)
    <3> SUFFICES ASSUME NEW i \in 1..n PROVE calls'[i + 1].id \in Deps(calls'[i].id)
      OBVIOUS
    <3>1. CASE i = n
      BY <3>1, <1>7, <1>8, <1>11
    <3>2. CASE i # n
      <4>1. i \in 1..(n - 1) /\ i + 1 \in 1..n
        BY <3>2, <1>3
      <4>2. QED
        BY <4>1, <1>8, <1>11
    <3>3. QED
      BY <3>1, <3>2
  <2>4. \A i, j \in 1..(n + 1) : calls'[i].id = calls'[j].id => i = j
    BY <1>8, <1>9, <1>10, <1>11
  <2>5. stack' = {task} \cup {calls'[i].id : i \in 1..(n + 1)}
    <3>1. {calls'[i].id : i \in 1..(n + 1)} = {calls[i].id : i \in 1..n} \cup {d}
      <4>1. n + 1 \in 1..(n + 1) /\ \A i \in 1..n : i \in 1..(n + 1)
        BY <1>3
      <4>2. QED
        BY <4>1, <1>10, <1>11
    <3>2. QED
      BY <3>1, <1>1, <1>8
  <2>6. stack' \subseteq visited'
    BY <1>1, <1>8
  <2>7. Len(calls') - 1 = n /\ UNCHANGED <<deps, requestVars, task>>
    BY <1>1, <1>3, <1>6
  <2>8. QED
    BY <1>6, <2>1, <2>2, <2>3, <2>4, <2>5, <2>6, <2>7, NextPath
<1>13. Explored'
  <2>1. visited' \ stack' = Finished
    BY <1>1 DEF Finished
  <2>2. /\ \A f \in Finished : Deps(f) \subseteq Finished
        /\ \A C \in SUBSET Finished : C # {} => \E c \in C : Deps(c) \cap C = {}
        /\ \A i \in 1..n : Deps(calls[i].id) \subseteq Range(calls[i].left) \cup Finished \cup Called(i)
    BY <1>1, <1>2, <1>3 DEF Explored
  <2>3. \A i \in 1..n : Called(i) = IF i = n THEN {} ELSE {calls[i + 1].id}
    BY DEF Called, n
  <2>4. \A i \in 1..(n + 1) :
          Deps(calls'[i].id) \subseteq
            Range(calls'[i].left) \cup Finished \cup (IF i = n + 1 THEN {} ELSE {calls'[i + 1].id})
    <3> SUFFICES ASSUME NEW i \in 1..(n + 1)
                 PROVE Deps(calls'[i].id) \subseteq
                         Range(calls'[i].left) \cup Finished \cup
                           (IF i = n + 1 THEN {} ELSE {calls'[i + 1].id})
      OBVIOUS
    <3>1. CASE i = n + 1
      BY <3>1, <1>4, <1>11
    <3>2. CASE i = n
      <4>1. n \in 1..n /\ i # n + 1
        BY <3>2, <1>3
      <4>2. Deps(calls[n].id) \subseteq Range(calls[n].left) \cup Finished
        BY <4>1, <2>2, <2>3
      <4>3. QED
        BY <4>1, <4>2, <3>2, <1>7, <1>11
    <3>3. CASE i # n /\ i # n + 1
      <4>1. i \in 1..n /\ i + 1 \in 1..n
        BY <3>3, <1>3
      <4>2. Deps(calls[i].id) \subseteq Range(calls[i].left) \cup Finished \cup {calls[i + 1].id}
        BY <4>1, <3>3, <2>2, <2>3
      <4>3. QED
        BY <4>1, <4>2, <3>3, <1>11
    <3>4. QED
      BY <3>1, <3>2, <3>3
  <2>5. \A i \in DOMAIN calls' :
          Deps(calls'[i].id) \subseteq
            Range(calls'[i].left) \cup Finished \cup
              (IF i = Len(calls') THEN {} ELSE {calls'[i + 1].id})
    BY <1>6, <2>4
  <2>6. QED
    BY <1>1, <2>1, <2>2, <2>5, NextExplored
<1>14. RootsCleared'
  <2>1. RootsCleared
    BY <1>1 DEF IInv, Cleared
  <2>2. \A x : Safe(x)' = Safe(x)
    BY <1>1, SameGraph
  <2>3. calls' # <<>> /\ calls'[1].id = calls[1].id
    BY <1>3, <1>6, <1>11
  <2>4. QED
    BY <1>1, <2>1, <2>2, <2>3 DEF RootsCleared, InSearch
<1>15. /\ roots' \in Seq(Ids) /\ Range(roots') \subseteq Range(request[task])
       /\ visited' \subseteq Ids /\ stack' \subseteq Ids
  BY <1>1, <1>2, <1>3 DEF TypeOK
<1>16. QED
  BY <1>1, <1>3, <1>6, <1>12, <1>13, <1>14, <1>15, SearchStepInv

LEMMA SkipInv ==
  ASSUME IInv, NEW d \in Ids, Skip(d)
  PROVE IInv'
<1> DEFINE n == Len(calls)
<1>1. /\ pc = "checking" /\ calls # <<>> /\ Top.left # <<>> /\ d = Head(Top.left)
      /\ d \in Finished /\ calls' = Looked
      /\ UNCHANGED <<deps, pc, requestVars, unchecked, task>> /\ UNCHANGED <<deps, requestVars>>
      /\ visited' = visited /\ stack' = stack
      /\ roots' = roots /\ task' = task /\ request' = request
  BY DEF Skip, AtDep, requestVars, Finished
<1>2. TypeOK /\ Path /\ Explored
  BY DEF IInv
<1>3. /\ n \in Nat \ {0} /\ DOMAIN calls = 1..n /\ calls[n] = Top
      /\ \A i \in 1..n : calls[i].id \in Ids /\ calls[i].left \in Seq(Ids)
      /\ task # NoTask /\ 1 \in 1..n /\ n \in 1..n
  BY <1>1, <1>2, CallsFacts DEF Top
<1>4. /\ calls' \in Seq(CallRecords) /\ Len(calls') = n
      /\ \A i \in 1..n : /\ calls'[i].id = calls[i].id
                         /\ calls'[i].left = IF i = n THEN Tail(calls[n].left) ELSE calls[i].left
  BY <1>1, <1>2, <1>3, LookedFacts
<1>5. Range(calls[n].left) = {d} \cup Range(Tail(calls[n].left))
  BY <1>1, <1>3, ListFacts
<1>6. DOMAIN calls' = 1..n
  BY <1>4
<1> HIDE DEF n
<1>7. \A i \in 1..(n - 1) : i \in 1..n /\ i + 1 \in 1..n
  BY <1>3
<1>8. Path'
  <2>1. /\ calls[1].id \in Range(request[task])
        /\ \A i \in 1..n : calls[i].id # task /\ Range(calls[i].left) \subseteq Deps(calls[i].id)
        /\ \A i \in 1..(n - 1) : calls[i + 1].id \in Deps(calls[i].id)
        /\ \A i, j \in 1..n : calls[i].id = calls[j].id => i = j
        /\ stack = {task} \cup {calls[i].id : i \in 1..n}
        /\ stack \subseteq visited
    BY <1>1, <1>2, <1>3 DEF Path, n
  <2>2. calls'[1].id \in Range(request[task])
    BY <1>3, <1>4, <2>1
  <2>3. \A i \in 1..n : calls'[i].id # task /\ Range(calls'[i].left) \subseteq Deps(calls'[i].id)
    BY <1>3, <1>4, <1>5, <2>1
  <2>4. \A i \in 1..(n - 1) : calls'[i + 1].id \in Deps(calls'[i].id)
    BY <1>4, <1>7, <2>1
  <2>5. \A i, j \in 1..n : calls'[i].id = calls'[j].id => i = j
    BY <1>4, <2>1
  <2>6. {calls'[i].id : i \in 1..n} = {calls[i].id : i \in 1..n}
    BY <1>4
  <2>7. stack' = {task} \cup {calls'[i].id : i \in 1..n} /\ stack' \subseteq visited'
    BY <1>1, <2>1, <2>6
  <2>8. UNCHANGED <<deps, requestVars, task>>
    BY <1>1
  <2>9. QED
    BY <1>4, <1>6, <2>2, <2>3, <2>4, <2>5, <2>7, <2>8, NextPath
<1>9. Explored'
  <2>1. visited' \ stack' = Finished
    BY <1>1 DEF Finished
  <2>2. /\ \A f \in Finished : Deps(f) \subseteq Finished
        /\ \A C \in SUBSET Finished : C # {} => \E c \in C : Deps(c) \cap C = {}
        /\ \A i \in 1..n : Deps(calls[i].id) \subseteq Range(calls[i].left) \cup Finished \cup Called(i)
    BY <1>1, <1>2, <1>3 DEF Explored
  <2>3. \A i \in 1..n : Called(i) = IF i = n THEN {} ELSE {calls[i + 1].id}
    BY DEF Called, n
  <2>4. ASSUME NEW i \in 1..n
        PROVE Deps(calls'[i].id) \subseteq
                Range(calls'[i].left) \cup Finished \cup (IF i = n THEN {} ELSE {calls'[i + 1].id})
    <3>1. CASE i = n
      BY <3>1, <1>1, <1>4, <1>5, <2>2, <2>3
    <3>2. CASE i # n
      <4>1. i \in 1..(n - 1)
        BY <3>2, <1>3
      <4>2. Deps(calls[i].id) \subseteq Range(calls[i].left) \cup Finished \cup {calls[i + 1].id}
        BY <3>2, <2>2, <2>3
      <4>3. QED
        BY <3>2, <4>1, <4>2, <1>4, <1>7
    <3>3. QED
      BY <3>1, <3>2
  <2>5. \A i \in DOMAIN calls' :
          Deps(calls'[i].id) \subseteq
            Range(calls'[i].left) \cup Finished \cup
              (IF i = Len(calls') THEN {} ELSE {calls'[i + 1].id})
    BY <1>4, <1>6, <2>4
  <2>6. QED
    BY <1>1, <2>1, <2>2, <2>5, NextExplored
<1>10. RootsCleared'
  <2>1. RootsCleared
    BY <1>1 DEF IInv, Cleared
  <2>2. \A x : Safe(x)' = Safe(x)
    BY <1>1, SameGraph
  <2>3. calls' # <<>> /\ calls'[1].id = calls[1].id
    BY <1>3, <1>4
  <2>4. QED
    BY <1>1, <2>1, <2>2, <2>3 DEF RootsCleared, InSearch
<1>11. /\ roots' \in Seq(Ids) /\ Range(roots') \subseteq Range(request[task])
       /\ visited' \subseteq Ids /\ stack' \subseteq Ids
  BY <1>1, <1>2, <1>3 DEF TypeOK
<1>12. QED
  BY <1>1, <1>3, <1>4, <1>8, <1>9, <1>10, <1>11, SearchStepInv

\* A call that returns leaves an id whose deps are all finished, so that it can be in no
\* loop of the finished; the call for a root leaves a root that is safe.
LEMMA ReturnInv ==
  ASSUME IInv, Return
  PROVE IInv'
<1> DEFINE n == Len(calls)
           x == Top.id
           F == Finished \cup {x}
<1>1. /\ pc = "checking" /\ calls # <<>> /\ Top.left = <<>>
      /\ stack' = stack \ {x} /\ calls' = SubSeq(calls, 1, n - 1) /\ visited' = visited
      /\ UNCHANGED <<deps, pc, requestVars, unchecked, task>> /\ UNCHANGED <<deps, requestVars>>
      /\ roots' = roots /\ task' = task /\ request' = request
  BY DEF Return, Unstacked, requestVars
<1>2. TypeOK /\ Path /\ Explored
  BY DEF IInv
<1>3. /\ n \in Nat \ {0} /\ DOMAIN calls = 1..n /\ calls[n].id = x /\ calls[n].left = <<>>
      /\ \A i \in 1..n : calls[i].id \in Ids /\ calls[i].left \in Seq(Ids)
      /\ task # NoTask /\ 1 \in 1..n /\ n \in 1..n /\ x \in Ids
  BY <1>1, <1>2, CallsFacts DEF Top
<1>4. /\ calls' \in Seq(CallRecords) /\ Len(calls') = n - 1 /\ DOMAIN calls' = 1..(n - 1)
      /\ (calls' # <<>> <=> n # 1)
      /\ \A i \in 1..(n - 1) : calls'[i] = calls[i]
  BY <1>1, <1>2, PopFacts
<1> HIDE DEF n, x
<1>5. /\ \A i \in 1..(n - 1) : i \in 1..n /\ i # n /\ i + 1 \in 1..n
      /\ \A i \in 1..n : i = n \/ i \in 1..(n - 1)
      /\ \A i \in 1..(n - 1 - 1) : i \in 1..(n - 1) /\ i + 1 \in 1..(n - 1)
      /\ n # 1 => 1 \in 1..(n - 1)
  BY <1>3
<1>6. /\ calls[1].id \in Range(request[task])
      /\ \A i \in 1..n : calls[i].id # task /\ Range(calls[i].left) \subseteq Deps(calls[i].id)
      /\ \A i \in 1..(n - 1) : calls[i + 1].id \in Deps(calls[i].id)
      /\ \A i, j \in 1..n : calls[i].id = calls[j].id => i = j
      /\ stack = {task} \cup {calls[i].id : i \in 1..n}
      /\ stack \subseteq visited
  BY <1>1, <1>2, <1>3 DEF Path, n
<1>7. Path'
  <2>1. ASSUME n # 1
        PROVE stack' = {task} \cup {calls'[i].id : i \in 1..(n - 1)} /\ stack' \subseteq visited'
    <3>1. {calls[i].id : i \in 1..n} = {calls[i].id : i \in 1..(n - 1)} \cup {x}
      BY <1>3, <1>5
    <3>2. x # task /\ \A i \in 1..(n - 1) : calls[i].id # x
      BY <1>3, <1>5, <1>6
    <3>3. {calls'[i].id : i \in 1..(n - 1)} = {calls[i].id : i \in 1..(n - 1)}
      BY <1>4
    <3>4. x \notin {calls'[i].id : i \in 1..(n - 1)}
      BY <3>2, <3>3
    <3>5. QED
      BY <1>1, <1>6, <3>1, <3>2, <3>3, <3>4
  <2>2. n # 1 => calls'[1].id \in Range(request[task])
    BY <1>4, <1>5, <1>6
  <2>3. \A i \in 1..(n - 1) : calls'[i].id # task /\ Range(calls'[i].left) \subseteq Deps(calls'[i].id)
    BY <1>4, <1>5, <1>6
  <2>4. \A i \in 1..(n - 1 - 1) : calls'[i + 1].id \in Deps(calls'[i].id)
    BY <1>4, <1>5, <1>6
  <2>5. \A i, j \in 1..(n - 1) : calls'[i].id = calls'[j].id => i = j
    BY <1>4, <1>5, <1>6
  <2>6. UNCHANGED <<deps, requestVars, task>>
    BY <1>1
  <2>7. QED
    BY <1>4, <2>1, <2>2, <2>3, <2>4, <2>5, <2>6, NextPath
<1>8. /\ \A f \in Finished : Deps(f) \subseteq Finished
      /\ \A C \in SUBSET Finished : C # {} => \E c \in C : Deps(c) \cap C = {}
      /\ \A i \in 1..n : Deps(calls[i].id) \subseteq Range(calls[i].left) \cup Finished \cup Called(i)
  BY <1>1, <1>2, <1>3 DEF Explored
<1>9. \A i \in 1..n : Called(i) = IF i = n THEN {} ELSE {calls[i + 1].id}
  BY DEF Called, n
<1>10. Deps(x) \subseteq Finished
  <2>1. Range(calls[n].left) = {} /\ Called(n) = {}
    BY <1>3, <1>9, NoListsFacts
  <2>2. QED
    BY <1>3, <1>8, <2>1
<1>11. x \in stack /\ x \notin Finished /\ x # task /\ task \notin Finished
  BY <1>3, <1>6 DEF Finished
<1>12. \A f \in F : Deps(f) \subseteq F
  BY <1>8, <1>10
<1>13. \A C \in SUBSET F : C # {} => \E c \in C : Deps(c) \cap C = {}
  <2> SUFFICES ASSUME NEW C \in SUBSET F, C # {} PROVE \E c \in C : Deps(c) \cap C = {}
    OBVIOUS
  <2>1. CASE C \cap Finished = {}
    BY <2>1, <1>10
  <2>2. CASE C \cap Finished # {}
    <3>1. PICK c \in C \cap Finished : Deps(c) \cap (C \cap Finished) = {}
      BY <2>2, <1>8
    <3>2. Deps(c) \subseteq Finished
      BY <3>1, <1>8
    <3>3. QED
      BY <3>1, <3>2
  <2>3. QED
    BY <2>1, <2>2
<1>14. visited' \ stack' = F
  BY <1>1, <1>6, <1>11 DEF Finished
<1>15. Explored'
  <2>1. ASSUME NEW i \in 1..(n - 1)
        PROVE Deps(calls'[i].id) \subseteq
                Range(calls'[i].left) \cup F \cup (IF i = n - 1 THEN {} ELSE {calls'[i + 1].id})
    <3>1. Deps(calls[i].id) \subseteq Range(calls[i].left) \cup Finished \cup {calls[i + 1].id}
      BY <1>5, <1>8, <1>9
    <3>2. CASE i = n - 1
      <4>1. i + 1 = n
        BY <3>2, <1>3
      <4>2. QED
        BY <3>1, <4>1, <1>3, <1>4
    <3>3. CASE i # n - 1
      <4>1. i + 1 \in 1..(n - 1)
        BY <3>3, <1>3
      <4>2. QED
        BY <3>1, <3>3, <4>1, <1>4
    <3>4. QED
      BY <3>2, <3>3
  <2>2. \A i \in DOMAIN calls' :
          Deps(calls'[i].id) \subseteq
            Range(calls'[i].left) \cup F \cup
              (IF i = Len(calls') THEN {} ELSE {calls'[i + 1].id})
    BY <1>4, <2>1
  <2> HIDE DEF F
  <2>3. UNCHANGED <<deps, requestVars>>
    BY <1>1
  <2>4. QED
    BY <1>12, <1>13, <1>14, <2>2, <2>3, NextExplored
<1>16. RootsCleared'
  <2>1. RootsCleared
    BY <1>1 DEF IInv, Cleared
  <2>2. \A y : Safe(y)' = Safe(y)
    BY <1>1, SameGraph
  <2>3. CASE n # 1
    <3>1. calls' # <<>> /\ calls'[1].id = calls[1].id
      BY <2>3, <1>4, <1>5
    <3>2. QED
      BY <1>1, <2>1, <2>2, <3>1 DEF RootsCleared, InSearch
  <2>4. CASE n = 1
    <3>1. calls[1].id = x
      BY <2>4, <1>3
    <3>2. F \in SUBSET Ids /\ task \notin F
      BY <1>2, <1>3, <1>11 DEF TypeOK, Finished
    <3>3. x \in F
      OBVIOUS
    <3> HIDE DEF F
    <3>4. Safe(x)
      BY <1>2, <1>3, <1>12, <1>13, <3>2, <3>3, ClosedIsSafe
    <3>5. QED
      BY <1>1, <1>3, <2>1, <2>2, <3>1, <3>4 DEF RootsCleared, InSearch
  <2>5. QED
    BY <2>3, <2>4
<1>17. /\ roots' \in Seq(Ids) /\ Range(roots') \subseteq Range(request[task])
       /\ visited' \subseteq Ids /\ stack' \subseteq Ids
  BY <1>1, <1>2, <1>3 DEF TypeOK
<1>18. QED
  BY <1>1, <1>3, <1>4, <1>7, <1>15, <1>16, <1>17, SearchStepInv

\* When the search refuses, what is on the stack is a loop.
LEMMA RefusalIsLoop ==
  ASSUME IInv, DependsOnItself \/ \E d \in Ids : CloseCycle(d)
  PROVE WaitsForItself(Graph)
<1>1. TypeOK
  BY DEF IInv
<1>2. CASE DependsOnItself
  <2>1. roots # <<>> /\ Head(roots) = task
    BY <1>2 DEF DependsOnItself, AtRoot
  <2>2. /\ task # NoTask /\ task \in DOMAIN request /\ task \in Ids /\ roots \in Seq(Ids)
        /\ Range(roots) \subseteq Range(request[task])
    BY <1>1, <2>1 DEF TypeOK, IsTable
  <2>3. task \in Range(request[task])
    BY <2>1, <2>2, ListFacts
  <2>4. {task} \in SUBSET DOMAIN Graph /\ task \in Range(Graph[task])
    BY <1>1, <2>2, <2>3, GraphFacts
  <2>5. QED
    BY <2>4 DEF WaitsForItself
<1>3. CASE \E d \in Ids : CloseCycle(d)
  <2> DEFINE n == Len(calls)
  <2>1. PICK d \in Ids : CloseCycle(d)
    BY <1>3
  <2>2. calls # <<>> /\ Top.left # <<>> /\ d = Head(Top.left) /\ d \in stack
    BY <2>1 DEF CloseCycle, AtDep
  <2>3. /\ n \in Nat \ {0} /\ DOMAIN calls = 1..n /\ calls[n] = Top
        /\ \A i \in 1..n : calls[i].id \in Ids /\ calls[i].left \in Seq(Ids)
        /\ task # NoTask /\ task \in DOMAIN request /\ 1 \in 1..n /\ n \in 1..n
    BY <1>1, <2>2, CallsFacts DEF Top
  <2>4. d \in Range(calls[n].left)
    BY <2>2, <2>3, ListFacts
  <2> HIDE DEF n
  <2>5. /\ calls[1].id \in Range(request[task])
        /\ \A i \in 1..n : calls[i].id # task /\ Range(calls[i].left) \subseteq Deps(calls[i].id)
        /\ \A i \in 1..(n - 1) : calls[i + 1].id \in Deps(calls[i].id)
        /\ stack = {task} \cup {calls[i].id : i \in 1..n}
    BY <2>2, <2>3 DEF IInv, Path, n
  <2>6. \A i \in 1..n : \E y \in stack : y \in Deps(calls[i].id)
    <3> SUFFICES ASSUME NEW i \in 1..n PROVE \E y \in stack : y \in Deps(calls[i].id)
      OBVIOUS
    <3>1. CASE i = n
      BY <3>1, <2>2, <2>4, <2>5
    <3>2. CASE i # n
      <4>1. i \in 1..(n - 1) /\ i + 1 \in 1..n
        BY <3>2, <2>3
      <4>2. QED
        BY <4>1, <2>5
    <3>3. QED
      BY <3>1, <3>2
  <2>7. \A i \in 1..n : /\ calls[i].id \in DOMAIN Graph
                        /\ Range(Graph[calls[i].id]) \cap stack # {}
    <3> SUFFICES ASSUME NEW i \in 1..n
                 PROVE /\ calls[i].id \in DOMAIN Graph
                       /\ Range(Graph[calls[i].id]) \cap stack # {}
      OBVIOUS
    <3>1. calls[i].id \in Ids /\ calls[i].id # task
      BY <2>3, <2>5
    <3>2. Deps(calls[i].id) =
            IF calls[i].id \in DOMAIN Graph THEN Range(Graph[calls[i].id]) ELSE {}
      BY <1>1, <2>3, <3>1, Lookup
    <3>3. QED
      BY <2>6, <3>2
  <2>8. task \in DOMAIN Graph /\ Range(Graph[task]) \cap stack # {}
    <3>1. calls[1].id \in stack
      BY <2>3, <2>5
    <3>2. QED
      BY <1>1, <2>3, <2>5, <3>1, GraphFacts
  <2>9. stack \in SUBSET DOMAIN Graph /\ stack # {} /\ \A c \in stack : Range(Graph[c]) \cap stack # {}
    BY <2>5, <2>7, <2>8
  <2>10. QED
    BY <2>9 DEF WaitsForItself
<1>4. QED
  BY <1>2, <1>3

LEMMA NextInv ==
  ASSUME IInv, [Next]_vars
  PROVE IInv'
<1>1. ASSUME Request PROVE IInv'
  BY <1>1, RequestInv
<1>2. ASSUME NEW id \in unchecked, CheckTask(id) PROVE IInv'
  BY <1>2, CheckTaskInv
<1>3. ASSUME NEW id \in unchecked, RefuseMissing(id) PROVE IInv'
  BY <1>3, OutcomeInv DEF RefuseMissing
<1>4. ASSUME Accept PROVE IInv'
  BY <1>4, OutcomeInv DEF Accept
<1>5. ASSUME Insert PROVE IInv'
  BY <1>5, EndInv DEF Insert, Graph
<1>6. ASSUME Throw PROVE IInv'
  BY <1>6, EndInv DEF Throw
<1>7. ASSUME DependsOnItself PROVE IInv'
  BY <1>7, RefusalIsLoop, OutcomeInv DEF DependsOnItself, RefuseCycle
<1>8. ASSUME Return PROVE IInv'
  BY <1>8, ReturnInv
<1>9. ASSUME NEW d \in Ids, SearchFrom(d) PROVE IInv'
  BY <1>9, SearchFromInv
<1>10. ASSUME NEW d \in Ids, Descend(d) PROVE IInv'
  BY <1>10, DescendInv
<1>11. ASSUME NEW d \in Ids, CloseCycle(d) PROVE IInv'
  BY <1>11, RefusalIsLoop, OutcomeInv DEF CloseCycle, RefuseCycle
<1>12. ASSUME NEW d \in Ids, Skip(d) PROVE IInv'
  BY <1>12, SkipInv
<1>13. ASSUME UNCHANGED vars PROVE IInv'
  <2>1. pc' = pc /\ UNCHANGED <<deps, requestVars, unchecked, searchVars>>
    BY <1>13 DEF vars
  <2>2. /\ deps' = deps /\ request' = request /\ virtualDeps' = virtualDeps /\ unchecked' = unchecked
        /\ task' = task /\ roots' = roots /\ visited' = visited /\ stack' = stack /\ calls' = calls
        /\ UNCHANGED <<deps, requestVars, task>> /\ UNCHANGED <<deps, requestVars>>
    BY <2>1 DEF requestVars, searchVars
  <2>3. TypeOK'
    BY <2>1, <2>2 DEF IInv, TypeOK, IsTable
  <2>4. Path'
    BY <2>2, SamePath DEF IInv
  <2>5. Explored'
    BY <2>2, SameExplored DEF IInv
  <2>6. Cleared'
    BY <2>1, <2>2, SameGraph DEF IInv, Cleared, RootsCleared, TasksCleared, InSearch
  <2>7. StoredAcyclic' /\ SearchIsExact'
    BY <2>1, <2>2, SameGraph DEF IInv, SearchIsExact
  <2>8. QED
    BY <2>3, <2>4, <2>5, <2>6, <2>7 DEF IInv
<1>14. QED
  BY <1>1, <1>2, <1>3, <1>4, <1>5, <1>6, <1>7, <1>8, <1>9, <1>10, <1>11, <1>12, <1>13 DEF Next

-----------------------------------------------------------------------------
(* Theorems                                                                 *)

\* The invariant holds in every run, for any finite set of tasks and lists of any length.
THEOREM Invariance == Spec => []IInv
  BY InitInv, NextInv, PTL DEF Spec

\* Nothing but lists of task ids is ever stored, and the tasks of a request are new.
THEOREM TypeCorrect == Spec => []TypeOK
<1>1. IInv => TypeOK
  BY DEF IInv
<1>2. QED
  BY <1>1, Invariance, PTL

\* checkCycle refuses exactly the requests that would close a cycle.
THEOREM SearchExact == Spec => []SearchIsExact
<1>1. IInv => SearchIsExact
  BY DEF IInv
<1>2. QED
  BY <1>1, Invariance, PTL

\* Whatever requests were accepted, the stored dependencies have no cycle and name only
\* tasks that exist.
THEOREM StoredStaysAcyclic == Spec => []StoredAcyclic
<1>1. IInv => StoredAcyclic
  BY DEF IInv
<1>2. QED
  BY <1>1, Invariance, PTL

-----------------------------------------------------------------------------
(* Progress of the search                                                   *)

\* The order by the first place in which two measures differ.
LEMMA LessAt ==
  ASSUME NEW a1, NEW a2, NEW a3, NEW a4, NEW a5, NEW b1, NEW b2, NEW b3, NEW b4, NEW b5,
         \/ a1 < b1
         \/ a1 = b1 /\ a2 < b2
         \/ a1 = b1 /\ a2 = b2 /\ a3 < b3
         \/ a1 = b1 /\ a2 = b2 /\ a3 = b3 /\ a4 < b4
         \/ a1 = b1 /\ a2 = b2 /\ a3 = b3 /\ a4 = b4 /\ a5 < b5
  PROVE Less(<<a1, a2, a3, a4, a5>>, <<b1, b2, b3, b4, b5>>)
<1> DEFINE a == <<a1, a2, a3, a4, a5>>
           b == <<b1, b2, b3, b4, b5>>
<1>1. /\ a[1] = a1 /\ a[2] = a2 /\ a[3] = a3 /\ a[4] = a4 /\ a[5] = a5
      /\ b[1] = b1 /\ b[2] = b2 /\ b[3] = b3 /\ b[4] = b4 /\ b[5] = b5
      /\ DOMAIN a = 1..5
  OBVIOUS
<1>2. /\ 1..(1 - 1) = {} /\ 1..(2 - 1) = {1} /\ 1..(3 - 1) = {1, 2}
      /\ 1..(4 - 1) = {1, 2, 3} /\ 1..(5 - 1) = {1, 2, 3, 4}
      /\ 1 \in 1..5 /\ 2 \in 1..5 /\ 3 \in 1..5 /\ 4 \in 1..5 /\ 5 \in 1..5
  OBVIOUS
<1> HIDE DEF a, b
<1>3. CASE a1 < b1
  BY <1>1, <1>2, <1>3 DEF Less
<1>4. CASE a1 = b1 /\ a2 < b2
  BY <1>1, <1>2, <1>4 DEF Less
<1>5. CASE a1 = b1 /\ a2 = b2 /\ a3 < b3
  BY <1>1, <1>2, <1>5 DEF Less
<1>6. CASE a1 = b1 /\ a2 = b2 /\ a3 = b3 /\ a4 < b4
  BY <1>1, <1>2, <1>6 DEF Less
<1>7. CASE a1 = b1 /\ a2 = b2 /\ a3 = b3 /\ a4 = b4 /\ a5 < b5
  BY <1>1, <1>2, <1>7 DEF Less
<1>8. QED
  BY <1>3, <1>4, <1>5, <1>6, <1>7 DEF a, b

LEMMA StepProgresses ==
  ASSUME IInv, Next, pc = "checking", pc' = "checking"
  PROVE Less(Measure', Measure)
<1> DEFINE c == IF calls = <<>> THEN 0 ELSE Len(Top.left)
<1>1. /\ Measure = <<Cardinality(unchecked), Len(roots), Cardinality(Ids \ visited), Len(calls), c>>
      /\ Measure' = <<Cardinality(unchecked'), Len(roots'), Cardinality(Ids \ visited'), Len(calls'), c'>>
  BY DEF Measure
<1> HIDE DEF c
<1>2. TypeOK
  BY DEF IInv
<1>3. IsFiniteSet(unchecked) /\ IsFiniteSet(Ids \ visited)
  BY <1>2, IdsAssumption, FS_Subset DEF TypeOK, IsTable
<1>4. ASSUME NEW id \in unchecked, CheckTask(id) PROVE Less(Measure', Measure)
  <2>1. unchecked' = unchecked \ {id}
    BY <1>4 DEF CheckTask
  <2>2. Cardinality(unchecked') = Cardinality(unchecked) - 1 /\ Cardinality(unchecked) \in Nat
    BY <1>3, <2>1, FS_RemoveElement, FS_CardinalityType
  <2>3. Cardinality(unchecked') < Cardinality(unchecked)
    BY <2>2
  <2>4. QED
    BY <1>1, <2>3, LessAt
<1>5. ASSUME NEW d \in Ids, SearchFrom(d) PROVE Less(Measure', Measure)
  <2>1. unchecked' = unchecked /\ roots # <<>> /\ roots' = Tail(roots) /\ roots \in Seq(Ids)
    BY <1>2, <1>5 DEF SearchFrom, AtRoot, TypeOK
  <2>2. Len(roots') = Len(roots) - 1 /\ Len(roots) \in Nat
    BY <2>1, ListFacts
  <2>3. Len(roots') < Len(roots)
    BY <2>2
  <2>4. QED
    BY <1>1, <2>1, <2>3, LessAt
<1>6. ASSUME NEW d \in Ids, Descend(d) PROVE Less(Measure', Measure)
  <2>1. unchecked' = unchecked /\ roots' = roots /\ visited' = visited \cup {d} /\ d \notin visited
    BY <1>6 DEF Descend, Recorded
  <2>2. Ids \ visited' = (Ids \ visited) \ {d} /\ d \in Ids \ visited
    BY <2>1
  <2>3. /\ Cardinality(Ids \ visited') = Cardinality(Ids \ visited) - 1
        /\ Cardinality(Ids \ visited) \in Nat
    BY <1>3, <2>2, FS_RemoveElement, FS_CardinalityType
  <2>4. Cardinality(Ids \ visited') < Cardinality(Ids \ visited)
    BY <2>3
  <2>5. QED
    BY <1>1, <2>1, <2>4, LessAt
<1>7. ASSUME NEW d \in Ids, Skip(d) PROVE Less(Measure', Measure)
  <2>1. /\ unchecked' = unchecked /\ roots' = roots /\ visited' = visited
        /\ calls # <<>> /\ Top.left # <<>> /\ calls' = Looked
    BY <1>7 DEF Skip, AtDep
  <2>2. /\ Len(calls) \in Nat \ {0} /\ Len(calls) \in 1..Len(calls)
        /\ Top.left \in Seq(Ids)
    BY <1>2, <2>1, CallsFacts
  <2>3. /\ Looked \in Seq(CallRecords) /\ Len(Looked) = Len(calls)
        /\ Looked[Len(calls)].left = Tail(Top.left)
    BY <1>2, <2>1, <2>2, LookedFacts
  <2>4. Len(calls') = Len(calls) /\ calls' # <<>> /\ Top'.left = Tail(Top.left)
    BY <2>1, <2>2, <2>3 DEF Top
  <2>5. Len(Tail(Top.left)) = Len(Top.left) - 1 /\ Len(Top.left) \in Nat
    BY <2>1, <2>2, ListFacts
  <2>6. c' < c
    BY <2>1, <2>4, <2>5 DEF c
  <2>7. QED
    BY <1>1, <2>1, <2>4, <2>6, LessAt
<1>8. ASSUME Return PROVE Less(Measure', Measure)
  <2>1. /\ unchecked' = unchecked /\ roots' = roots /\ visited' = visited
        /\ calls # <<>> /\ calls' = SubSeq(calls, 1, Len(calls) - 1)
    BY <1>8 DEF Return
  <2>2. Len(calls') = Len(calls) - 1 /\ Len(calls) \in Nat
    BY <1>2, <2>1, PopFacts, CallsFacts
  <2>3. Len(calls') < Len(calls)
    BY <2>2
  <2>4. QED
    BY <1>1, <2>1, <2>3, LessAt
<1>9. ~Request
  BY DEF Request
<1>10. \A id \in unchecked : ~RefuseMissing(id)
  BY DEF RefuseMissing
<1>11. ~Accept /\ ~Insert /\ ~Throw /\ ~DependsOnItself
  BY DEF Accept, Insert, Throw, End, DependsOnItself, RefuseCycle
<1>12. \A d \in Ids : ~CloseCycle(d)
  BY DEF CloseCycle, RefuseCycle
<1>13. QED
  BY <1>4, <1>5, <1>6, <1>7, <1>8, <1>9, <1>10, <1>11, <1>12 DEF Next

\* A search makes headway with every step it takes, on any graph: there is no run in which
\* it goes on for ever.
THEOREM SearchAdvances == Spec => SearchProgresses
<1>1. IInv /\ [Next]_vars => [pc = "checking" /\ pc' = "checking" => Less(Measure', Measure)]_vars
  BY StepProgresses
<1>2. QED
  BY <1>1, Invariance, PTL DEF Spec, SearchProgresses

=============================================================================
