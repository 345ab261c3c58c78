------------------------- MODULE Discoverer_proofs --------------------------
(***************************************************************************)
(* Proofs about Discoverer, for any finite set of keys, any roots and any  *)
(* references.                                                             *)
(***************************************************************************)
EXTENDS Discoverer, FiniteSetTheorems, TLAPS

-----------------------------------------------------------------------------
\* Acyclic graphs.

\* An edge into a node from which its source cannot be reached closes no cycle:
\* this is what AddEdge decides with findPath. A set within what is closed under
\* the edges misses the new edge's source; else take a node outside of that.
LEMMA EdgeKeepsAcyclic ==
  ASSUME NEW N, NEW E, NEW a \in N, NEW b \in N,
         IsAcyclic(N, E), ~ Reaches(N, E \cup {<<a, b>>}, b, a)
  PROVE  IsAcyclic(N, E \cup {<<a, b>>})
<1> DEFINE F == E \cup {<<a, b>>}
<1>1. PICK S \in SUBSET N : b \in S /\ IsClosed(F, S) /\ a \notin S
  BY DEF Reaches
<1>2. ASSUME NEW T \in SUBSET N, T # {}
      PROVE  \E v \in T : \A w \in T : <<w, v>> \notin F
  <2>1. CASE T \subseteq S
    <3>1. PICK v \in T : \A w \in T : <<w, v>> \notin E
      BY <1>2 DEF IsAcyclic
    <3> QED BY <1>1, <2>1, <3>1
  <2>2. CASE T \ S # {}
    <3>1. PICK v \in T \ S : \A w \in T \ S : <<w, v>> \notin E
      BY <2>2 DEF IsAcyclic
    <3>2. ASSUME NEW w \in S PROVE <<w, v>> \notin F
      BY <1>1, <3>1 DEF IsClosed
    <3> QED BY <1>1, <3>1, <3>2
  <2> QED BY <2>1, <2>2
<1> QED BY <1>2 DEF IsAcyclic

\* What can be reached is reached from before it, and with more edges.
LEMMA ReachesBack ==
  ASSUME NEW N, NEW E, NEW a, NEW b, NEW c, <<a, b>> \in E, Reaches(N, E, b, c)
  PROVE  Reaches(N, E, a, c)
BY DEF Reaches, IsClosed

\* One edge further.
LEMMA ReachesOn ==
  ASSUME NEW N, NEW E, NEW a, NEW b, NEW c, Reaches(N, E, a, b), <<b, c>> \in E
  PROVE  Reaches(N, E, a, c)
BY DEF Reaches, IsClosed

\* More edges reach as much.
LEMMA ReachesMore ==
  ASSUME NEW N, NEW E, NEW F, E \subseteq F, NEW a, NEW b, Reaches(N, E, a, b)
  PROVE  Reaches(N, F, a, b)
BY DEF Reaches, IsClosed

\* In an acyclic graph no edge's target leads back to its source: an edge that
\* AddEdge refuses is part of a cycle. Of the nodes between the two, none leads
\* to one of them, which cannot be the edge's target; so it is not reached at all.
LEMMA NoWayBack ==
  ASSUME NEW N, NEW E \in SUBSET (N \X N), IsAcyclic(N, E), NEW a \in N, NEW b \in N, <<a, b>> \in E
  PROVE  ~ Reaches(N, E, b, a)
<1> SUFFICES ASSUME Reaches(N, E, b, a) PROVE FALSE
  OBVIOUS
<1> DEFINE T == {x \in N : Reaches(N, E, b, x) /\ Reaches(N, E, x, a)}
<1>1. \A x : Reaches(N, E, x, x)
  BY DEF Reaches
<1>2. a \in T /\ b \in T /\ T \in SUBSET N
  BY <1>1
<1>3. PICK v \in T : \A w \in T : <<w, v>> \notin E
  BY <1>2 DEF IsAcyclic
<1>4. v # b
  BY <1>2, <1>3
<1>5. ASSUME NEW w \in N, <<w, v>> \in E PROVE ~ Reaches(N, E, b, w)
  <2>1. Reaches(N, E, v, a)
    OBVIOUS
  <2>2. Reaches(N, E, w, a)
    BY <1>5, <2>1, ReachesBack
  <2> QED BY <1>3, <1>5, <2>2
<1> DEFINE U == {x \in N : Reaches(N, E, b, x)} \ {v}
<1>6. ASSUME NEW e \in E, e[1] \in U PROVE e[2] \in U
  <2>1. e = <<e[1], e[2]>> /\ e[1] \in N /\ e[2] \in N
    OBVIOUS
  <2>2. Reaches(N, E, b, e[1])
    BY <1>6
  <2> QED BY <1>5, <2>1, <2>2, ReachesOn
<1>7. U \in SUBSET N /\ b \in U /\ IsClosed(E, U) /\ v \notin U
  BY <1>1, <1>4, <1>6 DEF IsClosed
<1>8. Reaches(N, E, b, v)
  OBVIOUS
<1> HIDE DEF U
<1> QED BY <1>7, <1>8 DEF Reaches

-----------------------------------------------------------------------------

\* A task that was started is one of its group's calls.
CallsInv == \A t \in Task : pc[t] # "idle" => t[2] <= Len(Targets(t[1]))

-----------------------------------------------------------------------------
\* What every workload has: sequences of keys of bounded length.
LEMMA LoadFacts ==
  ASSUME load \in Workloads
  PROVE  /\ \A g \in Group : Targets(g) \in Seq(Key) /\ Len(Targets(g)) \in 0..MaxRefs
         /\ \A k \in Key : Targets(k) = load.refs[k]
         /\ MaxRefs \in Nat
BY DiscovererAssumption DEF Targets, Group

\* A task that has started stands for an existing neighbor.
LEMMA KeyOfActive ==
  ASSUME TypeOK, CallsInv, NEW t \in Task, pc[t] # "idle"
  PROVE  /\ KeyOf(t) \in Key /\ t[1] \in Group /\ t[2] \in 1..MaxRefs
         /\ t = <<t[1], t[2]>>
<1>1. t[1] \in Group /\ t[2] \in 1..MaxRefs /\ t = <<t[1], t[2]>>
  BY DEF Task
<1>2. Targets(t[1]) \in Seq(Key) /\ t[2] \in 1..Len(Targets(t[1]))
  BY <1>1, LoadFacts DEF TypeOK, CallsInv
<1> QED BY <1>1, <1>2 DEF KeyOf

\* The next order index is at least 1.
LEMMA NextIndexType ==
  ASSUME TypeOK, NEW k \in Key
  PROVE  NextIndex(k) \in Nat \ {0}
<1>1. Len(Targets(k)) \in Nat
  BY LoadFacts DEF TypeOK, Group
<1>2. IsFiniteSet(1..Len(Targets(k)))
  BY <1>1, FS_Interval
<1>3. IsFiniteSet(Calls(k))
  BY <1>2, FS_Singleton, FS_Product DEF Calls
<1>4. Spawned(k) \in SUBSET Calls(k)
  BY DEF Spawned
<1>5. Cardinality(Spawned(k)) \in Nat
  BY <1>3, <1>4, FS_Subset, FS_CardinalityType
<1> QED BY <1>5 DEF NextIndex

\* The types hold when Discover is called.
LEMMA InitType == Init => TypeOK /\ CallsInv
<1> SUFFICES ASSUME Init PROVE TypeOK /\ CallsInv
  OBVIOUS
<1>1. pc \in [Task -> PC] /\ ret \in [Task -> {"none", "ok", "err"}]
  BY DEF Init, PC
<1>2. claimer \in [Key -> Task \cup {NoTask}] /\ state \in [Key -> States]
  BY DEF Init, States
<1>3. index \in [Key \X Key -> 0..MaxRefs] /\ within \in [Group -> SUBSET Group]
  BY DiscovererAssumption DEF Init
<1>4. load \in Workloads /\ aborted \in BOOLEAN
  BY DEF Init
<1>5. addErr \subseteq Key /\ cancelled \subseteq Group /\ faults \subseteq Key
  BY DEF Init
<1>6. CallsInv
  BY <1>4, LoadFacts DEF Init, CallsInv, Calls, Task, Group
<1> QED BY <1>1, <1>2, <1>3, <1>4, <1>5, <1>6 DEF TypeOK

\* A step moves one task, and gives its vertex a state and its call a result.
LEMMA GotoType ==
  ASSUME TypeOK, CallsInv, NEW t \in Task, pc[t] # "idle",
         NEW l \in PC, Goto(t, l), UNCHANGED load
  PROVE  pc' \in [Task -> PC] /\ CallsInv'
<1>1. pc' = [pc EXCEPT ![t] = l] /\ pc \in [Task -> PC]
  BY DEF Goto, TypeOK
<1>2. t[2] <= Len(Targets(t[1]))
  BY DEF CallsInv
<1>3. \A g : Targets(g)' = Targets(g)
  BY DEF Targets
<1> QED BY <1>1, <1>2, <1>3 DEF CallsInv

\* No step of a goroutine breaks the types.
LEMMA StepType ==
  ASSUME TypeOK, CallsInv, NEW t \in Task, Step(t)
  PROVE  TypeOK' /\ CallsInv'
<1>0. pc[t] # "idle"
  BY DEF Step, StartCancelled, Claim, FindClaimed, WaitDone, WaitCancelled, AddSelf,
         Resolved, NeighborsKnown, CallFails, CallCancelled, AddNeighbor,
         AddNeighborFails, LoopEnds, Finalize, Close, Return
<1> DEFINE k == KeyOf(t)
<1>1. k \in Key /\ t[1] \in Group /\ k \in Group
  BY <1>0, KeyOfActive DEF Group
<1>2. load' = load
  BY DEF Step, StartCancelled, Claim, FindClaimed, WaitDone, WaitCancelled, AddSelf,
         Resolved, NeighborsKnown, CallFails, CallCancelled, AddNeighbor,
         AddNeighborFails, LoopEnds, Finalize, Close, Return
<1>3. ASSUME NEW l \in PC, NEW r \in {"ok", "err"}, Goto(t, l),
             ret' = [ret EXCEPT ![t] = r] \/ ret' = ret
      PROVE  pc' \in [Task -> PC] /\ ret' \in [Task -> {"none", "ok", "err"}] /\ CallsInv'
  BY <1>0, <1>2, <1>3, GotoType DEF TypeOK
<1>4. CASE StartCancelled(t) \/ WaitDone(t) \/ WaitCancelled(t)
  BY <1>3, <1>4 DEF StartCancelled, WaitDone, WaitCancelled, Leave, TypeOK, PC
<1>5. CASE Claim(t)
  <2>1. /\ claimer' \in [Key -> Task \cup {NoTask}]
        /\ within' \in [Group -> SUBSET Group]
    BY <1>1, <1>5 DEF Claim, TypeOK
  <2>2. pc' \in [Task -> PC] /\ ret' \in [Task -> {"none", "ok", "err"}] /\ CallsInv'
    BY <1>3, <1>5 DEF Claim, PC
  <2> QED BY <1>5, <2>1, <2>2 DEF Claim, TypeOK
<1>6. CASE FindClaimed(t) \/ NeighborsKnown(t) \/ LoopEnds(t) \/ Close(t)
  BY <1>3, <1>6 DEF FindClaimed, NeighborsKnown, LoopEnds, Close, TypeOK, PC
<1>7. CASE AddSelf(t) \/ Resolved(t)
  BY <1>1, <1>3, <1>7 DEF AddSelf, Resolved, SetState, TypeOK, PC, States
<1>8. CASE CallFails(t) \/ CallCancelled(t)
  <2>1. pc' \in [Task -> PC] /\ ret' \in [Task -> {"none", "ok", "err"}] /\ CallsInv'
    BY <1>3, <1>8 DEF CallFails, CallCancelled, Leave, PC
  <2>2. state' \in [Key -> States] /\ faults' \subseteq Key
    BY <1>1, <1>8 DEF CallFails, CallCancelled, SetState, TypeOK, States
  <2> QED BY <1>8, <2>1, <2>2 DEF CallFails, CallCancelled, TypeOK
<1>9. CASE AddNeighbor(t)
  <2> DEFINE i == NextIndex(k)
             n == load.refs[k][i]
  <2>1. /\ i <= Len(load.refs[k]) /\ pc' = [pc EXCEPT ![<<k, i>>] = "start"]
        /\ state' = [state EXCEPT ![n] = IF @ = "absent" THEN "unknown" ELSE @]
        /\ index' = [index EXCEPT ![<<k, n>>] = i]
        /\ UNCHANGED <<load, ret, claimer, addErr, cancelled, within, faults, aborted>>
    BY <1>9 DEF AddNeighbor, Goto, WithNeighbor, PutEdge
  <2>2. i \in Nat \ {0}
    BY <1>1, NextIndexType
  <2>3. /\ load.refs[k] \in Seq(Key) /\ Len(load.refs[k]) \in 0..MaxRefs
        /\ Targets(k) = load.refs[k] /\ MaxRefs \in Nat
    BY <1>1, LoadFacts DEF TypeOK
  <2>4. i \in 1..MaxRefs /\ <<k, i>> \in Task /\ n \in Key
    BY <1>1, <2>1, <2>2, <2>3 DEF Task
  <2>5. pc' \in [Task -> PC] /\ state' \in [Key -> States]
        /\ index' \in [Key \X Key -> 0..MaxRefs]
    BY <1>1, <2>1, <2>4 DEF TypeOK, PC, States
  <2>6. CallsInv'
    <3>1. \A g : Targets(g)' = Targets(g)
      BY <2>1 DEF Targets
    <3> QED BY <2>1, <2>3, <2>4, <3>1 DEF CallsInv, TypeOK
  <2> QED BY <2>1, <2>5, <2>6 DEF TypeOK
<1>10. CASE AddNeighborFails(t)
  <2> DEFINE i == NextIndex(k)
             n == load.refs[k][i]
  <2>1. /\ i <= Len(load.refs[k]) /\ Goto(t, "join")
        /\ state' = [state EXCEPT ![n] = IF @ = "absent" THEN "unknown" ELSE @]
        /\ addErr' = addErr \cup {k} /\ cancelled' = cancelled \cup {k}
        /\ UNCHANGED <<load, ret, claimer, index, within, faults, aborted>>
    BY <1>10 DEF AddNeighborFails, WithNeighbor
  <2>2. pc' \in [Task -> PC] /\ CallsInv'
    BY <1>3, <2>1 DEF PC
  <2>3. state' \in [Key -> States] /\ addErr' \subseteq Key /\ cancelled' \subseteq Group
    BY <1>1, <2>1 DEF TypeOK, States
  <2> QED BY <2>1, <2>2, <2>3 DEF TypeOK
<1>11. CASE Finalize(t)
  <2>1. PICK s \in {"error", "completed"}, r \in {"ok", "err"} :
           state' = [state EXCEPT ![k] = s] /\ Leave(t, r)
    BY <1>11 DEF Finalize, SetState
  <2>2. pc' \in [Task -> PC] /\ ret' \in [Task -> {"none", "ok", "err"}] /\ CallsInv'
    BY <1>3, <2>1 DEF Leave, PC
  <2>3. state' \in [Key -> States]
    BY <1>1, <2>1 DEF TypeOK, States
  <2> QED BY <1>11, <2>2, <2>3 DEF Finalize, TypeOK
<1>12. CASE Return(t)
  <2>1. pc' \in [Task -> PC] /\ CallsInv'
    BY <1>3, <1>12 DEF Return, PC
  <2> QED BY <1>1, <1>12, <2>1 DEF Return, TypeOK
<1> QED BY <1>4, <1>5, <1>6, <1>7, <1>8, <1>9, <1>10, <1>11, <1>12 DEF Step

\* The type invariant.
THEOREM TypeCorrect == Spec => []TypeOK
<1> DEFINE Inv == TypeOK /\ CallsInv
<1>1. Init => Inv
  BY InitType
<1>2. Inv /\ [Next]_vars => Inv'
  <2> SUFFICES ASSUME Inv, [Next]_vars PROVE Inv'
    OBVIOUS
  <2>1. CASE \E t \in Task : Step(t)
    BY <2>1, StepType
  <2>2. CASE CallerCancels
    <3>1. aborted' \in BOOLEAN /\ cancelled' \subseteq Group
      BY <2>2 DEF CallerCancels, TypeOK, Group
    <3> QED BY <2>2, <3>1 DEF CallerCancels, TypeOK, CallsInv, Targets
  <2>3. CASE UNCHANGED vars
    BY <2>3 DEF vars, TypeOK, CallsInv, Targets
  <2> QED BY <2>1, <2>2, <2>3 DEF Next, Idle
<1> QED BY <1>1, <1>2, PTL DEF Spec

-----------------------------------------------------------------------------
\* The only step that adds an edge is AddNeighbor's, and it adds one that its
\* check, in the same lock section, found to close no cycle.
LEMMA AddNeighborAcyclic ==
  ASSUME TypeOK, CallsInv, GraphAcyclic, NEW t \in Task, AddNeighbor(t)
  PROVE  GraphAcyclic'
<1> DEFINE k == KeyOf(t)
           i == NextIndex(k)
           n == load.refs[k][i]
<1>1. /\ pc[t] # "idle" /\ i <= Len(load.refs[k]) /\ ~ EdgeRefused(k, n)
      /\ index' = [index EXCEPT ![<<k, n>>] = i]
  BY DEF AddNeighbor, WithNeighbor, PutEdge
<1>2. k \in Key
  BY <1>1, KeyOfActive
<1>3. i \in Nat \ {0}
  BY <1>2, NextIndexType
<1>4. load.refs[k] \in Seq(Key) /\ Len(load.refs[k]) \in 0..MaxRefs
  BY <1>2, LoadFacts DEF TypeOK, Group
<1>5. n \in Key
  BY <1>1, <1>3, <1>4
<1>6. Edges' = Edges \cup {<<k, n>>}
  BY <1>1, <1>2, <1>3, <1>5 DEF Edges, TypeOK
<1>7. CASE <<k, n>> \in Edges
  BY <1>6, <1>7 DEF GraphAcyclic
<1>8. CASE <<k, n>> \notin Edges
  BY <1>1, <1>2, <1>5, <1>6, <1>8, EdgeKeepsAcyclic DEF EdgeRefused, GraphAcyclic
<1> QED BY <1>7, <1>8

\* The goroutines of a discovery never build a cycle together.
THEOREM DiscoveredGraphAcyclic == Spec => []GraphAcyclic
<1> DEFINE Inv == TypeOK /\ CallsInv /\ GraphAcyclic
<1>1. Init => Inv
  <2> SUFFICES ASSUME Init PROVE GraphAcyclic
    BY InitType
  <2>1. Edges = {}
    BY DEF Init, Edges
  <2> QED BY <2>1 DEF GraphAcyclic, IsAcyclic
<1>2. Inv /\ [Next]_vars => Inv'
  <2> SUFFICES ASSUME Inv, [Next]_vars PROVE Inv'
    OBVIOUS
  <2>0. index' = index => GraphAcyclic'
    BY DEF GraphAcyclic, Edges
  <2>1. ASSUME NEW t \in Task, Step(t)
        PROVE  Inv'
    <3>1. TypeOK' /\ CallsInv'
      BY <2>1, StepType
    <3>2. CASE AddNeighbor(t)
      BY <3>1, <3>2, AddNeighborAcyclic
    <3>3. CASE ~ AddNeighbor(t)
      BY <2>0, <2>1, <3>1, <3>3
         DEF Step, StartCancelled, Claim, FindClaimed, WaitDone, WaitCancelled, AddSelf,
             Resolved, NeighborsKnown, CallFails, CallCancelled, AddNeighborFails,
             LoopEnds, Finalize, Close, Return
    <3> QED BY <3>2, <3>3
  <2>2. CASE CallerCancels
    <3>1. aborted' \in BOOLEAN /\ cancelled' \subseteq Group
      BY <2>2 DEF CallerCancels, TypeOK, Group
    <3> QED BY <2>0, <2>2, <3>1 DEF CallerCancels, TypeOK, CallsInv, Targets
  <2>3. CASE UNCHANGED vars
    BY <2>0, <2>3 DEF vars, TypeOK, CallsInv, Targets
  <2> QED BY <2>1, <2>2, <2>3 DEF Next, Idle
<1>3. Inv => GraphAcyclic
  OBVIOUS
<1> QED BY <1>1, <1>2, <1>3, PTL DEF Spec

-----------------------------------------------------------------------------
\* What the tasks have come to, and what they have made of the shared graph.
Owning == {"add", "resolve", "discover", "loop", "join"}
Past   == {"closing", "returning", "done"}

\* A call has a result when it has left discover. One that explores a vertex
\* has claimed it; one that returns nil leaves a vertex whose owner has left.
CallInv(t) ==
  /\ pc[t] \in Past <=> ret[t] \in {"ok", "err"}
  /\ pc[t] \in Owning => claimer[KeyOf(t)] = t
  /\ pc[t] \in Past /\ ret[t] = "ok" =>
       claimer[KeyOf(t)] # NoTask /\ pc[claimer[KeyOf(t)]] \in Past

\* A task of a vertex' errgroup was started by the owner of the vertex, who
\* put the edge there and waits for it, and fails if it does.
ChildInv(t) ==
  LET p == t[1]
  IN pc[t] # "idle" /\ p # Caller =>
       /\ claimer[p] # NoTask /\ pc[claimer[p]] \in {"loop", "join"} \cup Past
       /\ pc[claimer[p]] \in Past => pc[t] = "done"
       /\ pc[claimer[p]] \in Past /\ ret[t] = "err" => ret[claimer[p]] = "err"
       /\ index[<<p, KeyOf(t)>>] # 0

\* The state of a vertex is what its owner has come to.
OwnerInv(k) ==
  LET t == claimer[k]
  IN /\ t = NoTask => state[k] \in {"absent", "unknown"}
     /\ t # NoTask =>
          /\ t \in Task /\ KeyOf(t) = k /\ pc[t] \in Owning \cup Past
          /\ pc[t] = "add" => state[k] \in {"absent", "unknown"}
          /\ pc[t] = "resolve" => state[k] = "discovering"
          /\ pc[t] \in {"discover", "loop", "join"} => state[k] = "discovered"
          /\ pc[t] \in Past => state[k] = IF ret[t] = "ok" THEN "completed" ELSE "error"

\* The loop starts its tasks in order, and ends early only with addErr.
FirstCalls(k, m) == {k} \X (1..m)
LoopInv(k) ==
  LET t == claimer[k]
  IN /\ \E m \in 0..Len(load.refs[k]) : Spawned(k) = FirstCalls(k, m)
     /\ k \in addErr => t # NoTask /\ pc[t] \in {"join"} \cup Past /\ ret[t] # "ok"
     /\ t # NoTask /\ k \notin addErr /\ (pc[t] = "join" \/ (pc[t] \in Past /\ ret[t] = "ok"))
          => Spawned(k) = Calls(k)

\* An edge has the index of a task that was started for it, and a vertex was
\* added by one, or by a loop that failed.
EdgeInv ==
  /\ \A k, n \in Key : index[<<k, n>>] # 0 =>
       \E c \in Task : c[1] = k /\ c[2] = index[<<k, n>>] /\ pc[c] # "idle" /\ KeyOf(c) = n
  /\ \A n \in Key : state[n] # "absent" =>
       addErr # {} \/ \E c \in Task : pc[c] # "idle" /\ KeyOf(c) = n

\* Nothing is explored that was not asked for.
AskedInv ==
  /\ \A t \in Task : pc[t] # "idle" => KeyOf(t) \in Asked
  /\ \A t \in Calls(Caller) : pc[t] # "idle"

\* Without a cause there is no error, anywhere at any time.
CleanInv ==
  ~ aborted /\ faults = {} /\ IsAcyclic(Key, AskedEdges) =>
    cancelled = {} /\ addErr = {} /\ \A t \in Task : ret[t] # "err"

TaskInv ==
  /\ \A t \in Task : CallInv(t) /\ ChildInv(t)
  /\ \A k \in Key : OwnerInv(k) /\ LoopInv(k)
  /\ EdgeInv /\ AskedInv

\* A step in which task t goes on to l with result r: what has to be true of it
\* for the invariant to be kept. Only AddNeighbor does more.
Moves(t, l, r) ==
  /\ t \in Task /\ pc[t] \notin {"idle", "done"} /\ l \in PC \ {"idle"}
  /\ pc' = [pc EXCEPT ![t] = l] /\ ret' = [ret EXCEPT ![t] = r]
  /\ UNCHANGED <<load, index>>
  /\ \A k \in Key \ {KeyOf(t)} : claimer'[k] = claimer[k]
  /\ claimer' = claimer \/ claimer[KeyOf(t)] = NoTask
  /\ addErr' \in {addErr, addErr \cup {KeyOf(t)}}
  /\ pc[t] \in Past => l \in Past /\ r = ret[t]
  /\ claimer[KeyOf(t)] = t /\ pc[t] \in {"loop", "join"} => l \in {"loop", "join"} \cup Past

\* The calls of a group are tasks.
LEMMA CallsAreTasks ==
  ASSUME TypeOK, NEW g \in Group
  PROVE  Calls(g) \subseteq Task /\ Spawned(g) \subseteq Task
<1>1. Len(Targets(g)) \in 0..MaxRefs /\ MaxRefs \in Nat
  BY LoadFacts DEF TypeOK
<1> QED BY <1>1 DEF Calls, Spawned, Task

\* All of the invariant that is not about t itself is kept by it.
LEMMA MovesKeep ==
  ASSUME TypeOK, CallsInv, TaskInv, NEW t, NEW l, NEW r, Moves(t, l, r),
         CallInv(t)', OwnerInv(KeyOf(t))', LoopInv(KeyOf(t))',
         \A c \in Task : c[1] = KeyOf(t) => ChildInv(c)',
         \A k \in Key \ {KeyOf(t)} : state'[k] = state[k] \/ (state[k] = "absent" /\ state'[k] = "unknown" /\ addErr' # {})
  PROVE  TaskInv'
<1> DEFINE v == KeyOf(t)
<1>1. /\ t \in Task /\ v \in Key /\ pc'[t] = l /\ ret'[t] = r /\ l # "idle"
      /\ \A c \in Task \ {t} : pc'[c] = pc[c] /\ ret'[c] = ret[c]
      /\ \A c \in Task : pc'[c] # "idle" <=> pc[c] # "idle"
      /\ \A c \in Task : pc[c] \in Past => pc'[c] \in Past /\ ret'[c] = ret[c]
  BY KeyOfActive DEF Moves, TypeOK
<1>2. (\A c : KeyOf(c)' = KeyOf(c)) /\ Asked' = Asked /\ (\A g : Calls(g)' = Calls(g) /\ Spawned(g)' = Spawned(g))
  <2>1. UNCHANGED load
    BY DEF Moves
  <2>2. \A g : Targets(g)' = Targets(g)
    BY <2>1 DEF Targets
  <2>3. ASSUME NEW g PROVE Calls(g)' = Calls(g) /\ Spawned(g)' = Spawned(g)
    <3>1. Calls(g)' = Calls(g)
      BY <2>2 DEF Calls
    <3> QED BY <1>1, <3>1 DEF Spawned, Moves, TypeOK
  <2>4. \A c : KeyOf(c)' = KeyOf(c)
    BY <2>2 DEF KeyOf
  <2>5. Asked' = Asked
    BY <2>1 DEF Asked, Declared
  <2> QED BY <2>3, <2>4, <2>5
<1>3. ASSUME NEW k \in Key \ {v}
      PROVE  OwnerInv(k)' /\ LoopInv(k)'
  <2>1. claimer'[k] = claimer[k] /\ OwnerInv(k) /\ LoopInv(k) /\ (k \in addErr' <=> k \in addErr)
    BY DEF Moves, TaskInv
  <2>2. claimer[k] # NoTask => claimer[k] \in Task /\ claimer[k] # t
    BY <2>1 DEF OwnerInv
  <2>3. OwnerInv(k)'
    BY <1>1, <1>2, <2>1, <2>2 DEF OwnerInv
  <2>4. LoopInv(k)'
    <3>1. load' = load
      BY DEF Moves
    <3>2. claimer[k] # NoTask => pc'[claimer[k]] = pc[claimer[k]] /\ ret'[claimer[k]] = ret[claimer[k]]
      BY <1>1, <2>2
    <3> QED BY <1>2, <2>1, <3>1, <3>2 DEF LoopInv
  <2> QED BY <2>3, <2>4
<1>4. ASSUME NEW k \in Key, claimer[k] # NoTask
      PROVE  claimer'[k] = claimer[k] /\ claimer[k] \in Task
  BY <1>4 DEF Moves, TaskInv, OwnerInv
<1>5. ASSUME NEW c \in Task
      PROVE  CallInv(c)'
  <2>1. CASE c = t
    BY <2>1
  <2>2. CASE c # t
    <3>1. CallInv(c) /\ pc'[c] = pc[c] /\ ret'[c] = ret[c]
      BY <1>1, <2>2 DEF TaskInv
    <3>2. pc[c] # "idle" => KeyOf(c) \in Key
      BY KeyOfActive
    <3>3. c # NoTask
      BY DiscovererAssumption DEF Task, NoTask
    <3> QED BY <1>1, <1>2, <1>4, <3>1, <3>2, <3>3 DEF CallInv, Owning, Past
  <2> QED BY <2>1, <2>2
<1>6. ASSUME NEW c \in Task, c[1] # v
      PROVE  ChildInv(c)'
  <2> DEFINE p == c[1]
  <2> SUFFICES ASSUME pc'[c] # "idle", p # Caller PROVE ChildInv(c)'
    BY DEF ChildInv
  <2>1. pc[c] # "idle" /\ p \in Key /\ ChildInv(c)
    BY <1>1 DEF Task, Group, TaskInv
  <2>2. claimer[p] # NoTask /\ claimer'[p] = claimer[p] /\ claimer[p] \in Task
    BY <1>4, <2>1 DEF ChildInv
  <2>3. claimer[p] # t
    BY <1>6, <2>1, <2>2 DEF TaskInv, OwnerInv
  <2>4. pc'[claimer[p]] = pc[claimer[p]] /\ ret'[claimer[p]] = ret[claimer[p]]
    BY <1>1, <2>2, <2>3
  <2>5. index' = index /\ (pc[c] = "done" => pc'[c] = "done" \/ c = t)
    BY <1>1 DEF Moves
  <2>6. CASE c # t
    BY <1>1, <1>2, <2>1, <2>2, <2>4, <2>5, <2>6 DEF ChildInv
  <2>7. CASE c = t
    BY <1>1, <1>2, <2>1, <2>2, <2>4, <2>5, <2>7 DEF ChildInv, Moves
  <2> QED BY <2>6, <2>7
<1>7. EdgeInv'
  BY <1>1, <1>2 DEF TaskInv, EdgeInv, Moves
<1>8. AskedInv'
  <2>1. Calls(Caller) \subseteq Task
    BY CallsAreTasks DEF Group
  <2> QED BY <1>1, <1>2, <2>1 DEF TaskInv, AskedInv
<1> QED BY <1>3, <1>5, <1>6, <1>7, <1>8, <1>1, <1>2 DEF TaskInv

\* What such a step makes of the other tasks, and of what depends on the load.
LEMMA MovesFacts ==
  ASSUME TypeOK, CallsInv, NEW t, NEW l, NEW r, Moves(t, l, r)
  PROVE  /\ t \in Task /\ KeyOf(t) \in Key /\ pc'[t] = l /\ ret'[t] = r /\ load' = load
         /\ \A c \in Task \ {t} : pc'[c] = pc[c] /\ ret'[c] = ret[c]
         /\ \A c : KeyOf(c)' = KeyOf(c)
         /\ \A g \in Group : Calls(g)' = Calls(g) /\ Spawned(g)' = Spawned(g)
<1>1. /\ t \in Task /\ KeyOf(t) \in Key /\ pc'[t] = l /\ ret'[t] = r /\ load' = load
      /\ \A c \in Task \ {t} : pc'[c] = pc[c] /\ ret'[c] = ret[c]
      /\ \A c \in Task : pc'[c] # "idle" <=> pc[c] # "idle"
  BY KeyOfActive DEF Moves, TypeOK
<1>2. \A g : Targets(g)' = Targets(g)
  BY <1>1 DEF Targets
<1>3. \A c : KeyOf(c)' = KeyOf(c)
  BY <1>2 DEF KeyOf
<1>4. ASSUME NEW g \in Group PROVE Calls(g)' = Calls(g) /\ Spawned(g)' = Spawned(g)
  <2>1. Calls(g)' = Calls(g)
    BY <1>2 DEF Calls
  <2>2. Calls(g) \subseteq Task
    BY CallsAreTasks
  <2> QED BY <1>1, <2>1, <2>2 DEF Spawned
<1> QED BY <1>1, <1>3, <1>4

\* A step of a task that does not own its vertex,
LEMMA BystanderKeeps ==
  ASSUME TypeOK, CallsInv, TaskInv, NEW t, NEW l, NEW r, Moves(t, l, r),
         claimer[KeyOf(t)] # t, UNCHANGED <<claimer, state, addErr>>, l \notin Owning,
         l \in Past <=> r \in {"ok", "err"},
         l \in Past /\ r = "ok" => claimer[KeyOf(t)] # NoTask /\ pc[claimer[KeyOf(t)]] \in Past
  PROVE  TaskInv'
<1> DEFINE v == KeyOf(t)
<1>1. /\ t \in Task /\ v \in Key /\ v \in Group /\ pc'[t] = l /\ ret'[t] = r /\ load' = load
      /\ \A c \in Task \ {t} : pc'[c] = pc[c] /\ ret'[c] = ret[c]
      /\ \A c : KeyOf(c)' = KeyOf(c)
      /\ Calls(v)' = Calls(v) /\ Spawned(v)' = Spawned(v)
  BY MovesFacts DEF Group
<1>2. claimer[v] # NoTask => claimer[v] \in Task /\ pc'[claimer[v]] = pc[claimer[v]] /\ ret'[claimer[v]] = ret[claimer[v]]
  BY <1>1 DEF TaskInv, OwnerInv
<1>3. CallInv(t)'
  BY <1>1, <1>2 DEF CallInv
<1>4. OwnerInv(v)' /\ LoopInv(v)'
  <2>1. OwnerInv(v) /\ LoopInv(v)
    BY <1>1 DEF TaskInv
  <2> QED BY <1>1, <1>2, <2>1 DEF OwnerInv, LoopInv
<1>5. ASSUME NEW c \in Task, c[1] = v PROVE ChildInv(c)'
  <2>1. ChildInv(c) /\ v # Caller
    BY <1>1, DiscovererAssumption DEF TaskInv
  <2>2. pc'[c] # "idle" => pc[c] # "idle"
    BY <1>1 DEF Moves
  <2>3. c = t => pc[c] # "done"
    BY DEF Moves
  <2>4. index' = index
    BY DEF Moves
  <2> QED BY <1>1, <1>2, <1>5, <2>1, <2>2, <2>3, <2>4 DEF ChildInv
<1> QED BY <1>3, <1>4, <1>5, MovesKeep

\* and one of the task that does.
LEMMA OwnerKeeps ==
  ASSUME TypeOK, CallsInv, TaskInv, NEW t, NEW l, NEW r, Moves(t, l, r),
         claimer[KeyOf(t)] = t, UNCHANGED <<claimer, addErr>>,
         l \in Owning \cup Past, l # "add", l = "loop" => pc[t] = "discover",
         l \in Past <=> r \in {"ok", "err"},
         l \in Past /\ pc[t] \notin Past =>
           /\ GroupDone(KeyOf(t)) /\ (KeyOf(t) \in addErr => r = "err")
           /\ \A c \in Spawned(KeyOf(t)) : ret[c] = "err" => r = "err",
         (l = "join" \/ (l \in Past /\ r = "ok")) /\ pc[t] \notin {"join"} \cup Past => Spawned(KeyOf(t)) = Calls(KeyOf(t)),
         \A k \in Key \ {KeyOf(t)} : state'[k] = state[k],
         state'[KeyOf(t)] = CASE l = "resolve" -> "discovering"
                              [] l \in {"discover", "loop", "join"} -> "discovered"
                              [] OTHER -> IF r = "ok" THEN "completed" ELSE "error"
  PROVE  TaskInv'
<1> DEFINE v == KeyOf(t)
<1>1. /\ t \in Task /\ v \in Key /\ v \in Group /\ pc'[t] = l /\ ret'[t] = r /\ load' = load
      /\ \A c \in Task \ {t} : pc'[c] = pc[c] /\ ret'[c] = ret[c]
      /\ \A c : KeyOf(c)' = KeyOf(c)
      /\ Calls(v)' = Calls(v) /\ Spawned(v)' = Spawned(v) /\ t # NoTask
  BY MovesFacts, DiscovererAssumption DEF Group, Task, NoTask
<1>2. CallInv(t)'
  BY <1>1 DEF CallInv
<1>3. OwnerInv(v)'
  BY <1>1 DEF OwnerInv, Owning, Past
<1>4. LoopInv(v)'
  <2>1. LoopInv(v)
    BY <1>1 DEF TaskInv
  <2>2. v \in addErr => l \in {"join"} \cup Past /\ r # "ok"
    BY <1>1, <2>1 DEF LoopInv, Moves
  <2>3. v \notin addErr /\ (l = "join" \/ (l \in Past /\ r = "ok")) => Spawned(v) = Calls(v)
    BY <1>1, <2>1 DEF LoopInv, Moves, Past
  <2> QED BY <1>1, <2>1, <2>2, <2>3 DEF LoopInv
<1>5. ASSUME NEW c \in Task, c[1] = v PROVE ChildInv(c)'
  <2> SUFFICES ASSUME pc'[c] # "idle" PROVE ChildInv(c)'
    BY DEF ChildInv
  <2>1. pc[c] # "idle" /\ v # Caller /\ ChildInv(c)
    BY <1>1, DiscovererAssumption DEF TaskInv, Moves
  <2>2. c \in Spawned(v)
    BY <1>1, <1>5, <2>1, LoadFacts DEF Spawned, Calls, CallsInv, Task, TypeOK
  <2>3. l \in {"loop", "join"} \cup Past
    BY <1>5, <2>1 DEF ChildInv, Moves
  <2>4. l \in Past => pc[c] = "done" /\ (ret[c] = "err" => r = "err")
    BY <1>5, <2>1, <2>2 DEF ChildInv, GroupDone, Moves
  <2>5. c = t => l \notin Past
    BY <2>4 DEF Moves
  <2>6. index' = index
    BY DEF Moves
  <2> QED BY <1>1, <1>5, <2>1, <2>3, <2>4, <2>5, <2>6 DEF ChildInv
<1> QED BY <1>2, <1>3, <1>4, <1>5, MovesKeep

\* The next neighbor of a loop is the first that has no task yet.
LEMMA NextIsFresh ==
  ASSUME TypeOK, NEW k \in Key, NEW m \in 0..Len(load.refs[k]), Spawned(k) = FirstCalls(k, m)
  PROVE  NextIndex(k) = m + 1
<1>1. m \in Nat /\ IsFiniteSet(1..m) /\ Cardinality(1..m) = m
  <2>1. m \in Nat
    BY LoadFacts DEF TypeOK
  <2> QED BY <2>1, FS_Interval
<1>2. IsFiniteSet({k}) /\ Cardinality({k}) = 1
  BY FS_Singleton
<1>3. Cardinality({k} \X (1..m)) = Cardinality({k}) * Cardinality(1..m)
  BY <1>1, <1>2, FS_Product
<1> QED BY <1>1, <1>2, <1>3 DEF NextIndex, FirstCalls

\* The steps of tasks that have claimed nothing, or have claimed it before.
LEMMA PlainStepsKeep ==
  ASSUME TypeOK, CallsInv, TaskInv, NEW t \in Task,
         \/ StartCancelled(t) \/ FindClaimed(t) \/ WaitDone(t) \/ WaitCancelled(t)
         \/ AddSelf(t) \/ Resolved(t) \/ NeighborsKnown(t) \/ CallFails(t) \/ CallCancelled(t)
         \/ LoopEnds(t) \/ Finalize(t) \/ Close(t) \/ Return(t)
  PROVE  TaskInv'
<1> DEFINE v == KeyOf(t)
<1>1. CallInv(t) /\ ret[t] \in {"none", "ok", "err"} /\ ret = [ret EXCEPT ![t] = ret[t]]
  BY DEF TaskInv, TypeOK
<1>2. pc[t] # "idle" => v \in Key /\ OwnerInv(v) /\ LoopInv(v)
  BY KeyOfActive DEF TaskInv
<1>0. pc[t] \in {"start", "waiting"} => claimer[v] # t
  <2>1. t # NoTask
    BY DiscovererAssumption DEF Task, NoTask
  <2> QED BY <1>2, <2>1 DEF OwnerInv, Owning, Past
<1>3. CASE StartCancelled(t) \/ WaitCancelled(t)
  <2>1. pc[t] \in {"start", "waiting"} /\ Leave(t, "err") /\ UNCHANGED <<load, claimer, state, index, addErr>>
    BY <1>3 DEF StartCancelled, WaitCancelled
  <2>2. Moves(t, "closing", "err") /\ claimer[v] # t
    BY <1>0, <2>1 DEF Moves, Leave, Goto, PC, Past
  <2> QED BY <2>1, <2>2, BystanderKeeps DEF Owning, Past
<1>4. CASE FindClaimed(t)
  <2>1. pc[t] = "start" /\ Goto(t, "waiting") /\ UNCHANGED <<load, ret, claimer, state, index, addErr>>
    BY <1>4 DEF FindClaimed
  <2>2. Moves(t, "waiting", ret[t]) /\ claimer[v] # t
    BY <1>0, <1>1, <2>1 DEF Moves, Goto, PC, Past
  <2> QED BY <1>1, <2>1, <2>2, BystanderKeeps DEF Owning, Past, CallInv
<1>5. CASE WaitDone(t)
  <2>1. pc[t] = "waiting" /\ DoneClosed(v) /\ Leave(t, "ok") /\ UNCHANGED <<load, claimer, state, index, addErr>>
    BY <1>5 DEF WaitDone
  <2>2. Moves(t, "closing", "ok") /\ claimer[v] # t
    BY <1>0, <2>1 DEF Moves, Leave, Goto, PC, Past
  <2> QED BY <2>1, <2>2, BystanderKeeps DEF Owning, Past, DoneClosed
<1>6. pc[t] \in Owning => claimer[v] = t /\ ret[t] = "none"
  BY <1>1 DEF CallInv, Owning, Past
<1>7. CASE AddSelf(t)
  <2>1. pc[t] = "add" /\ Goto(t, "resolve") /\ SetState(v, "discovering") /\ UNCHANGED <<load, ret, claimer, index, addErr>>
    BY <1>7 DEF AddSelf
  <2>2. Moves(t, "resolve", ret[t])
    BY <1>1, <2>1 DEF Moves, Goto, PC, Past
  <2>3. state'[v] = "discovering" /\ \A k \in Key \ {v} : state'[k] = state[k]
    BY <1>2, <2>1 DEF SetState, TypeOK
  <2> QED BY <1>6, <2>1, <2>2, <2>3, OwnerKeeps DEF Owning, Past
<1>8. CASE Resolved(t)
  <2>1. pc[t] = "resolve" /\ Goto(t, "discover") /\ SetState(v, "discovered") /\ UNCHANGED <<load, ret, claimer, index, addErr>>
    BY <1>8 DEF Resolved
  <2>2. Moves(t, "discover", ret[t])
    BY <1>1, <2>1 DEF Moves, Goto, PC, Past
  <2>3. state'[v] = "discovered" /\ \A k \in Key \ {v} : state'[k] = state[k]
    BY <1>2, <2>1 DEF SetState, TypeOK
  <2> QED BY <1>6, <2>1, <2>2, <2>3, OwnerKeeps DEF Owning, Past
<1>9. CASE NeighborsKnown(t)
  <2>1. pc[t] = "discover" /\ Goto(t, "loop") /\ UNCHANGED <<load, ret, claimer, state, index, addErr>>
    BY <1>9 DEF NeighborsKnown
  <2>2. Moves(t, "loop", ret[t])
    BY <1>1, <2>1 DEF Moves, Goto, PC, Past
  <2>3. state'[v] = "discovered" /\ \A k \in Key \ {v} : state'[k] = state[k]
    BY <1>2, <1>6, <2>1 DEF OwnerInv, Owning, Task, NoTask, DiscovererAssumption
  <2> QED BY <1>6, <2>1, <2>2, <2>3, OwnerKeeps DEF Owning, Past
<1>10. CASE CallFails(t) \/ CallCancelled(t)
  <2>1. pc[t] \in {"resolve", "discover"} /\ Leave(t, "err") /\ SetState(v, "error") /\ UNCHANGED <<load, claimer, index, addErr>>
    BY <1>10 DEF CallFails, CallCancelled
  <2>2. Moves(t, "closing", "err")
    BY <2>1 DEF Moves, Leave, Goto, PC, Past
  <2>3. state'[v] = "error" /\ \A k \in Key \ {v} : state'[k] = state[k]
    BY <1>2, <2>1 DEF SetState, TypeOK
  <2>4. Spawned(v) = {}
    <3>1. ASSUME NEW c \in Spawned(v) PROVE FALSE
      <4>1. c \in Task /\ pc[c] # "idle" /\ c[1] = v /\ v # Caller
        BY <1>2, <2>1, CallsAreTasks, DiscovererAssumption DEF Spawned, Calls, Group
      <4>2. pc[claimer[v]] \in {"loop", "join"} \cup Past
        BY <4>1 DEF TaskInv, ChildInv
      <4> QED BY <1>6, <2>1, <4>2 DEF Owning, Past
    <3> QED BY <3>1
  <2> QED BY <1>6, <2>1, <2>2, <2>3, <2>4, OwnerKeeps DEF Owning, Past, GroupDone
<1>11. CASE LoopEnds(t)
  <2>1. pc[t] = "loop" /\ NextIndex(v) > Len(load.refs[v]) /\ Goto(t, "join") /\ UNCHANGED <<load, ret, claimer, state, index, addErr>>
    BY <1>11 DEF LoopEnds
  <2>2. Moves(t, "join", ret[t])
    BY <1>1, <2>1 DEF Moves, Goto, PC, Past
  <2>3. state'[v] = "discovered" /\ \A k \in Key \ {v} : state'[k] = state[k]
    BY <1>2, <1>6, <2>1 DEF OwnerInv, Owning, Task, NoTask
  <2>4. Spawned(v) = Calls(v)
    <3>1. PICK m \in 0..Len(load.refs[v]) : Spawned(v) = FirstCalls(v, m)
      BY <1>2, <2>1 DEF LoopInv
    <3>2. Len(load.refs[v]) \in Nat /\ Targets(v) = load.refs[v]
      BY <1>2, <2>1, LoadFacts DEF TypeOK, Group
    <3>3. m = Len(load.refs[v])
      BY <1>2, <2>1, <3>1, <3>2, NextIsFresh
    <3> QED BY <3>1, <3>2, <3>3 DEF Calls, FirstCalls
  <2> QED BY <1>6, <2>1, <2>2, <2>3, <2>4, OwnerKeeps DEF Owning, Past
<1>12. CASE Finalize(t)
  <2>1. /\ pc[t] = "join" /\ GroupDone(v) /\ UNCHANGED <<load, claimer, index, addErr>>
        /\ SetState(v, IF JoinFailed(v) THEN "error" ELSE "completed")
        /\ Leave(t, IF JoinFailed(v) THEN "err" ELSE "ok")
    BY <1>12 DEF Finalize
  <2> DEFINE r == IF JoinFailed(v) THEN "err" ELSE "ok"
  <2>2. Moves(t, "closing", r)
    BY <2>1 DEF Moves, Leave, Goto, PC, Past
  <2>3. state'[v] = (IF r = "ok" THEN "completed" ELSE "error") /\ \A k \in Key \ {v} : state'[k] = state[k]
    BY <1>2, <2>1 DEF SetState, TypeOK
  <2>4. (v \in addErr => r = "err") /\ \A c \in Spawned(v) : ret[c] = "err" => r = "err"
    BY DEF JoinFailed
  <2>5. r \in {"ok", "err"}
    OBVIOUS
  <2> HIDE DEF r
  <2> QED BY <1>6, <2>1, <2>2, <2>3, <2>4, <2>5, OwnerKeeps DEF Owning, Past
<1>13. CASE Close(t) \/ Return(t)
  <2>1. PICK l \in {"returning", "done"} : Goto(t, l)
    BY <1>13 DEF Close, Return
  <2>2. pc[t] \in {"closing", "returning"} /\ UNCHANGED <<load, ret, claimer, state, index, addErr>>
    BY <1>13 DEF Close, Return
  <2>3. Moves(t, l, ret[t])
    BY <1>1, <2>1, <2>2 DEF Moves, Goto, PC, Past
  <2>4. CASE claimer[v] = t
    <3>1. state'[v] = (IF ret[t] = "ok" THEN "completed" ELSE "error")
      BY <1>2, <2>2, <2>4, DiscovererAssumption DEF OwnerInv, Past, Task, NoTask
    <3> QED BY <1>1, <2>2, <2>3, <2>4, <3>1, OwnerKeeps DEF Owning, Past, CallInv
  <2>5. CASE claimer[v] # t
    BY <1>1, <2>2, <2>3, <2>5, BystanderKeeps DEF Owning, Past, CallInv
  <2> QED BY <2>4, <2>5
<1> QED BY <1>3, <1>4, <1>5, <1>7, <1>8, <1>9, <1>10, <1>11, <1>12, <1>13

\* A claim is the first of its vertex, which is not explored yet.
LEMMA ClaimKeeps ==
  ASSUME TypeOK, CallsInv, TaskInv, NEW t \in Task, Claim(t)
  PROVE  TaskInv'
<1> DEFINE v == KeyOf(t)
<1>1. /\ pc[t] = "start" /\ claimer[v] = NoTask /\ Goto(t, "add")
      /\ claimer' = [claimer EXCEPT ![v] = t] /\ UNCHANGED <<load, ret, state, index, addErr>>
  BY DEF Claim
<1>2. v \in Key /\ OwnerInv(v) /\ LoopInv(v) /\ ret[t] \notin {"ok", "err"} /\ ret = [ret EXCEPT ![t] = ret[t]]
  BY <1>1, KeyOfActive DEF TaskInv, CallInv, TypeOK, Past
<1>3. claimer'[v] = t /\ (\A k \in Key \ {v} : claimer'[k] = claimer[k]) /\ t # NoTask
  BY <1>1, <1>2, DiscovererAssumption DEF TypeOK, Task, NoTask
<1>4. Moves(t, "add", ret[t])
  BY <1>1, <1>2, <1>3 DEF Moves, Goto, PC, Past
<1>5. /\ pc'[t] = "add" /\ ret'[t] = ret[t] /\ v \in Group
      /\ \A c \in Task \ {t} : pc'[c] = pc[c] /\ ret'[c] = ret[c]
      /\ \A c : KeyOf(c)' = KeyOf(c)
      /\ Calls(v)' = Calls(v) /\ Spawned(v)' = Spawned(v)
  BY <1>2, <1>4, MovesFacts DEF Group
<1>6. CallInv(t)'
  BY <1>2, <1>3, <1>5 DEF CallInv, Past
<1>7. OwnerInv(v)'
  BY <1>1, <1>2, <1>3, <1>5 DEF OwnerInv, Owning, Past
<1>8. LoopInv(v)'
  BY <1>1, <1>2, <1>3, <1>5 DEF LoopInv, Past
<1>9. ASSUME NEW c \in Task, c[1] = v PROVE ChildInv(c)'
  <2>1. pc[c] = "idle" /\ c # t
    <3>1. v # Caller /\ ChildInv(c)
      BY <1>2, DiscovererAssumption DEF TaskInv
    <3>2. pc[c] = "idle"
      BY <1>1, <1>9, <3>1 DEF ChildInv
    <3> QED BY <1>1, <3>2
  <2>2. pc'[c] = "idle"
    BY <1>5, <1>9, <2>1
  <2> QED BY <2>2 DEF ChildInv
<1> QED BY <1>1, <1>4, <1>6, <1>7, <1>8, <1>9, MovesKeep

\* A neighbor that cannot be added ends the loop.
LEMMA AddFailsKeeps ==
  ASSUME TypeOK, CallsInv, TaskInv, NEW t \in Task, AddNeighborFails(t)
  PROVE  TaskInv'
<1> DEFINE v == KeyOf(t)
           n == load.refs[v][NextIndex(v)]
<1>1. /\ pc[t] = "loop" /\ Goto(t, "join") /\ addErr' = addErr \cup {v}
      /\ state' = [state EXCEPT ![n] = IF @ = "absent" THEN "unknown" ELSE @]
      /\ UNCHANGED <<load, ret, claimer, index>>
  BY DEF AddNeighborFails, WithNeighbor
<1>2. /\ v \in Key /\ OwnerInv(v) /\ LoopInv(v) /\ claimer[v] = t /\ ret[t] \notin {"ok", "err"}
      /\ ret = [ret EXCEPT ![t] = ret[t]] /\ t # NoTask
  <2>1. v \in Key /\ t # NoTask /\ ret = [ret EXCEPT ![t] = ret[t]]
    BY <1>1, KeyOfActive, DiscovererAssumption DEF TypeOK, Task, NoTask
  <2>2. CallInv(t) /\ OwnerInv(v) /\ LoopInv(v)
    BY <2>1 DEF TaskInv
  <2> QED BY <1>1, <2>1, <2>2 DEF CallInv, Past, Owning
<1>3. Moves(t, "join", ret[t])
  BY <1>1, <1>2 DEF Moves, Goto, PC, Past
<1>4. /\ pc'[t] = "join" /\ ret'[t] = ret[t] /\ v \in Group
      /\ \A c \in Task \ {t} : pc'[c] = pc[c] /\ ret'[c] = ret[c]
      /\ \A c : KeyOf(c)' = KeyOf(c)
      /\ Calls(v)' = Calls(v) /\ Spawned(v)' = Spawned(v)
  BY <1>2, <1>3, MovesFacts DEF Group
<1>5. state[v] = "discovered" /\ state'[v] = "discovered"
      /\ \A k \in Key : state'[k] = state[k] \/ (state[k] = "absent" /\ state'[k] = "unknown" /\ addErr' # {})
  BY <1>1, <1>2 DEF OwnerInv, TypeOK, States
<1>6. CallInv(t)'
  BY <1>1, <1>2, <1>4 DEF CallInv, Past
<1>7. OwnerInv(v)'
  BY <1>1, <1>2, <1>4, <1>5 DEF OwnerInv, Owning, Past
<1>8. LoopInv(v)'
  BY <1>1, <1>2, <1>4 DEF LoopInv, Past
<1>9. ASSUME NEW c \in Task, c[1] = v PROVE ChildInv(c)'
  <2>1. ChildInv(c) /\ (pc'[c] # "idle" => pc[c] # "idle")
    BY <1>1, <1>4 DEF TaskInv
  <2> QED BY <1>1, <1>2, <1>4, <1>9, <2>1 DEF ChildInv, Past
<1> QED BY <1>3, <1>5, <1>6, <1>7, <1>8, <1>9, MovesKeep

\* A neighbor that is added gets its edge, its index and its task.
LEMMA AddNeighborKeeps ==
  ASSUME TypeOK, CallsInv, TaskInv, NEW t \in Task, AddNeighbor(t)
  PROVE  TaskInv'
<1> DEFINE v == KeyOf(t)
           i == NextIndex(v)
           n == load.refs[v][i]
           b == <<v, i>>
<1>1. /\ pc[t] = "loop" /\ i <= Len(load.refs[v]) /\ pc' = [pc EXCEPT ![b] = "start"]
      /\ state' = [state EXCEPT ![n] = IF @ = "absent" THEN "unknown" ELSE @]
      /\ index' = [index EXCEPT ![<<v, n>>] = i] /\ UNCHANGED <<load, ret, claimer, addErr>>
  BY DEF AddNeighbor, WithNeighbor, Goto, PutEdge
<1>2. /\ v \in Key /\ OwnerInv(v) /\ LoopInv(v) /\ claimer[v] = t /\ t # NoTask
  BY <1>1, KeyOfActive, DiscovererAssumption DEF TaskInv, CallInv, Owning, Task, NoTask
<1>3. PICK m \in 0..Len(load.refs[v]) : Spawned(v) = FirstCalls(v, m)
  BY <1>2 DEF LoopInv
<1>4. i = m + 1
  BY <1>2, <1>3, NextIsFresh
<1>5. /\ load.refs[v] \in Seq(Key) /\ Len(load.refs[v]) \in 0..MaxRefs /\ MaxRefs \in Nat
      /\ Targets(v) = load.refs[v] /\ v \in Group /\ v # Caller
  BY <1>2, LoadFacts, DiscovererAssumption DEF TypeOK, Group
<1>6. i \in 1..Len(load.refs[v]) /\ i \in 1..MaxRefs /\ n \in Key /\ b \in Task /\ b \in Calls(v) /\ KeyOf(b) = n
  <2>1. i \in 1..Len(load.refs[v]) /\ i \in 1..MaxRefs
    BY <1>1, <1>3, <1>4, <1>5
  <2> QED BY <1>5, <2>1 DEF Task, Calls, KeyOf
<1>7. pc[b] = "idle" /\ b # t
  <2>1. b \notin Spawned(v)
    BY <1>3, <1>4, <1>5 DEF FirstCalls
  <2> QED BY <1>1, <1>6, <2>1 DEF Spawned
<1> HIDE DEF b, i, n
<1>8. pc'[b] = "start" /\ \A c \in Task \ {b} : pc'[c] = pc[c]
  BY <1>1, <1>6 DEF TypeOK
<1>9. (\A c : KeyOf(c)' = KeyOf(c)) /\ Asked' = Asked /\ \A g : Calls(g)' = Calls(g)
  <2>1. \A g : Targets(g)' = Targets(g)
    BY <1>1 DEF Targets
  <2> QED BY <1>1, <2>1 DEF KeyOf, Calls, Asked, Declared
<1>10. ASSUME NEW k \in Key, k = v PROVE Spawned(k)' = FirstCalls(k, i)
  <2>1. Spawned(k)' = Spawned(k) \cup {b}
    BY <1>6, <1>8, <1>9, <1>10, <1>5, CallsAreTasks DEF Spawned
  <2> QED BY <1>3, <1>4, <1>5, <1>10, <2>1 DEF b, FirstCalls
<1>11. \A k \in Key \ {v} : Spawned(k)' = Spawned(k)
  BY <1>8, <1>9, CallsAreTasks DEF Spawned, Calls, b, Group
<1>12. \A k \in Key : claimer[k] # NoTask =>
         claimer[k] \in Task /\ pc'[claimer[k]] = pc[claimer[k]]
  BY <1>7, <1>8 DEF TaskInv, OwnerInv, Owning, Past
<1>13. ASSUME NEW k \in Key PROVE OwnerInv(k)' /\ LoopInv(k)'
  <2>1. OwnerInv(k) /\ LoopInv(k)
    BY DEF TaskInv
  <2>2. state'[k] = state[k] \/ (state[k] = "absent" /\ state'[k] = "unknown")
    BY <1>1, <1>6 DEF TypeOK
  <2>3. OwnerInv(k)'
    BY <1>1, <1>9, <1>12, <2>1, <2>2 DEF OwnerInv, Owning, Past
  <2>4. CASE k = v
    <3>1. \E j \in 0..Len(load'.refs[k]) : Spawned(k)' = FirstCalls(k, j)
      BY <1>1, <1>5, <1>6, <1>10, <2>4
    <3>2. pc'[claimer'[k]] = "loop" /\ k \notin addErr'
      BY <1>1, <1>2, <1>8, <1>7, <2>1, <2>4 DEF LoopInv, Past
    <3> QED BY <2>3, <3>1, <3>2 DEF LoopInv, Past
  <2>5. CASE k # v
    <3>1. Spawned(k)' = Spawned(k) /\ Calls(k)' = Calls(k) /\ load' = load
      BY <1>1, <1>9, <1>11, <2>5
    <3>2. claimer[k] # NoTask => pc'[claimer[k]] = pc[claimer[k]]
      BY <1>12
    <3> QED BY <1>1, <2>1, <2>3, <3>1, <3>2 DEF LoopInv
  <2> QED BY <2>4, <2>5
<1>14. ASSUME NEW c \in Task PROVE CallInv(c)'
  <2>1. CallInv(c) /\ c # NoTask /\ (pc[c] # "idle" => KeyOf(c) \in Key)
    BY KeyOfActive, DiscovererAssumption DEF TaskInv, Task, NoTask
  <2>2. CASE c = b
    BY <1>1, <1>7, <1>8, <2>1, <2>2 DEF CallInv, Owning, Past
  <2>3. CASE c # b
    BY <1>1, <1>8, <1>9, <1>12, <2>1, <2>3 DEF CallInv, Owning, Past
  <2> QED BY <2>2, <2>3
<1>15. ASSUME NEW c \in Task PROVE ChildInv(c)'
  <2>1. i # 0 /\ \A e \in Key \X Key : index[e] # 0 => index'[e] # 0
    BY <1>1, <1>2, <1>6 DEF TypeOK
  <2>2. CASE c = b
    <3>1. c[1] = v /\ index'[<<v, n>>] = i
      BY <1>1, <1>2, <1>6, <2>2 DEF b, TypeOK
    <3> QED BY <1>1, <1>2, <1>6, <1>7, <1>8, <1>9, <2>1, <2>2, <3>1 DEF ChildInv, Past
  <2>3. CASE c # b
    <3>1. ChildInv(c) /\ pc'[c] = pc[c] /\ (pc[c] # "idle" => KeyOf(c) \in Key) /\ (c[1] # Caller => c[1] \in Key)
      BY <1>8, <2>3, KeyOfActive DEF TaskInv, Task, Group
    <3> QED BY <1>1, <1>9, <1>12, <2>1, <3>1 DEF ChildInv
  <2> QED BY <2>2, <2>3
<1>16. EdgeInv'
  <2>1. ASSUME NEW k \in Key, NEW q \in Key, index'[<<k, q>>] # 0
        PROVE  \E c \in Task : c[1] = k /\ c[2] = index'[<<k, q>>] /\ pc'[c] # "idle" /\ KeyOf(c)' = q
    <3>1. CASE k = v /\ q = n
      <4>1. b[1] = k /\ b[2] = index'[<<k, q>>]
        BY <1>1, <1>2, <1>6, <3>1 DEF b, TypeOK
      <4> QED BY <1>6, <1>8, <1>9, <3>1, <4>1
    <3>2. CASE ~ (k = v /\ q = n)
      <4>1. index'[<<k, q>>] = index[<<k, q>>]
        BY <1>1, <1>2, <1>6, <3>2 DEF TypeOK
      <4>2. PICK c \in Task : c[1] = k /\ c[2] = index[<<k, q>>] /\ pc[c] # "idle" /\ KeyOf(c) = q
        BY <2>1, <4>1 DEF TaskInv, EdgeInv
      <4>3. pc'[c] # "idle"
        BY <1>8, <4>2
      <4> QED BY <1>9, <4>1, <4>2, <4>3
    <3> QED BY <3>1, <3>2
  <2>2. ASSUME NEW q \in Key, state'[q] # "absent"
        PROVE  addErr' # {} \/ \E c \in Task : pc'[c] # "idle" /\ KeyOf(c)' = q
    <3>1. CASE q = n
      BY <1>6, <1>8, <1>9, <3>1
    <3>2. CASE q # n
      <4>1. state[q] # "absent"
        BY <1>1, <2>2, <3>2 DEF TypeOK
      <4>2. addErr # {} \/ \E c \in Task : pc[c] # "idle" /\ KeyOf(c) = q
        BY <4>1 DEF TaskInv, EdgeInv
      <4>3. ASSUME NEW c \in Task, pc[c] # "idle" PROVE pc'[c] # "idle"
        BY <1>8, <4>3
      <4> QED BY <1>1, <1>9, <4>2, <4>3
    <3> QED BY <3>1, <3>2
  <2> QED BY <2>1, <2>2 DEF EdgeInv
<1>17. AskedInv'
  <2>1. n \in Asked
    <3>1. v \in Asked
      BY <1>1 DEF TaskInv, AskedInv
    <3>2. <<v, n>> \in Declared
      BY <1>2, <1>6 DEF Declared, n
    <3> QED BY <1>6, <3>1, <3>2 DEF Asked, ReachableFrom, Reaches, IsClosed
  <2>2. Calls(Caller) \subseteq Task
    BY CallsAreTasks DEF Group
  <2> QED BY <1>6, <1>8, <1>9, <2>1, <2>2 DEF TaskInv, AskedInv
<1> QED BY <1>13, <1>14, <1>15, <1>16, <1>17 DEF TaskInv

\* A caller that cancels, and a discovery at rest, leave the tasks to themselves.
LEMMA NothingMoves ==
  ASSUME UNCHANGED <<load, pc, ret, claimer, state, index, addErr>>, TaskInv
  PROVE  TaskInv'
<1>1. (\A g : Targets(g)' = Targets(g)) /\ Asked' = Asked
  BY DEF Targets, Asked, Declared
<1>2. (\A c : KeyOf(c)' = KeyOf(c)) /\ (\A g : Calls(g)' = Calls(g) /\ Spawned(g)' = Spawned(g))
  BY <1>1 DEF KeyOf, Calls, Spawned
<1>3. ASSUME NEW c \in Task PROVE CallInv(c)' /\ ChildInv(c)'
  BY <1>2 DEF TaskInv, CallInv, ChildInv
<1>4. ASSUME NEW k \in Key PROVE OwnerInv(k)' /\ LoopInv(k)'
  <2>1. OwnerInv(k) /\ LoopInv(k)
    BY DEF TaskInv
  <2> QED BY <1>2, <2>1 DEF OwnerInv, LoopInv
<1>5. EdgeInv' /\ AskedInv'
  BY <1>1, <1>2 DEF TaskInv, EdgeInv, AskedInv
<1> QED BY <1>3, <1>4, <1>5 DEF TaskInv

\* When Discover is called only the roots have tasks.
LEMMA InitTasks == Init => TaskInv
<1> SUFFICES ASSUME Init PROVE TaskInv
  OBVIOUS
<1>0. TypeOK /\ CallsInv /\ load \in Workloads
  BY InitType DEF TypeOK
<1>1. \A c \in Task : ret[c] = "none" /\ pc[c] \in {"idle", "start"} /\ (pc[c] # "idle" => c \in Calls(Caller))
  BY DEF Init
<1>2. \A k \in Key : claimer[k] = NoTask /\ state[k] = "absent" /\ \A n \in Key : index[<<k, n>>] = 0
  BY DEF Init
<1>3. ASSUME NEW c \in Task PROVE CallInv(c) /\ ChildInv(c)
  BY <1>1 DEF CallInv, ChildInv, Owning, Past, Calls
<1>4. ASSUME NEW k \in Key PROVE OwnerInv(k) /\ LoopInv(k)
  <2>1. Spawned(k) = {}
    <3>1. \A c \in Calls(k) : c \in Task /\ c \notin Calls(Caller)
      BY <1>0, CallsAreTasks, DiscovererAssumption DEF Calls, Group
    <3> QED BY <1>1, <3>1 DEF Spawned
  <2>2. FirstCalls(k, 0) = {} /\ 0 \in 0..Len(load.refs[k])
    BY <1>0, LoadFacts DEF FirstCalls
  <2> QED BY <1>2, <2>1, <2>2 DEF OwnerInv, LoopInv, Init
<1>5. EdgeInv
  BY <1>2 DEF EdgeInv
<1>6. AskedInv
  <2>1. ASSUME NEW c \in Calls(Caller) PROVE pc[c] # "idle" /\ KeyOf(c) \in Asked
    <3>1. c \in Task /\ c[1] = Caller /\ c[2] \in 1..Len(load.roots) /\ load.roots \in Seq(Key)
      BY <1>0, CallsAreTasks, DiscovererAssumption DEF Calls, Targets, Group
    <3>2. KeyOf(c) = load.roots[c[2]] /\ KeyOf(c) \in Key
      BY <3>1 DEF KeyOf, Targets
    <3> QED BY <3>1, <3>2 DEF Init, Asked, ReachableFrom, Reaches
  <2> QED BY <1>1, <2>1 DEF AskedInv
<1> QED BY <1>3, <1>4, <1>5, <1>6 DEF TaskInv

\* The invariant holds throughout.
LEMMA TasksAlways == Spec => [](TypeOK /\ CallsInv /\ TaskInv)
<1>1. Init => TypeOK /\ CallsInv /\ TaskInv
  BY InitType, InitTasks
<1>2. TypeOK /\ CallsInv /\ TaskInv /\ [Next]_vars => (TypeOK /\ CallsInv /\ TaskInv)'
  <2> SUFFICES ASSUME TypeOK, CallsInv, TaskInv, [Next]_vars PROVE (TypeOK /\ CallsInv /\ TaskInv)'
    OBVIOUS
  <2>1. ASSUME NEW t \in Task, Step(t)
        PROVE  (TypeOK /\ CallsInv /\ TaskInv)'
    BY <2>1, StepType, PlainStepsKeep, ClaimKeeps, AddFailsKeeps, AddNeighborKeeps DEF Step
  <2>2. CASE CallerCancels \/ UNCHANGED vars
    <3>1. UNCHANGED <<load, pc, ret, claimer, state, index, addErr>>
      BY <2>2 DEF CallerCancels, vars
    <3>2. TypeOK' /\ CallsInv'
      <4>1. aborted' \in BOOLEAN /\ cancelled' \subseteq Group /\ UNCHANGED <<within, faults>>
        BY <2>2 DEF CallerCancels, vars, TypeOK, Group
      <4> QED BY <3>1, <4>1 DEF TypeOK, CallsInv, Targets
    <3> QED BY <3>1, <3>2, NothingMoves
  <2> QED BY <2>1, <2>2 DEF Next, Idle
<1> QED BY <1>1, <1>2, PTL DEF Spec

-----------------------------------------------------------------------------
\* Vertices whose owner still runs, or has failed, are in the subgraph of the
\* owner's parents: an errgroup waits for what it has started, and fails with
\* it. As the graph has no cycle, there are none when all root tasks are done.
LEMMA NoneBelowRoots ==
  ASSUME GraphAcyclic, NEW S \in SUBSET Key, \A k \in S : \E p \in S : <<p, k>> \in Edges
  PROVE  S = {}
BY DEF GraphAcyclic, IsAcyclic

\* The task that explores a vertex and the edge it goes back to.
LEMMA ParentFacts ==
  ASSUME TypeOK, CallsInv, TaskInv, NEW t \in Task, pc[t] # "idle", t[1] # Caller
  PROVE  /\ t[1] \in Key /\ KeyOf(t) \in Key /\ <<t[1], KeyOf(t)>> \in Edges
         /\ claimer[t[1]] \in Task /\ claimer[t[1]] # NoTask /\ KeyOf(claimer[t[1]]) = t[1]
BY KeyOfActive DEF TaskInv, ChildInv, OwnerInv, Task, Group, Edges

\* When Discover returns nothing of it runs,
LEMMA ReturnedMeansDone ==
  ASSUME TypeOK, CallsInv, TaskInv, GraphAcyclic, Returned, NEW t \in Task
  PROVE  pc[t] \in {"idle", "done"}
<1> DEFINE Alive(c) == pc[c] \notin {"idle", "done"}
           S == {k \in Key : \E c \in Task : c[1] = k /\ Alive(c)}
<1>1. ASSUME NEW c \in Task, Alive(c) PROVE c[1] \in Key
  <2>1. c[1] = Caller => c \in Calls(Caller)
    BY <1>1, LoadFacts DEF CallsInv, Calls, Task, TypeOK
  <2> QED BY <1>1, <2>1 DEF Returned, Task, Group
<1>2. ASSUME NEW k \in S PROVE \E p \in S : <<p, k>> \in Edges
  <2>1. PICK c \in Task : c[1] = k /\ Alive(c)
    OBVIOUS
  <2>2. claimer[k] \in Task /\ KeyOf(claimer[k]) = k /\ Alive(claimer[k])
    <3>1. ChildInv(c) /\ k # Caller /\ pc[c] # "idle"
      BY <2>1, DiscovererAssumption DEF TaskInv
    <3> QED BY <2>1, <3>1, ParentFacts DEF ChildInv, Past
  <2>3. claimer[k][1] \in Key /\ claimer[k][1] # Caller
    BY <1>1, <2>2, DiscovererAssumption
  <2> QED BY <2>2, <2>3, ParentFacts
<1>3. S = {}
  BY <1>2, NoneBelowRoots
<1> QED BY <1>1, <1>3

\* Every vertex is settled.
THEOREM QuietWhenReturned == Spec => []QuietAtReturn
<1>1. TypeOK /\ CallsInv /\ TaskInv /\ GraphAcyclic => QuietAtReturn
  <2> SUFFICES ASSUME TypeOK, CallsInv, TaskInv, GraphAcyclic, Returned PROVE QuietAtReturn
    BY DEF QuietAtReturn, SettledAtReturn, NoGoroutineLeft
  <2>1. \A t \in Task : pc[t] \in {"idle", "done"}
    BY ReturnedMeansDone
  <2>2. ASSUME NEW k \in Key PROVE state[k] \in {"absent", "unknown", "completed", "error"}
    BY <2>1 DEF TaskInv, OwnerInv, Owning, Past
  <2> QED BY <2>1, <2>2 DEF QuietAtReturn, SettledAtReturn, NoGoroutineLeft
<1> QED BY <1>1, TasksAlways, DiscoveredGraphAcyclic, PTL

\* The state of a vertex goes forward only, and stays when it is final.
THEOREM StatesOnlyAdvance == Spec => StatesAdvance
<1>1. TypeOK /\ CallsInv /\ TaskInv /\ [Next]_vars =>
        [\A k \in Key : state'[k] = state[k] \/ Rank[state'[k]] > Rank[state[k]]]_vars
  <2> SUFFICES ASSUME TypeOK, CallsInv, TaskInv, NEW k \in Key, NEW t \in Task, Step(t), state'[k] # state[k]
               PROVE  Rank[state'[k]] > Rank[state[k]]
    BY DEF Next, CallerCancels, Idle
  <2>1. /\ Rank["absent"] = 0 /\ Rank["unknown"] = 1 /\ Rank["discovering"] = 2 /\ Rank["discovered"] = 3
        /\ Rank["completed"] = 4 /\ Rank["error"] = 4
    BY DEF Rank, States
  <2>2. pc[t] \in Owning => claimer[KeyOf(t)] = t /\ KeyOf(t) \in Key /\ OwnerInv(KeyOf(t)) /\ t # NoTask
    BY KeyOfActive, DiscovererAssumption DEF TaskInv, CallInv, Owning, Task, NoTask
  <2>3. CASE AddNeighbor(t) \/ AddNeighborFails(t)
    <3>1. state[k] = "absent" /\ state'[k] = "unknown"
      BY <2>3 DEF AddNeighbor, AddNeighborFails, WithNeighbor, TypeOK
    <3> QED BY <2>1, <3>1
  <2>4. CASE AddSelf(t)
    <3>1. k = KeyOf(t) /\ state'[k] = "discovering" /\ state[k] \in {"absent", "unknown"}
      BY <2>2, <2>4 DEF AddSelf, SetState, OwnerInv, TypeOK, Owning
    <3> QED BY <2>1, <3>1
  <2>5. CASE Resolved(t)
    <3>1. k = KeyOf(t) /\ state'[k] = "discovered" /\ state[k] = "discovering"
      BY <2>2, <2>5 DEF Resolved, SetState, OwnerInv, TypeOK, Owning
    <3> QED BY <2>1, <3>1
  <2>6. CASE CallFails(t) \/ CallCancelled(t) \/ Finalize(t)
    <3>1. k = KeyOf(t) /\ state'[k] \in {"error", "completed"} /\ state[k] \in {"discovering", "discovered"}
      BY <2>2, <2>6 DEF CallFails, CallCancelled, Finalize, SetState, OwnerInv, TypeOK, Owning
    <3> QED BY <2>1, <3>1
  <2> QED BY <2>3, <2>4, <2>5, <2>6
             DEF Step, StartCancelled, Claim, FindClaimed, WaitDone, WaitCancelled, NeighborsKnown,
               LoopEnds, Close, Return
<1> QED BY <1>1, TasksAlways, PTL DEF Spec, StatesAdvance

-----------------------------------------------------------------------------
\* An edge was asked for: its task is one of the vertex' calls.
LEMMA EdgesAsked ==
  ASSUME TypeOK, CallsInv, TaskInv
  PROVE  /\ Edges \subseteq AskedEdges
         /\ \A k \in Key : claimer[k] # NoTask => k \in Asked
<1>1. ASSUME NEW k \in Key, claimer[k] # NoTask PROVE k \in Asked
  BY <1>1 DEF TaskInv, OwnerInv, AskedInv, Owning, Past
<1>2. ASSUME NEW k \in Key, NEW n \in Key, <<k, n>> \in Edges
      PROVE  <<k, n>> \in AskedEdges
  <2>1. PICK c \in Task : c[1] = k /\ pc[c] # "idle" /\ KeyOf(c) = n
    BY <1>2 DEF TaskInv, EdgeInv, Edges
  <2>2. c[2] \in 1..Len(load.refs[k]) /\ load.refs[k][c[2]] = n
    <3>1. Targets(k) = load.refs[k] /\ load.refs[k] \in Seq(Key)
      BY LoadFacts DEF TypeOK, Group
    <3> QED BY <2>1, <3>1, KeyOfActive DEF CallsInv, KeyOf
  <2>3. claimer[k] # NoTask
    BY <2>1, DiscovererAssumption DEF TaskInv, ChildInv
  <2> QED BY <1>1, <2>2, <2>3 DEF AskedEdges, Declared
<1> QED BY <1>1, <1>2 DEF Edges

\* AddEdge refuses an edge only if the references have a cycle.
LEMMA RefusedMeansCycle ==
  ASSUME TypeOK, CallsInv, TaskInv, NEW t \in Task, AddNeighborFails(t)
  PROVE  ~ IsAcyclic(Key, AskedEdges)
<1> DEFINE v == KeyOf(t)
           i == NextIndex(v)
           n == load.refs[v][i]
<1>1. pc[t] = "loop" /\ i <= Len(load.refs[v]) /\ EdgeRefused(v, n)
  BY DEF AddNeighborFails
<1>2. v \in Key /\ i \in Nat \ {0} /\ v \in Asked
  BY <1>1, KeyOfActive, NextIndexType DEF TaskInv, AskedInv
<1>3. i \in 1..Len(load.refs[v]) /\ n \in Key
  <2>1. load.refs[v] \in Seq(Key) /\ Len(load.refs[v]) \in Nat
    BY <1>2, LoadFacts DEF TypeOK, Group
  <2> QED BY <1>1, <1>2, <2>1
<1>4. <<v, n>> \in AskedEdges /\ AskedEdges \in SUBSET (Key \X Key)
  BY <1>2, <1>3 DEF AskedEdges, Declared
<1> HIDE DEF v, n
<1>5. CASE v = n
  <2>1. {v} \in SUBSET Key /\ {v} # {} /\ <<v, v>> \in AskedEdges
    BY <1>2, <1>4, <1>5
  <2> QED BY <2>1 DEF IsAcyclic
<1>6. CASE Reaches(Key, Edges \cup {<<v, n>>}, n, v)
  <2>1. Reaches(Key, AskedEdges, n, v)
    BY <1>4, <1>6, EdgesAsked, ReachesMore
  <2> QED BY <1>2, <1>3, <1>4, <2>1, NoWayBack
<1> QED BY <1>1, <1>5, <1>6 DEF EdgeRefused, v, n

\* No step fails before the caller cancels, a call fails or a cycle closes.
LEMMA StepClean ==
  ASSUME TypeOK, CallsInv, TaskInv, CleanInv, NEW t \in Task, Step(t)
  PROVE  CleanInv'
<1> SUFFICES ASSUME ~ aborted', faults' = {}, IsAcyclic(Key, AskedEdges')
             PROVE  cancelled' = {} /\ addErr' = {} /\ \A c \in Task : ret'[c] # "err"
  BY DEF CleanInv
<1>1. /\ load' = load /\ aborted' = aborted /\ faults \subseteq faults' /\ pc[t] # "idle"
  BY DEF Step, StartCancelled, Claim, FindClaimed, WaitDone, WaitCancelled, AddSelf,
         Resolved, NeighborsKnown, CallFails, CallCancelled, AddNeighbor,
         AddNeighborFails, LoopEnds, Finalize, Close, Return
<1>2. AskedEdges' = AskedEdges
  BY <1>1 DEF AskedEdges, Asked, Declared
<1>3. cancelled = {} /\ addErr = {} /\ \A c \in Task : ret[c] # "err"
  BY <1>1, <1>2 DEF CleanInv
<1>4. ~ CtxDone(t) /\ ~ AddNeighborFails(t)
  BY <1>2, <1>3, RefusedMeansCycle DEF CtxDone
<1>5. CASE WaitDone(t)
  BY <1>3, <1>5 DEF WaitDone, Leave, TypeOK
<1>6. CASE CallFails(t)
  BY <1>6 DEF CallFails
<1>7. CASE Finalize(t)
  <2>1. Spawned(KeyOf(t)) \subseteq Task
    BY <1>1, KeyOfActive, CallsAreTasks DEF Group
  <2>2. ~ JoinFailed(KeyOf(t))
    BY <1>3, <2>1 DEF JoinFailed
  <2> QED BY <1>3, <1>7, <2>2 DEF Finalize, Leave, TypeOK
<1>8. CASE Return(t)
  BY <1>3, <1>8 DEF Return
<1>9. CASE \/ Claim(t) \/ FindClaimed(t) \/ AddSelf(t) \/ Resolved(t)
           \/ NeighborsKnown(t) \/ AddNeighbor(t) \/ LoopEnds(t) \/ Close(t)
  BY <1>3, <1>9 DEF Claim, FindClaimed, AddSelf, Resolved, NeighborsKnown, AddNeighbor,
         LoopEnds, Close
<1> QED BY <1>4, <1>5, <1>6, <1>7, <1>8, <1>9
        DEF Step, StartCancelled, WaitCancelled, CallCancelled

\* The absence of a cause is kept.
LEMMA CleanAlways == Spec => []CleanInv
<1>1. Init => CleanInv
  BY DEF Init, CleanInv
<1>2. TypeOK /\ CallsInv /\ TaskInv /\ CleanInv /\ [Next]_vars => CleanInv'
  <2> SUFFICES ASSUME TypeOK, CallsInv, TaskInv, CleanInv, [Next]_vars PROVE CleanInv'
    OBVIOUS
  <2>1. CASE CallerCancels
    BY <2>1 DEF CallerCancels, CleanInv
  <2>2. CASE UNCHANGED vars
    <3>1. UNCHANGED <<aborted, faults, AskedEdges, cancelled, addErr, ret>>
      BY <2>2 DEF vars, AskedEdges, Asked, Declared
    <3> QED BY <3>1 DEF CleanInv
  <2> QED BY <2>1, <2>2, StepClean DEF Next, Idle
<1> QED BY <1>1, <1>2, TasksAlways, PTL DEF Spec

\* A nil error means every task returned one: a failed vertex fails the owner
\* of each of its parents, up to a root.
LEMMA OkMeansAllOk ==
  ASSUME TypeOK, CallsInv, TaskInv, GraphAcyclic, Returned, Result = "ok"
  PROVE  /\ \A t \in Task : pc[t] # "idle" => ret[t] = "ok" /\ claimer[KeyOf(t)] # NoTask
         /\ \A k \in Key : claimer[k] # NoTask => state[k] = "completed" /\ Spawned(k) = Calls(k)
         /\ addErr = {}
<1> DEFINE Bad == {k \in Key : claimer[k] # NoTask /\ ret[claimer[k]] = "err"}
<1>1. \A t \in Task : pc[t] # "idle" => pc[t] = "done" /\ pc[t] \in Past /\ ret[t] \in {"ok", "err"}
  BY ReturnedMeansDone DEF TaskInv, CallInv, Past
<1>2. \A k \in Key : claimer[k] # NoTask =>
        claimer[k] \in Task /\ KeyOf(claimer[k]) = k /\ pc[claimer[k]] # "idle"
  BY DEF TaskInv, OwnerInv, Owning, Past
<1>3. ASSUME NEW t \in Task, pc[t] # "idle", ret[t] = "err"
      PROVE  t[1] \in Bad /\ <<t[1], KeyOf(t)>> \in Edges
  <2>1. t[1] # Caller
    <3>1. t[1] = Caller => t \in Calls(Caller)
      BY <1>3, LoadFacts DEF CallsInv, Calls, Task, TypeOK
    <3> QED BY <1>3, <3>1 DEF Result
  <2>2. ChildInv(t) /\ t[1] \in Key /\ <<t[1], KeyOf(t)>> \in Edges
    BY <1>3, <2>1, ParentFacts DEF TaskInv
  <2>3. claimer[t[1]] # NoTask /\ pc[claimer[t[1]]] \in Past
    BY <1>1, <1>2, <1>3, <2>1, <2>2 DEF ChildInv
  <2> QED BY <1>3, <2>1, <2>2, <2>3 DEF ChildInv
<1>4. Bad = {}
  <2>1. ASSUME NEW k \in Bad PROVE \E p \in Bad : <<p, k>> \in Edges
    <3>1. claimer[k] \in Task /\ KeyOf(claimer[k]) = k /\ pc[claimer[k]] # "idle" /\ ret[claimer[k]] = "err"
      BY <1>2
    <3> QED BY <1>3, <3>1
  <2> QED BY <2>1, NoneBelowRoots
<1>5. \A t \in Task : pc[t] # "idle" => ret[t] = "ok" /\ claimer[KeyOf(t)] # NoTask
  BY <1>1, <1>3, <1>4 DEF TaskInv, CallInv
<1>6. ASSUME NEW k \in Key PROVE k \notin addErr
  BY <1>2, <1>5 DEF TaskInv, LoopInv
<1>7. ASSUME NEW k \in Key, claimer[k] # NoTask PROVE state[k] = "completed" /\ Spawned(k) = Calls(k)
  <2>1. pc[claimer[k]] \in Past /\ ret[claimer[k]] = "ok"
    BY <1>1, <1>2, <1>5, <1>7
  <2> QED BY <1>6, <1>7, <2>1 DEF TaskInv, OwnerInv, LoopInv
<1> QED BY <1>5, <1>6, <1>7 DEF TypeOK

\* The vertices somebody has claimed are then those that were asked for.
LEMMA OkMeansAllClaimed ==
  ASSUME TypeOK, CallsInv, TaskInv, GraphAcyclic, Returned, Result = "ok"
  PROVE  /\ \A k \in Key : k \in Asked <=> claimer[k] # NoTask
         /\ Edges = AskedEdges
<1> DEFINE C == {k \in Key : claimer[k] # NoTask}
<1>1. ASSUME NEW k \in C, NEW i \in 1..Len(load.refs[k])
      PROVE  load.refs[k][i] \in C /\ <<k, load.refs[k][i]>> \in Edges
  <2>1. /\ load.refs[k] \in Seq(Key) /\ Targets(k) = load.refs[k] /\ k \in Group /\ k # Caller
    BY LoadFacts, DiscovererAssumption DEF TypeOK, Group
  <2>2. load.refs[k][i] \in Key /\ <<k, i>> \in Calls(k) /\ KeyOf(<<k, i>>) = load.refs[k][i]
    BY <2>1 DEF Calls, KeyOf
  <2>3. <<k, i>> \in Task /\ pc[<<k, i>>] # "idle"
    BY <2>1, <2>2, CallsAreTasks, OkMeansAllOk DEF Spawned
  <2>4. claimer[load.refs[k][i]] # NoTask
    BY <2>2, <2>3, OkMeansAllOk
  <2>5. <<k, load.refs[k][i]>> \in Edges
    <3>1. <<k, i>>[1] = k
      OBVIOUS
    <3> QED BY <2>1, <2>2, <2>3, <3>1, ParentFacts
  <2> QED BY <2>2, <2>4, <2>5
<1>2. IsClosed(Declared, C)
  BY <1>1 DEF IsClosed, Declared
<1>3. ASSUME NEW i \in 1..Len(load.roots) PROVE load.roots[i] \in C
  <2>1. /\ Caller \in Group /\ load.roots \in Seq(Key) /\ <<Caller, i>> \in Calls(Caller)
        /\ KeyOf(<<Caller, i>>) = load.roots[i]
    BY DiscovererAssumption DEF TypeOK, Group, Calls, KeyOf, Targets
  <2>2. <<Caller, i>> \in Task /\ pc[<<Caller, i>>] # "idle"
    BY <2>1, CallsAreTasks DEF TaskInv, AskedInv
  <2>3. claimer[KeyOf(<<Caller, i>>)] # NoTask
    BY <2>2, OkMeansAllOk
  <2> QED BY <2>1, <2>3
<1>4. Asked \subseteq C
  <2>1. C \in SUBSET Key
    OBVIOUS
  <2> HIDE DEF C
  <2> QED BY <1>2, <1>3, <2>1 DEF Asked, ReachableFrom, Reaches
<1>5. AskedEdges \subseteq Edges
  <2>1. ASSUME NEW k \in Key, NEW n \in Key, <<k, n>> \in AskedEdges PROVE <<k, n>> \in Edges
    <3>1. k \in C
      BY <1>4, <2>1 DEF AskedEdges
    <3>2. PICK i \in 1..Len(load.refs[k]) : load.refs[k][i] = n
      BY <2>1 DEF AskedEdges, Declared
    <3> QED BY <1>1, <3>1, <3>2
  <2> QED BY <2>1 DEF AskedEdges, Declared
<1> QED BY <1>4, <1>5, EdgesAsked

\* The result of Discover tells what happened: a nil error that everything asked
\* for is there, an error that something outside the discoverer went wrong.
THEOREM ResultAlwaysTells == Spec => []ResultTells
<1>1. TypeOK /\ CallsInv /\ TaskInv /\ GraphAcyclic /\ CleanInv => ResultTells
  <2> SUFFICES ASSUME TypeOK, CallsInv, TaskInv, GraphAcyclic, CleanInv, Returned
               PROVE  OkMeansExplored /\ ErrorHasCause
    BY DEF ResultTells, OkMeansExplored, ErrorHasCause
  <2>1. ASSUME Result = "ok", NEW k \in Key
        PROVE  state[k] = IF k \in Asked THEN "completed" ELSE "absent"
    <3>1. CASE k \in Asked
      BY <2>1, <3>1, OkMeansAllOk, OkMeansAllClaimed
    <3>2. CASE k \notin Asked
      <4>1. claimer[k] = NoTask
        BY <2>1, <3>2, OkMeansAllClaimed
      <4>2. addErr = {} /\ ~ \E c \in Task : pc[c] # "idle" /\ KeyOf(c) = k
        BY <2>1, <4>1, OkMeansAllOk
      <4> QED BY <3>2, <4>2 DEF TaskInv, EdgeInv
    <3> QED BY <3>1, <3>2
  <2>2. Result = "err" => aborted \/ faults # {} \/ ~ IsAcyclic(Key, AskedEdges)
    <3>1. Calls(Caller) \subseteq Task
      BY CallsAreTasks DEF Group
    <3> QED BY <3>1 DEF Result, CleanInv
  <2> QED BY <2>1, <2>2, OkMeansAllClaimed DEF OkMeansExplored, ErrorHasCause
<1> QED BY <1>1, TasksAlways, DiscoveredGraphAcyclic, CleanAlways, PTL

-----------------------------------------------------------------------------
\* The owner of a completed vertex has waited for its neighbors' owners.
LEMMA CompletedWaited ==
  ASSUME TypeOK, CallsInv, TaskInv
  PROVE  CompletedNeighborsSettled
<1>1. ASSUME NEW k \in Key, NEW n \in Key, index[<<k, n>>] # 0, state[k] = "completed"
      PROVE  state[n] \in {"completed", "error"}
  <2>1. PICK c \in Task : c[1] = k /\ pc[c] # "idle" /\ KeyOf(c) = n
    BY <1>1 DEF TaskInv, EdgeInv
  <2>2. ChildInv(c) /\ CallInv(c) /\ k # Caller /\ OwnerInv(k) /\ OwnerInv(n)
    BY DiscovererAssumption DEF TaskInv
  <2>3. claimer[k] # NoTask /\ pc[claimer[k]] \in Past /\ ret[claimer[k]] = "ok"
    BY <1>1, <2>1, <2>2 DEF OwnerInv, ChildInv, Owning
  <2>4. pc[c] \in Past /\ ret[c] = "ok"
    BY <2>1, <2>2, <2>3 DEF ChildInv, CallInv, Past
  <2> QED BY <2>1, <2>2, <2>4 DEF CallInv, OwnerInv
<1> QED BY <1>1 DEF CompletedNeighborsSettled, Edges

\* Without duplicates the i-th call of a vertex is the one edge with index i.
LEMMA IndexIsCall ==
  ASSUME TypeOK, CallsInv, TaskInv, NEW k \in Key, NoDuplicates(k),
         NEW m \in 0..Len(load.refs[k]), Spawned(k) = FirstCalls(k, m)
  PROVE  /\ \A i \in 1..m : load.refs[k][i] \in Key /\ index[<<k, load.refs[k][i]>>] = i
         /\ \A n \in Key : index[<<k, n>>] # 0 =>
              index[<<k, n>>] \in 1..m /\ load.refs[k][index[<<k, n>>]] = n
<1>1. /\ load.refs[k] \in Seq(Key) /\ Targets(k) = load.refs[k] /\ k \in Group /\ k # Caller
  BY LoadFacts, DiscovererAssumption DEF TypeOK, Group
<1>2. ASSUME NEW n \in Key, index[<<k, n>>] # 0
      PROVE  index[<<k, n>>] \in 1..m /\ load.refs[k][index[<<k, n>>]] = n
  <2>1. PICK c \in Task : c[1] = k /\ c[2] = index[<<k, n>>] /\ pc[c] # "idle" /\ KeyOf(c) = n
    BY <1>2 DEF TaskInv, EdgeInv
  <2>2. c \in Spawned(k)
    <3>1. c[2] \in 1..Len(load.refs[k]) /\ c = <<k, c[2]>>
      BY <1>1, <2>1 DEF CallsInv, Task
    <3> QED BY <1>1, <2>1, <3>1 DEF Spawned, Calls
  <2> QED BY <1>1, <2>1, <2>2 DEF FirstCalls, KeyOf
<1>3. ASSUME NEW i \in 1..m
      PROVE  load.refs[k][i] \in Key /\ index[<<k, load.refs[k][i]>>] = i
  <2>1. i \in 1..Len(load.refs[k]) /\ load.refs[k][i] \in Key
    BY <1>1
  <2>2. <<k, i>> \in Spawned(k)
    BY DEF FirstCalls
  <2>3. <<k, i>> \in Task /\ pc[<<k, i>>] # "idle" /\ KeyOf(<<k, i>>) = load.refs[k][i] /\ <<k, i>>[1] = k
    BY <1>1, <2>2, CallsAreTasks DEF Spawned, KeyOf
  <2>4. index[<<k, load.refs[k][i]>>] # 0
    BY <1>1, <2>3 DEF TaskInv, ChildInv
  <2>5. /\ index[<<k, load.refs[k][i]>>] \in 1..Len(load.refs[k])
        /\ load.refs[k][index[<<k, load.refs[k][i]>>]] = load.refs[k][i]
    <3> DEFINE n == load.refs[k][i]
    <3>1. n \in Key /\ index[<<k, n>>] # 0
      BY <2>1, <2>4
    <3> HIDE DEF n
    <3>2. index[<<k, n>>] \in 1..m /\ load.refs[k][index[<<k, n>>]] = n
      BY <1>2, <3>1
    <3>3. m \in 0..Len(load.refs[k]) /\ Len(load.refs[k]) \in Nat
      BY <1>1
    <3>4. index[<<k, n>>] \in 1..Len(load.refs[k])
      BY <3>2, <3>3
    <3> QED BY <3>2, <3>4 DEF n
  <2> QED BY <2>1, <2>5 DEF NoDuplicates
<1> QED BY <1>2, <1>3

\* Neighbors are kept in their slots, and settled before their vertex.
THEOREM NeighborsAlwaysKept == Spec => []NeighborsKept
<1>1. TypeOK /\ CallsInv /\ TaskInv => NeighborsKept
  <2> SUFFICES ASSUME TypeOK, CallsInv, TaskInv, NEW k \in Key, NoDuplicates(k)
               PROVE  OrderSlots(k) = 1..Cardinality(OutOf(Edges, k))
    BY CompletedWaited DEF NeighborsKept, OrderIndicesFit
  <2>1. PICK m \in 0..Len(load.refs[k]) : Spawned(k) = FirstCalls(k, m)
    BY DEF TaskInv, LoopInv
  <2>2. m \in Nat /\ IsFiniteSet(1..m) /\ Cardinality(1..m) = m
    <3>1. Len(load.refs[k]) \in Nat
      BY LoadFacts DEF TypeOK
    <3> QED BY <3>1, FS_Interval
  <2>3. OrderSlots(k) = 1..m
    <3>1. ASSUME NEW i \in 1..m PROVE i \in OrderSlots(k)
      <4>1. load.refs[k][i] \in Key /\ index[<<k, load.refs[k][i]>>] = i
        BY <2>1, IndexIsCall
      <4>2. i # 0
        BY <2>2
      <4>3. <<k, load.refs[k][i]>> \in Edges
        BY <4>1, <4>2 DEF Edges
      <4> QED BY <4>1, <4>3 DEF OrderSlots
    <3>2. ASSUME NEW e \in Edges, e[1] = k PROVE index[e] \in 1..m
      <4>1. e = <<k, e[2]>> /\ e[2] \in Key /\ index[e] # 0
        BY <3>2 DEF Edges
      <4> QED BY <2>1, <4>1, IndexIsCall
    <3> QED BY <3>1, <3>2 DEF OrderSlots
  <2>4. OutOf(Edges, k) = {load.refs[k][i] : i \in 1..m}
    <3>1. ASSUME NEW i \in 1..m PROVE load.refs[k][i] \in OutOf(Edges, k)
      <4>0. i # 0
        BY <2>2
      <4>1. load.refs[k][i] \in Key /\ index[<<k, load.refs[k][i]>>] # 0
        BY <2>1, <4>0, IndexIsCall
      <4>2. <<k, load.refs[k][i]>> \in Edges
        BY <4>1 DEF Edges
      <4> QED BY <4>2 DEF OutOf
    <3>2. ASSUME NEW e \in Edges, e[1] = k PROVE \E i \in 1..m : load.refs[k][i] = e[2]
      <4>1. e = <<k, e[2]>> /\ e[2] \in Key /\ index[e] # 0
        BY <3>2 DEF Edges
      <4> QED BY <2>1, <4>1, IndexIsCall
    <3> QED BY <3>1, <3>2 DEF OutOf
  <2>5. Cardinality(OutOf(Edges, k)) = m
    <3> DEFINE f == [i \in 1..m |-> load.refs[k][i]]
    <3>1. \A i, j \in 1..m : f[i] = f[j] => i = j
      BY <2>1, IndexIsCall
    <3>2. f \in [1..m -> OutOf(Edges, k)] /\ \A n \in OutOf(Edges, k) : \E i \in 1..m : f[i] = n
      BY <2>4
    <3> HIDE DEF f
    <3>3. f \in Bijection(1..m, OutOf(Edges, k))
      BY <3>1, <3>2 DEF Bijection, Injection, Surjection, IsInjective
    <3> QED BY <2>2, <3>3, FS_Bijection DEF ExistsBijection
  <2> QED BY <2>3, <2>5
<1> QED BY <1>1, TasksAlways, PTL
=============================================================================
