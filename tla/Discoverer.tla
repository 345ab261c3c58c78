----------------------------- MODULE Discoverer -----------------------------
(***************************************************************************)
(* GraphDiscoverer of src/bindings/go/dag/sync/discover.go: a concurrent,  *)
(* recursive walk that resolves every vertex reachable from the roots and  *)
(* records it in a shared DirectedAcyclicGraph.                            *)
(*                                                                         *)
(* A task is one call of discover in a goroutine of an errgroup: <<p, i>>  *)
(* is the call for the i-th neighbor of vertex p, <<Caller, i>> the one    *)
(* for the i-th root.  Since one task at most gets hold of a vertex, an    *)
(* errgroup is named by the vertex whose neighbors it explores.  A task    *)
(* moves through                                                           *)
(*                                                                         *)
(*   idle -> start -> waiting -------------------------> closing           *)
(*                 -> add -> resolve -> discover -> loop -> join           *)
(*                                              -> closing -> returning -> *)
(*                                                                    done *)
(*                                                                         *)
(* and one step of it is the code between two points where another         *)
(* goroutine can be seen to run: a lock section, a channel operation or    *)
(* the return of a call.  Resolver and Discoverer are the callers' code:   *)
(* they answer as refs says, fail for a vertex in MayFail, or give up when *)
(* their context is cancelled.                                             *)
(***************************************************************************)
EXTENDS Digraphs

CONSTANTS
  Key,            \* vertex IDs
  Caller,         \* the errgroup of Discover itself
  Workloads,      \* records [refs, roots]: neighbors of each key, root list
  MaxRefs,        \* bound on the length of a neighbor list
  MayFail         \* vertices whose Resolve or Discover call may fail

ASSUME DiscovererAssumption ==
  /\ IsFiniteSet(Key) /\ Caller \notin Key /\ MayFail \subseteq Key
  /\ MaxRefs \in Nat
  /\ \A w \in Workloads :
       /\ w.refs \in [Key -> Seq(Key)] /\ w.roots \in Seq(Key)
       /\ Len(w.roots) \in 1..MaxRefs
       /\ \A k \in Key : Len(w.refs[k]) <= MaxRefs

VARIABLES
  load,           \* the workload of this Discover call, fixed
  pc, ret,        \* where each task is, what its call returned
  claimer,        \* doneMap: the task whose channel is stored for a key
  state,          \* AttributeDiscoveryState of each vertex
  index,          \* AttributeOrderIndex + 1 of each edge, 0 when there is none
  addErr,         \* keys whose loop ended with addErr
  cancelled,      \* errgroups whose context is cancelled
  within,         \* the errgroups a vertex' own errgroup context derives from
  faults,         \* history: vertices whose Resolve or Discover call failed
  aborted         \* history: the caller cancelled the context of Discover

vars == <<load, pc, ret, claimer, state, index, addErr, cancelled, within,
          faults, aborted>>

Group == Key \cup {Caller}
Task  == Group \X (1..MaxRefs)

NoTask == <<Caller, 0>>

PC     == {"idle", "start", "waiting", "add", "resolve", "discover", "loop",
           "join", "closing", "returning", "done"}
States == {"absent", "unknown", "discovering", "discovered", "completed", "error"}

\* The calls of a group, in the order its loop makes them.
Targets(g) == IF g = Caller THEN load.roots ELSE load.refs[g]
Calls(g)   == {g} \X (1..Len(Targets(g)))
KeyOf(t)   == Targets(t[1])[t[2]]

Edges    == {e \in Key \X Key : index[e] # 0}
Vertices == {k \in Key : state[k] # "absent"}

\* The context handed to task t: done once its errgroup or one it derives
\* from is cancelled.
CtxDone(t) == (within[t[1]] \cup {t[1]}) \cap cancelled # {}

AlreadyClaimed(k) == claimer[k] # NoTask           \* mutant of DoneClosed

\* The channel stored for k is closed.
DoneClosed(k) == claimer[k] # NoTask /\ pc[claimer[k]] \in {"returning", "done"}

Init ==
  /\ load \in Workloads
  /\ pc = [t \in Task |-> IF t \in Calls(Caller) THEN "start" ELSE "idle"]
  /\ ret = [t \in Task |-> "none"]
  /\ claimer = [k \in Key |-> NoTask]
  /\ state = [k \in Key |-> "absent"]
  /\ index = [e \in Key \X Key |-> 0]
  /\ within = [g \in Group |-> {}]
  /\ addErr = {} /\ cancelled = {} /\ faults = {} /\ aborted = FALSE

Goto(t, l) == pc' = [pc EXCEPT ![t] = l]

\* Leave discover with an error or nil; the deferred close comes next.
Leave(t, r) == Goto(t, "closing") /\ ret' = [ret EXCEPT ![t] = r]

SetState(k, s) == state' = [state EXCEPT ![k] = s]

-----------------------------------------------------------------------------
StartCancelled(t) ==
  /\ pc[t] = "start" /\ CtxDone(t)
  /\ Leave(t, "err")
  /\ UNCHANGED <<load, claimer, state, index, addErr, cancelled, within, faults, aborted>>

\* LoadOrStore. The check of the context before it is part of this step: a
\* cancellation between the two is indistinguishable from one just after.
Claim(t) ==
  /\ pc[t] = "start" /\ ~ CtxDone(t) /\ claimer[KeyOf(t)] = NoTask
  /\ claimer' = [claimer EXCEPT ![KeyOf(t)] = t]
  /\ within' = [within EXCEPT ![KeyOf(t)] = within[t[1]] \cup {t[1]}]
  /\ Goto(t, "add")
  /\ UNCHANGED <<load, ret, state, index, addErr, cancelled, faults, aborted>>

FindClaimed(t) ==
  /\ pc[t] = "start" /\ ~ CtxDone(t) /\ claimer[KeyOf(t)] # NoTask
  /\ Goto(t, "waiting")
  /\ UNCHANGED <<load, ret, claimer, state, index, addErr, cancelled, within, faults, aborted>>

\* The select of a call that found the vertex claimed; with both channels
\* ready either case may be taken.
WaitDone(t) ==
  /\ pc[t] = "waiting" /\ DoneClosed(KeyOf(t))
  /\ Leave(t, "ok")
  /\ UNCHANGED <<load, claimer, state, index, addErr, cancelled, within, faults, aborted>>

WaitCancelled(t) ==
  /\ pc[t] = "waiting" /\ CtxDone(t)
  /\ Leave(t, "err")
  /\ UNCHANGED <<load, claimer, state, index, addErr, cancelled, within, faults, aborted>>

\* The vertex may exist already: a parent adds its neighbors as "unknown".
AddSelf(t) ==
  /\ pc[t] = "add"
  /\ SetState(KeyOf(t), "discovering")
  /\ Goto(t, "resolve")
  /\ UNCHANGED <<load, ret, claimer, index, addErr, cancelled, within, faults, aborted>>

Resolved(t) ==
  /\ pc[t] = "resolve"
  /\ SetState(KeyOf(t), "discovered")
  /\ Goto(t, "discover")
  /\ UNCHANGED <<load, ret, claimer, index, addErr, cancelled, within, faults, aborted>>

NeighborsKnown(t) ==
  /\ pc[t] = "discover"
  /\ Goto(t, "loop")
  /\ UNCHANGED <<load, ret, claimer, state, index, addErr, cancelled, within, faults, aborted>>

\* Resolve or Discover of t's vertex returns an error of its own, ...
CallFails(t) ==
  /\ pc[t] \in {"resolve", "discover"} /\ KeyOf(t) \in MayFail
  /\ SetState(KeyOf(t), "error")
  /\ Leave(t, "err")
  /\ faults' = faults \cup {KeyOf(t)}
  /\ UNCHANGED <<load, claimer, index, addErr, cancelled, within, aborted>>

GivesUpSilently(t) ==                              \* mutant of CallCancelled
  /\ pc[t] \in {"resolve", "discover"} /\ CtxDone(t)
  /\ Leave(t, "err")
  /\ UNCHANGED <<load, claimer, state, index, addErr, cancelled, within, faults, aborted>>

\* ... or gives up because its context is done.
CallCancelled(t) ==
  /\ pc[t] \in {"resolve", "discover"} /\ CtxDone(t)
  /\ SetState(KeyOf(t), "error")
  /\ Leave(t, "err")
  /\ UNCHANGED <<load, claimer, index, addErr, cancelled, within, faults, aborted>>

-----------------------------------------------------------------------------
\* The loop is at the first neighbor without a goroutine.
Spawned(k)   == {c \in Calls(k) : pc[c] # "idle"}
NextIndex(k) == Cardinality(Spawned(k)) + 1

RefusesSelfOnly(k, n) == k = n                     \* mutant of EdgeRefused

\* AddEdge(k, n) under the write lock refuses a self-reference and a cycle.
EdgeRefused(k, n) ==
  \/ k = n
  \/ <<k, n>> \notin Edges /\ Reaches(Key, Edges \cup {<<k, n>>}, n, k)

\* The neighbor's vertex is added unless it exists.
ResetNeighbor(n) == SetState(n, "unknown")         \* mutant of WithNeighbor
WithNeighbor(n)  == state' = [state EXCEPT ![n] = IF @ = "absent" THEN "unknown" ELSE @]

\* The edge and its order index.
PutEdge(k, n, i) == index' = [index EXCEPT ![<<k, n>>] = i]

\* One round of the loop: the neighbor's vertex if it is missing and the edge
\* with its order index under one write lock, then the goroutine.
AddNeighbor(t) ==
  LET k == KeyOf(t)
      i == NextIndex(k)
      n == load.refs[k][i]
  IN /\ pc[t] = "loop" /\ i <= Len(load.refs[k]) /\ ~ EdgeRefused(k, n)
     /\ WithNeighbor(n)
     /\ PutEdge(k, n, i)
     /\ Goto(<<k, i>>, "start")
     /\ UNCHANGED <<load, ret, claimer, addErr, cancelled, within, faults, aborted>>

\* AddEdge fails: the vertex stays, the neighbors' context is cancelled and
\* the loop is left, but the goroutines it has started are still waited for.
AddNeighborFails(t) ==
  LET k == KeyOf(t)
      i == NextIndex(k)
      n == load.refs[k][i]
  IN /\ pc[t] = "loop" /\ i <= Len(load.refs[k]) /\ EdgeRefused(k, n)
     /\ WithNeighbor(n)
     /\ addErr' = addErr \cup {k}
     /\ cancelled' = cancelled \cup {k}
     /\ Goto(t, "join")
     /\ UNCHANGED <<load, ret, claimer, index, within, faults, aborted>>

LoopEnds(t) ==
  /\ pc[t] = "loop" /\ NextIndex(KeyOf(t)) > Len(load.refs[KeyOf(t)])
  /\ Goto(t, "join")
  /\ UNCHANGED <<load, ret, claimer, state, index, addErr, cancelled, within, faults, aborted>>

ChildErrorsOnly(k) == \E c \in Spawned(k) : ret[c] = "err"   \* mutant of JoinFailed

\* errGroup.Wait returned; addErr takes precedence over a child's error.
JoinFailed(k) == k \in addErr \/ \E c \in Spawned(k) : ret[c] = "err"

\* errGroup.Wait: also after a failing AddEdge has ended the loop early.
GroupDone(k) == \A c \in Spawned(k) : pc[c] = "done"

Finalize(t) ==
  LET k == KeyOf(t) IN
  /\ pc[t] = "join" /\ GroupDone(k)
  /\ SetState(k, IF JoinFailed(k) THEN "error" ELSE "completed")
  /\ Leave(t, IF JoinFailed(k) THEN "err" ELSE "ok")
  /\ UNCHANGED <<load, claimer, index, addErr, cancelled, within, faults, aborted>>

\* The deferred close of the call's own channel, which others wait on if the
\* call stored it.
Close(t) ==
  /\ pc[t] = "closing"
  /\ Goto(t, "returning")
  /\ UNCHANGED <<load, ret, claimer, state, index, addErr, cancelled, within, faults, aborted>>

\* The goroutine hands the error to its errgroup, which cancels its context.
Return(t) ==
  /\ pc[t] = "returning"
  /\ cancelled' = IF ret[t] = "err" THEN cancelled \cup {t[1]} ELSE cancelled
  /\ Goto(t, "done")
  /\ UNCHANGED <<load, ret, claimer, state, index, addErr, within, faults, aborted>>

-----------------------------------------------------------------------------
\* Wait of the root errgroup has returned, and what Discover returns.
Returned == \A t \in Calls(Caller) : pc[t] = "done"
Result   == IF \E t \in Calls(Caller) : ret[t] = "err" THEN "err" ELSE "ok"

CallerCancels ==
  /\ ~ Returned /\ ~ aborted
  /\ aborted' = TRUE
  /\ cancelled' = cancelled \cup {Caller}
  /\ UNCHANGED <<load, pc, ret, claimer, state, index, addErr, within, faults>>

Step(t) ==
  \/ StartCancelled(t) \/ Claim(t) \/ FindClaimed(t)
  \/ WaitDone(t) \/ WaitCancelled(t)
  \/ AddSelf(t) \/ Resolved(t) \/ NeighborsKnown(t)
  \/ CallFails(t) \/ CallCancelled(t)
  \/ AddNeighbor(t) \/ AddNeighborFails(t) \/ LoopEnds(t)
  \/ Finalize(t) \/ Close(t) \/ Return(t)

\* Discover has returned and nothing of it runs any more.
Idle == (\A t \in Task : pc[t] \in {"idle", "done"}) /\ UNCHANGED vars

Next == (\E t \in Task : Step(t)) \/ CallerCancels \/ Idle

\* Every goroutine is scheduled, and Resolve and Discover calls return.
Fairness == \A t \in Task : WF_vars(Step(t))

Spec == Init /\ [][Next]_vars /\ Fairness

-----------------------------------------------------------------------------
\* Type invariant.
TypeOK ==
  /\ load \in Workloads
  /\ pc \in [Task -> PC] /\ ret \in [Task -> {"none", "ok", "err"}]
  /\ claimer \in [Key -> Task \cup {NoTask}]
  /\ state \in [Key -> States] /\ index \in [Key \X Key -> 0..MaxRefs]
  /\ addErr \subseteq Key /\ cancelled \subseteq Group /\ faults \subseteq Key
  /\ within \in [Group -> SUBSET Group] /\ aborted \in BOOLEAN

\* Goroutines that add edges at the same time never build a cycle together:
\* the check and the insertion are one lock section.
GraphAcyclic == IsAcyclic(Key, Edges)

\* What Discover is asked to explore: the references of every vertex that
\* can be reached from a root.
Declared == {e \in Key \X Key : \E i \in 1..Len(load.refs[e[1]]) : load.refs[e[1]][i] = e[2]}
Asked    == ReachableFrom(Key, Declared, {load.roots[i] : i \in 1..Len(load.roots)})
AskedEdges == {e \in Declared : e[1] \in Asked}

\* A nil error means the whole reachable graph is there: every vertex is
\* completed and every reference is an edge.  A vertex that failed under one
\* parent cannot hide behind another parent that only waited for it, and a
\* cycle cannot be explored without an error.
OkMeansExplored ==
  (Returned /\ Result = "ok") =>
    /\ \A k \in Key : state[k] = IF k \in Asked THEN "completed" ELSE "absent"
    /\ Edges = AskedEdges

\* An error has a cause outside the discoverer: the caller cancelled, a call
\* failed, or the references form a cycle.  Cancelling the neighbors of a
\* failed vertex, or losing a race for one, never makes an error of its own.
ErrorHasCause ==
  (Returned /\ Result = "err") =>
    aborted \/ faults # {} \/ ~ IsAcyclic(Key, AskedEdges)

\* What Discover returns tells what happened, whichever goroutine failed,
\* waited or was cancelled.
ResultTells == OkMeansExplored /\ ErrorHasCause

\* No vertex is left in an intermediate state, whatever was cancelled where
\* (discover.go:142 "States are updated consistently on success or failure").
SettledAtReturn ==
  Returned => \A k \in Key : state[k] \in {"absent", "unknown", "completed", "error"}

\* Discover never returns with one of its goroutines alive, even when a
\* failing AddEdge ends a loop early.
NoGoroutineLeft == Returned => \A t \in Task : pc[t] \in {"idle", "done"}

\* What a caller finds when Discover has returned is final and at rest.
QuietAtReturn == SettledAtReturn /\ NoGoroutineLeft

\* A completed vertex has only neighbors nobody works on any more.
CompletedNeighborsSettled ==
  \A e \in Edges : state[e[1]] = "completed" => state[e[2]] \in {"completed", "error"}

Rank == [s \in States |->
  CASE s = "absent" -> 0 [] s = "unknown" -> 1 [] s = "discovering" -> 2
    [] s = "discovered" -> 3 [] OTHER -> 4]

\* A vertex only moves forward, and completed and error are final: it is
\* resolved at most once, and a parent that registers it as a neighbor late
\* does not reset it (discover.go:140).
StatesAdvance ==
  [][\A k \in Key : state'[k] = state[k] \/ Rank[state'[k]] > Rank[state[k]]]_vars

NoDuplicates(k) == \A i, j \in 1..Len(load.refs[k]) :
                      load.refs[k][i] = load.refs[k][j] => i = j

\* CurrentEdges(k) puts each neighbor into the slot of its order index, in a
\* slice with one slot per edge, and may run at any time.
OrderSlots(k) == {index[e] : e \in {f \in Edges : f[1] = k}}

\* At every moment the order indices of a vertex fill the slots of its slice,
\* each once, if its neighbor list has no duplicates.
OrderIndicesFit ==
  \A k \in Key : NoDuplicates(k) => OrderSlots(k) = 1..Cardinality(OutOf(Edges, k))

\* The neighbors of a vertex, while goroutines of several parents register and
\* resolve them: each in its slot, and none unsettled under a completed vertex.
NeighborsKept == OrderIndicesFit /\ CompletedNeighborsSettled

\* Discovery ends: with an error, a cancellation or a cycle no goroutine is
\* left waiting for a channel nobody closes.
Terminates == <>Returned
=============================================================================
