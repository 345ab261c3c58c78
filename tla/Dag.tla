-------------------------------- MODULE Dag ---------------------------------
(***************************************************************************)
(* DirectedAcyclicGraph of src/bindings/go/dag/dag.go: the graph the       *)
(* discoverer, the processor, the transformation builder, the constructor  *)
(* and the credential graph all build.  The maps Vertices and Edges are    *)
(* the sets vertices and edges, the counters of a Vertex the functions     *)
(* inDegree and outDegree.  Attributes are left out: they never decide an  *)
(* operation of this type (the discoverer models the ones it reads).       *)
(*                                                                         *)
(* One action per exported operation and outcome.  A Go map is iterated in *)
(* any order, so what depends on that order is a choice.                   *)
(***************************************************************************)
EXTENDS DagWalks

CONSTANT Key                          \* vertex IDs

\* Keys are ordered (cmp.Ordered): integers stand for them.
ASSUME KeyAssumption == IsFiniteSet(Key) /\ Key \subseteq Int

VARIABLES
  vertices,                           \* keys of d.Vertices
  edges,                              \* <<from, to>>: to is in d.Vertices[from].Edges
  inDegree, outDegree,                \* Vertex.InDegree, Vertex.OutDegree
  result,                             \* what the last call returned
  panicked,                           \* a nil vertex was dereferenced
  orphaned                            \* history: keys deleted while an edge led to them

graph == <<vertices, edges, inDegree, outDegree>>
vars  == <<graph, result, panicked, orphaned>>

Results == {"ok", "exists", "missing", "self", "cycle", "partial"}

Init ==
  /\ vertices = {} /\ edges = {}
  /\ inDegree = [k \in Key |-> 0] /\ outDegree = [k \in Key |-> 0]
  /\ result = "ok" /\ panicked = FALSE /\ orphaned = {}

\* An early return with an error: the graph is as before.
Refuse(error) ==
  /\ result' = error
  /\ UNCHANGED <<graph, panicked, orphaned>>

-----------------------------------------------------------------------------
AddVertex(id) ==
  \/ id \in vertices /\ Refuse("exists")
  \/ /\ id \notin vertices
     /\ vertices' = vertices \cup {id}
     /\ inDegree' = [inDegree EXCEPT ![id] = 0]
     /\ outDegree' = [outDegree EXCEPT ![id] = 0]
     /\ result' = "ok"
     /\ UNCHANGED <<edges, panicked, orphaned>>

\* The edges findPath(from, to) may still follow before it meets one that
\* ends in to: it returns from inside the range loop of such a vertex.
OpenEdges(E, to) == {e \in E : <<e[1], to>> \notin E}

\* The walk from `from` may pop a key that d.Vertices no longer holds.
WalkMayPanic(E, from, to) ==
  \E k \in Key \ vertices : Reaches(Key, OpenEdges(E, to), from, k)

BothExist(from, to)  == {from, to} \subseteq vertices

\* findPath(to, from) over the edges E, which hold the new one.
MeetsDirectly(E, from, to) == <<to, from>> \in E  \* mutant of ClosesCycle
ClosesCycle(E, from, to)   == Reaches(Key, E, to, from)

AddEdgeRefused(from, to) ==
  \/ BothExist(from, to) /\ from = to /\ Refuse("self")
  \/ ~ BothExist(from, to) /\ Refuse("missing")

\* The edge exists: only its attributes are copied.
AddEdgeAgain(from, to) ==
  /\ BothExist(from, to) /\ from # to /\ <<from, to>> \in edges
  /\ result' = "ok"
  /\ UNCHANGED <<graph, panicked, orphaned>>

\* The edge is put into the map, the walk from `to` does not meet `from`.
AddEdgeNew(from, to) ==
  LET E == edges \cup {<<from, to>>} IN
  /\ BothExist(from, to) /\ from # to /\ <<from, to>> \notin edges
  /\ ~ ClosesCycle(E, from, to) /\ ~ WalkMayPanic(E, to, from)
  /\ edges' = E
  /\ outDegree' = [outDegree EXCEPT ![from] = @ + 1]
  /\ inDegree' = [inDegree EXCEPT ![to] = @ + 1]
  /\ result' = "ok"
  /\ UNCHANGED <<vertices, panicked, orphaned>>

CycleKeepsCounters(from, to) ==                    \* mutant of AddEdgeCycle
  /\ BothExist(from, to) /\ from # to /\ <<from, to>> \notin edges
  /\ ClosesCycle(edges \cup {<<from, to>>}, from, to)
  /\ outDegree' = [outDegree EXCEPT ![from] = @ + 1]
  /\ result' = "cycle"
  /\ UNCHANGED <<vertices, edges, inDegree, panicked, orphaned>>

\* The walk meets `from`: the edge and the two increments are taken back.
AddEdgeCycle(from, to) ==
  /\ BothExist(from, to) /\ from # to /\ <<from, to>> \notin edges
  /\ ClosesCycle(edges \cup {<<from, to>>}, from, to)
  /\ Refuse("cycle")

\* The walk pops a key without a vertex, with the new edge already in place.
AddEdgePanic(from, to) ==
  LET E == edges \cup {<<from, to>>} IN
  /\ BothExist(from, to) /\ from # to /\ <<from, to>> \notin edges
  /\ WalkMayPanic(E, to, from)
  /\ panicked' = TRUE
  /\ edges' = E
  /\ outDegree' = [outDegree EXCEPT ![from] = @ + 1]
  /\ inDegree' = [inDegree EXCEPT ![to] = @ + 1]
  /\ UNCHANGED <<vertices, result, orphaned>>

DeleteEdge(from, to) ==
  \/ <<from, to>> \notin edges /\ Refuse("missing")
  \/ to \notin vertices /\ Refuse("missing")
  \/ /\ <<from, to>> \in edges /\ to \in vertices
     /\ edges' = edges \ {<<from, to>>}
     /\ outDegree' = [outDegree EXCEPT ![from] = @ - 1]
     /\ inDegree' = [inDegree EXCEPT ![to] = @ - 1]
     /\ result' = "ok"
     /\ UNCHANGED <<vertices, panicked, orphaned>>

-----------------------------------------------------------------------------
\* DeleteEdge(id, k) for every k of S, with S inside the vertices.
DropOutEdges(id, S) ==
  /\ edges' = Without(edges, id, S)
  /\ outDegree' = [outDegree EXCEPT ![id] = @ - Cardinality(S)]
  /\ inDegree' = [k \in Key |-> IF k \in S THEN inDegree[k] - 1 ELSE inDegree[k]]

\* Only the outgoing edges go; an edge another vertex has to id stays behind.
DeleteVertex(id) ==
  \/ id \notin vertices /\ Refuse("missing")
  \/ /\ id \in vertices /\ OutOf(edges, id) \subseteq vertices
     /\ DropOutEdges(id, OutOf(edges, id))
     /\ vertices' = vertices \ {id}
     /\ orphaned' = IF Into(edges, id) # {} THEN orphaned \cup {id} ELSE orphaned
     /\ result' = "ok"
     /\ UNCHANGED panicked

\* An edge of id leads to a deleted vertex: DeleteEdge fails on it, after the
\* edges the iteration met before it are gone, and id stays.
DeleteVertexFails(id) ==
  /\ id \in vertices /\ ~ OutOf(edges, id) \subseteq vertices
  /\ \E S \in SUBSET (OutOf(edges, id) \cap vertices) : DropOutEdges(id, S)
  /\ result' = "partial"
  /\ UNCHANGED <<vertices, panicked, orphaned>>

Next ==
  /\ ~ panicked
  /\ \/ \E id \in Key : AddVertex(id) \/ DeleteVertex(id) \/ DeleteVertexFails(id)
     \/ \E from, to \in Key :
          \/ AddEdgeRefused(from, to) \/ AddEdgeAgain(from, to)
          \/ AddEdgeNew(from, to) \/ AddEdgeCycle(from, to)
          \/ AddEdgePanic(from, to) \/ DeleteEdge(from, to)

Spec == Init /\ [][Next]_vars

-----------------------------------------------------------------------------
\* What the callers read.
Roots == {k \in vertices : inDegree[k] = 0}

HasVertex(k) == k \in vertices

\* Type invariant.
TypeOK ==
  /\ vertices \subseteq Key /\ orphaned \subseteq Key
  /\ edges \subseteq vertices \X Key
  /\ inDegree \in [Key -> Int] /\ outDegree \in [Key -> Int]
  /\ result \in Results /\ panicked \in BOOLEAN

\* The graph never holds a cycle, whatever calls were made: AddEdge undoes the
\* edge that would close one, and a vertex that is deleted and added again
\* while an old edge still leads to it cannot be used to smuggle one in.
Acyclic == ~ panicked => IsAcyclic(Key, edges)

\* OutDegree counts the outgoing edges, through every rollback and deletion.
OutDegreeCounts ==
  \A v \in vertices : outDegree[v] = Cardinality(OutOf(edges, v))

\* InDegree counts the incoming edges of every vertex that was never deleted
\* under an edge; of one that was, it counts at most the edges there are.
InDegreeCounts ==
  \A v \in vertices :
     /\ v \notin orphaned => inDegree[v] = Cardinality(Into(edges, v))
     /\ inDegree[v] <= Cardinality(Into(edges, v))

\* Both counters agree with the edges after every call, the refused one that
\* has to take its counting back included.
DegreesCount == OutDegreeCounts /\ InDegreeCounts

\* An edge can lead nowhere only because its target was deleted under it, and
\* only such an edge makes a walk of AddEdge panic.
DanglingOnlyOrphans ==
  /\ \A e \in edges : e[2] \in vertices \cup orphaned
  /\ panicked => orphaned # {}

\* What the callers read of the graph, its degrees and its edges, stays exact
\* through refused edges, rollbacks, deletions and vertices that come back.
BookkeepingExact == DegreesCount /\ DanglingOnlyOrphans

\* No edge leads to a vertex that was deleted.
Intact == \A e \in edges : e[2] \in vertices

\* The walk that decides AddEdge finds a vertex exactly when it is reachable,
\* and the path the CycleError shows is a real path without repetition.
FindPathIsReachability ==
  Intact => \A a, b \in vertices : a # b =>
    /\ FindPath(vertices, edges, a, b) <=> Reaches(Key, edges, a, b)
    /\ Reaches(Key, edges, a, b) =>
         IsSimplePath(edges, FindSortedPath(vertices, edges, a, b), a, b)

\* TopologicalSort lists every vertex once, each after all its children: what
\* ProcessTopology and the reversed constructor graph rely on.  It never
\* reports a cycle on a graph AddEdge built.
SortIsChildrenFirst ==
  Intact => /\ ~ HasCycle(vertices, edges)
            /\ IsChildrenFirst(vertices, edges, TopologicalSort(vertices, edges))

\* Reverse never fails half way: each reversed edge is accepted, and reversing
\* twice gives the graph back.
ReverseIsInvolution ==
  Intact => /\ ReverseEdges(vertices, edges) = {<<e[2], e[1]>> : e \in edges}
            /\ ReverseEdges(vertices, ReverseEdges(vertices, edges)) = edges

\* For any edge AddEdge would refuse, the edge set with it has a cycle that
\* hasCycle finds, and the cycle it returns is closed and made of edges.
CycleCheckFindsClosingEdge ==
  Intact => \A a, b \in vertices : Reaches(Key, edges, b, a) =>
    LET E == edges \cup {<<a, b>>}
        c == FoundCycle(vertices, E)
    IN  /\ HasCycle(vertices, E)
        /\ Len(c) > 1 /\ c[1] = c[Len(c)]
        /\ \A i \in 1..(Len(c) - 1) : <<c[i], c[i + 1]>> \in E

\* The four walks of dag.go and of its sort answer what the edges say, on every
\* graph that calls of AddEdge and DeleteEdge can build.
WalksAnswerEdges ==
  FindPathIsReachability /\ SortIsChildrenFirst /\ ReverseIsInvolution /\ CycleCheckFindsClosingEdge
=============================================================================
