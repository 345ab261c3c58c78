----------------------------- MODULE Dag_proofs -----------------------------
(***************************************************************************)
(* Proofs about Dag, for any finite set of keys.                           *)
(***************************************************************************)
EXTENDS Dag, FiniteSetTheorems, WellFoundedInduction, SequenceTheorems, TLAPS

-----------------------------------------------------------------------------
\* An edge into a node from which its source cannot be reached closes no cycle:
\* this is what AddEdge decides with findPath. A set within what is closed under
\* the edges misses the new edge's source; else take a node outside of that.
LEMMA EdgeKeepsAcyclic ==
  ASSUME NEW N, NEW E, NEW a \in N, NEW b \in N,
         IsAcyclic(N, E), ~ Reaches(N, E \cup {<<a, b>>}, b, a)
  PROVE  IsAcyclic(N, E \cup {<<a, b>>})
<1> DEFINE F == E \cup {<<a, b>>}
<1>1. PICK S \in SUBSET N : b \in S /\ IsClosed(F, S) /\ a \notin S
  BY DEF Reaches
<1>2. ASSUME NEW T \in SUBSET N, T # {}
      PROVE  \E v \in T : \A w \in T : <<w, v>> \notin F
  <2>1. CASE T \subseteq S
    <3>1. PICK v \in T : \A w \in T : <<w, v>> \notin E
      BY <1>2 DEF IsAcyclic
    <3> QED BY <1>1, <2>1, <3>1
  <2>2. CASE T \ S # {}
    <3>1. PICK v \in T \ S : \A w \in T \ S : <<w, v>> \notin E
      BY <2>2 DEF IsAcyclic
    <3>2. ASSUME NEW w \in S PROVE <<w, v>> \notin F
      BY <1>1, <3>1 DEF IsClosed
    <3> QED BY <1>1, <3>1, <3>2
  <2> QED BY <2>1, <2>2
<1> QED BY <1>2 DEF IsAcyclic

\* Taking edges away closes no cycle.
LEMMA SubgraphAcyclic ==
  ASSUME NEW N, NEW E, NEW F, F \subseteq E, IsAcyclic(N, E)
  PROVE  IsAcyclic(N, F)
BY DEF IsAcyclic


-----------------------------------------------------------------------------
\* The type invariant.
THEOREM TypeCorrect == Spec => []TypeOK
<1>1. ASSUME Init
      PROVE  TypeOK
  <2>1. panicked \in BOOLEAN /\ result \in Results
    BY <1>1 DEF Init, Results
  <2>2. edges \subseteq vertices \X Key
    BY <1>1 DEF Init
  <2> QED BY <1>1, <2>1, <2>2 DEF Init, TypeOK
<1>2. TypeOK /\ [Next]_vars => TypeOK'
  <2> SUFFICES ASSUME TypeOK, [Next]_vars
               PROVE  TypeOK'
    OBVIOUS
  <2> USE DEF TypeOK
  <2>0. ASSUME NEW error \in Results, Refuse(error)
        PROVE  TypeOK'
    BY <2>0 DEF Refuse, graph
  <2>1. ASSUME NEW id \in Key, NEW S \in SUBSET (OutOf(edges, id) \cap vertices),
               DropOutEdges(id, S)
        PROVE  /\ edges' \subseteq edges /\ inDegree' \in [Key -> Int]
               /\ outDegree' \in [Key -> Int] /\ \A k \in S : <<id, k>> \notin edges'
    <3>1. S \subseteq Key
      OBVIOUS
    <3>2. IsFiniteSet(S)
      BY <3>1, KeyAssumption, FS_Subset
    <3>3. Cardinality(S) \in Int
      BY <3>2, FS_CardinalityType
    <3> QED BY <2>1, <3>3 DEF DropOutEdges, Without
  <2>2. ASSUME NEW id \in Key, AddVertex(id)
        PROVE  TypeOK'
    BY <2>0, <2>2 DEF AddVertex, Results
  <2>3. ASSUME NEW id \in Key, DeleteVertex(id)
        PROVE  TypeOK'
    <3>1. CASE id \notin vertices /\ Refuse("missing")
      BY <2>0, <3>1 DEF Results
    <3>2. CASE id \in vertices
      <4>1. OutOf(edges, id) \in SUBSET (OutOf(edges, id) \cap vertices)
        BY <2>3, <3>2 DEF DeleteVertex
      <4>2. DropOutEdges(id, OutOf(edges, id))
        BY <2>3, <3>2 DEF DeleteVertex
      <4>3. edges' \subseteq edges /\ inDegree' \in [Key -> Int] /\ outDegree' \in [Key -> Int]
        BY <2>1, <4>1, <4>2
      <4>4. \A k \in Key : <<id, k>> \notin edges'
        BY <4>2 DEF DropOutEdges, Without, OutOf
      <4> QED BY <4>3, <4>4, <2>3, <3>2 DEF DeleteVertex, Results
    <3> QED BY <2>3, <3>1, <3>2 DEF DeleteVertex
  <2>4. ASSUME NEW id \in Key, DeleteVertexFails(id)
        PROVE  TypeOK'
    <3>1. PICK S \in SUBSET (OutOf(edges, id) \cap vertices) : DropOutEdges(id, S)
      BY <2>4 DEF DeleteVertexFails
    <3> QED BY <3>1, <2>1, <2>4 DEF DeleteVertexFails, Results
  <2>5. ASSUME NEW from \in Key, NEW to \in Key,
               \/ AddEdgeRefused(from, to) \/ AddEdgeCycle(from, to)
        PROVE  TypeOK'
    BY <2>0, <2>5 DEF AddEdgeRefused, AddEdgeCycle, Results
  <2>6. ASSUME NEW from \in Key, NEW to \in Key,
               \/ AddEdgeAgain(from, to) \/ AddEdgeNew(from, to)
               \/ AddEdgePanic(from, to)
        PROVE  TypeOK'
    <3>1. CASE AddEdgeAgain(from, to)
      BY <3>1 DEF AddEdgeAgain, Results, graph, BothExist
    <3>2. CASE AddEdgeNew(from, to)
      BY <3>2 DEF AddEdgeNew, Results, BothExist
    <3>3. CASE AddEdgePanic(from, to)
      <4>1. panicked' \in BOOLEAN
        BY <3>3 DEF AddEdgePanic, BothExist
      <4> QED BY <3>3, <4>1 DEF AddEdgePanic, BothExist
    <3> QED BY <2>6, <3>1, <3>2, <3>3
  <2>7. ASSUME NEW from \in Key, NEW to \in Key, DeleteEdge(from, to)
        PROVE  TypeOK'
    BY <2>0, <2>7 DEF DeleteEdge, Results
  <2>8. CASE UNCHANGED vars
    BY <2>8 DEF vars, graph
  <2> QED BY <2>2, <2>3, <2>4, <2>5, <2>6, <2>7, <2>8 DEF Next
<1> QED BY <1>1, <1>2, PTL DEF Spec

\* No sequence of calls, deletions included, puts a cycle into the graph.
THEOREM GraphStaysAcyclic == Spec => []Acyclic
<1> DEFINE Inv == TypeOK /\ Acyclic
<1>1. Init => Acyclic
  BY DEF Init, Acyclic, IsAcyclic
<1>2. TypeOK /\ Acyclic /\ [Next]_vars => Acyclic'
  <2> SUFFICES ASSUME TypeOK, Acyclic, [Next]_vars, ~ panicked'
               PROVE  IsAcyclic(Key, edges')
    BY DEF Acyclic
  <2>1. CASE UNCHANGED edges
    BY <2>1 DEF Acyclic, Next, vars, graph
  <2>2. CASE edges' \subseteq edges /\ ~ panicked
    BY <2>2, SubgraphAcyclic DEF Acyclic
  <2>3. ASSUME NEW from \in Key, NEW to \in Key, AddEdgeNew(from, to), ~ panicked
        PROVE  IsAcyclic(Key, edges')
    BY <2>3, EdgeKeepsAcyclic DEF AddEdgeNew, Acyclic, BothExist, ClosesCycle
  <2> QED
    BY <2>1, <2>2, <2>3
       DEF Next, vars, graph, Refuse, AddVertex, DeleteVertex, DeleteVertexFails,
           DropOutEdges, Without, AddEdgeRefused, AddEdgeAgain, AddEdgeCycle, AddEdgePanic,
           DeleteEdge
<1> QED BY <1>1, <1>2, TypeCorrect, PTL DEF Spec

-----------------------------------------------------------------------------
\* Without a vertex that was deleted under an edge, every edge leads to a
\* vertex, so the walk AddEdge makes stays among the vertices.
LEMMA WalkStaysInside ==
  ASSUME NEW E, NEW from \in Key, NEW to, from \in vertices, vertices \subseteq Key,
         \A e \in E : e[2] \in vertices
  PROVE  ~ WalkMayPanic(E, from, to)
<1>1. IsClosed(OpenEdges(E, to), vertices)
  BY DEF IsClosed, OpenEdges
<1>2. ASSUME NEW k \in Key \ vertices, Reaches(Key, OpenEdges(E, to), from, k)
      PROVE  FALSE
  BY <1>1, <1>2 DEF Reaches
<1> QED BY <1>2 DEF WalkMayPanic

\* Edges dangle, and AddEdge panics, only after a vertex was deleted while
\* an edge still led to it.
THEOREM OnlyOrphansDangle == Spec => []DanglingOnlyOrphans
<1>1. Init => DanglingOnlyOrphans
  BY DEF Init, DanglingOnlyOrphans
<1>2. TypeOK /\ DanglingOnlyOrphans /\ [Next]_vars => DanglingOnlyOrphans'
  <2> SUFFICES ASSUME TypeOK, DanglingOnlyOrphans, [Next]_vars
               PROVE  DanglingOnlyOrphans'
    OBVIOUS
  <2> USE DEF DanglingOnlyOrphans
  <2>1. CASE UNCHANGED <<graph, panicked, orphaned>>
    BY <2>1 DEF graph
  <2>2. CASE edges' \subseteq edges /\ UNCHANGED <<vertices, panicked, orphaned>>
    BY <2>2
  <2>3. ASSUME NEW id \in Key, AddVertex(id)
        PROVE  DanglingOnlyOrphans'
    BY <2>1, <2>3 DEF AddVertex, Refuse
  <2>4. ASSUME NEW id \in Key, DeleteVertex(id)
        PROVE  DanglingOnlyOrphans'
    <3>1. CASE id \notin vertices
      BY <2>1, <2>4, <3>1 DEF DeleteVertex, Refuse
    <3>2. CASE id \in vertices
      <4>1. /\ edges' = Without(edges, id, OutOf(edges, id))
            /\ vertices' = vertices \ {id} /\ panicked' = panicked
            /\ orphaned' = IF Into(edges, id) # {} THEN orphaned \cup {id} ELSE orphaned
        BY <2>4, <3>2 DEF DeleteVertex, DropOutEdges, Without
      <4>2. ASSUME NEW e \in edges'
            PROVE  e[2] \in vertices' \cup orphaned'
        <5>1. e[2] = id => e[1] \in Into(edges, id)
          BY <4>1, <4>2 DEF Into, Without
        <5> QED BY <4>1, <4>2, <5>1 DEF Without
      <4> QED BY <4>1, <4>2
    <3> QED BY <3>1, <3>2
  <2>5. ASSUME NEW from \in Key, NEW to \in Key, AddEdgeNew(from, to)
        PROVE  DanglingOnlyOrphans'
    BY <2>5 DEF AddEdgeNew, BothExist
  <2>6. ASSUME NEW from \in Key, NEW to \in Key, AddEdgePanic(from, to)
        PROVE  DanglingOnlyOrphans'
    <3> DEFINE E == edges \cup {<<from, to>>}
    <3>1. /\ {from, to} \subseteq vertices /\ WalkMayPanic(E, to, from)
          /\ edges' = E /\ vertices' = vertices /\ orphaned' = orphaned
      BY <2>6 DEF AddEdgePanic, BothExist
    <3>2. CASE orphaned = {}
      <4>1. \A e \in E : e[2] \in vertices
        BY <3>1, <3>2
      <4> QED BY <3>1, <4>1, WalkStaysInside DEF TypeOK
    <3> QED BY <3>1, <3>2
  <2> QED
    BY <2>1, <2>2, <2>3, <2>4, <2>5, <2>6
       DEF Next, vars, graph, Refuse, DeleteVertexFails, DropOutEdges, Without,
           AddEdgeRefused, AddEdgeAgain, AddEdgeCycle, DeleteEdge
<1> QED BY <1>1, <1>2, TypeCorrect, PTL DEF Spec

-----------------------------------------------------------------------------
\* Finite sets of neighbors, and what adding or removing edges does to them.
LEMMA NeighborsFinite ==
  ASSUME NEW E, E \subseteq Key \X Key, NEW v
  PROVE  /\ IsFiniteSet(OutOf(E, v)) /\ Cardinality(OutOf(E, v)) \in Nat
         /\ IsFiniteSet(Into(E, v)) /\ Cardinality(Into(E, v)) \in Nat
<1>1. OutOf(E, v) \in SUBSET Key /\ Into(E, v) \in SUBSET Key
  BY DEF OutOf, Into
<1> QED BY <1>1, KeyAssumption, FS_Subset, FS_CardinalityType

\* A new edge counts once at its source and once at its target.
LEMMA AddedEdgeDegrees ==
  ASSUME NEW E, E \subseteq Key \X Key, NEW a \in Key, NEW b \in Key,
         <<a, b>> \notin E, NEW v \in Key
  PROVE  /\ Cardinality(OutOf(E \cup {<<a, b>>}, v)) =
              IF v = a THEN Cardinality(OutOf(E, v)) + 1 ELSE Cardinality(OutOf(E, v))
         /\ Cardinality(Into(E \cup {<<a, b>>}, v)) =
              IF v = b THEN Cardinality(Into(E, v)) + 1 ELSE Cardinality(Into(E, v))
<1> DEFINE F == E \cup {<<a, b>>}
<1>1. /\ OutOf(F, v) = IF v = a THEN OutOf(E, v) \cup {b} ELSE OutOf(E, v)
      /\ Into(F, v) = IF v = b THEN Into(E, v) \cup {a} ELSE Into(E, v)
  BY DEF OutOf, Into
<1>2. b \notin OutOf(E, a) /\ a \notin Into(E, b)
  BY DEF OutOf, Into
<1>3. IsFiniteSet(OutOf(E, v)) /\ IsFiniteSet(Into(E, v))
  BY NeighborsFinite
<1> QED BY <1>1, <1>2, <1>3, FS_AddElement

\* Removing the edges of id to a set S of its neighbors.
LEMMA DroppedEdgesDegrees ==
  ASSUME NEW E, E \subseteq Key \X Key, NEW id \in Key,
         NEW S \in SUBSET OutOf(E, id), NEW v \in Key
  PROVE  /\ Cardinality(OutOf(Without(E, id, S), v)) = IF v = id
              THEN Cardinality(OutOf(E, v)) - Cardinality(S)
              ELSE Cardinality(OutOf(E, v))
         /\ Cardinality(Into(Without(E, id, S), v)) = IF v \in S
              THEN Cardinality(Into(E, v)) - 1 ELSE Cardinality(Into(E, v))
<1> DEFINE F == Without(E, id, S)
<1>1. /\ OutOf(F, v) = IF v = id THEN OutOf(E, v) \ S ELSE OutOf(E, v)
      /\ Into(F, v) = IF v \in S THEN Into(E, v) \ {id} ELSE Into(E, v)
  BY DEF OutOf, Into, Without
<1>2. v \in S => id \in Into(E, v)
  BY DEF OutOf, Into
<1>3. /\ IsFiniteSet(OutOf(E, id)) /\ Cardinality(OutOf(E, id)) \in Nat
      /\ IsFiniteSet(Into(E, v)) /\ Cardinality(Into(E, v)) \in Nat
  BY NeighborsFinite
<1>4. IsFiniteSet(S) /\ Cardinality(S) \in Nat
  BY <1>3, FS_Subset, FS_CardinalityType
<1>5. Cardinality(OutOf(E, id) \ S) = Cardinality(OutOf(E, id)) - Cardinality(S)
  <2>1. OutOf(E, id) = (OutOf(E, id) \ S) \cup S /\ (OutOf(E, id) \ S) \cap S = {}
    OBVIOUS
  <2>2. IsFiniteSet(OutOf(E, id) \ S) /\ Cardinality(OutOf(E, id) \ S) \in Nat
    BY <1>3, FS_Subset, FS_CardinalityType
  <2>3. Cardinality((OutOf(E, id) \ S) \cup S) =
          Cardinality(OutOf(E, id) \ S) + Cardinality(S) - Cardinality((OutOf(E, id) \ S) \cap S)
    BY <2>2, <1>4, FS_Union
  <2>4. Cardinality((OutOf(E, id) \ S) \cap S) = 0
    BY <2>1, FS_EmptySet
  <2>5. Cardinality((OutOf(E, id) \ S) \cup S) = Cardinality(OutOf(E, id))
    BY <2>1
  <2> QED BY <2>2, <2>3, <2>4, <2>5, <1>4, <1>3
<1>6. Cardinality(Into(E, v) \ {id}) =
        IF id \in Into(E, v) THEN Cardinality(Into(E, v)) - 1 ELSE Cardinality(Into(E, v))
  BY <1>3, FS_RemoveElement
<1> QED BY <1>1, <1>2, <1>5, <1>6

\* The degree counters of the vertices agree with the edges through every
\* rollback and deletion; InDegree can fall short only of a vertex that was
\* deleted under an edge.
THEOREM DegreesAgree == Spec => []DegreesCount
<1> DEFINE Inv == TypeOK /\ DanglingOnlyOrphans /\ DegreesCount
<1>1. Init => DegreesCount
  BY DEF Init, DegreesCount, OutDegreeCounts, InDegreeCounts
<1>2. Inv /\ [Next]_vars => DegreesCount'
  <2> SUFFICES ASSUME Inv, [Next]_vars
               PROVE  DegreesCount'
    OBVIOUS
  <2> USE DEF DegreesCount, OutDegreeCounts, InDegreeCounts
  <2>0. edges \subseteq Key \X Key /\ vertices \subseteq Key
    BY DEF TypeOK
  <2>1. CASE UNCHANGED graph /\ UNCHANGED orphaned
    BY <2>1 DEF graph
  <2>2. ASSUME NEW id \in Key, AddVertex(id), id \notin vertices
        PROVE  DegreesCount'
    <3>1. /\ vertices' = vertices \cup {id} /\ edges' = edges /\ orphaned' = orphaned
          /\ inDegree' = [inDegree EXCEPT ![id] = 0]
          /\ outDegree' = [outDegree EXCEPT ![id] = 0]
      BY <2>2 DEF AddVertex, Refuse
    <3>2. OutOf(edges, id) = {}
      BY <2>2 DEF TypeOK, OutOf
    <3>3. id \notin orphaned => Into(edges, id) = {}
      BY <2>2 DEF DanglingOnlyOrphans, Into
    <3>4. Cardinality(Into(edges, id)) \in Nat /\ Cardinality({}) = 0
      BY <2>0, NeighborsFinite, FS_EmptySet
    <3>5. ASSUME NEW v \in vertices'
          PROVE  /\ outDegree'[v] = Cardinality(OutOf(edges', v))
                 /\ v \notin orphaned => inDegree'[v] = Cardinality(Into(edges', v))
                 /\ inDegree'[v] <= Cardinality(Into(edges', v))
      <4>1. CASE v = id
        <5>1. inDegree'[v] = 0 /\ outDegree'[v] = 0
          BY <3>1, <4>1 DEF TypeOK
        <5>2. edges' = edges
          BY <3>1
        <5> QED BY <5>1, <5>2, <4>1, <3>2, <3>3, <3>4
      <4>2. CASE v # id
        <5>1. v \in vertices /\ inDegree'[v] = inDegree[v] /\ outDegree'[v] = outDegree[v]
          BY <2>0, <3>1, <4>2 DEF TypeOK
        <5> QED BY <5>1, <3>1
      <4> QED BY <4>1, <4>2
    <3> QED BY <3>1, <3>5
  <2>3. ASSUME NEW from \in Key, NEW to \in Key,
               AddEdgeNew(from, to) \/ AddEdgePanic(from, to)
        PROVE  DegreesCount'
    <3>1. /\ vertices' = vertices /\ orphaned' = orphaned
          /\ edges' = edges \cup {<<from, to>>} /\ <<from, to>> \notin edges
          /\ outDegree' = [outDegree EXCEPT ![from] = @ + 1]
          /\ inDegree' = [inDegree EXCEPT ![to] = @ + 1]
      BY <2>3 DEF AddEdgeNew, AddEdgePanic, BothExist
    <3>2. ASSUME NEW v \in vertices
          PROVE  /\ outDegree'[v] = Cardinality(OutOf(edges', v))
                 /\ v \notin orphaned => inDegree'[v] = Cardinality(Into(edges', v))
                 /\ inDegree'[v] <= Cardinality(Into(edges', v))
      <4>1. Cardinality(OutOf(edges, v)) \in Nat /\ Cardinality(Into(edges, v)) \in Nat
        BY <2>0, NeighborsFinite
      <4>2. /\ Cardinality(OutOf(edges', v)) = IF v = from
                 THEN Cardinality(OutOf(edges, v)) + 1 ELSE Cardinality(OutOf(edges, v))
            /\ Cardinality(Into(edges', v)) = IF v = to
                 THEN Cardinality(Into(edges, v)) + 1 ELSE Cardinality(Into(edges, v))
        <5>1. v \in Key /\ edges \subseteq Key \X Key
          BY <2>0
        <5>2. <<from, to>> \notin edges
          BY <3>1
        <5>3. /\ Cardinality(OutOf(edges \cup {<<from, to>>}, v)) = IF v = from
                   THEN Cardinality(OutOf(edges, v)) + 1 ELSE Cardinality(OutOf(edges, v))
              /\ Cardinality(Into(edges \cup {<<from, to>>}, v)) = IF v = to
                   THEN Cardinality(Into(edges, v)) + 1 ELSE Cardinality(Into(edges, v))
          BY <5>1, <5>2, AddedEdgeDegrees
        <5> QED BY <3>1, <5>3
      <4> QED BY <2>0, <3>1, <4>1, <4>2 DEF TypeOK
    <3> QED BY <3>1, <3>2
  <2>4. ASSUME NEW id \in vertices, NEW S \in SUBSET OutOf(edges, id), S \subseteq vertices,
               DropOutEdges(id, S), vertices' \subseteq vertices, orphaned \subseteq orphaned'
        PROVE  DegreesCount'
    <3>1. ASSUME NEW v \in vertices'
          PROVE  /\ outDegree'[v] = Cardinality(OutOf(edges', v))
                 /\ v \notin orphaned' => inDegree'[v] = Cardinality(Into(edges', v))
                 /\ inDegree'[v] <= Cardinality(Into(edges', v))
      <4>1. Cardinality(OutOf(edges, v)) \in Nat /\ Cardinality(Into(edges, v)) \in Nat
        BY <2>0, NeighborsFinite
      <4>2. /\ Cardinality(OutOf(edges', v)) = IF v = id
                 THEN Cardinality(OutOf(edges, v)) - Cardinality(S)
                 ELSE Cardinality(OutOf(edges, v))
            /\ Cardinality(Into(edges', v)) = IF v \in S
                 THEN Cardinality(Into(edges, v)) - 1 ELSE Cardinality(Into(edges, v))
        <5>1. v \in Key /\ id \in Key /\ edges \subseteq Key \X Key
          BY <2>0, <2>4
        <5>2. edges' = Without(edges, id, S)
          BY <2>4 DEF DropOutEdges
        <5>3. /\ Cardinality(OutOf(Without(edges, id, S), v)) = IF v = id
                   THEN Cardinality(OutOf(edges, v)) - Cardinality(S)
                   ELSE Cardinality(OutOf(edges, v))
              /\ Cardinality(Into(Without(edges, id, S), v)) = IF v \in S
                   THEN Cardinality(Into(edges, v)) - 1 ELSE Cardinality(Into(edges, v))
          BY <5>1, DroppedEdgesDegrees
        <5> QED BY <5>2, <5>3
      <4>3. /\ outDegree'[v] = IF v = id THEN outDegree[v] - Cardinality(S) ELSE outDegree[v]
            /\ inDegree'[v] = IF v \in S THEN inDegree[v] - 1 ELSE inDegree[v]
        BY <2>0, <2>4 DEF DropOutEdges, TypeOK
      <4>4. /\ outDegree[v] = Cardinality(OutOf(edges, v))
            /\ v \notin orphaned => inDegree[v] = Cardinality(Into(edges, v))
            /\ inDegree[v] <= Cardinality(Into(edges, v)) /\ inDegree[v] \in Int
        BY <2>0, <2>4 DEF TypeOK
      <4> QED BY <2>4, <4>1, <4>2, <4>3, <4>4
    <3> QED BY <3>1
  <2>5. ASSUME NEW id \in Key, DeleteVertex(id), id \in vertices
        PROVE  DegreesCount'
    <3>1. /\ OutOf(edges, id) \subseteq vertices /\ DropOutEdges(id, OutOf(edges, id))
          /\ vertices' \subseteq vertices /\ orphaned \subseteq orphaned'
      BY <2>5 DEF DeleteVertex
    <3> QED BY <2>4, <2>5, <3>1
  <2>6. ASSUME NEW id \in Key, DeleteVertexFails(id)
        PROVE  DegreesCount'
    <3>1. PICK S \in SUBSET (OutOf(edges, id) \cap vertices) : DropOutEdges(id, S)
      BY <2>6 DEF DeleteVertexFails
    <3>2. id \in vertices /\ vertices' = vertices /\ orphaned' = orphaned
      BY <2>6 DEF DeleteVertexFails
    <3> QED BY <2>4, <3>1, <3>2
  <2>7. ASSUME NEW from \in Key, NEW to \in Key, DeleteEdge(from, to),
               <<from, to>> \in edges, to \in vertices
        PROVE  DegreesCount'
    <3>1. /\ vertices' = vertices /\ orphaned' = orphaned
          /\ edges' = Without(edges, from, {to})
          /\ outDegree' = [outDegree EXCEPT ![from] = @ - 1]
          /\ inDegree' = [inDegree EXCEPT ![to] = @ - 1]
      BY <2>7 DEF DeleteEdge, Refuse, Without
    <3>2. from \in vertices /\ {to} \in SUBSET OutOf(edges, from) /\ Cardinality({to}) = 1
      <4>1. from \in vertices /\ to \in OutOf(edges, from)
        BY <2>7 DEF TypeOK, OutOf
      <4> QED BY <4>1, FS_Singleton
    <3>3. DropOutEdges(from, {to})
      BY <2>0, <3>1, <3>2 DEF DropOutEdges, TypeOK
    <3> QED BY <2>4, <2>7, <3>1, <3>2, <3>3
  <2> QED
    BY <2>1, <2>2, <2>3, <2>5, <2>6, <2>7
       DEF Next, vars, Refuse, AddVertex, DeleteVertex, DeleteEdge,
           AddEdgeRefused, AddEdgeAgain, AddEdgeCycle
<1>3. Spec => []DegreesCount
  BY <1>1, <1>2, TypeCorrect, OnlyOrphansDangle, PTL DEF Spec
<1> QED BY <1>3

\* Degrees and edges, all the callers read, are exact in every reachable state.
THEOREM BookkeepingHolds == Spec => []BookkeepingExact
<1>1. DegreesCount /\ DanglingOnlyOrphans => BookkeepingExact
  BY DEF BookkeepingExact
<1> QED BY <1>1, DegreesAgree, OnlyOrphansDangle, PTL

-----------------------------------------------------------------------------
(***************************************************************************)
(* The walks.  Each is a sequence of states; what holds of every one of    *)
(* them follows from the first and the step, and that the last is final    *)
(* from a number that every step before adds to and that is bounded.       *)
(***************************************************************************)

\* What holds of 0 and of the successor of each number it holds of, holds of all.
LEMMA NatSets ==
  ASSUME NEW T, 0 \in T, \A n \in Nat : n \in T => n + 1 \in T
  PROVE  Nat \subseteq T
<1> DEFINE R == OpToRel(<, Nat)
           S == Nat \ T
<1> SUFFICES ASSUME S # {} PROVE FALSE
  OBVIOUS
<1>1. IsWellFoundedOn(R, Nat)
  BY NatLessThanWellFounded
<1>2. \A x, y \in Nat : y < x => <<y, x>> \in R
  BY DEF OpToRel
<1> HIDE DEF R
<1>3. PICK x \in S : \A y \in S : ~ (<<y, x>> \in R)
  BY <1>1, WFMin
<1>4. x \in Nat /\ x # 0 /\ x - 1 \in Nat /\ x - 1 < x
  BY <1>3
<1>5. x - 1 \in T
  BY <1>2, <1>3, <1>4
<1>6. (x - 1) + 1 \in T
  BY <1>4, <1>5
<1> QED BY <1>3, <1>4, <1>6

\* A step within a set of states can be taken any number of times.
LEMMA StepsExist ==
  ASSUME NEW S, NEW a \in S, NEW g \in [S -> S]
  PROVE  \E f \in [Nat -> S] : f[0] = a /\ \A n \in Nat : f[n + 1] = g[f[n]]
<1> DEFINE Runs(n) == {h \in [0..n -> S] : h[0] = a /\ \A k \in 0..n : k < n => h[k + 1] = g[h[k]]}
           T == {n \in Nat : Runs(n) # {}}
<1>1. Nat \subseteq T
  <2>1. 0 \in T
    <3>1. [i \in 0..0 |-> a] \in Runs(0)
      OBVIOUS
    <3> QED BY <3>1
  <2>2. ASSUME NEW n \in Nat, n \in T PROVE n + 1 \in T
    <3>1. PICK h \in [0..n -> S] : h[0] = a /\ \A k \in 0..n : k < n => h[k + 1] = g[h[k]]
      BY <2>2
    <3> DEFINE e == [i \in 0..(n + 1) |-> IF i = n + 1 THEN g[h[n]] ELSE h[i]]
    <3>2. e \in [0..(n + 1) -> S]
      BY <3>1
    <3>3. e[0] = a
      BY <3>1
    <3>4. ASSUME NEW k \in 0..(n + 1), k < n + 1 PROVE e[k + 1] = g[e[k]]
      <4>1. k \in 0..n /\ e[k] = h[k]
        BY <3>4
      <4>2. CASE k = n
        BY <4>1, <4>2
      <4>3. CASE k < n
        <5>1. k + 1 \in 0..(n + 1) /\ k + 1 # n + 1
          BY <4>1, <4>3
        <5> QED BY <3>1, <4>1, <4>3, <5>1
      <4> QED BY <4>1, <4>2, <4>3
    <3> HIDE DEF e
    <3>5. e \in Runs(n + 1)
      BY <3>2, <3>3, <3>4
    <3> QED BY <3>5
  <2> HIDE DEF T
  <2> QED BY <2>1, <2>2, NatSets
<1>2. ASSUME NEW n \in Nat, NEW h \in Runs(n), NEW e \in Runs(n + 1) PROVE e[n] = h[n]
  <2> DEFINE U == {k \in Nat : k <= n => e[k] = h[k]}
  <2>1. 0 \in U
    BY <1>2
  <2>2. ASSUME NEW k \in Nat, k \in U PROVE k + 1 \in U
    <3> SUFFICES ASSUME k + 1 <= n PROVE e[k + 1] = h[k + 1]
      OBVIOUS
    <3>1. k \in 0..n /\ k < n /\ k \in 0..(n + 1) /\ k < n + 1 /\ e[k] = h[k]
      BY <2>2
    <3> QED BY <3>1, <1>2
  <2> HIDE DEF U
  <2>3. n \in U
    BY <2>1, <2>2, NatSets
  <2> QED BY <2>3 DEF U
<1> DEFINE H == [n \in Nat |-> CHOOSE h : h \in Runs(n)]
           f == [n \in Nat |-> H[n][n]]
<1>3. ASSUME NEW n \in Nat PROVE H[n] \in Runs(n)
  <2>1. Runs(n) # {}
    BY <1>1
  <2> HIDE DEF Runs
  <2> QED BY <2>1
<1> HIDE DEF H, Runs
<1>4. ASSUME NEW n \in Nat PROVE H[n][n] \in S
  <2>1. H[n] \in Runs(n) /\ n \in 0..n
    BY <1>3
  <2> QED BY <2>1 DEF Runs
<1>5. H[0][0] = a
  <2>1. H[0] \in Runs(0)
    BY <1>3
  <2> QED BY <2>1 DEF Runs
<1>6. ASSUME NEW n \in Nat PROVE H[n + 1][n + 1] = g[H[n][n]]
  <2>1. H[n] \in Runs(n) /\ H[n + 1] \in Runs(n + 1)
    BY <1>3
  <2>2. H[n + 1][n] = H[n][n]
    BY <1>2, <2>1
  <2>3. H[n + 1][n + 1] = g[H[n + 1][n]]
    <3>1. n \in 0..(n + 1) /\ n < n + 1
      OBVIOUS
    <3> QED BY <2>1, <3>1 DEF Runs
  <2> QED BY <2>2, <2>3
<1>7. f \in [Nat -> S] /\ f[0] = a /\ \A n \in Nat : f[n + 1] = g[f[n]]
  BY <1>4, <1>5, <1>6
<1> QED BY <1>7

\* Of states S that have a first one and that a step leads from one to another, a
\* sequence of steps gives states of S.
LEMMA PathWalkSteps ==
  ASSUME NEW S, NEW E, NEW from, NEW to, WalkStart(from) \in S, \A w \in S : WalkStep(E, to, w) \in S
  PROVE  LET w == PathWalk(E, from, to)
         IN /\ w[0] = WalkStart(from) /\ \A n \in Nat : w[n] \in S
            /\ \A n \in Nat : w[n + 1] = WalkStep(E, to, w[n])
<1> DEFINE W == PathWalk(E, from, to)
           g == [w \in S |-> WalkStep(E, to, w)]
<1>0. g \in [S -> S]
  OBVIOUS
<1>1. PICK f \in [Nat -> S] : f[0] = WalkStart(from) /\ \A n \in Nat : f[n + 1] = g[f[n]]
  <2> HIDE DEF g
  <2> QED BY <1>0, StepsExist
<1>2. ASSUME NEW n \in Nat PROVE f[n] = IF n = 0 THEN WalkStart(from) ELSE WalkStep(E, to, f[n - 1])
  <2>1. CASE n # 0
    <3>1. n - 1 \in Nat /\ (n - 1) + 1 = n
      BY <2>1
    <3>2. f[(n - 1) + 1] = g[f[n - 1]] /\ f[n - 1] \in S
      BY <1>1, <3>1
    <3> QED BY <3>1, <3>2, <2>1
  <2> QED BY <1>1, <2>1
<1>3. f = [n \in Nat |-> IF n = 0 THEN WalkStart(from) ELSE WalkStep(E, to, f[n - 1])]
  BY <1>1, <1>2
<1>4. W = [n \in Nat |-> IF n = 0 THEN WalkStart(from) ELSE WalkStep(E, to, W[n - 1])]
  BY <1>3 DEF PathWalk
<1> HIDE DEF W
<1>5. W[0] = WalkStart(from) /\ \A n \in Nat : W[n + 1] = WalkStep(E, to, W[n])
  <2>1. \A n \in Nat : n + 1 \in Nat /\ n + 1 # 0 /\ (n + 1) - 1 = n
    OBVIOUS
  <2> QED BY <1>4, <2>1
<1> DEFINE T == {n \in Nat : W[n] \in S}
<1>6. 0 \in T /\ \A n \in Nat : n \in T => n + 1 \in T
  BY <1>5
<1>7. Nat \subseteq T
  <2> HIDE DEF T
  <2> QED BY <1>6, NatSets
<1> QED BY <1>5, <1>7 DEF W

\* A walk that does more at each step until it is done, and cannot do as much as b
\* before, is done after b steps.
LEMMA WalkEnds ==
  ASSUME NEW S, NEW D, NEW m \in [S -> Nat], NEW W, \A n \in Nat : W[n] \in S,
         \A n \in Nat : W[n] \in D => W[n + 1] \in D,
         \A n \in Nat : W[n] \notin D /\ W[n + 1] \notin D => m[W[n + 1]] = m[W[n]] + 1,
         NEW b \in Nat, \A w \in S : w \notin D => m[w] < b
  PROVE  W[b] \in D
<1> DEFINE T == {n \in Nat : W[n] \in D \/ m[W[n]] >= n}
<1>1. \A n \in Nat : m[W[n]] \in Nat
  OBVIOUS
<1>2. 0 \in T
  BY <1>1
<1>3. ASSUME NEW n \in Nat, n \in T PROVE n + 1 \in T
  <2>1. CASE W[n] \in D \/ W[n + 1] \in D
    BY <2>1
  <2>2. CASE W[n] \notin D /\ W[n + 1] \notin D
    <3>1. m[W[n + 1]] = m[W[n]] + 1 /\ m[W[n]] >= n
      BY <1>3, <2>2
    <3>2. m[W[n + 1]] >= n + 1
      BY <1>1, <3>1
    <3> QED BY <3>2
  <2> QED BY <2>1, <2>2
<1> HIDE DEF T
<1>4. b \in T
  BY <1>2, <1>3, NatSets
<1>5. W[b] \notin D => m[W[b]] < b /\ m[W[b]] >= b
  BY <1>4 DEF T
<1> QED BY <1>1, <1>5

-----------------------------------------------------------------------------
\* A finite set of integers has a least element.
LEMMA LeastIsLeast ==
  ASSUME NEW S \in SUBSET Int, IsFiniteSet(S), S # {}
  PROVE  Least(S) \in S /\ \A y \in S : Least(S) <= y
<1> DEFINE T == {n \in Nat : \A X \in SUBSET S : X # {} /\ Cardinality(X) = n => \E x \in X : \A y \in X : x <= y}
<1>1. 0 \in T
  <2>1. ASSUME NEW X \in SUBSET S, Cardinality(X) = 0 PROVE X = {}
    <3>1. IsFiniteSet(X)
      BY FS_Subset
    <3> QED BY <2>1, <3>1, FS_EmptySet
  <2> QED BY <2>1
<1>2. ASSUME NEW n \in Nat, n \in T PROVE n + 1 \in T
  <2> SUFFICES ASSUME NEW X \in SUBSET S, X # {}, Cardinality(X) = n + 1
               PROVE  \E x \in X : \A y \in X : x <= y
    OBVIOUS
  <2>1. PICK z \in X : TRUE
    OBVIOUS
  <2> DEFINE Y == X \ {z}
  <2>2. IsFiniteSet(X)
    BY FS_Subset
  <2>3. Cardinality(Y) = Cardinality(X) - 1
    BY <2>1, <2>2, FS_RemoveElement
  <2>4. Cardinality(Y) = n
    BY <2>3
  <2>5. CASE Y = {}
    BY <2>1, <2>5
  <2>6. CASE Y # {}
    <3>1. PICK x \in Y : \A y \in Y : x <= y
      BY <1>2, <2>4, <2>6
    <3>2. CASE x <= z
      BY <3>1, <3>2
    <3>3. CASE ~ (x <= z)
      <4>1. \A y \in Y : z <= y
        BY <2>1, <3>1, <3>3
      <4> QED BY <2>1, <4>1
    <3> QED BY <3>2, <3>3
  <2> QED BY <2>5, <2>6
<1> HIDE DEF T
<1>3. Cardinality(S) \in Nat
  BY FS_CardinalityType
<1>4. Cardinality(S) \in T
  BY <1>1, <1>2, <1>3, NatSets
<1>5. \E x \in S : \A y \in S : x <= y
  BY <1>4 DEF T
<1> QED BY <1>5 DEF Least

\* A finite set of integers can be listed in increasing order; each of its
\* elements is then in the list, once.
LEMMA SortedLists ==
  ASSUME NEW S \in SUBSET Int, IsFiniteSet(S)
  PROVE  Sorted(S) \in Seq(S) /\ IsInjective(Sorted(S)) /\ ToSet(Sorted(S)) = S
<1> DEFINE Increasing(s) == \A i, j \in DOMAIN s : i < j => s[i] < s[j]
           T == {n \in Nat : \A X \in SUBSET S : Cardinality(X) = n => \E s \in [1..n -> X] : Increasing(s)}
           c == Cardinality(S)
<1>1. 0 \in T
  <2>1. ASSUME NEW X \in SUBSET S, Cardinality(X) = 0 PROVE X = {}
    <3>1. IsFiniteSet(X)
      BY FS_Subset
    <3> QED BY <2>1, <3>1, FS_EmptySet
  <2>2. [i \in 1..0 |-> 0] \in [1..0 -> {}] /\ Increasing([i \in 1..0 |-> 0])
    OBVIOUS
  <2> QED BY <2>1, <2>2
<1>2. ASSUME NEW n \in Nat, n \in T PROVE n + 1 \in T
  <2> SUFFICES ASSUME NEW X \in SUBSET S, Cardinality(X) = n + 1
               PROVE  \E s \in [1..(n + 1) -> X] : Increasing(s)
    OBVIOUS
  <2>1. IsFiniteSet(X) /\ X \in SUBSET Int
    BY FS_Subset
  <2>2. X # {}
    BY FS_EmptySet
  <2> DEFINE x == Least(X)
             Y == X \ {x}
  <2>3. x \in X /\ \A y \in X : x <= y
    BY <2>1, <2>2, LeastIsLeast
  <2> HIDE DEF x
  <2>4. Cardinality(Y) = Cardinality(X) - 1
    BY <2>1, <2>3, FS_RemoveElement
  <2>5. Cardinality(Y) = n /\ Y \in SUBSET S
    <3>1. Y \in SUBSET S
      OBVIOUS
    <3> HIDE DEF Y
    <3> QED BY <2>4, <3>1
  <2>6. PICK s \in [1..n -> Y] : Increasing(s)
    BY <1>2, <2>5
  <2> DEFINE t == [i \in 1..(n + 1) |-> IF i = 1 THEN x ELSE s[i - 1]]
  <2>7. \A i \in 1..(n + 1) : i # 1 => i - 1 \in 1..n /\ s[i - 1] \in Y
    <3>1. \A i \in 1..(n + 1) : i # 1 => i - 1 \in 1..n
      OBVIOUS
    <3> QED BY <2>6, <3>1
  <2>8. t \in [1..(n + 1) -> X]
    BY <2>3, <2>7
  <2>9. ASSUME NEW i \in 1..(n + 1), NEW j \in 1..(n + 1), i < j PROVE t[i] < t[j]
    <3>1. j # 1 /\ t[j] = s[j - 1] /\ t[j] \in Y /\ j - 1 \in 1..n
      BY <2>7, <2>9
    <3>2. CASE i = 1
      <4>1. t[i] = x /\ t[j] \in X /\ t[j] # x
        BY <3>1, <3>2
      <4>2. x \in Int /\ t[j] \in Int /\ x <= t[j]
        BY <2>1, <2>3, <4>1
      <4> QED BY <4>1, <4>2
    <3>3. CASE i # 1
      <4>1. t[i] = s[i - 1] /\ i - 1 \in 1..n /\ i - 1 < j - 1
        BY <2>7, <2>9, <3>3
      <4> QED BY <2>6, <3>1, <4>1
    <3> QED BY <3>2, <3>3
  <2>10. DOMAIN t = 1..(n + 1)
    OBVIOUS
  <2> HIDE DEF t
  <2> QED BY <2>8, <2>9, <2>10
<1>3. c \in Nat
  BY FS_CardinalityType
<1>4. \E s \in [1..c -> S] : Increasing(s)
  <2> HIDE DEF T
  <2>1. c \in T
    BY <1>1, <1>2, <1>3, NatSets
  <2> QED BY <2>1 DEF T
<1>5. Sorted(S) \in [1..c -> S] /\ Increasing(Sorted(S))
  BY <1>4 DEF Sorted
<1> DEFINE s == Sorted(S)
<1> HIDE DEF s
<1>6. s \in Seq(S) /\ DOMAIN s = 1..c
  BY <1>3, <1>5 DEF s
<1>7. ASSUME NEW i \in 1..c, NEW j \in 1..c, s[i] = s[j] PROVE i = j
  <2>1. s[i] \in Int /\ (i < j => s[i] < s[j]) /\ (j < i => s[j] < s[i])
    BY <1>5 DEF s
  <2> QED BY <1>3, <1>7, <2>1
<1>8. s \in Injection(1..c, S)
  BY <1>5, <1>6, <1>7 DEF Injection, IsInjective, s
<1>9. Cardinality(1..c) = c
  BY <1>3, FS_Interval
<1>10. s \in Surjection(1..c, S)
  <2> HIDE DEF c
  <2>1. Cardinality(1..c) = Cardinality(S)
    BY <1>9 DEF c
  <2> QED BY <1>8, <2>1, FS_Injection
<1>11. \A x \in S : \E i \in 1..c : s[i] = x
  BY <1>10 DEF Surjection
<1>12. IsInjective(s)
  BY <1>6, <1>7 DEF IsInjective
<1>13. ToSet(s) = S
  BY <1>5, <1>6, <1>11 DEF ToSet, s
<1> QED BY <1>6, <1>12, <1>13 DEF s

-----------------------------------------------------------------------------
\* A list without repetition, its last element taken away.
LEMMA FrontFacts ==
  ASSUME NEW X, NEW s \in Seq(X), s # << >>, IsInjective(s)
  PROVE  /\ Front(s) \in Seq(X) /\ Len(Front(s)) = Len(s) - 1 /\ IsInjective(Front(s))
         /\ \A i \in 1..(Len(s) - 1) : Front(s)[i] = s[i]
         /\ Last(s) \in ToSet(s) /\ ToSet(Front(s)) = ToSet(s) \ {Last(s)}
<1>1. Len(s) \in Nat /\ Len(s) > 0 /\ DOMAIN s = 1..Len(s)
  BY EmptySeq, LenProperties
<1>2. \A i \in 1..Len(s) : s[i] \in X
  BY ElementOfSeq
<1> DEFINE f == SubSeq(s, 1, Len(s) - 1)
<1>3. f \in Seq(X) /\ Len(f) = Len(s) - 1 /\ \A i \in 1..(Len(s) - 1) : f[i] = s[i]
  <2>1. \A i \in 1..(Len(s) - 1) : s[i] \in X
    BY <1>1, <1>2
  <2>2. f \in Seq(X) /\ Len(f) = (IF 1 <= Len(s) - 1 THEN (Len(s) - 1) - 1 + 1 ELSE 0)
        /\ \A i \in 1..((Len(s) - 1) - 1 + 1) : f[i] = s[1 + i - 1]
    BY <1>1, <2>1, SubSeqProperties
  <2> HIDE DEF f
  <2>3. Len(f) = Len(s) - 1
    <3> DEFINE n == Len(s)
    <3>1. n \in Nat /\ n > 0 /\ Len(f) = (IF 1 <= n - 1 THEN (n - 1) - 1 + 1 ELSE 0)
      BY <1>1, <2>2
    <3> HIDE DEF n
    <3>2. Len(f) = n - 1
      BY <3>1
    <3> QED BY <3>2 DEF n
  <2>4. \A i \in 1..(Len(s) - 1) : i \in 1..((Len(s) - 1) - 1 + 1) /\ 1 + i - 1 = i
    BY <1>1
  <2> QED BY <2>2, <2>3, <2>4
<1>4. Front(s) = f
  BY DEF Front
<1> HIDE DEF f
<1>5. DOMAIN f = 1..(Len(s) - 1)
  BY <1>3, LenProperties
<1>6. \A i, j \in 1..Len(s) : s[i] = s[j] => i = j
  BY <1>1 DEF IsInjective
<1>7. IsInjective(f)
  BY <1>1, <1>3, <1>5, <1>6 DEF IsInjective
<1>8. Last(s) = s[Len(s)] /\ Len(s) \in 1..Len(s)
  BY <1>1 DEF Last
<1>9. ASSUME NEW x \in ToSet(f) PROVE x \in ToSet(s) \ {Last(s)}
  <2>1. PICK i \in 1..(Len(s) - 1) : x = s[i]
    BY <1>3, <1>5, <1>9 DEF ToSet
  <2>2. i \in 1..Len(s) /\ i # Len(s)
    <3>1. \A n \in Nat : \A j \in 1..(n - 1) : j \in 1..n /\ j # n
      OBVIOUS
    <3> QED BY <1>1, <3>1
  <2> QED BY <1>1, <1>6, <1>8, <2>1, <2>2 DEF ToSet
<1>10. ASSUME NEW x \in ToSet(s), x # Last(s) PROVE x \in ToSet(f)
  <2>1. PICK i \in 1..Len(s) : x = s[i]
    BY <1>1 DEF ToSet
  <2>2. i \in 1..(Len(s) - 1)
    BY <1>1, <1>8, <1>10, <2>1
  <2> QED BY <1>3, <1>5, <2>1, <2>2 DEF ToSet
<1>11. Last(s) \in ToSet(s)
  BY <1>1, <1>8 DEF ToSet
<1> QED BY <1>3, <1>4, <1>7, <1>9, <1>10, <1>11

\* Two lists without repetition and without a common element, one after the other.
LEMMA ConcatFacts ==
  ASSUME NEW X, NEW s \in Seq(X), NEW t \in Seq(X), IsInjective(s), IsInjective(t),
         ToSet(s) \cap ToSet(t) = {}
  PROVE  s \o t \in Seq(X) /\ IsInjective(s \o t) /\ ToSet(s \o t) = ToSet(s) \cup ToSet(t)
<1> DEFINE u == s \o t
<1>1. /\ Len(s) \in Nat /\ DOMAIN s = 1..Len(s) /\ Len(t) \in Nat /\ DOMAIN t = 1..Len(t)
  BY LenProperties
<1>2. u \in Seq(X) /\ Len(u) = Len(s) + Len(t)
  BY ConcatProperties
<1>3. \A i \in 1..Len(s) + Len(t) : u[i] = IF i <= Len(s) THEN s[i] ELSE t[i - Len(s)]
  BY ConcatProperties
<1> HIDE DEF u
<1>4. DOMAIN u = 1..(Len(s) + Len(t))
  BY <1>2, LenProperties
<1>5. ASSUME NEW i \in 1..(Len(s) + Len(t))
      PROVE  \/ i \in 1..Len(s) /\ u[i] = s[i] /\ u[i] \in ToSet(s)
             \/ i - Len(s) \in 1..Len(t) /\ u[i] = t[i - Len(s)] /\ u[i] \in ToSet(t)
  <2>1. CASE i <= Len(s)
    <3>1. i \in 1..Len(s) /\ u[i] = s[i]
      BY <1>1, <1>3, <2>1
    <3> QED BY <1>1, <3>1 DEF ToSet
  <2>2. CASE ~ (i <= Len(s))
    <3>1. i - Len(s) \in 1..Len(t) /\ u[i] = t[i - Len(s)]
      BY <1>1, <1>3, <2>2
    <3> QED BY <1>1, <3>1 DEF ToSet
  <2> QED BY <2>1, <2>2
<1>6. ASSUME NEW i \in DOMAIN u, NEW j \in DOMAIN u, u[i] = u[j] PROVE i = j
  <2>1. CASE i \in 1..Len(s) /\ u[i] = s[i] /\ u[i] \in ToSet(s)
    <3>1. j \in 1..Len(s) /\ u[j] = s[j]
      BY <1>4, <1>5, <1>6, <2>1
    <3> QED BY <1>1, <1>6, <2>1, <3>1 DEF IsInjective
  <2>2. CASE i - Len(s) \in 1..Len(t) /\ u[i] = t[i - Len(s)] /\ u[i] \in ToSet(t)
    <3>1. j - Len(s) \in 1..Len(t) /\ u[j] = t[j - Len(s)]
      BY <1>4, <1>5, <1>6, <2>2
    <3>2. i - Len(s) = j - Len(s)
      BY <1>1, <1>6, <2>2, <3>1 DEF IsInjective
    <3> QED BY <1>1, <1>4, <3>2
  <2> QED BY <1>4, <1>5, <2>1, <2>2
<1>7. ToSet(u) \subseteq ToSet(s) \cup ToSet(t)
  BY <1>4, <1>5 DEF ToSet
<1>8. ASSUME NEW x \in ToSet(s) PROVE x \in ToSet(u)
  <2>1. PICK i \in 1..Len(s) : x = s[i]
    BY <1>1 DEF ToSet
  <2>2. i \in 1..(Len(s) + Len(t)) /\ u[i] = s[i]
    BY <1>1, <1>3
  <2> QED BY <1>4, <2>1, <2>2 DEF ToSet
<1>9. ASSUME NEW x \in ToSet(t) PROVE x \in ToSet(u)
  <2>1. PICK i \in 1..Len(t) : x = t[i]
    BY <1>1 DEF ToSet
  <2>2. i + Len(s) \in 1..(Len(s) + Len(t)) /\ ~ (i + Len(s) <= Len(s)) /\ (i + Len(s)) - Len(s) = i
    BY <1>1
  <2>3. u[i + Len(s)] = t[i]
    BY <1>3, <2>2
  <2> QED BY <1>4, <2>1, <2>2, <2>3 DEF ToSet
<1>10. IsInjective(u) /\ ToSet(u) = ToSet(s) \cup ToSet(t)
  BY <1>6, <1>7, <1>8, <1>9 DEF IsInjective
<1> QED BY <1>2, <1>10 DEF u

\* One element more at the end of a list that does not have it.
LEMMA AppendFacts ==
  ASSUME NEW X, NEW s \in Seq(X), NEW x \in X
  PROVE  /\ Append(s, x) \in Seq(X) /\ Len(Append(s, x)) = Len(s) + 1 /\ Len(s) \in Nat
         /\ DOMAIN s = 1..Len(s) /\ DOMAIN Append(s, x) = 1..(Len(s) + 1)
         /\ \A i \in 1..Len(s) : Append(s, x)[i] = s[i]
         /\ Append(s, x)[Len(s) + 1] = x /\ Last(Append(s, x)) = x
         /\ ToSet(Append(s, x)) = ToSet(s) \cup {x}
         /\ IsInjective(s) /\ x \notin ToSet(s) => IsInjective(Append(s, x))
<1> DEFINE u == Append(s, x)
<1>1. Len(s) \in Nat /\ DOMAIN s = 1..Len(s)
  BY LenProperties
<1>2. /\ u \in Seq(X) /\ Len(u) = Len(s) + 1 /\ u[Len(s) + 1] = x
      /\ \A i \in 1..Len(s) : u[i] = s[i]
  BY AppendProperties
<1> HIDE DEF u
<1>3. DOMAIN u = 1..(Len(s) + 1)
  BY <1>2, LenProperties
<1>4. \A i \in 1..(Len(s) + 1) : i \in 1..Len(s) \/ i = Len(s) + 1
  BY <1>1
<1>5. \A i \in 1..Len(s) : i \in 1..(Len(s) + 1) /\ i # Len(s) + 1
  BY <1>1
<1>6. Len(s) + 1 \in 1..(Len(s) + 1)
  BY <1>1
<1>7. ToSet(u) \subseteq ToSet(s) \cup {x}
  BY <1>1, <1>2, <1>3, <1>4 DEF ToSet
<1>8. ToSet(s) \subseteq ToSet(u)
  BY <1>1, <1>2, <1>3, <1>5 DEF ToSet
<1>9. x \in ToSet(u)
  BY <1>2, <1>3, <1>6 DEF ToSet
<1>10. ASSUME IsInjective(s), x \notin ToSet(s), NEW i \in DOMAIN u, NEW j \in DOMAIN u, u[i] = u[j]
       PROVE  i = j
  <2>1. \A k \in 1..Len(s) : u[k] # x
    BY <1>1, <1>2, <1>10 DEF ToSet
  <2>2. CASE i = Len(s) + 1
    BY <1>2, <1>3, <1>4, <1>10, <2>1, <2>2
  <2>3. CASE i \in 1..Len(s)
    <3>1. j \in 1..Len(s)
      BY <1>2, <1>3, <1>4, <1>10, <2>1, <2>3
    <3>2. s[i] = s[j]
      BY <1>2, <1>10, <2>3, <3>1
    <3> QED BY <1>1, <1>10, <2>3, <3>1, <3>2 DEF IsInjective
  <2> QED BY <1>3, <1>4, <2>2, <2>3
<1>11. IsInjective(s) /\ x \notin ToSet(s) => IsInjective(u)
  BY <1>10 DEF IsInjective
<1>12. Last(u) = x
  BY <1>2 DEF Last
<1> QED BY <1>1, <1>2, <1>3, <1>7, <1>8, <1>9, <1>11, <1>12 DEF u

\* Every two neighbors in the list are an edge.
Chain(E, s) == \A i \in 1..(Len(s) - 1) : <<s[i], s[i + 1]>> \in E

\* An edge from the last element on makes the list longer.
LEMMA ChainGoesOn ==
  ASSUME NEW E, NEW X, NEW s \in Seq(X), Chain(E, s), NEW x \in X, s = << >> \/ <<Last(s), x>> \in E
  PROVE  Chain(E, Append(s, x))
<1> DEFINE u == Append(s, x)
<1>1. /\ Len(s) \in Nat /\ Len(u) = Len(s) + 1 /\ u[Len(s) + 1] = x
      /\ \A i \in 1..Len(s) : u[i] = s[i]
  BY AppendFacts
<1> HIDE DEF u
<1>2. \A n \in Nat : \A j \in 1..((n + 1) - 1) : (j = n /\ n \in 1..n) \/ (j \in 1..(n - 1) /\ j + 1 \in 1..n /\ j \in 1..n)
  OBVIOUS
<1>3. ASSUME NEW i \in 1..(Len(u) - 1) PROVE <<u[i], u[i + 1]>> \in E
  <2>1. CASE i = Len(s) /\ Len(s) \in 1..Len(s)
    <3>1. u[i] = s[Len(s)] /\ u[i + 1] = x
      BY <1>1, <2>1
    <3>2. s # << >>
      BY <2>1, EmptySeq
    <3> QED BY <3>1, <3>2 DEF Last
  <2>2. CASE i \in 1..(Len(s) - 1) /\ i + 1 \in 1..Len(s) /\ i \in 1..Len(s)
    BY <1>1, <2>2 DEF Chain
  <2> QED BY <1>1, <1>2, <2>1, <2>2
<1> QED BY <1>3 DEF Chain, u

-----------------------------------------------------------------------------
\* The findPath walk.  A way from `from` to k within D; what holds of each state of
\* the walk: the ways lead to the keys pushed, the edges of a key popped have been
\* followed, and what is found is a path.
WayTo(E, D, from, k, p) ==
  /\ p \in Seq(D) /\ p # << >> /\ p[1] = from /\ Last(p) = k /\ IsInjective(p)
  /\ Chain(E, p)

PathStates(V) ==
  [stack : Seq(V), path : UNION {[D -> Seq(V)] : D \in SUBSET V}, found : Seq(V)]

PathInv(E, from, to, w) ==
  /\ IsInjective(w.stack) /\ ToSet(w.stack) \subseteq DOMAIN w.path
  /\ from \in DOMAIN w.path /\ to \notin DOMAIN w.path
  /\ \A k \in DOMAIN w.path : WayTo(E, DOMAIN w.path, from, k, w.path[k])
  /\ \A k \in DOMAIN w.path \ ToSet(w.stack) : OutOf(E, k) \subseteq DOMAIN w.path
  /\ w.found # << >> => IsSimplePath(E, w.found, from, to)

\* A way within D with one edge more is a way, and a path to a key not in D.
LEMMA WayGoesOn ==
  ASSUME NEW E, NEW D, NEW from, NEW k, NEW p, WayTo(E, D, from, k, p), NEW x, x \notin D, <<k, x>> \in E
  PROVE  WayTo(E, D \cup {x}, from, x, Append(p, x)) /\ IsSimplePath(E, Append(p, x), from, x)
<1> DEFINE X == D \cup {x}
           q == Append(p, x)
<1>1. /\ p \in Seq(D) /\ p # << >> /\ p[1] = from /\ Last(p) = k /\ IsInjective(p)
      /\ Chain(E, p)
  BY DEF WayTo
<1>2. p \in Seq(X) /\ x \in X
  BY <1>1, SeqMonotonic
<1>3. Len(p) \in Nat /\ Len(p) > 0 /\ DOMAIN p = 1..Len(p)
  BY <1>1, EmptySeq, LenProperties
<1>4. x \notin ToSet(p)
  BY <1>1, <1>3, ElementOfSeq DEF ToSet
<1> HIDE DEF X
<1>5. /\ q \in Seq(X) /\ Len(q) = Len(p) + 1 /\ DOMAIN q = 1..(Len(p) + 1)
      /\ \A i \in 1..Len(p) : q[i] = p[i]
      /\ q[Len(p) + 1] = x /\ Last(q) = x /\ IsInjective(q)
  BY <1>1, <1>2, <1>4, AppendFacts
<1>6. q # << >>
  BY <1>2, AppendProperties
<1> HIDE DEF q
<1>7. Chain(E, q)
  BY <1>1, <1>2, ChainGoesOn DEF q
<1>8. q[1] = from /\ Len(q) > 1
  BY <1>1, <1>3, <1>5
<1>9. WayTo(E, X, from, x, q)
  BY <1>5, <1>6, <1>7, <1>8 DEF WayTo
<1>10. \A i, j \in 1..Len(q) : q[i] = q[j] => i = j
  BY <1>5 DEF IsInjective
<1>11. q[Len(q)] = x
  BY <1>5
<1>12. IsSimplePath(E, q, from, x)
  BY <1>7, <1>8, <1>10, <1>11 DEF IsSimplePath, Chain
<1> QED BY <1>9, <1>12 DEF X, q

\* A way within a set is one within a larger set.
LEMMA WayStays ==
  ASSUME NEW E, NEW D, NEW from, NEW k, NEW p, WayTo(E, D, from, k, p), NEW X, D \subseteq X
  PROVE  WayTo(E, X, from, k, p)
BY SeqMonotonic DEF WayTo

\* A path shows that its end can be reached.
LEMMA PathReaches ==
  ASSUME NEW N, NEW E, NEW X, NEW p \in Seq(X), NEW a, NEW b, IsSimplePath(E, p, a, b)
  PROVE  Reaches(N, E, a, b)
<1> SUFFICES ASSUME NEW S \in SUBSET N, a \in S, IsClosed(E, S) PROVE b \in S
  BY DEF Reaches
<1> DEFINE T == {n \in Nat : n < Len(p) => p[n + 1] \in S}
<1>1. /\ Len(p) \in Nat /\ Len(p) > 1 /\ p[1] = a /\ p[Len(p)] = b
      /\ \A i \in 1..(Len(p) - 1) : <<p[i], p[i + 1]>> \in E
  BY LenProperties DEF IsSimplePath
<1>2. 0 \in T
  BY <1>1
<1>3. ASSUME NEW n \in Nat, n \in T PROVE n + 1 \in T
  <2> SUFFICES ASSUME n + 1 < Len(p) PROVE p[(n + 1) + 1] \in S
    OBVIOUS
  <2>1. n + 1 \in 1..(Len(p) - 1) /\ n < Len(p)
    BY <1>1
  <2>2. <<p[n + 1], p[(n + 1) + 1]>> \in E /\ p[n + 1] \in S
    BY <1>1, <1>3, <2>1
  <2> QED BY <2>2 DEF IsClosed
<1> HIDE DEF T
<1>4. Len(p) - 1 \in Nat /\ Len(p) - 1 < Len(p) /\ (Len(p) - 1) + 1 = Len(p)
  BY <1>1
<1>5. Len(p) - 1 \in T
  BY <1>2, <1>3, <1>4, NatSets
<1> QED BY <1>1, <1>4, <1>5 DEF T

\* One vertex popped without finding `to`: its ways go on to what it pushes.
LEMMA PopNextInv ==
  ASSUME NEW V \in SUBSET Int, IsFiniteSet(V), NEW E \in SUBSET (V \X V), NEW from \in V, NEW to \in V,
         NEW w \in PathStates(V), PathInv(E, from, to, w), w.stack # << >>, w.found = << >>
  PROVE  /\ PopNext(E, to, w) \in PathStates(V) /\ PathInv(E, from, to, PopNext(E, to, w))
         /\ PopNext(E, to, w).found = << >> =>
              LET x == PopNext(E, to, w)
              IN  /\ DOMAIN x.path \ ToSet(x.stack) = (DOMAIN w.path \ ToSet(w.stack)) \cup {Last(w.stack)}
                  /\ Last(w.stack) \in ToSet(w.stack) /\ Last(w.stack) \in V
<1> DEFINE node == Last(w.stack)
           D    == DOMAIN w.path
           new  == OutOf(E, node) \ D
           x    == PopNext(E, to, w)
<1>1. /\ w.stack \in Seq(V) /\ w.found \in Seq(V) /\ D \in SUBSET V /\ w.path \in [D -> Seq(V)]
      /\ w = [stack |-> w.stack, path |-> w.path, found |-> w.found]
  BY DEF PathStates
<1>2. /\ IsInjective(w.stack) /\ ToSet(w.stack) \subseteq D /\ from \in D /\ to \notin D
      /\ \A k \in D : WayTo(E, D, from, k, w.path[k])
      /\ \A k \in D \ ToSet(w.stack) : OutOf(E, k) \subseteq D
  BY DEF PathInv
<1> HIDE DEF D
<1>3. /\ Front(w.stack) \in Seq(V) /\ IsInjective(Front(w.stack)) /\ node \in ToSet(w.stack)
      /\ ToSet(Front(w.stack)) = ToSet(w.stack) \ {node}
  BY <1>1, <1>2, FrontFacts
<1>4. node \in D /\ node \in V
  BY <1>1, <1>2, <1>3
<1> HIDE DEF node
<1>5. \A k : k \in OutOf(E, node) <=> <<node, k>> \in E
  BY DEF OutOf
<1>6. WayTo(E, D, from, node, w.path[node]) /\ w.path[node] \in Seq(V)
  BY <1>1, <1>2, <1>4
<1>7. CASE to \in OutOf(E, node)
  <2>1. x = [w EXCEPT !.found = Append(w.path[node], to)]
    BY <1>7 DEF PopNext, node
  <2> DEFINE f == Append(w.path[node], to)
  <2>2. IsSimplePath(E, f, from, to)
    BY <1>2, <1>5, <1>6, <1>7, WayGoesOn
  <2>3. f \in Seq(V) /\ f # << >>
    BY <1>6, AppendProperties
  <2> HIDE DEF f
  <2>4. x.stack = w.stack /\ x.path = w.path /\ x.found = f
    BY <1>1, <2>1 DEF f
  <2>5. x \in PathStates(V)
    BY <2>1, <2>3 DEF PathStates, f
  <2> HIDE DEF x
  <2>6. PathInv(E, from, to, x)
    BY <1>2, <2>2, <2>4 DEF PathInv, D
  <2> QED BY <2>3, <2>4, <2>5, <2>6 DEF x
<1>8. CASE to \notin OutOf(E, node)
  <2> DEFINE stack == Front(w.stack) \o Sorted(new)
             path  == [k \in D \cup new |-> IF k \in new THEN Append(w.path[node], k) ELSE w.path[k]]
  <2>1. x = [w EXCEPT !.stack = stack, !.path = path]
    BY <1>8 DEF PopNext, node, D
  <2>2. new \in SUBSET V /\ to \notin new
    <3>1. ASSUME NEW k \in OutOf(E, node) PROVE k \in V
      <4>1. <<node, k>> \in V \X V
        BY <1>5, <3>1
      <4> QED BY <4>1
    <3> QED BY <1>8, <3>1
  <2>3. Sorted(new) \in Seq(V) /\ IsInjective(Sorted(new)) /\ ToSet(Sorted(new)) = new
    <3>1. new \in SUBSET Int /\ IsFiniteSet(new)
      BY <2>2, FS_Subset
    <3> HIDE DEF new
    <3>2. Sorted(new) \in Seq(new) /\ IsInjective(Sorted(new)) /\ ToSet(Sorted(new)) = new
      BY <3>1, SortedLists
    <3> QED BY <2>2, <3>2, SeqMonotonic
  <2>4. new \cap D = {} /\ \A k \in new : <<node, k>> \in E /\ k \notin D
    BY <1>5
  <2>5. stack \in Seq(V) /\ IsInjective(stack) /\ ToSet(stack) = (ToSet(w.stack) \ {node}) \cup new
    <3>1. ToSet(Front(w.stack)) \cap ToSet(Sorted(new)) = {}
      BY <1>2, <1>3, <2>3, <2>4
    <3> HIDE DEF new, node
    <3>2. /\ stack \in Seq(V) /\ IsInjective(stack)
          /\ ToSet(stack) = ToSet(Front(w.stack)) \cup ToSet(Sorted(new))
      BY <1>3, <2>3, <3>1, ConcatFacts
    <3> QED BY <1>3, <2>3, <3>2
  <2>6. OutOf(E, node) \subseteq D \cup new
    OBVIOUS
  <2> HIDE DEF new, stack
  <2>7. ASSUME NEW k \in new PROVE path[k] = Append(w.path[node], k) /\ path[k] \in Seq(V) /\ WayTo(E, D \cup new, from, k, path[k])
    <3>1. path[k] = Append(w.path[node], k)
      OBVIOUS
    <3>2. Append(w.path[node], k) \in Seq(V)
      BY <1>6, <2>2, AppendProperties
    <3>3. WayTo(E, D \cup {k}, from, k, Append(w.path[node], k))
      BY <1>6, <2>4, WayGoesOn
    <3>4. WayTo(E, D \cup new, from, k, Append(w.path[node], k))
      BY <3>3, WayStays
    <3> QED BY <3>1, <3>2, <3>4
  <2>8. ASSUME NEW k \in D PROVE path[k] = w.path[k] /\ path[k] \in Seq(V) /\ WayTo(E, D \cup new, from, k, path[k])
    <3>1. path[k] = w.path[k]
      BY <2>4
    <3>2. WayTo(E, D \cup new, from, k, w.path[k])
      BY <1>2, WayStays
    <3> QED BY <1>1, <3>1, <3>2
  <2>9. DOMAIN path = D \cup new /\ path \in [D \cup new -> Seq(V)]
    <3>1. path = [k \in D \cup new |-> path[k]]
      OBVIOUS
    <3> HIDE DEF path
    <3>2. \A k \in D \cup new : path[k] \in Seq(V)
      BY <2>7, <2>8
    <3> QED BY <3>1, <3>2
  <2> HIDE DEF path
  <2>10. x.stack = stack /\ x.path = path /\ x.found = w.found
    BY <1>1, <2>1
  <2>11. x \in PathStates(V)
    <3>1. path \in UNION {[X -> Seq(V)] : X \in SUBSET V}
      <4>1. D \cup new \in SUBSET V
        BY <1>1, <2>2
      <4> QED BY <2>9, <4>1
    <3>2. x = [stack |-> stack, path |-> path, found |-> w.found]
      BY <1>1, <2>1
    <3> QED BY <1>1, <2>5, <3>1, <3>2 DEF PathStates
  <2> HIDE DEF x
  <2>12. (D \cup new) \ ToSet(stack) = (D \ ToSet(w.stack)) \cup {node}
    BY <1>2, <1>4, <2>4, <2>5
  <2>13. PathInv(E, from, to, x)
    <3>1. IsInjective(x.stack) /\ ToSet(x.stack) \subseteq DOMAIN x.path
      BY <1>2, <2>5, <2>9, <2>10
    <3>2. from \in DOMAIN x.path /\ to \notin DOMAIN x.path
      BY <1>2, <2>2, <2>9, <2>10
    <3>3. \A k \in DOMAIN x.path : WayTo(E, DOMAIN x.path, from, k, x.path[k])
      BY <2>7, <2>8, <2>9, <2>10
    <3>4. \A k \in DOMAIN x.path \ ToSet(x.stack) : OutOf(E, k) \subseteq DOMAIN x.path
      BY <1>2, <2>6, <2>9, <2>10, <2>12
    <3> QED BY <2>10, <3>1, <3>2, <3>3, <3>4 DEF PathInv
  <2>14. DOMAIN x.path \ ToSet(x.stack) = (D \ ToSet(w.stack)) \cup {node}
    BY <2>9, <2>10, <2>12
  <2> QED BY <1>3, <1>4, <2>11, <2>13, <2>14 DEF x, D, node
<1> QED BY <1>7, <1>8

\* What findPath answers: whether `to` can be reached, and a path when it can. With
\* each step that finds nothing one vertex more has been popped for good.
LEMMA PathFound ==
  ASSUME NEW V \in SUBSET Int, IsFiniteSet(V), NEW E \in SUBSET (V \X V),
         NEW from \in V, NEW to \in V, from # to, NEW N, V \subseteq N
  PROVE  /\ FindPath(V, E, from, to) <=> Reaches(N, E, from, to)
         /\ Reaches(N, E, from, to) => IsSimplePath(E, FindSortedPath(V, E, from, to), from, to)
<1> DEFINE S == {w \in PathStates(V) : PathInv(E, from, to, w)}
           done == {w \in S : w.stack = << >> \/ w.found # << >>}
           popped(w) == DOMAIN w.path \ ToSet(w.stack)
           m == [w \in S |-> Cardinality(popped(w))]
           W == PathWalk(E, from, to)
           b == Cardinality(V)
<1>1. WalkStart(from) \in S
  <2> DEFINE s == <<from>>
             path == [k \in {from} |-> <<from>>]
  <2>1. s \in Seq(V) /\ Len(s) = 1 /\ s[1] = from /\ DOMAIN s = 1..1
    OBVIOUS
  <2>2. IsInjective(s) /\ ToSet(s) = {from} /\ Last(s) = from /\ s \in Seq({from}) /\ s # << >>
    BY <2>1 DEF IsInjective, ToSet, Last
  <2>3. WayTo(E, {from}, from, from, s)
    BY <2>1, <2>2 DEF WayTo, Chain
  <2> HIDE DEF s
  <2>4. WalkStart(from) = [stack |-> s, path |-> [k \in {from} |-> s], found |-> << >>]
    BY DEF WalkStart, s
  <2>5. WalkStart(from) \in PathStates(V)
    <3>1. [k \in {from} |-> s] \in [{from} -> Seq(V)] /\ {from} \in SUBSET V
      BY <2>1
    <3>2. << >> \in Seq(V)
      OBVIOUS
    <3> QED BY <2>1, <2>4, <3>1, <3>2 DEF PathStates
  <2>6. PathInv(E, from, to, WalkStart(from))
    BY <2>2, <2>3, <2>4 DEF PathInv
  <2> QED BY <2>5, <2>6
<1>2. ASSUME NEW w \in S, w \notin done
      PROVE  /\ WalkStep(E, to, w) \in S
             /\ WalkStep(E, to, w) \notin done => popped(WalkStep(E, to, w)) = popped(w) \cup {Last(w.stack)}
             /\ Last(w.stack) \in V \ popped(w)
  <2>1. w \in PathStates(V) /\ PathInv(E, from, to, w) /\ w.stack # << >> /\ w.found = << >>
    BY <1>2
  <2>2. WalkStep(E, to, w) = PopNext(E, to, w)
    BY <2>1 DEF WalkStep
  <2>3. /\ PopNext(E, to, w) \in S
        /\ PopNext(E, to, w).found = << >> =>
             popped(PopNext(E, to, w)) = popped(w) \cup {Last(w.stack)}
    BY <2>1, PopNextInv
  <2>4. Last(w.stack) \in V /\ Last(w.stack) \in ToSet(w.stack)
    <3>1. w.stack \in Seq(V) /\ IsInjective(w.stack) /\ ToSet(w.stack) \subseteq DOMAIN w.path /\ DOMAIN w.path \subseteq V
      BY <2>1 DEF PathStates, PathInv
    <3> QED BY <2>1, <3>1, FrontFacts
  <2> QED BY <2>2, <2>3, <2>4
<1>3. ASSUME NEW w \in S, w \in done PROVE WalkStep(E, to, w) = w
  BY <1>3 DEF WalkStep
<1>4. ASSUME NEW w \in S PROVE IsFiniteSet(popped(w)) /\ popped(w) \in SUBSET V
  <2>1. popped(w) \in SUBSET V
    BY DEF PathStates
  <2> HIDE DEF popped
  <2> QED BY <2>1, FS_Subset
<1>5. m \in [S -> Nat]
  <2>1. \A w \in S : Cardinality(popped(w)) \in Nat
    BY <1>4, FS_CardinalityType
  <2> HIDE DEF popped, S
  <2> QED BY <2>1
<1>6. ASSUME NEW w \in S, w \notin done PROVE m[w] < b
  <2>1. popped(w) # V /\ popped(w) \in SUBSET V /\ m[w] = Cardinality(popped(w))
    BY <1>2, <1>4, <1>6
  <2>2. Cardinality(popped(w)) <= b /\ Cardinality(popped(w)) # b /\ b \in Nat /\ Cardinality(popped(w)) \in Nat
    <3> HIDE DEF popped, m, S, done
    <3> QED BY <1>4, <2>1, FS_Subset, FS_CardinalityType
  <2> QED BY <2>1, <2>2
<1>7. ASSUME NEW w \in S, w \notin done, WalkStep(E, to, w) \notin done
      PROVE  m[WalkStep(E, to, w)] = m[w] + 1
  <2> DEFINE x == WalkStep(E, to, w)
  <2>1. x \in S /\ popped(x) = popped(w) \cup {Last(w.stack)} /\ Last(w.stack) \notin popped(w)
    BY <1>2, <1>7
  <2>2. Cardinality(popped(w) \cup {Last(w.stack)}) = Cardinality(popped(w)) + 1
    <3> HIDE DEF popped, S, done
    <3> QED BY <1>4, <2>1, FS_AddElement
  <2> HIDE DEF x
  <2> QED BY <2>1, <2>2 DEF x
<1>8. /\ W[0] = WalkStart(from) /\ \A n \in Nat : W[n] \in S
      /\ \A n \in Nat : W[n + 1] = WalkStep(E, to, W[n])
  <2>1. \A w \in S : WalkStep(E, to, w) \in S
    BY <1>2, <1>3
  <2> HIDE DEF S
  <2> QED BY <1>1, <2>1, PathWalkSteps
<1> HIDE DEF W, m
<1>9. W[b] \in done
  <2>1. \A n \in Nat : W[n] \in done => W[n + 1] \in done
    BY <1>3, <1>8
  <2>2. \A n \in Nat : W[n] \notin done /\ W[n + 1] \notin done => m[W[n + 1]] = m[W[n]] + 1
    BY <1>7, <1>8
  <2>3. b \in Nat
    BY FS_CardinalityType
  <2> HIDE DEF S, done, b
  <2> QED BY <1>5, <1>6, <1>8, <2>1, <2>2, <2>3, WalkEnds
<1> DEFINE w == W[b]
<1>10. FindSortedPath(V, E, from, to) = w.found
  BY DEF FindSortedPath, W
<1>11. w \in PathStates(V) /\ PathInv(E, from, to, w) /\ (w.stack = << >> \/ w.found # << >>)
  BY <1>9
<1> HIDE DEF w
<1>12. CASE w.found # << >>
  <2>1. IsSimplePath(E, w.found, from, to) /\ w.found \in Seq(V)
    BY <1>11, <1>12 DEF PathInv, PathStates
  <2>2. Reaches(N, E, from, to)
    BY <2>1, PathReaches
  <2> QED BY <1>10, <1>12, <2>1, <2>2 DEF FindPath
<1>13. CASE w.found = << >>
  <2>1. ToSet(w.stack) = {}
    BY <1>11, <1>13 DEF ToSet
  <2>2. /\ DOMAIN w.path \in SUBSET N /\ from \in DOMAIN w.path /\ to \notin DOMAIN w.path
        /\ \A k \in DOMAIN w.path : OutOf(E, k) \subseteq DOMAIN w.path
    BY <1>11, <2>1 DEF PathInv, PathStates
  <2>3. IsClosed(E, DOMAIN w.path)
    BY <2>2 DEF IsClosed, OutOf
  <2>4. ~ Reaches(N, E, from, to)
    BY <2>2, <2>3 DEF Reaches
  <2> QED BY <1>10, <1>13, <2>4 DEF FindPath
<1> QED BY <1>12, <1>13

-----------------------------------------------------------------------------
\* The depth-first visit. What holds of each of its states: the vertices visited are
\* those on the stack and those left, the stack follows edges, and what is left
\* comes after all its children; a cycle found is one.
VisitStates(V) == [visited : SUBSET V, stack : Seq(V), order : Seq(V), cyclic : BOOLEAN]

ChildrenBefore(E, s) ==
  \A i \in 1..Len(s) : \A k \in OutOf(E, s[i]) : \E j \in 1..Len(s) : j < i /\ s[j] = k

VisitInv(E, w) ==
  /\ Chain(E, w.stack) /\ IsInjective(w.order) /\ ChildrenBefore(E, w.order)
  /\ w.cyclic => Len(w.stack) > 1 /\ \E i \in 1..(Len(w.stack) - 1) : w.stack[i] = Last(w.stack)
  /\ ~ w.cyclic => /\ IsInjective(w.stack) /\ ToSet(w.stack) \cap ToSet(w.order) = {}
                   /\ w.visited = ToSet(w.stack) \cup ToSet(w.order)

\* Of states S that have a first one and that a step leads from one to another, a
\* visit gives states of S.
LEMMA VisitWalkSteps ==
  ASSUME NEW S, NEW V, NEW E, VisitStart \in S, \A w \in S : VisitStep(V, E, w) \in S
  PROVE  LET w == VisitWalk(V, E)
         IN /\ w[0] = VisitStart /\ \A n \in Nat : w[n] \in S
            /\ \A n \in Nat : w[n + 1] = VisitStep(V, E, w[n])
<1> DEFINE W == VisitWalk(V, E)
           g == [w \in S |-> VisitStep(V, E, w)]
<1>0. g \in [S -> S]
  OBVIOUS
<1>1. PICK f \in [Nat -> S] : f[0] = VisitStart /\ \A n \in Nat : f[n + 1] = g[f[n]]
  <2> HIDE DEF g
  <2> QED BY <1>0, StepsExist
<1>2. ASSUME NEW n \in Nat PROVE f[n] = IF n = 0 THEN VisitStart ELSE VisitStep(V, E, f[n - 1])
  <2>1. CASE n # 0
    <3>1. n - 1 \in Nat /\ (n - 1) + 1 = n
      BY <2>1
    <3>2. f[(n - 1) + 1] = g[f[n - 1]] /\ f[n - 1] \in S
      BY <1>1, <3>1
    <3> QED BY <3>1, <3>2, <2>1
  <2> QED BY <1>1, <2>1
<1>3. f = [n \in Nat |-> IF n = 0 THEN VisitStart ELSE VisitStep(V, E, f[n - 1])]
  BY <1>1, <1>2
<1>4. W = [n \in Nat |-> IF n = 0 THEN VisitStart ELSE VisitStep(V, E, W[n - 1])]
  BY <1>3 DEF VisitWalk
<1> HIDE DEF W
<1>5. W[0] = VisitStart /\ \A n \in Nat : W[n + 1] = VisitStep(V, E, W[n])
  <2>1. \A n \in Nat : n + 1 \in Nat /\ n + 1 # 0 /\ (n + 1) - 1 = n
    OBVIOUS
  <2> QED BY <1>4, <2>1
<1> DEFINE T == {n \in Nat : W[n] \in S}
<1>6. 0 \in T /\ \A n \in Nat : n \in T => n + 1 \in T
  BY <1>5
<1>7. Nat \subseteq T
  <2> HIDE DEF T
  <2> QED BY <1>6, NatSets
<1> QED BY <1>5, <1>7 DEF W

\* What is ahead is a set of vertices: those not visited, or with an edge from the
\* last one on the stack.
LEMMA AheadFacts ==
  ASSUME NEW V \in SUBSET Int, IsFiniteSet(V), NEW E \in SUBSET (V \X V), NEW w \in VisitStates(V)
  PROVE  /\ Ahead(V, E, w) \in SUBSET V
         /\ w.stack # << >> => \A k \in Ahead(V, E, w) : <<Last(w.stack), k>> \in E /\ (k \in w.visited => k \in ToSet(w.stack))
         /\ w.stack = << >> => Ahead(V, E, w) = V \ w.visited
         /\ Ahead(V, E, w) # {} => Least(Ahead(V, E, w)) \in Ahead(V, E, w)
<1>1. \A k : k \in OutOf(E, Last(w.stack)) <=> <<Last(w.stack), k>> \in E
  BY DEF OutOf
<1>2. ASSUME NEW k \in OutOf(E, Last(w.stack)) PROVE k \in V
  <2>1. <<Last(w.stack), k>> \in V \X V
    BY <1>1, <1>2
  <2> QED BY <2>1
<1>3. Ahead(V, E, w) \in SUBSET V
  BY <1>2 DEF Ahead
<1>4. w.stack # << >> => \A k \in Ahead(V, E, w) : <<Last(w.stack), k>> \in E /\ (k \in w.visited => k \in ToSet(w.stack))
  BY <1>1 DEF Ahead
<1>5. w.stack = << >> => Ahead(V, E, w) = V \ w.visited
  BY DEF Ahead
<1>6. IsFiniteSet(Ahead(V, E, w)) /\ Ahead(V, E, w) \in SUBSET Int
  BY <1>3, FS_Subset
<1>7. Ahead(V, E, w) # {} => Least(Ahead(V, E, w)) \in Ahead(V, E, w)
  BY <1>6, LeastIsLeast
<1> QED BY <1>3, <1>4, <1>5, <1>7

\* A call of dfs returns: the children of the vertex it was for are all left.
LEMMA LeaveInv ==
  ASSUME NEW V \in SUBSET Int, IsFiniteSet(V), NEW E \in SUBSET (V \X V), NEW w \in VisitStates(V), VisitInv(E, w),
         ~ w.cyclic, Ahead(V, E, w) = {}, w.stack # << >>
  PROVE  /\ Leave(w) \in VisitStates(V) /\ VisitInv(E, Leave(w)) /\ Leave(w).visited = w.visited
         /\ ToSet(Leave(w).order) = ToSet(w.order) \cup {Last(w.stack)}
         /\ Last(w.stack) \in V \ ToSet(w.order)
<1> DEFINE x == Leave(w)
           node == Last(w.stack)
<1>1. /\ w.stack \in Seq(V) /\ w.order \in Seq(V) /\ w.visited \in SUBSET V
      /\ w = [visited |-> w.visited, stack |-> w.stack, order |-> w.order, cyclic |-> w.cyclic]
  BY DEF VisitStates
<1>2. /\ Chain(E, w.stack) /\ IsInjective(w.order) /\ ChildrenBefore(E, w.order) /\ IsInjective(w.stack)
      /\ ToSet(w.stack) \cap ToSet(w.order) = {} /\ w.visited = ToSet(w.stack) \cup ToSet(w.order)
  BY DEF VisitInv
<1>3. /\ Front(w.stack) \in Seq(V) /\ Len(Front(w.stack)) = Len(w.stack) - 1 /\ IsInjective(Front(w.stack))
      /\ \A i \in 1..(Len(w.stack) - 1) : Front(w.stack)[i] = w.stack[i]
      /\ node \in ToSet(w.stack) /\ ToSet(Front(w.stack)) = ToSet(w.stack) \ {node}
  BY <1>1, <1>2, FrontFacts
<1>4. node \in V /\ node \notin ToSet(w.order)
  BY <1>1, <1>2, <1>3
<1>5. \A k \in OutOf(E, node) : k \in ToSet(w.order)
  BY <1>2 DEF Ahead
<1>6. x = [visited |-> w.visited, stack |-> Front(w.stack), order |-> Append(w.order, node), cyclic |-> w.cyclic]
  <2> DEFINE f == Front(w.stack)
             o == Append(w.order, node)
  <2>1. x = [w EXCEPT !.stack = f, !.order = o]
    BY DEF Leave
  <2> HIDE DEF f, o, x
  <2>2. x = [visited |-> w.visited, stack |-> f, order |-> o, cyclic |-> w.cyclic]
    BY <1>1, <2>1
  <2> QED BY <2>2 DEF f, o
<1> HIDE DEF node
<1> DEFINE order == Append(w.order, node)
<1>7. /\ order \in Seq(V) /\ Len(order) = Len(w.order) + 1 /\ Len(w.order) \in Nat
      /\ DOMAIN w.order = 1..Len(w.order)
      /\ \A i \in 1..Len(w.order) : order[i] = w.order[i]
      /\ order[Len(w.order) + 1] = node /\ ToSet(order) = ToSet(w.order) \cup {node} /\ IsInjective(order)
  BY <1>1, <1>2, <1>4, AppendFacts
<1>8. x.visited = w.visited /\ x.stack = Front(w.stack) /\ x.order = order /\ x.cyclic = FALSE
  BY <1>6
<1>9. x \in VisitStates(V)
  BY <1>1, <1>3, <1>6, <1>7 DEF VisitStates
<1> HIDE DEF order, x
<1>10. Chain(E, Front(w.stack))
  <2>1. \A n \in Nat : \A j \in 1..((n - 1) - 1) : j \in 1..(n - 1) /\ j + 1 \in 1..(n - 1)
    OBVIOUS
  <2>2. Len(w.stack) \in Nat
    BY <1>1, LenProperties
  <2> QED BY <1>2, <1>3, <2>1, <2>2 DEF Chain
<1>11. ASSUME NEW i \in 1..Len(order), NEW k \in OutOf(E, order[i])
       PROVE  \E j \in 1..Len(order) : j < i /\ order[j] = k
  <2>1. \A n \in Nat : \A j \in 1..n : j \in 1..(n + 1) /\ j < n + 1
    OBVIOUS
  <2>2. \A n \in Nat : \A j \in 1..(n + 1) : j = n + 1 \/ j \in 1..n
    OBVIOUS
  <2>3. CASE i = Len(w.order) + 1
    <3>1. PICK j \in 1..Len(w.order) : w.order[j] = k
      BY <1>5, <1>7, <1>11, <2>3 DEF ToSet
    <3> QED BY <1>7, <2>1, <2>3, <3>1
  <2>4. CASE i \in 1..Len(w.order)
    <3>1. PICK j \in 1..Len(w.order) : j < i /\ w.order[j] = k
      BY <1>2, <1>7, <1>11, <2>4 DEF ChildrenBefore
    <3> QED BY <1>7, <2>1, <3>1
  <2> QED BY <1>7, <2>2, <2>3, <2>4
<1>12. ToSet(Front(w.stack)) \cap ToSet(order) = {} /\ w.visited = ToSet(Front(w.stack)) \cup ToSet(order)
  BY <1>2, <1>3, <1>4, <1>7
<1>13. VisitInv(E, x)
  <2>1. ChildrenBefore(E, x.order) /\ Chain(E, x.stack) /\ IsInjective(x.order) /\ IsInjective(x.stack)
    <3>1. ChildrenBefore(E, order)
      BY <1>11 DEF ChildrenBefore
    <3> QED BY <1>3, <1>7, <1>8, <1>10, <3>1
  <2>2. ~ x.cyclic /\ ToSet(x.stack) \cap ToSet(x.order) = {} /\ x.visited = ToSet(x.stack) \cup ToSet(x.order)
    BY <1>8, <1>12
  <2> QED BY <2>1, <2>2 DEF VisitInv
<1> QED BY <1>4, <1>7, <1>8, <1>9, <1>13 DEF x, node

\* dfs is called for a vertex not visited, or finds a neighbor on its own stack.
LEMMA DescendInv ==
  ASSUME NEW V \in SUBSET Int, IsFiniteSet(V), NEW E \in SUBSET (V \X V), NEW w \in VisitStates(V), VisitInv(E, w),
         ~ w.cyclic, NEW k \in Ahead(V, E, w)
  PROVE  /\ k \in w.visited => Close(w, k) \in VisitStates(V) /\ VisitInv(E, Close(w, k)) /\ Close(w, k).cyclic
         /\ k \notin w.visited => Enter(w, k) \in VisitStates(V) /\ VisitInv(E, Enter(w, k))
<1> DEFINE stack == Append(w.stack, k)
<1>1. /\ w.stack \in Seq(V) /\ w.order \in Seq(V) /\ w.visited \in SUBSET V
      /\ w = [visited |-> w.visited, stack |-> w.stack, order |-> w.order, cyclic |-> w.cyclic]
  BY DEF VisitStates
<1>2. /\ Chain(E, w.stack) /\ IsInjective(w.order) /\ ChildrenBefore(E, w.order) /\ IsInjective(w.stack)
      /\ ToSet(w.stack) \cap ToSet(w.order) = {} /\ w.visited = ToSet(w.stack) \cup ToSet(w.order)
  BY DEF VisitInv
<1>3. /\ k \in V
      /\ w.stack # << >> => <<Last(w.stack), k>> \in E /\ (k \in w.visited => k \in ToSet(w.stack))
      /\ w.stack = << >> => k \notin w.visited
  BY AheadFacts
<1>4. /\ stack \in Seq(V) /\ Len(stack) = Len(w.stack) + 1 /\ Len(w.stack) \in Nat
      /\ DOMAIN w.stack = 1..Len(w.stack)
      /\ \A i \in 1..Len(w.stack) : stack[i] = w.stack[i]
      /\ Last(stack) = k /\ ToSet(stack) = ToSet(w.stack) \cup {k}
      /\ k \notin ToSet(w.stack) => IsInjective(stack)
  BY <1>1, <1>2, <1>3, AppendFacts
<1>5. Chain(E, stack)
  BY <1>1, <1>2, <1>3, ChainGoesOn
<1> HIDE DEF stack
<1>6. ASSUME k \in w.visited
      PROVE  Close(w, k) \in VisitStates(V) /\ VisitInv(E, Close(w, k)) /\ Close(w, k).cyclic
  <2> DEFINE x == Close(w, k)
  <2>1. x = [w EXCEPT !.stack = stack, !.cyclic = TRUE]
    BY DEF Close, stack
  <2> HIDE DEF x
  <2>2. x = [visited |-> w.visited, stack |-> stack, order |-> w.order, cyclic |-> TRUE]
    BY <1>1, <2>1
  <2>3. x \in VisitStates(V)
    BY <1>1, <1>4, <2>2 DEF VisitStates
  <2>4. x.stack = stack /\ x.order = w.order /\ x.cyclic = TRUE
    BY <2>2
  <2>5. PICK i \in 1..Len(w.stack) : w.stack[i] = k
    <3>1. k \in ToSet(w.stack)
      BY <1>3, <1>6
    <3> QED BY <1>4, <3>1 DEF ToSet
  <2>6. i \in 1..(Len(stack) - 1) /\ stack[i] = Last(stack) /\ Len(stack) > 1
    <3>1. \A n \in Nat : \A j \in 1..n : j \in 1..((n + 1) - 1) /\ n + 1 > 1
      OBVIOUS
    <3> QED BY <1>4, <2>5, <3>1
  <2>7. VisitInv(E, x)
    BY <1>2, <1>5, <2>4, <2>6 DEF VisitInv
  <2> QED BY <2>3, <2>4, <2>7 DEF x
<1>7. ASSUME k \notin w.visited
      PROVE  Enter(w, k) \in VisitStates(V) /\ VisitInv(E, Enter(w, k))
  <2> DEFINE x == Enter(w, k)
             visited == w.visited \cup {k}
  <2>1. x = [w EXCEPT !.stack = stack, !.visited = visited]
    BY DEF Enter, stack
  <2>2. visited \in SUBSET V
    BY <1>1, <1>3
  <2>3. IsInjective(stack) /\ ToSet(stack) \cap ToSet(w.order) = {} /\ visited = ToSet(stack) \cup ToSet(w.order)
    BY <1>2, <1>4, <1>7
  <2> HIDE DEF x, visited
  <2>4. x = [visited |-> visited, stack |-> stack, order |-> w.order, cyclic |-> w.cyclic]
    BY <1>1, <2>1
  <2>5. x \in VisitStates(V)
    BY <1>1, <1>4, <2>2, <2>4 DEF VisitStates
  <2>6. x.visited = visited /\ x.stack = stack /\ x.order = w.order /\ x.cyclic = w.cyclic
    BY <2>4
  <2>7. VisitInv(E, x)
    BY <1>2, <1>5, <2>3, <2>6 DEF VisitInv
  <2> QED BY <2>5, <2>6, <2>7 DEF x, visited
<1> QED BY <1>6, <1>7

\* A visit ends with a cycle, or with all vertices left: with every step that finds
\* no cycle one vertex more is visited or left.
LEMMA VisitEnds ==
  ASSUME NEW V \in SUBSET Int, IsFiniteSet(V), NEW E \in SUBSET (V \X V)
  PROVE  LET w == Visited(V, E)
         IN  w \in VisitStates(V) /\ VisitInv(E, w) /\ (w.cyclic \/ ToSet(w.order) = V)
<1> DEFINE S == {w \in VisitStates(V) : VisitInv(E, w)}
           done == {w \in S : w.cyclic \/ (w.stack = << >> /\ Ahead(V, E, w) = {})}
           m == [w \in S |-> Cardinality(w.visited) + Cardinality(ToSet(w.order))]
           W == VisitWalk(V, E)
           b == 2 * Cardinality(V)
<1>0. Cardinality(V) \in Nat /\ b \in Nat
  BY FS_CardinalityType
<1>1. VisitStart \in S
  <2>1. << >> \in Seq(V) /\ Len(<< >>) = 0 /\ IsInjective(<< >>) /\ ToSet(<< >>) = {}
    BY DEF IsInjective, ToSet
  <2>2. VisitStart \in VisitStates(V)
    BY <2>1 DEF VisitStart, VisitStates
  <2>3. VisitInv(E, VisitStart)
    BY <2>1 DEF VisitStart, VisitInv, Chain, ChildrenBefore
  <2> QED BY <2>2, <2>3
<1>2. ASSUME NEW w \in S
      PROVE  /\ w.visited \in SUBSET V /\ ToSet(w.order) \in SUBSET V
             /\ IsFiniteSet(w.visited) /\ IsFiniteSet(ToSet(w.order))
             /\ Cardinality(w.visited) \in Nat /\ Cardinality(ToSet(w.order)) \in Nat
             /\ Cardinality(w.visited) <= Cardinality(V) /\ Cardinality(ToSet(w.order)) <= Cardinality(V)
             /\ w.visited # V => Cardinality(w.visited) # Cardinality(V)
             /\ ToSet(w.order) # V => Cardinality(ToSet(w.order)) # Cardinality(V)
  <2>1. w.visited \in SUBSET V /\ w.order \in Seq(V)
    BY DEF VisitStates
  <2>2. ToSet(w.order) \in SUBSET V
    BY <2>1, LenProperties DEF ToSet
  <2> HIDE DEF S
  <2> QED BY <2>1, <2>2, FS_Subset, FS_CardinalityType
<1>3. ASSUME NEW w \in S, w \notin done
      PROVE  /\ VisitStep(V, E, w) \in S
             /\ VisitStep(V, E, w) \notin done =>
                  \/ /\ VisitStep(V, E, w).visited = w.visited
                     /\ \E k : k \notin ToSet(w.order) /\ ToSet(VisitStep(V, E, w).order) = ToSet(w.order) \cup {k}
                  \/ /\ VisitStep(V, E, w).order = w.order
                     /\ \E k : k \notin w.visited /\ VisitStep(V, E, w).visited = w.visited \cup {k}
             /\ ToSet(w.order) # V
  <2> DEFINE A == Ahead(V, E, w)
             k == Least(A)
             x == VisitStep(V, E, w)
  <2>1. w \in VisitStates(V) /\ VisitInv(E, w) /\ ~ w.cyclic /\ (w.stack # << >> \/ A # {})
    BY <1>3
  <2>2. /\ w.stack = << >> => A = V \ w.visited
        /\ A # {} => k \in A
    <3> HIDE DEF S
    <3>1. w.stack = << >> => Ahead(V, E, w) = V \ w.visited
      BY DEF Ahead
    <3>2. Ahead(V, E, w) # {} => Least(Ahead(V, E, w)) \in Ahead(V, E, w)
      BY <2>1, AheadFacts
    <3> QED BY <3>1, <3>2
  <2>3. /\ w.visited = ToSet(w.stack) \cup ToSet(w.order) /\ ToSet(w.stack) \cap ToSet(w.order) = {}
        /\ w.stack \in Seq(V) /\ IsInjective(w.stack) /\ w.visited \in SUBSET V
    BY <2>1 DEF VisitInv, VisitStates
  <2>4. ToSet(w.order) # V
    <3>1. CASE w.stack = << >>
      <4>1. PICK y \in V : y \notin w.visited
        BY <2>1, <2>2, <3>1
      <4> QED BY <2>3, <4>1
    <3>2. CASE w.stack # << >>
      <4>1. Last(w.stack) \in ToSet(w.stack)
        BY <2>3, <3>2, FrontFacts
      <4> QED BY <2>3, <4>1
    <3> QED BY <3>1, <3>2
  <2>5. CASE A = {}
    <3>1. x = Leave(w)
      BY <2>1, <2>5 DEF VisitStep
    <3>2. /\ Leave(w) \in S /\ Leave(w).visited = w.visited
          /\ ToSet(Leave(w).order) = ToSet(w.order) \cup {Last(w.stack)} /\ Last(w.stack) \notin ToSet(w.order)
      BY <2>1, <2>5, LeaveInv
    <3> QED BY <2>4, <3>1, <3>2
  <2>6. CASE A # {} /\ k \in w.visited
    <3>1. x = Close(w, k)
      BY <2>1, <2>6 DEF VisitStep
    <3>2. Close(w, k) \in S /\ Close(w, k).cyclic
      <4>1. k \in Ahead(V, E, w)
        BY <2>2, <2>6
      <4> HIDE DEF k, A, x
      <4>2. Close(w, k) \in VisitStates(V) /\ VisitInv(E, Close(w, k)) /\ Close(w, k).cyclic
        BY <2>1, <2>6, <4>1, DescendInv
      <4> QED BY <4>2
    <3> QED BY <2>4, <3>1, <3>2
  <2>7. CASE A # {} /\ k \notin w.visited
    <3>1. x = Enter(w, k)
      BY <2>1, <2>7 DEF VisitStep
    <3>2. Enter(w, k) \in S /\ Enter(w, k).visited = w.visited \cup {k} /\ Enter(w, k).order = w.order
      <4>1. k \in Ahead(V, E, w)
        BY <2>2, <2>7
      <4> HIDE DEF k, A, x, S
      <4>2. Enter(w, k) \in VisitStates(V) /\ VisitInv(E, Enter(w, k))
        BY <2>1, <2>7, <4>1, DescendInv
      <4>3. Enter(w, k).visited = w.visited \cup {k} /\ Enter(w, k).order = w.order
        BY <2>1 DEF Enter, VisitStates
      <4> QED BY <4>2, <4>3 DEF S
    <3> QED BY <2>4, <2>7, <3>1, <3>2
  <2> QED BY <2>5, <2>6, <2>7
<1>4. ASSUME NEW w \in S, w \in done PROVE VisitStep(V, E, w) = w
  BY <1>4 DEF VisitStep
<1>5. m \in [S -> Nat]
  <2>1. \A w \in S : Cardinality(w.visited) + Cardinality(ToSet(w.order)) \in Nat
    BY <1>2
  <2> HIDE DEF S
  <2> QED BY <2>1
<1>6. ASSUME NEW w \in S, w \notin done PROVE m[w] < b
  <2>1. ToSet(w.order) # V
    BY <1>3, <1>6
  <2> HIDE DEF S, done
  <2>2. m[w] = Cardinality(w.visited) + Cardinality(ToSet(w.order))
    OBVIOUS
  <2>3. /\ Cardinality(w.visited) <= Cardinality(V) /\ Cardinality(ToSet(w.order)) <= Cardinality(V)
        /\ Cardinality(ToSet(w.order)) # Cardinality(V)
        /\ Cardinality(w.visited) \in Nat /\ Cardinality(ToSet(w.order)) \in Nat
    BY <1>2, <2>1
  <2> HIDE DEF m
  <2> QED BY <1>0, <2>2, <2>3
<1>7. ASSUME NEW w \in S, w \notin done, VisitStep(V, E, w) \notin done
      PROVE  m[VisitStep(V, E, w)] = m[w] + 1
  <2> DEFINE x == VisitStep(V, E, w)
  <2>1. x \in S
    BY <1>3, <1>7
  <2>2. /\ m[w] = Cardinality(w.visited) + Cardinality(ToSet(w.order))
        /\ m[x] = Cardinality(x.visited) + Cardinality(ToSet(x.order))
    <3> HIDE DEF x, S
    <3> QED BY <2>1
  <2>3. \/ x.visited = w.visited /\ \E k : k \notin ToSet(w.order) /\ ToSet(x.order) = ToSet(w.order) \cup {k}
        \/ x.order = w.order /\ \E k : k \notin w.visited /\ x.visited = w.visited \cup {k}
    BY <1>3, <1>7
  <2> HIDE DEF x, S, m
  <2>4. Cardinality(w.visited) \in Nat /\ Cardinality(ToSet(w.order)) \in Nat
    BY <1>2
  <2>5. ASSUME x.visited = w.visited, \E k : k \notin ToSet(w.order) /\ ToSet(x.order) = ToSet(w.order) \cup {k}
        PROVE  m[x] = m[w] + 1
    <3>1. Cardinality(ToSet(x.order)) = Cardinality(ToSet(w.order)) + 1
      BY <1>2, <2>5, FS_AddElement
    <3>2. m[x] = Cardinality(w.visited) + (Cardinality(ToSet(w.order)) + 1)
      BY <2>2, <2>5, <3>1
    <3> QED BY <2>2, <2>4, <3>2
  <2>6. ASSUME x.order = w.order, \E k : k \notin w.visited /\ x.visited = w.visited \cup {k}
        PROVE  m[x] = m[w] + 1
    <3>1. Cardinality(x.visited) = Cardinality(w.visited) + 1
      BY <1>2, <2>6, FS_AddElement
    <3>2. m[x] = (Cardinality(w.visited) + 1) + Cardinality(ToSet(w.order))
      BY <2>2, <2>6, <3>1
    <3> QED BY <2>2, <2>4, <3>2
  <2>7. m[x] = m[w] + 1
    BY <2>3, <2>5, <2>6
  <2> QED BY <2>7 DEF x
<1>8. /\ W[0] = VisitStart /\ \A n \in Nat : W[n] \in S
      /\ \A n \in Nat : W[n + 1] = VisitStep(V, E, W[n])
  <2>1. \A w \in S : VisitStep(V, E, w) \in S
    BY <1>3, <1>4
  <2> HIDE DEF S
  <2> QED BY <1>1, <2>1, VisitWalkSteps
<1> HIDE DEF W, m
<1>9. W[b] \in done
  <2>1. \A n \in Nat : W[n] \in done => W[n + 1] \in done
    BY <1>4, <1>8
  <2>2. \A n \in Nat : W[n] \notin done /\ W[n + 1] \notin done => m[W[n + 1]] = m[W[n]] + 1
    BY <1>7, <1>8
  <2> HIDE DEF S, done, b
  <2> QED BY <1>0, <1>5, <1>6, <1>8, <2>1, <2>2, WalkEnds
<1> DEFINE w == W[b]
<1>10. Visited(V, E) = w
  BY DEF Visited, W
<1>11. w \in VisitStates(V) /\ VisitInv(E, w) /\ (w.cyclic \/ (w.stack = << >> /\ Ahead(V, E, w) = {}))
  BY <1>9
<1> HIDE DEF w
<1>12. ~ w.cyclic => ToSet(w.order) = V
  <2> SUFFICES ASSUME ~ w.cyclic PROVE ToSet(w.order) = V
    OBVIOUS
  <2>1. V \ w.visited = {} /\ w.visited \in SUBSET V /\ w.visited = ToSet(w.stack) \cup ToSet(w.order)
    BY <1>11, AheadFacts DEF VisitInv, VisitStates
  <2>2. ToSet(w.stack) = {}
    BY <1>11 DEF ToSet
  <2> QED BY <2>1, <2>2
<1> QED BY <1>10, <1>11, <1>12

\* As many elements are in a list without repetition as it is long.
LEMMA ListLength ==
  ASSUME NEW X, NEW s \in Seq(X), IsInjective(s)
  PROVE  Len(s) = Cardinality(ToSet(s))
<1> DEFINE n == Len(s)
<1>1. n \in Nat /\ DOMAIN s = 1..n /\ s \in [1..n -> X]
  BY LenProperties
<1> HIDE DEF n
<1>2. s \in [1..n -> ToSet(s)]
  BY <1>1 DEF ToSet
<1>3. s \in Injection(1..n, ToSet(s)) /\ s \in Surjection(1..n, ToSet(s))
  BY <1>1, <1>2 DEF Injection, Surjection, IsInjective, ToSet
<1>4. s \in Bijection(1..n, ToSet(s))
  BY <1>3 DEF Bijection
<1>5. ExistsBijection(1..n, ToSet(s))
  BY <1>4 DEF ExistsBijection
<1>6. Cardinality(ToSet(s)) = n
  BY <1>1, <1>5, FS_CountingElements
<1> QED BY <1>6 DEF n

\* The cycle that a visit ends with is one.
LEMMA CycleIsClosed ==
  ASSUME NEW V, NEW E, NEW w \in VisitStates(V), VisitInv(E, w), w.cyclic, NEW N, V \subseteq N
  PROVE  ~ IsAcyclic(N, E)
<1> DEFINE s == w.stack
           n == Len(s)
<1>1. /\ s \in Seq(V) /\ n \in Nat /\ DOMAIN s = 1..n
      /\ \A j \in 1..n : s[j] \in V
  BY LenProperties, ElementOfSeq DEF VisitStates
<1>2. PICK i \in 1..(n - 1) : s[i] = s[n]
  BY DEF VisitInv, Last
<1>3. \A j \in 1..(n - 1) : <<s[j], s[j + 1]>> \in E
  BY DEF VisitInv, Chain
<1> HIDE DEF s, n
<1> DEFINE T == {s[j] : j \in (i + 1)..n}
<1>4. i \in Nat /\ i + 1 <= n /\ i + 1 \in (i + 1)..n /\ n \in (i + 1)..n /\ \A j \in (i + 1)..n : j \in 1..n
  BY <1>1, <1>2
<1>5. T \in SUBSET N /\ T # {}
  BY <1>1, <1>4
<1>6. ASSUME NEW v \in T PROVE \E u \in T : <<u, v>> \in E
  <2>1. PICK j \in (i + 1)..n : v = s[j]
    OBVIOUS
  <2>2. j - 1 \in 1..(n - 1) /\ (j - 1) + 1 = j
    BY <1>1, <1>2, <1>4
  <2>3. <<s[j - 1], v>> \in E
    BY <1>3, <2>1, <2>2
  <2>4. s[j - 1] \in T
    <3>1. CASE j = i + 1
      <4>1. s[j - 1] = s[n]
        BY <1>2, <1>4, <3>1
      <4> QED BY <1>4, <4>1
    <3>2. CASE j # i + 1
      <4>1. j - 1 \in (i + 1)..n
        BY <1>1, <1>4, <3>2
      <4> QED BY <4>1
    <3> QED BY <3>1, <3>2
  <2> QED BY <2>3, <2>4
<1> HIDE DEF T
<1> QED BY <1>5, <1>6 DEF IsAcyclic

Reversed(E) == {<<e[2], e[1]>> : e \in E}

\* A list with the children first: the last of a set of vertices has no edge into
\* it from the set, and the first none out of it.
LEMMA ChildrenFirstFacts ==
  ASSUME NEW V, IsFiniteSet(V), NEW E \in SUBSET (V \X V),
         NEW s \in Seq(V), IsInjective(s), ToSet(s) = V, ChildrenBefore(E, s), NEW N
  PROVE  IsAcyclic(N, E) /\ IsAcyclic(N, Reversed(E)) /\ IsChildrenFirst(V, E, s)
<1> DEFINE n == Len(s)
<1>1. n \in Nat /\ DOMAIN s = 1..n /\ \A x \in V : \E i \in 1..n : s[i] = x
  BY LenProperties DEF ToSet
<1>2. ASSUME NEW i \in 1..n, NEW j \in 1..n, <<s[i], s[j]>> \in E PROVE j < i
  <2>1. s[j] \in OutOf(E, s[i])
    BY <1>2 DEF OutOf
  <2>2. PICK k \in 1..n : k < i /\ s[k] = s[j]
    BY <2>1 DEF ChildrenBefore
  <2>3. k = j
    BY <1>1, <2>2 DEF IsInjective
  <2> QED BY <2>2, <2>3
<1>3. \A a, b : <<a, b>> \in E => a \in V /\ b \in V
  OBVIOUS
<1>4. \A a, b : <<a, b>> \in Reversed(E) <=> <<b, a>> \in E
  BY DEF Reversed
<1> HIDE DEF n
<1>5. ASSUME NEW S \in SUBSET N, S # {}
      PROVE  /\ \E v \in S : \A u \in S : <<u, v>> \notin E
             /\ \E v \in S : \A u \in S : <<u, v>> \notin Reversed(E)
  <2> DEFINE I == {i \in 1..n : s[i] \in S}
             J == {j \in 0..n : n - j \in I}
  <2>1. CASE ~ S \subseteq V
    BY <1>3, <1>4, <2>1
  <2>2. CASE S \subseteq V
    <3>1. I # {} /\ I \in SUBSET Int /\ I \subseteq 1..n
      BY <1>1, <1>5, <2>2
    <3>2. J # {} /\ J \in SUBSET Int /\ J \subseteq 0..n
      <4>1. PICK i \in I : TRUE
        BY <3>1
      <4>2. n - i \in 0..n /\ n - (n - i) = i
        BY <1>1
      <4> QED BY <4>1, <4>2
    <3>3. IsFiniteSet(I) /\ IsFiniteSet(J)
      <4> HIDE DEF I, J
      <4>1. IsFiniteSet(1..n) /\ IsFiniteSet(0..n)
        BY <1>1, FS_Interval
      <4> QED BY <3>1, <3>2, <4>1, FS_Subset
    <3>4. Least(I) \in I /\ \A i \in I : Least(I) <= i
      <4> HIDE DEF I
      <4> QED BY <3>1, <3>3, LeastIsLeast
    <3>5. Least(J) \in J /\ \A j \in J : Least(J) <= j
      <4> HIDE DEF J
      <4> QED BY <3>2, <3>3, LeastIsLeast
    <3> DEFINE first == Least(I)
               last  == n - Least(J)
    <3>6. last \in I /\ \A i \in I : i <= last
      <4>1. last \in I /\ Least(J) \in Int
        BY <3>5
      <4>2. ASSUME NEW i \in I PROVE i <= last
        <5>1. n - i \in J
          <6>1. n - i \in 0..n /\ n - (n - i) = i
            BY <1>1
          <6> QED BY <6>1
        <5>2. Least(J) <= n - i
          BY <3>5, <5>1
        <5> HIDE DEF J
        <5> QED BY <1>1, <4>1, <5>2
      <4> QED BY <4>1, <4>2
    <3> HIDE DEF first, last
    <3>7. first \in I /\ \A i \in I : first <= i
      BY <3>4 DEF first
    <3>8. ASSUME NEW u \in S PROVE \E i \in I : s[i] = u
      BY <1>1, <2>2
    <3>9. ASSUME NEW u \in S PROVE <<u, s[last]>> \notin E /\ <<u, s[first]>> \notin Reversed(E)
      <4>1. PICK i \in I : s[i] = u
        BY <3>8
      <4>2. i \in 1..n /\ last \in 1..n /\ first \in 1..n /\ i <= last /\ first <= i
        BY <3>6, <3>7
      <4>3. <<u, s[last]>> \notin E
        BY <1>2, <4>1, <4>2
      <4>4. <<s[first], u>> \notin E
        BY <1>2, <4>1, <4>2
      <4> QED BY <1>4, <4>3, <4>4
    <3>10. s[last] \in S /\ s[first] \in S
      BY <3>6, <3>7
    <3> QED BY <3>9, <3>10
  <2> QED BY <2>1, <2>2
<1>6. IsAcyclic(N, E) /\ IsAcyclic(N, Reversed(E))
  BY <1>5 DEF IsAcyclic
<1>7. n = Cardinality(V)
  BY ListLength DEF n
<1>8. {s[i] : i \in 1..n} = V
  BY <1>1 DEF ToSet
<1> QED BY <1>2, <1>6, <1>7, <1>8 DEF IsChildrenFirst, n

\* On a graph without a cycle, hasCycle reports none and TopologicalSort lists the
\* children first.
LEMMA SortSorts ==
  ASSUME NEW V \in SUBSET Int, IsFiniteSet(V), NEW E \in SUBSET (V \X V), NEW N, V \subseteq N, IsAcyclic(N, E)
  PROVE  /\ ~ HasCycle(V, E) /\ IsChildrenFirst(V, E, TopologicalSort(V, E))
         /\ \A M : IsAcyclic(M, E) /\ IsAcyclic(M, Reversed(E))
<1> DEFINE w == Visited(V, E)
<1>1. w \in VisitStates(V) /\ VisitInv(E, w) /\ (w.cyclic \/ ToSet(w.order) = V)
  BY VisitEnds
<1> HIDE DEF w
<1>2. ~ w.cyclic
  BY <1>1, CycleIsClosed
<1>3. w.order \in Seq(V) /\ IsInjective(w.order) /\ ToSet(w.order) = V /\ ChildrenBefore(E, w.order)
  BY <1>1, <1>2 DEF VisitStates, VisitInv
<1>4. \A M : IsAcyclic(M, E) /\ IsAcyclic(M, Reversed(E)) /\ IsChildrenFirst(V, E, w.order)
  BY <1>3, ChildrenFirstFacts
<1> QED BY <1>2, <1>4 DEF HasCycle, TopologicalSort, w

\* On a graph with a cycle, hasCycle finds one and returns it, closed.
LEMMA CycleIsFound ==
  ASSUME NEW V \in SUBSET Int, IsFiniteSet(V), NEW E \in SUBSET (V \X V), NEW N, ~ IsAcyclic(N, E)
  PROVE  LET c == FoundCycle(V, E)
         IN  HasCycle(V, E) /\ Len(c) > 1 /\ c[1] = c[Len(c)] /\ Chain(E, c)
<1> DEFINE w == Visited(V, E)
           s == w.stack
           n == Len(s)
           c == FoundCycle(V, E)
<1>1. w \in VisitStates(V) /\ VisitInv(E, w) /\ (w.cyclic \/ ToSet(w.order) = V)
  BY VisitEnds
<1> HIDE DEF w
<1>2. w.cyclic
  <2>1. ~ w.cyclic => IsAcyclic(N, E)
    <3>1. ASSUME ~ w.cyclic PROVE IsAcyclic(N, E)
      <4>1. w.order \in Seq(V) /\ IsInjective(w.order) /\ ToSet(w.order) = V /\ ChildrenBefore(E, w.order)
        BY <1>1, <3>1 DEF VisitStates, VisitInv
      <4> QED BY <4>1, ChildrenFirstFacts
    <3> QED BY <3>1
  <2> QED BY <1>1, <2>1 DEF VisitStates
<1>3. /\ s \in Seq(V) /\ n \in Nat /\ n > 1 /\ \A j \in 1..n : s[j] \in V
      /\ \A j \in 1..(n - 1) : <<s[j], s[j + 1]>> \in E
  BY <1>1, <1>2, LenProperties, ElementOfSeq DEF VisitStates, VisitInv, Chain
<1>4. \E i \in 1..(n - 1) : s[i] = Last(s)
  BY <1>1, <1>2 DEF VisitInv
<1> DEFINE start == CHOOSE i \in 1..(n - 1) : s[i] = Last(s)
<1>5. start \in 1..(n - 1) /\ s[start] = s[n]
  BY <1>4 DEF Last
<1>6. c = SubSeq(s, start, n)
  BY DEF FoundCycle, w
<1> HIDE DEF start, s, n, c
<1>7. start \in Int /\ n \in Int /\ start <= n /\ \A j \in start..n : j \in 1..n
  BY <1>3, <1>5
<1>8. Len(c) = n - start + 1 /\ \A j \in 1..(n - start + 1) : c[j] = s[start + j - 1]
  <2>1. \A j \in start..n : s[j] \in V
    BY <1>3, <1>7
  <2>2. /\ Len(SubSeq(s, start, n)) = (IF start <= n THEN n - start + 1 ELSE 0)
        /\ \A j \in 1..(n - start + 1) : SubSeq(s, start, n)[j] = s[start + j - 1]
    BY <1>7, <2>1, SubSeqProperties
  <2> QED BY <1>6, <1>7, <2>2
<1>9. Len(c) > 1 /\ c[1] = c[Len(c)]
  <2>1. n - start + 1 > 1 /\ 1 \in 1..(n - start + 1) /\ n - start + 1 \in 1..(n - start + 1)
        /\ start + 1 - 1 = start /\ start + (n - start + 1) - 1 = n
    BY <1>3, <1>5
  <2>2. c[1] = s[start + 1 - 1] /\ c[n - start + 1] = s[start + (n - start + 1) - 1]
    BY <1>8, <2>1
  <2> QED BY <1>5, <1>8, <2>1, <2>2
<1>10. ASSUME NEW j \in 1..(Len(c) - 1) PROVE <<c[j], c[j + 1]>> \in E
  <2>1. /\ j \in 1..(n - start + 1) /\ j + 1 \in 1..(n - start + 1)
        /\ start + j - 1 \in 1..(n - 1) /\ start + (j + 1) - 1 = (start + j - 1) + 1
    BY <1>3, <1>5, <1>8
  <2>2. c[j] = s[start + j - 1] /\ c[j + 1] = s[(start + j - 1) + 1]
    BY <1>8, <2>1
  <2> QED BY <1>3, <2>1, <2>2
<1>11. Chain(E, c)
  BY <1>10 DEF Chain
<1> QED BY <1>2, <1>9, <1>11 DEF HasCycle, w, c

\* What can be reached is reached from before it, and with more edges.
LEMMA ReachesBack ==
  ASSUME NEW N, NEW E, NEW a, NEW b, NEW c, <<a, b>> \in E, Reaches(N, E, b, c)
  PROVE  Reaches(N, E, a, c)
BY DEF Reaches, IsClosed

\* One edge further.
LEMMA ReachesOn ==
  ASSUME NEW N, NEW E, NEW a, NEW b, NEW c, Reaches(N, E, a, b), <<b, c>> \in E
  PROVE  Reaches(N, E, a, c)
BY DEF Reaches, IsClosed

\* More edges reach as much.
LEMMA ReachesMore ==
  ASSUME NEW N, NEW E, NEW F, E \subseteq F, NEW a, NEW b, Reaches(N, E, a, b)
  PROVE  Reaches(N, F, a, b)
BY DEF Reaches, IsClosed

\* In an acyclic graph no edge's target leads back to its source: an edge that
\* AddEdge refuses is part of a cycle. Of the nodes between the two, none leads
\* to one of them, which cannot be the edge's target; so it is not reached at all.
LEMMA NoWayBack ==
  ASSUME NEW N, NEW E \in SUBSET (N \X N), IsAcyclic(N, E), NEW a \in N, NEW b \in N, <<a, b>> \in E
  PROVE  ~ Reaches(N, E, b, a)
<1> SUFFICES ASSUME Reaches(N, E, b, a) PROVE FALSE
  OBVIOUS
<1> DEFINE T == {x \in N : Reaches(N, E, b, x) /\ Reaches(N, E, x, a)}
<1>1. \A x : Reaches(N, E, x, x)
  BY DEF Reaches
<1>2. a \in T /\ b \in T /\ T \in SUBSET N
  BY <1>1
<1>3. PICK v \in T : \A w \in T : <<w, v>> \notin E
  BY <1>2 DEF IsAcyclic
<1>4. v # b
  BY <1>2, <1>3
<1>5. ASSUME NEW w \in N, <<w, v>> \in E PROVE ~ Reaches(N, E, b, w)
  <2>1. Reaches(N, E, v, a)
    OBVIOUS
  <2>2. Reaches(N, E, w, a)
    BY <1>5, <2>1, ReachesBack
  <2> QED BY <1>3, <1>5, <2>2
<1> DEFINE U == {x \in N : Reaches(N, E, b, x)} \ {v}
<1>6. ASSUME NEW e \in E, e[1] \in U PROVE e[2] \in U
  <2>1. e = <<e[1], e[2]>> /\ e[1] \in N /\ e[2] \in N
    OBVIOUS
  <2>2. Reaches(N, E, b, e[1])
    BY <1>6
  <2> QED BY <1>5, <2>1, <2>2, ReachesOn
<1>7. U \in SUBSET N /\ b \in U /\ IsClosed(E, U) /\ v \notin U
  BY <1>1, <1>4, <1>6 DEF IsClosed
<1>8. Reaches(N, E, b, v)
  OBVIOUS
<1> HIDE DEF U
<1> QED BY <1>7, <1>8 DEF Reaches

-----------------------------------------------------------------------------
\* The states of Reverse: what has been reversed is in the new graph.
ReverseStates(V, E) ==
  {w \in [left : SUBSET E, edges : SUBSET (V \X V)] : w.edges = Reversed(E \ w.left)}

\* Of states S that have a first one and that a step leads from one to another, Reverse
\* gives states of S.
LEMMA ReverseWalkSteps ==
  ASSUME NEW S, NEW V, NEW E, ReverseStart(E) \in S, \A w \in S : ReverseStep(V, w) \in S
  PROVE  LET w == ReverseWalk(V, E)
         IN /\ w[0] = ReverseStart(E) /\ \A n \in Nat : w[n] \in S
            /\ \A n \in Nat : w[n + 1] = ReverseStep(V, w[n])
<1> DEFINE W == ReverseWalk(V, E)
           g == [w \in S |-> ReverseStep(V, w)]
<1>0. g \in [S -> S]
  OBVIOUS
<1> HIDE DEF g
<1>1. PICK f \in [Nat -> S] : f[0] = ReverseStart(E) /\ \A n \in Nat : f[n + 1] = g[f[n]]
  BY <1>0, StepsExist
<1>2. ASSUME NEW n \in Nat PROVE f[n] = IF n = 0 THEN ReverseStart(E) ELSE ReverseStep(V, f[n - 1])
  <2>1. CASE n # 0
    <3>1. n - 1 \in Nat /\ (n - 1) + 1 = n
      BY <2>1
    <3>2. f[(n - 1) + 1] = g[f[n - 1]] /\ f[n - 1] \in S
      BY <1>1, <3>1
    <3> QED BY <3>1, <3>2, <2>1 DEF g
  <2> QED BY <1>1, <2>1
<1>3. f = [n \in Nat |-> IF n = 0 THEN ReverseStart(E) ELSE ReverseStep(V, f[n - 1])]
  BY <1>1, <1>2
<1>4. W = [n \in Nat |-> IF n = 0 THEN ReverseStart(E) ELSE ReverseStep(V, W[n - 1])]
  BY <1>3 DEF ReverseWalk
<1> HIDE DEF W
<1>5. W[0] = ReverseStart(E) /\ \A n \in Nat : W[n + 1] = ReverseStep(V, W[n])
  <2>1. \A n \in Nat : n + 1 \in Nat /\ n + 1 # 0 /\ (n + 1) - 1 = n
    OBVIOUS
  <2> QED BY <1>4, <2>1
<1> DEFINE T == {n \in Nat : W[n] \in S}
<1>6. 0 \in T /\ \A n \in Nat : n \in T => n + 1 \in T
  BY <1>0, <1>5
<1>7. Nat \subseteq T
  <2> HIDE DEF T
  <2> QED BY <1>6, NatSets
<1> QED BY <1>5, <1>7 DEF W

\* Reverse of a graph without a cycle is never refused an edge: as the reversed
\* graph has none either, no edge of it closes one.
LEMMA ReverseReverses ==
  ASSUME NEW V \in SUBSET Int, IsFiniteSet(V), NEW E \in SUBSET (V \X V), IsAcyclic(V, E), IsAcyclic(V, Reversed(E))
  PROVE  ReverseEdges(V, E) = Reversed(E)
<1> DEFINE S == ReverseStates(V, E)
           done == {w \in S : w.left = {}}
           m == [w \in S |-> Cardinality(E \ w.left)]
           W == ReverseWalk(V, E)
           b == Cardinality(E)
<1>0. IsFiniteSet(E) /\ b \in Nat
  <2>1. IsFiniteSet(V \X V)
    BY FS_Product
  <2>2. IsFiniteSet(E)
    BY <2>1, FS_Subset
  <2> QED BY <2>2, FS_CardinalityType
<1>1. ReverseStart(E) \in S
  <2>1. Reversed(E \ E) = {}
    BY DEF Reversed
  <2> QED BY <2>1 DEF ReverseStates, ReverseStart
<1>2. ASSUME NEW w \in S, w \notin done
      PROVE  /\ ReverseStep(V, w) \in S
             /\ \E e \in w.left : ReverseStep(V, w).left = w.left \ {e}
  <2> DEFINE e == CHOOSE e \in w.left : TRUE
             x == ReverseStep(V, w)
             R == w.edges \cup {<<e[2], e[1]>>}
  <2>1. w.left \in SUBSET E /\ w.edges \in SUBSET (V \X V) /\ w.edges = Reversed(E \ w.left) /\ w.left # {}
    BY <1>2 DEF ReverseStates
  <2>2. e \in w.left
    BY <2>1
  <2>3. x = [left |-> w.left \ {e}, edges |-> AddReversed(V, w.edges, e)]
    BY <2>1 DEF ReverseStep
  <2> HIDE DEF e, x
  <2>4. e \in E /\ e = <<e[1], e[2]>> /\ e[1] \in V /\ e[2] \in V
    BY <2>1, <2>2
  <2>5. R = Reversed(E \ (w.left \ {e}))
    <3>1. E \ (w.left \ {e}) = (E \ w.left) \cup {e}
      BY <2>2, <2>4
    <3>2. \A A, y : Reversed(A \cup {y}) = Reversed(A) \cup {<<y[2], y[1]>>}
      BY DEF Reversed
    <3> QED BY <2>1, <3>1, <3>2
  <2>6. R \in SUBSET (V \X V) /\ R \subseteq Reversed(E) /\ <<e[2], e[1]>> \in R
    <3>1. R \in SUBSET (V \X V)
      BY <2>1, <2>4
    <3>2. R \subseteq Reversed(E)
      BY <2>5 DEF Reversed
    <3> QED BY <3>1, <3>2
  <2>7. e[1] # e[2]
    <3> SUFFICES ASSUME e[1] = e[2] PROVE FALSE
      OBVIOUS
    <3>1. {e[1]} \in SUBSET V /\ {e[1]} # {} /\ <<e[1], e[1]>> \in E
      BY <2>4
    <3> QED BY <3>1 DEF IsAcyclic
  <2> HIDE DEF R
  <2>8. ~ FindPath(V, R, e[1], e[2])
    <3>1. IsAcyclic(V, R)
      BY <2>6, SubgraphAcyclic
    <3>2. ~ Reaches(V, R, e[1], e[2])
      BY <2>4, <2>6, <3>1, NoWayBack
    <3> QED BY <2>4, <2>6, <2>7, <3>2, PathFound
  <2>9. AddReversed(V, w.edges, e) = R
    BY <2>7, <2>8 DEF AddReversed, R
  <2>10. x = [left |-> w.left \ {e}, edges |-> R] /\ w.left \ {e} \in SUBSET E
    BY <2>1, <2>3, <2>9
  <2>11. x \in S
    BY <2>5, <2>6, <2>10 DEF ReverseStates
  <2> QED BY <2>2, <2>10, <2>11 DEF x
<1>3. ASSUME NEW w \in S, w \in done PROVE ReverseStep(V, w) = w
  BY <1>3 DEF ReverseStep
<1>4. ASSUME NEW w \in S
      PROVE  /\ w.left \in SUBSET E /\ IsFiniteSet(E \ w.left) /\ Cardinality(E \ w.left) \in Nat
             /\ Cardinality(E \ w.left) <= b /\ (w.left # {} => Cardinality(E \ w.left) # b)
  <2>1. w.left \in SUBSET E
    BY DEF ReverseStates
  <2> DEFINE D == E \ w.left
  <2>2. D \in SUBSET E /\ (w.left # {} => D # E)
    BY <2>1
  <2> HIDE DEF D
  <2>3. IsFiniteSet(D) /\ Cardinality(D) \in Nat /\ Cardinality(D) <= b /\ (w.left # {} => Cardinality(D) # b)
    BY <1>0, <2>2, FS_Subset, FS_CardinalityType
  <2> QED BY <2>1, <2>3 DEF D
<1>5. m \in [S -> Nat]
  BY <1>4
<1>6. ASSUME NEW w \in S, w \notin done PROVE m[w] < b
  <2>1. w.left # {} /\ m[w] = Cardinality(E \ w.left)
    BY <1>6
  <2>2. /\ Cardinality(E \ w.left) \in Nat /\ Cardinality(E \ w.left) <= Cardinality(E)
        /\ Cardinality(E \ w.left) # Cardinality(E) /\ Cardinality(E) \in Nat
    BY <1>0, <1>4, <2>1
  <2> QED BY <2>1, <2>2
<1>7. ASSUME NEW w \in S, w \notin done, ReverseStep(V, w) \notin done
      PROVE  m[ReverseStep(V, w)] = m[w] + 1
  <2> DEFINE x == ReverseStep(V, w)
  <2>1. x \in S
    BY <1>2, <1>7
  <2>2. PICK e \in w.left : x.left = w.left \ {e}
    BY <1>2, <1>7
  <2> HIDE DEF x
  <2>3. E \ x.left = (E \ w.left) \cup {e} /\ e \notin E \ w.left
    BY <1>4, <2>2
  <2>4. Cardinality((E \ w.left) \cup {e}) = Cardinality(E \ w.left) + 1
    BY <1>4, <2>3, FS_AddElement
  <2>5. m[x] = Cardinality(E \ x.left) /\ m[w] = Cardinality(E \ w.left)
    BY <2>1
  <2> HIDE DEF m
  <2>6. m[x] = m[w] + 1
    BY <2>3, <2>4, <2>5
  <2> QED BY <2>6 DEF x
<1>8. /\ W[0] = ReverseStart(E) /\ \A n \in Nat : W[n] \in S
      /\ \A n \in Nat : W[n + 1] = ReverseStep(V, W[n])
  <2>1. \A w \in S : ReverseStep(V, w) \in S
    BY <1>2, <1>3
  <2> HIDE DEF S
  <2> QED BY <1>1, <2>1, ReverseWalkSteps
<1> HIDE DEF W, m
<1>9. W[b] \in done
  <2>1. \A n \in Nat : W[n] \in done => W[n + 1] \in done
    BY <1>3, <1>8
  <2>2. \A n \in Nat : W[n] \notin done /\ W[n + 1] \notin done => m[W[n + 1]] = m[W[n]] + 1
    BY <1>7, <1>8
  <2> HIDE DEF S, done, b
  <2> QED BY <1>0, <1>5, <1>6, <1>8, <2>1, <2>2, WalkEnds
<1>10. W[b].left = {} /\ W[b].edges = Reversed(E \ W[b].left)
  BY <1>9 DEF ReverseStates
<1>11. E \ {} = E
  OBVIOUS
<1> QED BY <1>10, <1>11 DEF ReverseEdges, W

-----------------------------------------------------------------------------
\* A graph no edge of which dangles is one the walks can be made on.
LEMMA IntactGraph ==
  ASSUME TypeOK, Intact
  PROVE  /\ vertices \in SUBSET Int /\ IsFiniteSet(vertices) /\ vertices \subseteq Key
         /\ edges \in SUBSET (vertices \X vertices)
<1>1. vertices \in SUBSET Key /\ IsFiniteSet(Key) /\ Key \subseteq Int
  BY KeyAssumption DEF TypeOK
<1>2. IsFiniteSet(vertices)
  BY <1>1, FS_Subset
<1>3. ASSUME NEW e \in edges PROVE e \in vertices \X vertices
  BY <1>3 DEF TypeOK, Intact
<1> QED BY <1>1, <1>2, <1>3

\* The walks of a graph without cycles: findPath decides AddEdge, the sort lists the
\* children first, Reverse is its own inverse, and of an edge AddEdge refuses hasCycle
\* would find the cycle.
LEMMA WalksOfGraph ==
  ASSUME TypeOK, Intact, IsAcyclic(Key, edges)
  PROVE  WalksAnswerEdges
<1> DEFINE V == vertices
           E == edges
<1>1. V \in SUBSET Int /\ IsFiniteSet(V) /\ V \subseteq Key /\ E \in SUBSET (V \X V)
  BY IntactGraph
<1> HIDE DEF V, E
<1>2. ASSUME NEW a \in V, NEW b \in V, a # b
      PROVE  /\ FindPath(V, E, a, b) <=> Reaches(Key, E, a, b)
             /\ Reaches(Key, E, a, b) => IsSimplePath(E, FindSortedPath(V, E, a, b), a, b)
  BY <1>1, <1>2, PathFound
<1>3. FindPathIsReachability
  BY <1>2 DEF FindPathIsReachability, V, E
<1>4. IsAcyclic(Key, E)
  BY DEF E
<1>5. /\ ~ HasCycle(V, E) /\ IsChildrenFirst(V, E, TopologicalSort(V, E))
      /\ \A M : IsAcyclic(M, E) /\ IsAcyclic(M, Reversed(E))
  BY <1>1, <1>4, SortSorts
<1>6. SortIsChildrenFirst
  BY <1>5 DEF SortIsChildrenFirst, V, E
<1>7. Reversed(E) \in SUBSET (V \X V) /\ Reversed(Reversed(E)) = E
  <2>1. \A e \in E : e = <<e[1], e[2]>> /\ e[1] \in V /\ e[2] \in V
    BY <1>1
  <2>2. \A a, c : <<a, c>> \in Reversed(E) <=> <<c, a>> \in E
    BY <2>1 DEF Reversed
  <2>3. Reversed(E) \in SUBSET (V \X V)
    BY <2>1 DEF Reversed
  <2>4. ASSUME NEW e \in E PROVE e \in Reversed(Reversed(E))
    <3> DEFINE f == <<e[2], e[1]>>
    <3>1. f \in Reversed(E)
      BY DEF Reversed
    <3>2. e = <<f[2], f[1]>>
      BY <2>1
    <3> HIDE DEF f
    <3> QED BY <3>1, <3>2 DEF Reversed
  <2>5. ASSUME NEW e \in Reversed(Reversed(E)) PROVE e \in E
    <3>1. PICK f \in Reversed(E) : e = <<f[2], f[1]>>
      BY DEF Reversed
    <3>2. f = <<f[1], f[2]>>
      BY <2>3
    <3> QED BY <2>2, <3>1, <3>2
  <2> QED BY <2>3, <2>4, <2>5
<1>8. ReverseEdges(V, E) = Reversed(E)
  BY <1>1, <1>5, ReverseReverses
<1>9. ReverseEdges(V, Reversed(E)) = Reversed(Reversed(E))
  BY <1>1, <1>5, <1>7, ReverseReverses
<1>10. ReverseIsInvolution
  BY <1>7, <1>8, <1>9 DEF ReverseIsInvolution, Reversed, V, E
<1>11. ASSUME NEW a \in V, NEW b \in V, Reaches(Key, E, b, a)
       PROVE  LET F == E \cup {<<a, b>>}
                  c == FoundCycle(V, F)
              IN  HasCycle(V, F) /\ Len(c) > 1 /\ c[1] = c[Len(c)] /\ Chain(F, c)
  <2> DEFINE F == E \cup {<<a, b>>}
  <2>1. F \in SUBSET (V \X V) /\ E \subseteq F /\ <<a, b>> \in F /\ F \in SUBSET (Key \X Key) /\ a \in Key /\ b \in Key
    <3>1. F \in SUBSET (V \X V) /\ E \subseteq F /\ <<a, b>> \in F
      BY <1>1
    <3>2. a \in Key /\ b \in Key /\ V \X V \subseteq Key \X Key
      BY <1>1
    <3> QED BY <3>1, <3>2
  <2> HIDE DEF F
  <2>2. Reaches(Key, F, b, a)
    BY <1>11, <2>1, ReachesMore
  <2>3. ~ IsAcyclic(Key, F)
    BY <2>1, <2>2, NoWayBack
  <2>4. LET c == FoundCycle(V, F)
        IN  HasCycle(V, F) /\ Len(c) > 1 /\ c[1] = c[Len(c)] /\ Chain(F, c)
    BY <1>1, <2>1, <2>3, CycleIsFound
  <2> QED BY <2>4 DEF F
<1>12. CycleCheckFindsClosingEdge
  BY <1>11 DEF CycleCheckFindsClosingEdge, Chain, V, E
<1> QED BY <1>3, <1>6, <1>10, <1>12 DEF WalksAnswerEdges

\* The walks of dag.go answer what the edges say, in every reachable state: its graph
\* is without a cycle, and after a panic an edge dangles.
THEOREM WalksAlwaysAnswer == Spec => []WalksAnswerEdges
<1> DEFINE Inv == panicked => ~ Intact
<1>1. Init => Inv
  BY DEF Init
<1>2. TypeOK /\ Inv /\ [Next]_vars => Inv'
  <2> SUFFICES ASSUME TypeOK, Inv, [Next]_vars PROVE Inv'
    OBVIOUS
  <2>1. CASE UNCHANGED vars
    BY <2>1 DEF vars, graph, Intact
  <2>2. ASSUME NEW from \in Key, NEW to \in Key, AddEdgePanic(from, to)
        PROVE  ~ Intact'
    <3> DEFINE F == edges \cup {<<from, to>>}
    <3>1. {from, to} \subseteq vertices /\ WalkMayPanic(F, to, from) /\ edges' = F /\ vertices' = vertices
      BY <2>2 DEF AddEdgePanic, BothExist
    <3>2. ~ \A e \in F : e[2] \in vertices
      BY <3>1, WalkStaysInside DEF TypeOK
    <3> QED BY <3>1, <3>2 DEF Intact
  <2>3. ~ panicked /\ ~ (\E from, to \in Key : AddEdgePanic(from, to)) /\ Next => ~ panicked'
    BY DEF Next, Refuse, graph, AddVertex, DeleteVertex, DeleteVertexFails, AddEdgeRefused, AddEdgeAgain,
           AddEdgeNew, AddEdgeCycle, DeleteEdge
  <2>4. Next => ~ panicked
    BY DEF Next
  <2> QED BY <2>1, <2>2, <2>3, <2>4
<1>3. TypeOK /\ Acyclic /\ Inv => WalksAnswerEdges
  <2> SUFFICES ASSUME TypeOK, Acyclic, Inv PROVE WalksAnswerEdges
    OBVIOUS
  <2>1. CASE Intact
    <3>1. IsAcyclic(Key, edges)
      BY <2>1 DEF Acyclic
    <3> QED BY <2>1, <3>1, WalksOfGraph
  <2>2. CASE ~ Intact
    BY <2>2 DEF WalksAnswerEdges, FindPathIsReachability, SortIsChildrenFirst, ReverseIsInvolution,
                CycleCheckFindsClosingEdge
  <2> QED BY <2>1, <2>2
<1> QED BY <1>1, <1>2, <1>3, TypeCorrect, GraphStaysAcyclic, PTL DEF Spec

\* AddEdge puts the edge into the map and has findPath look for a way back, on a graph
\* that may have a cycle now: it answers what the actions of Dag take it to.
WalkDecidesAddEdge ==
  Intact => \A from, to \in vertices : from # to =>
    LET E == edges \cup {<<from, to>>} IN FindPath(vertices, E, to, from) <=> ClosesCycle(E, from, to)

\* What AddEdge decides with its walk is what AddEdgeNew and AddEdgeCycle are guarded by,
\* in every reachable state without a dangling edge.
THEOREM AddEdgeDecidesByWalk == Spec => []WalkDecidesAddEdge
<1>1. TypeOK => WalkDecidesAddEdge
  <2> SUFFICES ASSUME TypeOK, Intact, NEW from \in vertices, NEW to \in vertices, from # to
               PROVE  LET E == edges \cup {<<from, to>>}
                      IN  FindPath(vertices, E, to, from) <=> ClosesCycle(E, from, to)
    BY DEF WalkDecidesAddEdge
  <2> DEFINE V == vertices
             E == edges \cup {<<from, to>>}
  <2>1. V \in SUBSET Int /\ IsFiniteSet(V) /\ V \subseteq Key /\ E \in SUBSET (V \X V) /\ from \in V /\ to \in V
    BY IntactGraph
  <2> HIDE DEF V, E
  <2>2. FindPath(V, E, to, from) <=> Reaches(Key, E, to, from)
    BY <2>1, PathFound
  <2> QED BY <2>2 DEF ClosesCycle, V, E
<1> QED BY <1>1, TypeCorrect, PTL
=============================================================================
