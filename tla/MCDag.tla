------------------------------- MODULE MCDag --------------------------------
(***************************************************************************)
(* Dag on a few integer keys.  Every graph the calls can build is a        *)
(* reachable state, so the walks of DagWalks are checked on all of them.   *)
(***************************************************************************)
EXTENDS Dag

CONSTANT MaxDeletions        \* bound: calls that delete

VARIABLE deletions

\* The calls the code makes outside its tests build graphs, as large as the
\* keys allow; only the tests delete vertices and edges.
Build ==
  \/ \E id \in Key : AddVertex(id)
  \/ \E from, to \in Key :
       \/ AddEdgeRefused(from, to) \/ AddEdgeAgain(from, to)
       \/ AddEdgeNew(from, to) \/ AddEdgeCycle(from, to) \/ AddEdgePanic(from, to)

Delete ==
  \/ \E id \in Key : DeleteVertex(id) \/ DeleteVertexFails(id)
  \/ \E from, to \in Key : DeleteEdge(from, to)

BoundedNext ==
  /\ ~ panicked
  /\ \/ Build /\ UNCHANGED deletions
     \/ deletions < MaxDeletions /\ Delete /\ deletions' = deletions + 1

BoundedInit == Init /\ deletions = 0

BoundedSpec == BoundedInit /\ [][BoundedNext]_<<vars, deletions>>
=============================================================================
