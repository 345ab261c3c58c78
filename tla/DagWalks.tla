------------------------------ MODULE DagWalks ------------------------------
(***************************************************************************)
(* The walks of src/bindings/go/dag/dag.go over vertices V and edges E     *)
(* between them: the reachability walk of AddEdge and the path it reports  *)
(* (findPath, findSortedPath), the cycle check (hasCycle), TopologicalSort *)
(* and Reverse.  Keys are integers, as the code needs them ordered.        *)
(*                                                                         *)
(* A walk is the sequence of states its loop goes through: a step, and the *)
(* state after each number of steps, as many as it can take on V.  A state *)
(* that is final stays as it is.                                           *)
(***************************************************************************)
EXTENDS Digraphs, SequencesExt

\* The elements in increasing order.
Sorted(S) ==
  CHOOSE s \in [1..Cardinality(S) -> S] : \A i, j \in DOMAIN s : i < j => s[i] < s[j]

Least(S) == CHOOSE x \in S : \A y \in S : x <= y

-----------------------------------------------------------------------------
\* findPath and findSortedPath: path[k] is the way to k that the parents of the
\* keys ever pushed give, from the vertex the walk began at; found is the path
\* it returns.  findPath itself goes through neighbors in any order and keeps
\* no parents, which does not change whether it meets `to`.
WalkStart(from) == [stack |-> <<from>>, path |-> [k \in {from} |-> <<from>>], found |-> << >>]

\* One vertex is popped: `to` is its neighbor, or those not seen are pushed.
PopNext(E, to, w) ==
  LET node == Last(w.stack)
      new  == OutOf(E, node) \ DOMAIN w.path
  IN  IF to \in OutOf(E, node)
      THEN [w EXCEPT !.found = Append(w.path[node], to)]
      ELSE [w EXCEPT !.stack = Front(@) \o Sorted(new),
                     !.path = [k \in DOMAIN @ \cup new |->
                                 IF k \in new THEN Append(w.path[node], k) ELSE w.path[k]]]

WalkStep(E, to, w) == IF w.stack = << >> \/ w.found # << >> THEN w ELSE PopNext(E, to, w)

PathWalk(E, from, to) ==
  LET w[n \in Nat] == IF n = 0 THEN WalkStart(from) ELSE WalkStep(E, to, w[n - 1]) IN w

FindSortedPath(V, E, from, to) == PathWalk(E, from, to)[Cardinality(V)].found
FindPath(V, E, from, to)       == FindSortedPath(V, E, from, to) # << >>

-----------------------------------------------------------------------------
\* The depth-first visits of hasCycle and TopologicalSort: stack is recStack
\* and cyclePath, the vertices whose calls of dfs have not returned; order are
\* those whose calls have.
VisitStart == [visited |-> {}, stack |-> << >>, order |-> << >>, cyclic |-> FALSE]

\* What the loop over the sorted neighbors, or over all vertices, stops at: a
\* smaller neighbor was visited and left, when the loop passed it or before.
Ahead(V, E, w) ==
  IF w.stack = << >> THEN V \ w.visited
  ELSE {k \in OutOf(E, Last(w.stack)) : k \notin w.visited \/ k \in ToSet(w.stack)}

Leave(w)    == [w EXCEPT !.stack = Front(@), !.order = Append(@, Last(w.stack))]
Close(w, k) == [w EXCEPT !.stack = Append(@, k), !.cyclic = TRUE]
Enter(w, k) == [w EXCEPT !.stack = Append(@, k), !.visited = @ \cup {k}]

VisitStep(V, E, w) ==
  LET next == Least(Ahead(V, E, w))
  IN  IF w.cyclic THEN w
      ELSE IF Ahead(V, E, w) = {} THEN IF w.stack = << >> THEN w ELSE Leave(w)
      ELSE IF next \in w.visited THEN Close(w, next) ELSE Enter(w, next)

VisitWalk(V, E) ==
  LET w[n \in Nat] == IF n = 0 THEN VisitStart ELSE VisitStep(V, E, w[n - 1]) IN w

Visited(V, E)         == VisitWalk(V, E)[2 * Cardinality(V)]
HasCycle(V, E)        == Visited(V, E).cyclic
TopologicalSort(V, E) == Visited(V, E).order

WholePath(V, E) == Visited(V, E).stack             \* mutant of FoundCycle

\* hasCycle's cycle: the path from the first visit of the repeated vertex.
FoundCycle(V, E) ==
  LET path  == Visited(V, E).stack
      start == CHOOSE i \in 1..(Len(path) - 1) : path[i] = Last(path)
  IN  SubSeq(path, start, Len(path))

-----------------------------------------------------------------------------
\* Reverse adds the edges child -> parent one at a time, in any order; AddEdge
\* refuses one that would close a cycle, and Reverse then fails.
AddReversed(V, R, e) ==
  LET S == R \cup {<<e[2], e[1]>>}
  IN  IF e[1] = e[2] \/ FindPath(V, S, e[1], e[2]) THEN R ELSE S

ReverseStart(E) == [left |-> E, edges |-> {}]

ReverseStep(V, w) ==
  LET e == CHOOSE e \in w.left : TRUE
  IN  IF w.left = {} THEN w
      ELSE [left |-> w.left \ {e}, edges |-> AddReversed(V, w.edges, e)]

ReverseWalk(V, E) ==
  LET w[n \in Nat] == IF n = 0 THEN ReverseStart(E) ELSE ReverseStep(V, w[n - 1]) IN w

ReverseEdges(V, E) == ReverseWalk(V, E)[Cardinality(E)].edges
=============================================================================
