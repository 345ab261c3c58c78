------------------------------ MODULE Digraphs ------------------------------
(***************************************************************************)
(* What the modules of this project mean by reachability, a cycle and a    *)
(* topological order of a directed graph.  A graph is a set of edges       *)
(* <<from, to>> over a set of nodes.  Nothing here is an algorithm of the  *)
(* code: these are the reference definitions the code's walks are compared *)
(* with.  None is recursive, so the modules that use them stay within the  *)
(* reach of the proof system.                                              *)
(***************************************************************************)
EXTENDS Integers, FiniteSets, Sequences

\* The nodes an edge of E leads to from v, and those with an edge to v.
OutOf(E, v) == {e[2] : e \in {f \in E : f[1] = v}}
Into(E, v)  == {e[1] : e \in {f \in E : f[2] = v}}

\* E without the edges of v to the nodes of S.
Without(E, v, S) == E \ ({v} \X S)

\* No edge of E leaves S.
IsClosed(E, S) == \A e \in E : e[1] \in S => e[2] \in S

\* There is a path of edges of E from a to b (the empty one when a = b): no
\* closed set that holds a misses b.
Reaches(N, E, a, b) ==
  \A S \in SUBSET N : (a \in S /\ IsClosed(E, S)) => b \in S

ReachableFrom(N, E, R) == {n \in N : \E r \in R : Reaches(N, E, r, n)}

\* Every non-empty set of nodes holds one that no node of the set leads to. A
\* cycle is a set for which that fails.
IsAcyclic(N, E) ==
  \A S \in SUBSET N : S # {} => \E v \in S : \A w \in S : <<w, v>> \notin E

\* s lists each node of N once, and the target of an edge before its source.
IsChildrenFirst(N, E, s) ==
  /\ Len(s) = Cardinality(N)
  /\ {s[i] : i \in 1..Len(s)} = N
  /\ \A i, j \in 1..Len(s) : <<s[i], s[j]>> \in E => j < i

\* p is a path of E from a to b that meets no node twice.
IsSimplePath(E, p, a, b) ==
  /\ Len(p) > 1 /\ p[1] = a /\ p[Len(p)] = b
  /\ \A i \in 1..(Len(p) - 1) : <<p[i], p[i + 1]>> \in E
  /\ \A i, j \in 1..Len(p) : p[i] = p[j] => i = j
=============================================================================
