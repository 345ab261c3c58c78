---------------------------- MODULE MCDiscoverer ----------------------------
(***************************************************************************)
(* Workloads for Discoverer: the shapes in which goroutines share, race    *)
(* for or wait on each other's vertices.                                   *)
(***************************************************************************)
EXTENDS Discoverer, TLC

CONSTANTS a, b, c, d

Load(rs, ra, rb, rc, rd) ==
  [roots |-> rs, refs |-> (a :> ra @@ b :> rb @@ c :> rc @@ d :> rd)]

\* Two roots share a vertex; a vertex reached on two paths of different
\* length; a root that is also a neighbor; the same root, and the same
\* neighbor, listed twice; a diamond below one root.
Shared    == Load(<<a, b>>, <<c>>, <<c>>, <<>>, <<>>)
Triangle  == Load(<<a>>, <<b, c>>, <<c>>, <<>>, <<>>)
RootChild == Load(<<a, b>>, <<b, c>>, <<>>, <<>>, <<>>)
SameRoot  == Load(<<a, a>>, <<b>>, <<>>, <<>>, <<>>)
Twice     == Load(<<a>>, <<b, b>>, <<c>>, <<>>, <<>>)
Diamond   == Load(<<a>>, <<b, c>>, <<d>>, <<d>>, <<>>)

\* References that form a cycle: within one vertex, between two roots, around
\* three keys from two sides, between siblings, and below a diamond.
SelfRef   == Load(<<a>>, <<b, a>>, <<>>, <<>>, <<>>)
TwoCycle  == Load(<<a, b>>, <<b>>, <<a, c>>, <<>>, <<>>)
ThreeRing == Load(<<a, b>>, <<b>>, <<c>>, <<a>>, <<>>)
Siblings  == Load(<<a>>, <<b, c>>, <<c>>, <<b>>, <<>>)
BackEdge  == Load(<<a>>, <<b, c>>, <<d>>, <<d>>, <<a>>)

AcyclicLoads == {Shared, Triangle, RootChild, SameRoot, Twice, Diamond}
CyclicLoads  == {SelfRef, TwoCycle, ThreeRing, Siblings, BackEdge}
AllLoads     == AcyclicLoads \cup CyclicLoads
=============================================================================
