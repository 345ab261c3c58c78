------------------------- MODULE MCInformerManager -------------------------
(***************************************************************************)
(* Two deployers d and e.  Apart: each deploys an object of a kind of its  *)
(* own.  Shared: both deploy objects of one kind, in two namespaces.       *)
(***************************************************************************)
EXTENDS InformerManager, TLC

CONSTANTS d, e, c1, c2, g1, g2

Apart  == [c \in Child |-> IF c = c1 THEN g1 ELSE g2]
Shared == [c \in Child |-> g1]

OneEach == [x \in Deployer |-> {IF x = d THEN c1 ELSE c2}]
All     == [x \in Deployer |-> Child]
=============================================================================
