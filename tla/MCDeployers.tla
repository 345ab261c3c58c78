---------------------------- MODULE MCDeployers ----------------------------
(***************************************************************************)
(* Deployers of objects in the namespaces home and away, of two kinds.     *)
(***************************************************************************)
EXTENDS Deployers, TLC

CONSTANTS d, e, a, b, c

\* a lives with the deployers, b elsewhere, c is of another kind and has no namespace.
KindOf  == [o \in Object |-> IF o = c THEN "Role" ELSE "Map"]
PlaceOf == [o \in Object |-> IF o = a THEN "home" ELSE IF o = b THEN "away" ELSE Cluster]
AtHome  == [x \in Deployer |-> "home"]

Single   == [x \in Deployer |-> {{a, b}, {b, c} \cap Object, {}}]
\* Either may hand on an object and keep the other, or exchange them.
Handover == [x \in Deployer |-> IF x = d THEN {{a, b}, {a}, {b}} ELSE {{a}, {b}}]
=============================================================================
