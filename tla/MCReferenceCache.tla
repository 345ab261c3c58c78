-------------------------- MODULE MCReferenceCache --------------------------
(***************************************************************************)
(* Two repositories, each with one reference, and a third reference that   *)
(* competes with them for the LRU.                                         *)
(***************************************************************************)
EXTENDS ReferenceCache, TLC

CONSTANTS d1, t1, t2, m, n, x, y

\* The digest d1 and the tag t1 in repository m, the tag t2 in repository n.
Repositories == [r \in Ref |-> IF r = t2 THEN n ELSE m]

\* A digest always stands for the same descriptor.
Everything == [r \in Ref |-> x]
=============================================================================
