---------------------------- MODULE MCProcessor -----------------------------
(***************************************************************************)
(* Every acyclic graph on a few nodes (up to the names of the nodes), with *)
(* the in-degrees its edges give, or with one counted too often as in      *)
(* TestProcessTopology_StallReturnsError.                                  *)
(***************************************************************************)
EXTENDS Processor

Upward == {e \in Key \X Key : e[1] < e[2]}

GraphOf(E, extra) ==
  [nodes |-> Key, edges |-> E,
   in |-> [n \in Key |-> Cardinality(Into(E, n)) + (IF n \in extra THEN 1 ELSE 0)]]

AllGraphs == {GraphOf(E, {}) : E \in SUBSET Upward}
             \cup {GraphOf(E, {2}) : E \in SUBSET Upward}
             \cup {[nodes |-> {}, edges |-> {}, in |-> [n \in Key |-> 0]]}
=============================================================================
