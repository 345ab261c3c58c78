------------------------------ MODULE TopoExec ------------------------------
(***************************************************************************)
(* What processing a graph promises, whatever schedules it: a node starts  *)
(* once, only after all its predecessors succeeded, at most Limit nodes    *)
(* run at a time (0: any number), and the outcome "ok" is given only when  *)
(* every node succeeded.  No outcome is given while a node still runs.     *)
(***************************************************************************)
EXTENDS Digraphs

CONSTANTS Key, Limit

VARIABLES
  nodes, edges,       \* the graph, fixed
  running,            \* nodes being processed
  succeeded,          \* nodes processed without error
  failed,             \* nodes whose processing failed
  outcome             \* "none" until the call returns

vars == <<nodes, edges, running, succeeded, failed, outcome>>

Outcomes == {"none", "ok", "failed", "cancelled", "stalled"}

Init ==
  /\ nodes \subseteq Key /\ edges \subseteq nodes \X nodes
  /\ running = {} /\ succeeded = {} /\ failed = {} /\ outcome = "none"

Start(n) ==
  /\ outcome = "none"
  /\ n \in nodes \ (running \cup succeeded \cup failed)
  /\ Into(edges, n) \subseteq succeeded
  /\ Limit > 0 => Cardinality(running) < Limit
  /\ running' = running \cup {n}
  /\ UNCHANGED <<nodes, edges, succeeded, failed, outcome>>

End(n) ==
  /\ n \in running
  /\ running' = running \ {n}
  /\ \/ succeeded' = succeeded \cup {n} /\ UNCHANGED failed
     \/ failed' = failed \cup {n} /\ UNCHANGED succeeded
  /\ UNCHANGED <<nodes, edges, outcome>>

Return(o) ==
  /\ outcome = "none" /\ running = {}
  /\ o = "ok" => succeeded = nodes
  /\ o = "failed" <=> failed # {}
  /\ o = "stalled" => succeeded # nodes
  /\ outcome' = o
  /\ UNCHANGED <<nodes, edges, running, succeeded, failed>>

Next ==
  \/ \E n \in Key : Start(n) \/ End(n)
  \/ \E o \in Outcomes \ {"none"} : Return(o)

Spec == Init /\ [][Next]_vars
=============================================================================
