----------------------------- MODULE Processor ------------------------------
(***************************************************************************)
(* GraphProcessor.Process of src/bindings/go/dag/sync/process.go: Kahn's   *)
(* algorithm by a coordinator and a goroutine per node, in an errgroup     *)
(* that runs at most Limit of them (0: no limit).                          *)
(*                                                                         *)
(* The coordinator moves through "loop" (the range over ready), "go" (in   *)
(* eg.Go, which may block), "select", and at last "drain" or "wait" (in    *)
(* eg.Wait).  A worker is idle, running, reported (the node is in done) or *)
(* failed until its slot is given back, then succeeded or errored.  Ready  *)
(* nodes come out of a Go map, in any order, and are all taken before new  *)
(* ones are added: they are a set.                                         *)
(***************************************************************************)
EXTENDS Digraphs

CONSTANTS
  Key,                \* vertex IDs
  NoNode,             \* no vertex
  Limit,              \* opts.Concurrency
  Graphs,             \* graphs [nodes, edges, in]; in is Vertex.InDegree
  MayFail             \* nodes whose ProcessValue may fail

\* AddEdge never counts an edge less than once; a test counts one too many.
ASSUME ProcessorAssumption ==
  /\ IsFiniteSet(Key) /\ NoNode \notin Key /\ Limit \in Nat /\ MayFail \subseteq Key
  /\ \A g \in Graphs :
       /\ g.nodes \subseteq Key /\ g.edges \subseteq g.nodes \X g.nodes
       /\ g.in \in [Key -> Nat]
       /\ \A n \in Key : g.in[n] >= Cardinality(Into(g.edges, n))

\* AddEdge refuses what closes a cycle; Reverse does so of the same graph.
ASSUME GraphsAcyclic == \A g \in Graphs : IsAcyclic(g.nodes, g.edges)

VARIABLES
  g,                  \* the graph, read only
  inDegree, ready, finished, inFlight,          \* the coordinator's
  pc, node,           \* where the coordinator is; the node it hands to eg.Go
  worker,             \* the goroutine of each node
  done,               \* the buffered channel
  failure,            \* eg's first error: the node that failed, if any
  cancelled,          \* gctx is done
  aborted,            \* history: the caller's context is done
  late,               \* history: nodes handed to a goroutine when gctx was done
  result              \* what Process returned

vars == <<g, inDegree, ready, finished, inFlight, pc, node, worker, done,
          failure, cancelled, aborted, late, result>>

Total == Cardinality(g.nodes)

InState(s) == {n \in Key : worker[n] = s}
Active     == InState("running") \cup InState("reported") \cup InState("failed")

\* The capacity of the channel done.
OneSlot  == 1                                      \* mutant of Capacity
Capacity == Total

Init ==
  /\ g \in Graphs
  /\ inDegree = g.in
  /\ ready = {n \in g.nodes : g.in[n] = 0}
  /\ finished = 0 /\ inFlight = 0
  /\ pc = IF g.nodes = {} THEN "wait" ELSE "loop"
  /\ node = NoNode
  /\ worker = [n \in Key |-> "idle"]
  /\ done = <<>> /\ failure = {} /\ cancelled = FALSE /\ aborted = FALSE
  /\ late = 0 /\ result = "none"

-----------------------------------------------------------------------------
TakeAnyway(n) ==                                   \* mutant of Take
  /\ pc = "loop" /\ n \in ready
  /\ ready' = ready \ {n}
  /\ inFlight' = inFlight + 1
  /\ node' = n /\ pc' = "go"
  /\ UNCHANGED <<g, inDegree, finished, worker, done, failure, cancelled, aborted, late, result>>

\* gctx is not done: the next ready node goes to eg.Go.
Take(n) ==
  /\ pc = "loop" /\ n \in ready /\ ~ cancelled
  /\ ready' = ready \ {n}
  /\ inFlight' = inFlight + 1
  /\ node' = n /\ pc' = "go"
  /\ UNCHANGED <<g, inDegree, finished, worker, done, failure, cancelled, aborted, late, result>>

\* gctx is done: the remaining ready nodes are dropped.
Break ==
  /\ pc = "loop" /\ ready # {} /\ cancelled
  /\ ready' = {} /\ pc' = "select"
  /\ UNCHANGED <<g, inDegree, finished, inFlight, node, worker, done, failure, cancelled, aborted, late, result>>

\* eg.Go has a free slot.  gctx may have been cancelled since the check.
Go ==
  /\ pc = "go" /\ (Limit > 0 => Cardinality(Active) < Limit)
  /\ worker' = [worker EXCEPT ![node] = "running"]
  /\ pc' = "loop" /\ node' = NoNode
  /\ late' = IF cancelled THEN late + 1 ELSE late
  /\ UNCHANGED <<g, inDegree, ready, finished, inFlight, done, failure, cancelled, aborted, result>>

\* No node is in flight that could make another one ready.
NothingComes == inFlight = 0 /\ ~ cancelled

Stall ==
  /\ pc = "loop" /\ ready = {} /\ NothingComes
  /\ result' = "stalled" /\ pc' = "returned"
  /\ UNCHANGED <<g, inDegree, ready, finished, inFlight, node, worker, done, failure, cancelled, aborted, late>>

ToSelect ==
  /\ pc = "loop" /\ ready = {} /\ ~ NothingComes
  /\ pc' = "select"
  /\ UNCHANGED <<g, inDegree, ready, finished, inFlight, node, worker, done, failure, cancelled, aborted, late, result>>

\* The children of n that lost their last predecessor.
ReleasedEarly(n, degree) == {k \in OutOf(g.edges, n) : degree[k] <= 1}  \* mutant of Released
Released(n, degree)      == {k \in OutOf(g.edges, n) : degree[k] = 0}

\* A node came back: its children lose a predecessor.
Receive ==
  LET n == Head(done)
      degree == [k \in Key |-> IF k \in OutOf(g.edges, n) THEN inDegree[k] - 1 ELSE inDegree[k]]
  IN
  /\ pc = "select" /\ done # <<>>
  /\ done' = Tail(done)
  /\ finished' = finished + 1 /\ inFlight' = inFlight - 1
  /\ inDegree' = degree
  /\ ready' = Released(n, degree)
  /\ pc' = IF finished + 1 < Total THEN "loop" ELSE "wait"
  /\ UNCHANGED <<g, node, worker, failure, cancelled, aborted, late, result>>

SelectCancelled ==
  /\ pc = "select" /\ cancelled
  /\ pc' = "drain"
  /\ UNCHANGED <<g, inDegree, ready, finished, inFlight, node, worker, done, failure, cancelled, aborted, late, result>>

CancelledFirst ==                                  \* mutant of Outcome
  IF pc = "drain" THEN "cancelled" ELSE IF failure # {} THEN "failed" ELSE "ok"
Outcome ==
  IF failure # {} THEN "failed" ELSE IF pc = "drain" THEN "cancelled" ELSE "ok"

\* eg.Wait returns: the first error, else the caller's, after a cancellation.
WaitReturns ==
  /\ pc \in {"drain", "wait"} /\ Active = {}
  /\ result' = Outcome
  /\ pc' = "returned"
  /\ UNCHANGED <<g, inDegree, ready, finished, inFlight, node, worker, done, failure, cancelled, aborted, late>>

-----------------------------------------------------------------------------
\* ProcessValue returned nil and the node is sent to the channel, which has
\* room for every node.
Report(n) ==
  /\ worker[n] = "running" /\ Len(done) < Capacity
  /\ worker' = [worker EXCEPT ![n] = "reported"]
  /\ done' = Append(done, n)
  /\ UNCHANGED <<g, inDegree, ready, finished, inFlight, pc, node, failure, cancelled, aborted, late, result>>

\* ProcessValue fails, on its own or because gctx is done; the first error is
\* kept and cancels gctx.
Fail(n) ==
  /\ worker[n] = "running" /\ (n \in MayFail \/ cancelled)
  /\ worker' = [worker EXCEPT ![n] = "failed"]
  /\ failure' = IF failure = {} THEN {n} ELSE failure
  /\ cancelled' = TRUE
  /\ UNCHANGED <<g, inDegree, ready, finished, inFlight, pc, node, done, aborted, late, result>>

\* The goroutine gives its slot back to the errgroup.
Exit(n) ==
  /\ worker[n] \in {"reported", "failed"}
  /\ worker' = [worker EXCEPT ![n] = IF @ = "reported" THEN "succeeded" ELSE "errored"]
  /\ UNCHANGED <<g, inDegree, ready, finished, inFlight, pc, node, done, failure, cancelled, aborted, late, result>>

CallerCancels ==
  /\ ~ aborted /\ pc # "returned"
  /\ aborted' = TRUE /\ cancelled' = TRUE
  /\ UNCHANGED <<g, inDegree, ready, finished, inFlight, pc, node, worker, done, failure, late, result>>

Coordinator ==
  \/ \E n \in Key : Take(n)
  \/ Break \/ Go \/ Stall \/ ToSelect \/ Receive \/ SelectCancelled \/ WaitReturns

Worker(n) == Report(n) \/ Fail(n) \/ Exit(n)

Finished == pc = "returned" /\ Active = {} /\ UNCHANGED vars

Next == Coordinator \/ (\E n \in Key : Worker(n)) \/ CallerCancels \/ Finished

\* The coordinator and every goroutine are scheduled; ProcessValue returns.
Fairness == WF_vars(Coordinator) /\ \A n \in Key : WF_vars(Worker(n))

Spec == Init /\ [][Next]_vars /\ Fairness

-----------------------------------------------------------------------------
\* The nodes the abstract specification sees in each set.  A node counts as
\* done once its ProcessValue has returned.
Running   == InState("running")
Succeeded == InState("reported") \cup InState("succeeded")
Failed    == InState("failed") \cup InState("errored")

Exec == INSTANCE TopoExec WITH
  nodes <- g.nodes, edges <- g.edges, running <- Running,
  succeeded <- Succeeded, failed <- Failed, outcome <- result

\* Process implements TopoExec: nodes start once, after their predecessors,
\* within the limit, and the error it returns tells what happened
\* (process.go:28 "Nodes are processed only after all their predecessors have
\* been processed").
Implements == Exec!Spec

\* Type invariant.
TypeOK ==
  /\ g \in Graphs /\ inDegree \in [Key -> Int] /\ ready \subseteq g.nodes
  /\ finished \in Nat /\ inFlight \in Nat /\ late \in Nat
  /\ pc \in {"loop", "go", "select", "drain", "wait", "returned"}
  /\ node \in g.nodes \cup {NoNode}
  /\ worker \in [Key -> {"idle", "running", "reported", "failed", "succeeded", "errored"}]
  /\ done \in Seq(g.nodes) /\ failure \subseteq g.nodes
  /\ cancelled \in BOOLEAN /\ aborted \in BOOLEAN
  /\ result \in Exec!Outcomes

\* A goroutine never blocks on the channel, so the coordinator can stay in
\* eg.Go without a deadlock (process.go:85).
DoneHasRoom == Running # {} => Len(done) < Capacity

\* The stall error is given for a graph whose counters do not agree with its
\* edges, and such a graph is never processed with "ok".
Consistent == \A n \in g.nodes : g.in[n] = Cardinality(Into(g.edges, n))

StallTellsInconsistent ==
  /\ result = "stalled" => ~ Consistent
  /\ result = "ok" => Consistent

\* "cancelled" is the caller's doing: a worker's error is never lost to it.
CancelledByCaller == result = "cancelled" => aborted /\ failure = {}

\* The error Process returns tells the cause, of several that came together.
ErrorTellsCause == StallTellsInconsistent /\ CancelledByCaller

\* After a failure or a cancellation at most one more node starts, the one the
\* coordinator was about to hand over or blocked on (process.go:55 "Repeat
\* until every node is processed or one fails").
OneLateStart == late <= 1

\* Process returns: neither the bounded pool nor a failure makes the
\* coordinator and the workers wait for each other.
Terminates == <>(pc = "returned")
=============================================================================
