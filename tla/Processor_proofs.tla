-------------------------- MODULE Processor_proofs --------------------------
(***************************************************************************)
(* Processor implements TopoExec, for any finite set of keys, any limit    *)
(* and any graph whose in-degrees count each edge at least once.           *)
(***************************************************************************)
EXTENDS Processor, FiniteSetTheorems, TLAPS

\* Nodes in the channel; nodes the coordinator has received; nodes that were
\* handed to eg.Go.
Queued   == {done[i] : i \in 1..Len(done)}
Received == Succeeded \ Queued
Started  == {n \in Key : worker[n] # "idle"} \cup {n \in Key : pc = "go" /\ n = node}

\* The channel holds each node at most once, after it succeeded.
ChannelInv ==
  /\ Queued \subseteq Succeeded
  /\ \A i, j \in 1..Len(done) : done[i] = done[j] => i = j

\* The coordinator's counters are what their names say.
CountersInv ==
  /\ finished = Cardinality(Received)
  /\ inFlight = Cardinality(Started \ Received)

\* inDegree bounds the predecessors not yet received, and is used up for every
\* node that is ready or was started: none is scheduled early or again.
DegreeInv ==
  /\ \A c \in Key : inDegree[c] >= Cardinality(Into(g.edges, c) \ Received)
  /\ \A c \in Started \cup ready : inDegree[c] = 0

ScheduleInv ==
  /\ Started \subseteq g.nodes /\ ready \cap Started = {}
  /\ pc = "go" => node \in g.nodes /\ worker[node] = "idle"
  /\ pc = "select" => ready = {}
  /\ pc \in {"loop", "go", "select"} => finished < Total
  /\ pc = "wait" => finished = Total

OutcomeInv ==
  /\ failure = {} <=> Failed = {}
  /\ Failed # {} => cancelled
  /\ pc # "returned" => result = "none"
  /\ pc = "returned" => Running = {}

IInv == TypeOK /\ ChannelInv /\ CountersInv /\ DegreeInv /\ ScheduleInv /\ OutcomeInv

-----------------------------------------------------------------------------
\* What every graph has: finitely many nodes, and in-degrees that count at least the edges.
LEMMA GraphFacts ==
  ASSUME g \in Graphs
  PROVE  /\ g.nodes \subseteq Key /\ g.edges \subseteq g.nodes \X g.nodes
         /\ g.in \in [Key -> Nat] /\ IsFiniteSet(g.nodes) /\ Total \in Nat
         /\ \A n \in Key : g.in[n] >= Cardinality(Into(g.edges, n))
<1>1. g.nodes \subseteq Key
  BY ProcessorAssumption
<1>2. IsFiniteSet(g.nodes) /\ Cardinality(g.nodes) \in Nat
  BY <1>1, ProcessorAssumption, FS_Subset, FS_CardinalityType
<1> QED BY <1>1, <1>2, ProcessorAssumption DEF Total

\* Every set of keys is finite.
LEMMA KeysFinite ==
  ASSUME NEW S, S \subseteq Key
  PROVE  IsFiniteSet(S) /\ Cardinality(S) \in Nat
BY ProcessorAssumption, FS_Subset, FS_CardinalityType

\* Removing a key from a set of keys takes one from its cardinality.
LEMMA RemoveOne ==
  ASSUME NEW S, S \subseteq Key, NEW x \in S
  PROVE  Cardinality(S \ {x}) = Cardinality(S) - 1
BY KeysFinite, FS_RemoveElement

\* A new key adds one to the cardinality of a set of keys.
LEMMA AddOne ==
  ASSUME NEW S, S \subseteq Key, NEW x \in Key, x \notin S
  PROVE  Cardinality(S \cup {x}) = Cardinality(S) + 1
BY KeysFinite, FS_AddElement

\* The invariant holds when Process is called.
LEMMA InitInv == Init => IInv
<1> SUFFICES ASSUME Init PROVE IInv
  OBVIOUS
<1> USE DEF Init
<1>1. Queued = {} /\ Received = {} /\ Started = {} /\ Succeeded = {} /\ Failed = {} /\ Running = {}
  BY DEF Queued, Received, Started, Succeeded, Failed, Running, InState
<1>2. Cardinality({}) = 0
  BY FS_EmptySet
<1>3. /\ g.nodes \subseteq Key /\ g.in \in [Key -> Nat]
      /\ \A n \in Key : g.in[n] >= Cardinality(Into(g.edges, n))
      /\ IsFiniteSet(g.nodes) /\ Total \in Nat
  BY GraphFacts
<1>4. TypeOK
  <2>1. ready \subseteq g.nodes /\ node \in g.nodes \cup {NoNode} /\ pc \in {"loop", "wait"}
    OBVIOUS
  <2>2. done \in Seq(g.nodes) /\ result \in Exec!Outcomes
    BY DEF Exec!Outcomes
  <2>3. inDegree \in [Key -> Int]
    BY <1>3
  <2>4. cancelled \in BOOLEAN /\ aborted \in BOOLEAN
    OBVIOUS
  <2> QED BY <2>1, <2>2, <2>3, <2>4 DEF TypeOK
<1>5. ChannelInv
  BY <1>1 DEF ChannelInv
<1>6. CountersInv
  BY <1>1, <1>2 DEF CountersInv
<1>7. DegreeInv
  <2>1. \A c \in Key : Into(g.edges, c) \ Received = Into(g.edges, c)
    BY <1>1
  <2> QED BY <1>1, <1>3, <2>1 DEF DegreeInv
<1>8. ScheduleInv
  <2>1. g.nodes = {} <=> Total = 0
    BY <1>3, FS_EmptySet DEF Total
  <2> QED BY <1>1, <1>3, <2>1 DEF ScheduleInv
<1>9. OutcomeInv
  BY <1>1 DEF OutcomeInv
<1> QED BY <1>4, <1>5, <1>6, <1>7, <1>8, <1>9 DEF IInv

-----------------------------------------------------------------------------
\* The sets the invariant speaks of, when only the coordinator moves on.
LEMMA SetsUnchanged ==
  ASSUME UNCHANGED <<worker, done, node>>, pc = "go" <=> pc' = "go"
  PROVE  UNCHANGED <<Queued, Received, Started, Succeeded, Failed, Running, Active>>
BY DEF Queued, Received, Started, Succeeded, Failed, Running, Active, InState

\* Taking a ready node keeps it.
LEMMA TakeInv ==
  ASSUME IInv, NEW n \in Key, Take(n)
  PROVE  IInv'
<1> USE DEF IInv, Take
<1>0. n \in g.nodes /\ n \notin Started /\ worker[n] = "idle"
  BY DEF TypeOK, ScheduleInv, Started
<1>1. UNCHANGED <<Queued, Received, Succeeded, Failed, Running>>
  BY DEF Queued, Received, Succeeded, Failed, Running, InState
<1>2. Started' = Started \cup {n}
  BY DEF Started
<1>3. Started \subseteq Key /\ Received \subseteq Started /\ n \notin Received
  BY <1>0 DEF Started, Received, Succeeded, InState
<1>4. Cardinality((Started \ Received) \cup {n}) = Cardinality(Started \ Received) + 1
  BY <1>0, <1>3, AddOne
<1>5. Started' \ Received' = (Started \ Received) \cup {n}
  BY <1>1, <1>2, <1>3
<1>6. CountersInv'
  BY <1>1, <1>4, <1>5 DEF CountersInv
<1>7. TypeOK'
  BY <1>0 DEF TypeOK
<1>8. ChannelInv' /\ OutcomeInv'
  BY <1>1 DEF ChannelInv, OutcomeInv
<1>9. DegreeInv'
  BY <1>1, <1>2 DEF DegreeInv
<1>10. ScheduleInv'
  BY <1>0, <1>2 DEF ScheduleInv, Total
<1> QED BY <1>6, <1>7, <1>8, <1>9, <1>10

\* So does starting the worker of the node taken,
LEMMA GoInv ==
  ASSUME IInv, Go
  PROVE  IInv'
<1> USE DEF IInv, Go
<1>0. node \in g.nodes /\ node \in Key /\ worker[node] = "idle"
  BY GraphFacts DEF TypeOK, ScheduleInv
<1>1. worker' = [worker EXCEPT ![node] = "running"] /\ worker \in [Key -> {"idle", "running", "reported", "failed", "succeeded", "errored"}]
  BY DEF TypeOK
<1>2. UNCHANGED <<Queued, Received, Succeeded, Failed>>
  BY <1>0, <1>1 DEF Queued, Received, Succeeded, Failed, InState
<1>3. Started' = Started
  BY <1>0, <1>1 DEF Started
<1>4. TypeOK'
  BY <1>0 DEF TypeOK
<1>5. ChannelInv' /\ CountersInv' /\ DegreeInv'
  BY <1>2, <1>3 DEF ChannelInv, CountersInv, DegreeInv
<1>6. ScheduleInv' /\ OutcomeInv'
  BY <1>2, <1>3 DEF ScheduleInv, OutcomeInv, Total
<1> QED BY <1>4, <1>5, <1>6

\* Steps of the coordinator that only move it on, and the caller's cancellation.
LEMMA MoveInv ==
  ASSUME IInv, Break \/ Stall \/ ToSelect \/ SelectCancelled \/ CallerCancels
  PROVE  IInv'
<1>1. UNCHANGED <<Queued, Received, Started, Succeeded, Failed, Running, Active>>
  BY SetsUnchanged DEF Break, Stall, ToSelect, SelectCancelled, CallerCancels, NothingComes
<1>2. /\ UNCHANGED <<g, inDegree, finished, inFlight, node, worker, done, failure>>
      /\ ready' \subseteq ready /\ cancelled' \in {cancelled, TRUE}
  BY DEF Break, Stall, ToSelect, SelectCancelled, CallerCancels, NothingComes
<1>3. TypeOK'
  <2>1. cancelled' \in BOOLEAN /\ aborted' \in BOOLEAN
    BY DEF IInv, TypeOK, Break, Stall, ToSelect, SelectCancelled, CallerCancels, NothingComes
  <2>2. /\ late' \in Nat /\ result' \in Exec!Outcomes
        /\ pc' \in {"loop", "go", "select", "drain", "wait", "returned"}
    BY DEF IInv, TypeOK, Exec!Outcomes, Break, Stall, ToSelect, SelectCancelled, CallerCancels, NothingComes
  <2> QED BY <1>2, <2>1, <2>2 DEF IInv, TypeOK
<1>4. ChannelInv' /\ CountersInv' /\ DegreeInv'
  BY <1>1, <1>2 DEF IInv, ChannelInv, CountersInv, DegreeInv
<1>5. ScheduleInv'
  BY <1>1, <1>2 DEF IInv, ScheduleInv, Total, Break, Stall, ToSelect, SelectCancelled, CallerCancels,
     NothingComes
<1>6. OutcomeInv'
  <2>1. CASE Stall
    <3>1. Cardinality(Started \ Received) = 0 /\ Started \subseteq Key
      BY <2>1, GraphFacts DEF Stall, IInv, CountersInv, ScheduleInv, TypeOK, NothingComes
    <3>2. Started \ Received = {}
      BY <3>1, KeysFinite, FS_EmptySet
    <3>3. Running = {}
      BY <3>2 DEF Started, Received, Succeeded, InState, Running
    <3> QED BY <1>1, <1>2, <2>1, <3>3 DEF IInv, OutcomeInv, Stall, NothingComes
  <2>2. CASE ~ Stall
    BY <1>1, <1>2, <2>2 DEF IInv, OutcomeInv, Break, ToSelect, SelectCancelled, CallerCancels
  <2> QED BY <2>1, <2>2
<1> QED BY <1>3, <1>4, <1>5, <1>6 DEF IInv

\* the return of eg.Wait,
LEMMA WaitReturnsInv ==
  ASSUME IInv, WaitReturns
  PROVE  IInv'
<1> USE DEF IInv, WaitReturns, Outcome
<1>1. UNCHANGED <<Queued, Received, Started, Succeeded, Failed, Running, Active>>
  BY SetsUnchanged
<1>2. TypeOK'
  BY DEF TypeOK, Exec!Outcomes
<1>3. ChannelInv' /\ CountersInv' /\ DegreeInv' /\ ScheduleInv'
  BY <1>1 DEF ChannelInv, CountersInv, DegreeInv, ScheduleInv, Total
<1>4. Running = {}
  BY DEF Active, Running
<1>5. OutcomeInv'
  BY <1>1, <1>4 DEF OutcomeInv
<1> QED BY <1>2, <1>3, <1>5

\* the failure of a worker,
LEMMA FailInv ==
  ASSUME IInv, NEW n \in Key, Fail(n)
  PROVE  IInv'
<1> USE DEF IInv, Fail
<1>1. worker' = [worker EXCEPT ![n] = "failed"] /\ worker[n] = "running"
      /\ worker \in [Key -> {"idle", "running", "reported", "failed", "succeeded", "errored"}]
  BY DEF TypeOK
<1>2. UNCHANGED <<Queued, Received, Succeeded, Started>> /\ Failed' = Failed \cup {n}
      /\ Running' \subseteq Running
  BY <1>1 DEF Queued, Received, Succeeded, Started, Failed, Running, InState
<1>3. n # node \/ pc # "go"
  BY <1>1 DEF Started, ScheduleInv
<1>4. n \in g.nodes
  BY <1>1 DEF Started, ScheduleInv
<1>5. TypeOK'
  BY <1>1, <1>4 DEF TypeOK
<1>6. ChannelInv' /\ CountersInv' /\ DegreeInv'
  BY <1>2 DEF ChannelInv, CountersInv, DegreeInv
<1>7. ScheduleInv'
  BY <1>1, <1>2, <1>3 DEF ScheduleInv, Total
<1>8. OutcomeInv'
  BY <1>1, <1>2 DEF OutcomeInv, Running, InState
<1> QED BY <1>5, <1>6, <1>7, <1>8

\* the return of its goroutine,
LEMMA ExitInv ==
  ASSUME IInv, NEW n \in Key, Exit(n)
  PROVE  IInv'
<1> USE DEF IInv, Exit
<1>1. worker' = [worker EXCEPT ![n] = IF @ = "reported" THEN "succeeded" ELSE "errored"]
      /\ worker[n] \in {"reported", "failed"}
      /\ worker \in [Key -> {"idle", "running", "reported", "failed", "succeeded", "errored"}]
  BY DEF TypeOK
<1>2. UNCHANGED <<Queued, Received, Succeeded, Started, Failed, Running>>
  BY <1>1 DEF Queued, Received, Succeeded, Started, Failed, Running, InState
<1>3. TypeOK'
  BY <1>1 DEF TypeOK
<1>4. ChannelInv' /\ CountersInv' /\ DegreeInv' /\ OutcomeInv'
  BY <1>2 DEF ChannelInv, CountersInv, DegreeInv, OutcomeInv
<1>5. ScheduleInv'
  BY <1>1, <1>2 DEF ScheduleInv, Total
<1> QED BY <1>3, <1>4, <1>5

\* What a report adds to the channel.
LEMMA ReportSets ==
  ASSUME IInv, NEW n \in Key, Report(n)
  PROVE  /\ n \in g.nodes /\ done' \in Seq(g.nodes)
         /\ Queued' = Queued \cup {n} /\ Succeeded' = Succeeded \cup {n}
         /\ \A i, j \in 1..Len(done') : done'[i] = done'[j] => i = j
         /\ UNCHANGED <<Received, Started, Failed>> /\ Running' \subseteq Running
<1> USE DEF IInv, Report, Capacity
<1>1. worker' = [worker EXCEPT ![n] = "reported"] /\ worker[n] = "running"
      /\ worker \in [Key -> {"idle", "running", "reported", "failed", "succeeded", "errored"}]
  BY DEF TypeOK
<1>2. n \in g.nodes
  BY <1>1 DEF Started, ScheduleInv
<1>3. n \notin Succeeded /\ n \notin Queued
  BY <1>1 DEF Succeeded, InState, ChannelInv
<1>4. done \in Seq(g.nodes) /\ done' = Append(done, n)
  BY DEF TypeOK
<1>5. Queued' = Queued \cup {n}
  <2>1. Len(done') = Len(done) + 1 /\ Len(done) \in Nat
    BY <1>2, <1>4
  <2>2. \A i \in 1..Len(done) : done'[i] = done[i]
    BY <1>2, <1>4
  <2>3. done'[Len(done) + 1] = n
    BY <1>2, <1>4
  <2> QED BY <2>1, <2>2, <2>3 DEF Queued
<1>6. \A i, j \in 1..Len(done') : done'[i] = done'[j] => i = j
  BY <1>2, <1>3, <1>4 DEF ChannelInv, Queued
<1>7. Succeeded' = Succeeded \cup {n} /\ UNCHANGED <<Started, Failed>> /\ Running' \subseteq Running
  BY <1>1 DEF Succeeded, Started, Failed, Running, InState
<1>8. Received' = Received
  BY <1>3, <1>5, <1>7 DEF Received
<1> QED BY <1>2, <1>4, <1>5, <1>6, <1>7, <1>8

\* its report on the channel,
LEMMA ReportInv ==
  ASSUME IInv, NEW n \in Key, Report(n)
  PROVE  IInv'
<1> USE DEF IInv, Report
<1>1. /\ n \in g.nodes /\ done' \in Seq(g.nodes)
      /\ Queued' = Queued \cup {n} /\ Succeeded' = Succeeded \cup {n}
      /\ \A i, j \in 1..Len(done') : done'[i] = done'[j] => i = j
      /\ UNCHANGED <<Received, Started, Failed>> /\ Running' \subseteq Running
  BY ReportSets
<1>2. worker' = [worker EXCEPT ![n] = "reported"] /\ worker[n] = "running"
      /\ worker \in [Key -> {"idle", "running", "reported", "failed", "succeeded", "errored"}]
  BY DEF TypeOK
<1>3. TypeOK'
  BY <1>1, <1>2 DEF TypeOK
<1>4. ChannelInv'
  BY <1>1 DEF ChannelInv
<1>5. CountersInv' /\ DegreeInv'
  BY <1>1 DEF CountersInv, DegreeInv
<1>6. ScheduleInv' /\ OutcomeInv'
  BY <1>1, <1>2 DEF ScheduleInv, OutcomeInv, Total
<1> QED BY <1>3, <1>4, <1>5, <1>6

-----------------------------------------------------------------------------
\* Receiving the head of the channel.
LEMMA ReceiveSets ==
  ASSUME IInv, Receive
  PROVE  LET n == Head(done) IN
         /\ n \in Queued /\ n \in Succeeded /\ n \in g.nodes /\ n \in Key
         /\ n \in Started /\ n \notin Received
         /\ Queued' = Queued \ {n} /\ Received' = Received \cup {n}
         /\ UNCHANGED <<Succeeded, Started, Failed, Running>>
         /\ \A i, j \in 1..Len(done') : done'[i] = done'[j] => i = j
         /\ done' \in Seq(g.nodes)
<1> DEFINE n == Head(done)
<1> USE DEF IInv, Receive, Released
<1>1. done \in Seq(g.nodes) /\ done # <<>> /\ done' = Tail(done)
  BY DEF TypeOK
<1>2. /\ n = done[1] /\ Len(done) \in Nat /\ Len(done) > 0
      /\ Len(done') = Len(done) - 1 /\ done' \in Seq(g.nodes)
      /\ \A i \in 1..Len(done') : done'[i] = done[i + 1]
  BY <1>1
<1>3. n \in Queued
  BY <1>2 DEF Queued
<1>4. n \in Succeeded /\ n \in Key
  BY <1>3 DEF ChannelInv, Succeeded, InState
<1>5. n \in Started /\ n \in g.nodes /\ n \notin Received
  BY <1>3, <1>4 DEF Succeeded, InState, Started, ScheduleInv, Received
<1>6. Queued' = Queued \ {n}
  <2>1. ASSUME NEW x \in Queued'
        PROVE  x \in Queued \ {n}
    <3>1. PICK i \in 1..Len(done') : x = done'[i]
      BY <2>1 DEF Queued
    <3>2. i + 1 \in 1..Len(done) /\ x = done[i + 1] /\ i + 1 # 1
      BY <1>2, <3>1
    <3>3. x # n
      BY <1>2, <3>2 DEF ChannelInv
    <3> QED BY <3>2, <3>3 DEF Queued
  <2>2. ASSUME NEW x \in Queued \ {n}
        PROVE  x \in Queued'
    <3>1. PICK i \in 1..Len(done) : x = done[i]
      BY <2>2 DEF Queued
    <3>2. i # 1
      BY <1>2, <2>2, <3>1
    <3>3. i - 1 \in 1..Len(done') /\ done'[i - 1] = x
      BY <1>2, <3>1, <3>2
    <3> QED BY <3>3 DEF Queued
  <2> QED BY <2>1, <2>2
<1>7. \A i, j \in 1..Len(done') : done'[i] = done'[j] => i = j
  BY <1>2 DEF ChannelInv
<1>8. UNCHANGED <<Succeeded, Started, Failed, Running>>
  BY DEF Succeeded, Started, Failed, Running, InState
<1>9. Received' = Received \cup {n}
  BY <1>4, <1>6, <1>8 DEF Received
<1> QED BY <1>2, <1>3, <1>4, <1>5, <1>6, <1>7, <1>8, <1>9

\* and the receipt of the report, which counts the in-degrees down.
LEMMA ReceiveInv ==
  ASSUME IInv, Receive
  PROVE  IInv'
<1> DEFINE n == Head(done)
<1> USE DEF IInv
<1>1. /\ n \in Queued /\ n \in Succeeded /\ n \in g.nodes /\ n \in Key
      /\ n \in Started /\ n \notin Received
      /\ Queued' = Queued \ {n} /\ Received' = Received \cup {n}
      /\ UNCHANGED <<Succeeded, Started, Failed, Running>>
      /\ \A i, j \in 1..Len(done') : done'[i] = done'[j] => i = j
      /\ done' \in Seq(g.nodes)
  BY ReceiveSets
<1>2. /\ g.nodes \subseteq Key /\ g.edges \subseteq g.nodes \X g.nodes
      /\ IsFiniteSet(g.nodes) /\ Total \in Nat
  BY GraphFacts DEF TypeOK
<1>3. /\ UNCHANGED <<g, node, worker, failure, cancelled, aborted, late, result>>
      /\ finished' = finished + 1 /\ inFlight' = inFlight - 1
      /\ pc = "select" /\ pc' = IF finished + 1 < Total THEN "loop" ELSE "wait"
      /\ ready = {} /\ ready' = {k \in OutOf(g.edges, n) : inDegree'[k] = 0}
      /\ inDegree' = [k \in Key |-> IF k \in OutOf(g.edges, n) THEN inDegree[k] - 1 ELSE inDegree[k]]
  <2>1. OutOf(g.edges, n) \subseteq Key
    BY <1>2 DEF OutOf
  <2> QED BY <2>1 DEF Receive, ScheduleInv, TypeOK, Released
<1>4. Received \subseteq Succeeded /\ Succeeded \subseteq Started /\ Started \subseteq g.nodes
  BY DEF Received, Succeeded, Started, InState, ScheduleInv
<1>5. CountersInv'
  <2>1. Cardinality(Received \cup {n}) = Cardinality(Received) + 1
    BY <1>1, <1>2, <1>4, AddOne
  <2>2. Cardinality((Started \ Received) \ {n}) = Cardinality(Started \ Received) - 1
    BY <1>1, <1>2, <1>4, RemoveOne
  <2>3. Started' \ Received' = (Started \ Received) \ {n}
    BY <1>1
  <2> QED BY <1>1, <1>3, <2>1, <2>2, <2>3 DEF CountersInv
<1>6. TypeOK'
  <2>1. ready' \subseteq g.nodes
    BY <1>2, <1>3 DEF OutOf
  <2>2. inDegree' \in [Key -> Int]
    BY <1>3 DEF TypeOK
  <2>3. inFlight' \in Nat
    <3>1. Started' \ Received' \subseteq Key
      BY <1>1, <1>2, <1>4
    <3> QED BY <3>1, <1>5, KeysFinite DEF CountersInv
  <2>4. cancelled' \in BOOLEAN /\ aborted' \in BOOLEAN
    BY <1>3 DEF TypeOK
  <2>5. finished' \in Nat /\ pc' \in {"loop", "wait"}
    BY <1>3 DEF TypeOK
  <2>6. /\ g' \in Graphs /\ late' \in Nat /\ node' \in g'.nodes \cup {NoNode}
        /\ worker' \in [Key -> {"idle", "running", "reported", "failed", "succeeded", "errored"}]
        /\ failure' \subseteq g'.nodes /\ result' \in Exec!Outcomes
    BY <1>3 DEF TypeOK
  <2>7. done' \in Seq(g'.nodes) /\ ready' \subseteq g'.nodes
    BY <1>1, <1>3, <2>1
  <2> QED BY <2>2, <2>3, <2>4, <2>5, <2>6, <2>7 DEF TypeOK
<1>7. ChannelInv'
  BY <1>1 DEF ChannelInv
<1>8. ASSUME NEW c \in Key
      PROVE  /\ inDegree'[c] >= Cardinality(Into(g.edges, c) \ Received')
             /\ c \in OutOf(g.edges, n) => inDegree[c] # 0
  <2>1. Into(g.edges, c) \subseteq Key
    BY <1>2 DEF Into
  <2>2. c \in OutOf(g.edges, n) <=> n \in Into(g.edges, c)
    BY DEF OutOf, Into
  <2>3. inDegree[c] \in Int /\ inDegree[c] >= Cardinality(Into(g.edges, c) \ Received)
    BY DEF DegreeInv, TypeOK
  <2>4. CASE n \in Into(g.edges, c)
    <3>1. n \in Into(g.edges, c) \ Received /\ Into(g.edges, c) \ Received \subseteq Key
      BY <1>1, <2>1, <2>4
    <3>2. /\ Cardinality((Into(g.edges, c) \ Received) \ {n}) =
               Cardinality(Into(g.edges, c) \ Received) - 1
          /\ Cardinality((Into(g.edges, c) \ Received) \ {n}) \in Nat
          /\ Cardinality(Into(g.edges, c) \ Received) \in Nat
      BY <3>1, RemoveOne, KeysFinite
    <3>3. Into(g.edges, c) \ Received' = (Into(g.edges, c) \ Received) \ {n}
      BY <1>1
    <3>4. Cardinality(Into(g.edges, c) \ Received') = Cardinality(Into(g.edges, c) \ Received) - 1
      BY <3>2, <3>3
    <3>5. inDegree'[c] = inDegree[c] - 1
      BY <1>3, <2>2, <2>4
    <3>6. Cardinality(Into(g.edges, c) \ Received) > 0
      BY <3>2
    <3> QED BY <2>3, <3>2, <3>4, <3>5, <3>6
  <2>5. CASE n \notin Into(g.edges, c)
    <3>1. Into(g.edges, c) \ Received' = Into(g.edges, c) \ Received
      BY <1>1, <2>5
    <3> QED BY <1>3, <2>2, <2>3, <2>5, <3>1
  <2> QED BY <2>4, <2>5
<1>9. ASSUME NEW c \in Started
      PROVE  c \notin OutOf(g.edges, n) /\ inDegree'[c] = 0
  <2>1. c \in Key /\ inDegree[c] = 0
    BY <1>2, <1>4 DEF DegreeInv
  <2>2. c \notin OutOf(g.edges, n)
    BY <1>8, <2>1, Zenon
  <2> QED BY <1>3, <2>1, <2>2
<1>10. DegreeInv'
  BY <1>1, <1>3, <1>8, <1>9 DEF DegreeInv
<1>11. ScheduleInv'
  <2>1. ready' \cap Started' = {}
    BY <1>1, <1>3, <1>9
  <2>2. finished' <= Total
    <3>1. Received' \in SUBSET g.nodes
      BY <1>1, <1>4
    <3>2. Cardinality(Received') <= Total
      BY <1>2, <3>1, FS_Subset DEF Total
    <3> QED BY <3>2, <1>5 DEF CountersInv
  <2>3. Total' = Total /\ finished \in Nat
    BY <1>3 DEF Total, TypeOK
  <2> QED BY <1>1, <1>2, <1>3, <1>4, <2>1, <2>2, <2>3 DEF ScheduleInv
<1>12. OutcomeInv'
  <2>1. pc' \in {"loop", "wait"} /\ cancelled' = cancelled /\ result' = "none"
    BY <1>3 DEF OutcomeInv
  <2>2. failure' = failure /\ Failed' = Failed
    BY <1>1, <1>3
  <2> QED BY <2>1, <2>2 DEF OutcomeInv
<1> QED BY <1>5, <1>6, <1>7, <1>10, <1>11, <1>12

-----------------------------------------------------------------------------
\* The invariant is inductive.
LEMMA StepInv == IInv /\ [Next]_vars => IInv'
<1> SUFFICES ASSUME IInv, [Next]_vars
             PROVE  IInv'
  OBVIOUS
<1>1. CASE UNCHANGED vars
  <2>1. UNCHANGED <<Queued, Received, Started, Succeeded, Failed, Running, Active>>
    BY <1>1, SetsUnchanged DEF vars
  <2> QED BY <1>1, <2>1 DEF vars, IInv, TypeOK, ChannelInv, CountersInv, DegreeInv,
                            ScheduleInv, OutcomeInv, Total
<1> QED
  BY <1>1, TakeInv, GoInv, MoveInv, WaitReturnsInv, ReceiveInv, ReportInv, FailInv, ExitInv
     DEF Next, Coordinator, Worker, Finished

\* The type invariant, with the counters that make it inductive.
THEOREM TypeCorrect == Spec => []TypeOK
<1>1. Spec => []IInv
  BY InitInv, StepInv, PTL DEF Spec
<1>2. IInv => TypeOK
  BY DEF IInv
<1> QED BY <1>1, <1>2, PTL

-----------------------------------------------------------------------------
\* Each step is one of TopoExec or leaves what TopoExec sees unchanged.
LEMMA GoRefines ==
  ASSUME IInv, Go
  PROVE  Exec!Start(node) /\ node \in Key
<1> USE DEF IInv, Go
<1>1. node \in g.nodes /\ node \in Key /\ worker[node] = "idle" /\ node \in Started
  BY GraphFacts DEF TypeOK, ScheduleInv, Started
<1>2. worker' = [worker EXCEPT ![node] = "running"]
      /\ worker \in [Key -> {"idle", "running", "reported", "failed", "succeeded", "errored"}]
  BY DEF TypeOK
<1>3. Running' = Running \cup {node} /\ UNCHANGED <<Succeeded, Failed>>
  BY <1>1, <1>2 DEF Running, Succeeded, Failed, InState
<1>4. node \notin Running \cup Succeeded \cup Failed
  BY <1>1 DEF Running, Succeeded, Failed, InState
<1>5. Into(g.edges, node) \subseteq Succeeded
  <2>1. Into(g.edges, node) \subseteq Key
    BY GraphFacts DEF TypeOK, Into
  <2>2. inDegree[node] = 0 /\ inDegree[node] >= Cardinality(Into(g.edges, node) \ Received)
    BY <1>1 DEF DegreeInv
  <2>3. /\ IsFiniteSet(Into(g.edges, node) \ Received)
        /\ Cardinality(Into(g.edges, node) \ Received) \in Nat
    BY <2>1, KeysFinite
  <2>4. Into(g.edges, node) \ Received = {}
    BY <2>2, <2>3, FS_EmptySet
  <2> QED BY <2>4 DEF Received
<1>6. Limit > 0 => Cardinality(Running) < Limit
  <2>1. Active \subseteq Key /\ Running \in SUBSET Active /\ Running \subseteq Key
    BY DEF Active, Running, InState
  <2>2. Cardinality(Running) <= Cardinality(Active) /\ Cardinality(Active) \in Nat
        /\ Cardinality(Running) \in Nat
    BY <2>1, KeysFinite, FS_Subset
  <2> QED BY <2>2, ProcessorAssumption
<1>7. result = "none" /\ UNCHANGED <<g, result>>
  BY DEF OutcomeInv
<1>8. Exec!Into(g.edges, node) = Into(g.edges, node)
  BY DEF Exec!Into, Into
<1>9. Exec!Cardinality(Running) = Cardinality(Running)
  BY DEF Exec!Cardinality, Cardinality, Exec!IsFiniteSet, IsFiniteSet
<1> QED BY <1>1, <1>3, <1>4, <1>5, <1>6, <1>7, <1>8, <1>9 DEF Exec!Start

\* The return for an inconsistent graph is one the abstract execution allows.
LEMMA StallRefines ==
  ASSUME IInv, Stall
  PROVE  Exec!Return("stalled")
<1> USE DEF IInv, Stall, NothingComes
<1>1. Started \subseteq Key /\ Succeeded \subseteq Started
  BY GraphFacts DEF ScheduleInv, TypeOK, Started, Succeeded, InState
<1>2. Started \ Received = {}
  BY <1>1, KeysFinite, FS_EmptySet DEF CountersInv
<1>3. Running = {}
  BY <1>2 DEF Started, Received, Succeeded, Running, InState
<1>4. Succeeded = Received
  BY <1>1, <1>2 DEF Received
<1>5. Succeeded # g.nodes
  BY <1>4 DEF CountersInv, ScheduleInv, Total
<1>6. UNCHANGED <<Running, Succeeded, Failed>>
  BY DEF Running, Succeeded, Failed, InState
<1>7. Failed = {} /\ result = "none"
  BY DEF OutcomeInv
<1> QED BY <1>3, <1>5, <1>6, <1>7 DEF Exec!Return

\* So is the return after eg.Wait.
LEMMA WaitRefines ==
  ASSUME IInv, WaitReturns
  PROVE  Exec!Return(result') /\ result' \in Exec!Outcomes \ {"none"}
<1> USE DEF IInv, WaitReturns, Outcome
<1>1. Running = {} /\ result = "none"
  BY DEF Active, Running, OutcomeInv
<1>2. result' = "failed" <=> Failed # {}
  BY DEF OutcomeInv
<1>3. result' = "ok" => Succeeded = g.nodes
  <2>1. Received \subseteq Succeeded /\ Succeeded \subseteq g.nodes
    BY DEF Received, Succeeded, Started, InState, ScheduleInv
  <2>2. ASSUME result' = "ok"
        PROVE  Cardinality(Received) = Cardinality(g.nodes)
    BY <2>2 DEF CountersInv, ScheduleInv, Total
  <2>3. IsFiniteSet(g.nodes) /\ Received \in SUBSET g.nodes
    BY <2>1, GraphFacts DEF TypeOK
  <2> QED BY <2>1, <2>2, <2>3, FS_Subset
<1>4. UNCHANGED <<g, Running, Succeeded, Failed>>
  BY DEF Running, Succeeded, Failed, InState
<1>5. result' \in {"failed", "cancelled", "ok"}
  OBVIOUS
<1> QED BY <1>1, <1>2, <1>3, <1>4, <1>5 DEF Exec!Return, Exec!Outcomes

\* A worker's report or failure is the abstract end of its node; its exit is a stutter.
LEMMA WorkerRefines ==
  ASSUME IInv, NEW n \in Key, Report(n) \/ Fail(n) \/ Exit(n)
  PROVE  Exec!End(n) \/ UNCHANGED Exec!vars
<1>1. worker \in [Key -> {"idle", "running", "reported", "failed", "succeeded", "errored"}]
  BY DEF IInv, TypeOK
<1>2. CASE Report(n)
  <2>1. n \in Running /\ Running' = Running \ {n} /\ Succeeded' = Succeeded \cup {n}
        /\ UNCHANGED <<Failed, g, result>>
    BY <1>1, <1>2 DEF Report, Running, Succeeded, Failed, InState, Capacity
  <2> QED BY <2>1 DEF Exec!End
<1>3. CASE Fail(n)
  <2>1. n \in Running /\ Running' = Running \ {n} /\ Failed' = Failed \cup {n}
        /\ UNCHANGED <<Succeeded, g, result>>
    BY <1>1, <1>3 DEF Fail, Running, Succeeded, Failed, InState
  <2> QED BY <2>1 DEF Exec!End
<1>4. CASE Exit(n)
  <2>1. UNCHANGED <<Running, Succeeded, Failed, g, result>>
    BY <1>1, <1>4 DEF Exit, Running, Succeeded, Failed, InState
  <2> QED BY <2>1 DEF Exec!vars
<1> QED BY <1>2, <1>3, <1>4

\* Processing a graph starts every node at most once and only after all its
\* predecessors succeeded, keeps to the limit, and returns what happened.
THEOREM ProcessorImplementsTopoExec == Spec => Implements
<1>1. Init => Exec!Init
  <2> SUFFICES ASSUME Init PROVE Exec!Init
    OBVIOUS
  <2>1. Running = {} /\ Succeeded = {} /\ Failed = {} /\ result = "none"
    BY DEF Init, Running, Succeeded, Failed, InState
  <2> QED BY <2>1, GraphFacts DEF Init, Exec!Init
<1>2. IInv /\ [Next]_vars => [Exec!Next]_Exec!vars
  <2> SUFFICES ASSUME IInv, [Next]_vars
               PROVE  Exec!Next \/ UNCHANGED Exec!vars
    OBVIOUS
  <2>1. ASSUME UNCHANGED <<g, worker, result>>
        PROVE  UNCHANGED Exec!vars
    BY <2>1 DEF Exec!vars, Running, Succeeded, Failed, InState
  <2>2. CASE Go
    BY <2>2, GoRefines DEF Exec!Next
  <2>3. CASE Stall
    BY <2>3, StallRefines DEF Exec!Next, Exec!Outcomes
  <2>4. CASE WaitReturns
    BY <2>4, WaitRefines DEF Exec!Next
  <2>5. ASSUME NEW n \in Key, Worker(n)
        PROVE  Exec!Next \/ UNCHANGED Exec!vars
    BY <2>5, WorkerRefines DEF Worker, Exec!Next
  <2>6. CASE \/ \E n \in Key : Take(n)
             \/ Break \/ ToSelect \/ Receive \/ SelectCancelled \/ CallerCancels
             \/ UNCHANGED vars
    BY <2>1, <2>6 DEF Take, Break, ToSelect, Receive, SelectCancelled, CallerCancels, vars, Released
  <2> QED BY <2>2, <2>3, <2>4, <2>5, <2>6 DEF Next, Coordinator, Finished
<1> QED BY <1>1, <1>2, InitInv, StepInv, PTL DEF Spec, Implements, Exec!Spec

-----------------------------------------------------------------------------
\* The channel holds as many nodes as are queued.
LEMMA QueuedLength ==
  ASSUME IInv
  PROVE  Len(done) = Cardinality(Queued) /\ Queued \subseteq g.nodes
<1>1. Len(done) \in Nat /\ \A i \in 1..Len(done) : done[i] \in g.nodes
  BY DEF IInv, TypeOK
<1> DEFINE at == [i \in 1..Len(done) |-> done[i]]
<1>2. at \in Bijection(1..Len(done), Queued)
  <2>1. at \in [1..Len(done) -> Queued]
    BY DEF Queued
  <2>2. \A i, j \in 1..Len(done) : at[i] = at[j] => i = j
    BY DEF IInv, ChannelInv
  <2>3. \A n \in Queued : \E i \in 1..Len(done) : at[i] = n
    BY DEF Queued
  <2> HIDE DEF at
  <2> QED BY <2>1, <2>2, <2>3 DEF Bijection, Injection, IsInjective, Surjection
<1>3. ExistsBijection(1..Len(done), Queued)
  BY <1>2 DEF ExistsBijection
<1>4. Cardinality(Queued) = Len(done)
  BY <1>1, <1>3, FS_CountingElements
<1> QED BY <1>1, <1>4 DEF Queued

\* The buffer of Process is as large as the graph (process.go:85), so a worker
\* that succeeds always finds room: it is not in the channel itself.
THEOREM RoomForEveryReport == Spec => []DoneHasRoom
<1>1. IInv => DoneHasRoom
  <2> SUFFICES ASSUME IInv, NEW n \in Running
               PROVE  Len(done) < Capacity
    BY DEF DoneHasRoom
  <2>1. n \in g.nodes /\ n \notin Queued
    BY DEF IInv, ScheduleInv, ChannelInv, Started, Succeeded, Running, InState
  <2>2. Queued \in SUBSET (g.nodes \ {n}) /\ IsFiniteSet(g.nodes) /\ Total \in Nat
    BY <2>1, QueuedLength, GraphFacts DEF IInv, TypeOK
  <2>3. /\ Cardinality(g.nodes \ {n}) = Cardinality(g.nodes) - 1
        /\ IsFiniteSet(g.nodes \ {n})
    BY <2>1, <2>2, FS_RemoveElement
  <2>4. Cardinality(Queued) <= Cardinality(g.nodes \ {n}) /\ Cardinality(Queued) \in Nat
    BY <2>2, <2>3, FS_Subset, FS_CardinalityType
  <2> QED BY <2>2, <2>3, <2>4, QueuedLength DEF Capacity, Total
<1> QED BY <1>1, InitInv, StepInv, PTL DEF Spec

-----------------------------------------------------------------------------
\* What has happened when a node starts late, and when the caller cancelled.
LateInv == late <= 1 /\ (late > 0 => cancelled /\ pc # "go")

\* After the first error or cancellation only the node already on its way
\* to eg.Go is still started (process.go, the range over ready).
THEOREM AtMostOneLateStart == Spec => []OneLateStart
<1>1. Init => LateInv
  BY DEF Init, LateInv
<1>2. TypeOK /\ LateInv /\ [Next]_vars => LateInv'
  <2> SUFFICES ASSUME TypeOK, LateInv, [Next]_vars
               PROVE  LateInv'
    OBVIOUS
  <2>1. late \in Nat
    BY DEF TypeOK
  <2>2. CASE UNCHANGED vars
    BY <2>2 DEF vars, LateInv
  <2>3. CASE \E n \in Key : Take(n)
    BY <2>1, <2>3 DEF Take, LateInv
  <2>4. CASE Go
    BY <2>1, <2>4 DEF Go, LateInv
  <2>5. CASE Break \/ Stall \/ ToSelect \/ Receive \/ SelectCancelled \/ WaitReturns \/ CallerCancels
    BY <2>1, <2>5 DEF Break, Stall, ToSelect, Receive, SelectCancelled, WaitReturns, CallerCancels, LateInv
  <2>6. CASE \E n \in Key : Worker(n)
    BY <2>1, <2>6 DEF Worker, Report, Fail, Exit, LateInv
  <2> QED BY <2>2, <2>3, <2>4, <2>5, <2>6 DEF Next, Coordinator, Finished
<1>3. LateInv => OneLateStart
  BY DEF LateInv, OneLateStart
<1> QED BY <1>1, <1>2, <1>3, TypeCorrect, PTL DEF Spec

-----------------------------------------------------------------------------
\* Beyond IInv: in-degrees are exact, a node whose in-degree is used up is
\* ready or started unless the rest was dropped, and a cancellation has a cause.
ExactInv == \A c \in Key : inDegree[c] = g.in[c] - Cardinality(Into(g.edges, c) \cap Received)
ReadyInv == \A c \in g.nodes \ Started : inDegree[c] = 0 => c \in ready \/ cancelled
BlameInv == (cancelled => aborted \/ failure # {}) /\ (pc = "drain" => cancelled)

CauseInv == ExactInv /\ ReadyInv /\ BlameInv

\* It holds when Process is called,
LEMMA InitCause == Init => CauseInv
<1> SUFFICES ASSUME Init PROVE CauseInv
  OBVIOUS
<1>1. Received = {} /\ \A c \in Key : Into(g.edges, c) \cap Received = {}
  BY DEF Init, Received, Succeeded, InState
<1>2. g.nodes \subseteq Key /\ g.in \in [Key -> Nat] /\ inDegree = g.in
  BY GraphFacts DEF Init
<1>3. ExactInv
  BY <1>1, <1>2, FS_EmptySet DEF ExactInv
<1>4. ReadyInv /\ BlameInv
  BY DEF Init, ReadyInv, BlameInv
<1> QED BY <1>3, <1>4 DEF CauseInv

\* is kept by the receipt of a report, which readies what has lost its last predecessor,
LEMMA ReceiveCause ==
  ASSUME IInv, CauseInv, Receive
  PROVE  CauseInv'
<1> DEFINE n == Head(done)
<1>1. /\ n \in g.nodes /\ n \in Key /\ n \notin Received
      /\ Received' = Received \cup {n} /\ UNCHANGED <<Started, g, cancelled, aborted, failure>>
  BY ReceiveSets DEF Receive
<1>2. g.nodes \subseteq Key /\ g.edges \subseteq g.nodes \X g.nodes /\ g.in \in [Key -> Nat]
  BY GraphFacts DEF IInv, TypeOK
<1>3. /\ ready = {} /\ ready' = {k \in OutOf(g.edges, n) : inDegree'[k] = 0} /\ pc' \in {"loop", "wait"}
      /\ inDegree' = [k \in Key |-> IF k \in OutOf(g.edges, n) THEN inDegree[k] - 1 ELSE inDegree[k]]
  <2>1. OutOf(g.edges, n) \subseteq Key
    BY <1>2 DEF OutOf
  <2> QED BY <2>1 DEF Receive, Released, IInv, ScheduleInv
<1>4. ExactInv'
  <2> SUFFICES ASSUME NEW c \in Key
               PROVE  inDegree'[c] = g.in[c] - Cardinality(Into(g.edges, c) \cap Received')
    BY <1>1 DEF ExactInv
  <2>1. Into(g.edges, c) \subseteq Key /\ (c \in OutOf(g.edges, n) <=> n \in Into(g.edges, c))
    BY <1>2 DEF OutOf, Into
  <2>2. inDegree[c] = g.in[c] - Cardinality(Into(g.edges, c) \cap Received) /\ g.in[c] \in Nat
    BY <1>2 DEF CauseInv, ExactInv
  <2>3. Cardinality(Into(g.edges, c) \cap Received) \in Nat
    BY <2>1, KeysFinite
  <2>4. CASE n \in Into(g.edges, c)
    <3>1. Into(g.edges, c) \cap Received' = (Into(g.edges, c) \cap Received) \cup {n}
      BY <1>1, <2>4
    <3>2. Cardinality((Into(g.edges, c) \cap Received) \cup {n}) = Cardinality(Into(g.edges, c) \cap Received) + 1
      BY <1>1, <2>1, AddOne
    <3>3. inDegree'[c] = inDegree[c] - 1
      BY <1>3, <2>1, <2>4
    <3>4. Cardinality(Into(g.edges, c) \cap Received') = Cardinality(Into(g.edges, c) \cap Received) + 1
      BY <3>1, <3>2
    <3> DEFINE k == Cardinality(Into(g.edges, c) \cap Received)
    <3> HIDE DEF k
    <3>5. k \in Nat /\ inDegree[c] = g.in[c] - k /\ Cardinality(Into(g.edges, c) \cap Received') = k + 1
      BY <2>2, <2>3, <3>4 DEF k
    <3> QED BY <2>2, <3>3, <3>5
  <2>5. CASE n \notin Into(g.edges, c)
    <3>1. Into(g.edges, c) \cap Received' = Into(g.edges, c) \cap Received
      BY <1>1, <2>5
    <3> QED BY <1>3, <2>1, <2>2, <2>5, <3>1
  <2> QED BY <2>4, <2>5
<1>5. ReadyInv'
  BY <1>1, <1>2, <1>3 DEF CauseInv, ReadyInv
<1>6. BlameInv'
  BY <1>1, <1>3 DEF CauseInv, BlameInv
<1> QED BY <1>4, <1>5, <1>6 DEF CauseInv

\* and by every other step.
LEMMA StepCause == IInv /\ CauseInv /\ [Next]_vars => CauseInv'
<1> SUFFICES ASSUME IInv, CauseInv, [Next]_vars
             PROVE  CauseInv'
  OBVIOUS
<1> USE DEF CauseInv
<1>1. ASSUME UNCHANGED <<g, inDegree, Received, Started>>, ready \subseteq ready' \/ cancelled,
             cancelled => cancelled'
      PROVE  ExactInv' /\ ReadyInv'
  BY <1>1 DEF ExactInv, ReadyInv
<1>2. worker \in [Key -> {"idle", "running", "reported", "failed", "succeeded", "errored"}] /\ cancelled \in BOOLEAN
  BY DEF IInv, TypeOK
<1>3. CASE Receive
  BY <1>3, ReceiveCause
<1>4. ASSUME NEW n \in Key, Take(n)
      PROVE  CauseInv'
  <2>1. Received' = Received /\ Started' = Started \cup {n}
    BY <1>4 DEF Take, Received, Succeeded, Queued, InState, Started
  <2> QED BY <1>4, <2>1 DEF Take, ExactInv, ReadyInv, BlameInv
<1>5. CASE Go
  <2>1. node \in Key /\ worker[node] = "idle"
    BY <1>5, GraphFacts DEF Go, IInv, TypeOK, ScheduleInv
  <2>2. Received' = Received /\ Started' = Started
    BY <1>2, <1>5, <2>1 DEF Go, Received, Succeeded, Queued, InState, Started
  <2> QED BY <1>1, <1>5, <2>2 DEF Go, BlameInv
<1>6. CASE Break \/ Stall \/ ToSelect \/ SelectCancelled \/ WaitReturns \/ CallerCancels \/ UNCHANGED vars
  <2>1. UNCHANGED <<worker, done, node, g, inDegree, failure>> /\ (pc = "go" <=> pc' = "go")
    BY <1>6 DEF Break, Stall, ToSelect, SelectCancelled, WaitReturns, CallerCancels, vars
  <2>2. UNCHANGED <<Received, Started>>
    BY <2>1, SetsUnchanged
  <2>3. (ready \subseteq ready' \/ cancelled) /\ (cancelled => cancelled') /\ BlameInv'
    BY <1>6 DEF Break, Stall, ToSelect, SelectCancelled, WaitReturns, CallerCancels, vars, BlameInv
  <2> QED BY <1>1, <2>1, <2>2, <2>3
<1>7. ASSUME NEW n \in Key, Report(n)
      PROVE  CauseInv'
  <2>1. UNCHANGED <<Received, Started>>
    BY <1>7, ReportSets
  <2> QED BY <1>1, <1>7, <2>1 DEF Report, BlameInv
<1>8. ASSUME NEW n \in Key, Fail(n) \/ Exit(n)
      PROVE  CauseInv'
  <2>1. Received' = Received /\ Started' = Started
    BY <1>2, <1>8 DEF Fail, Exit, Received, Succeeded, Queued, InState, Started
  <2>2. UNCHANGED <<g, inDegree, ready, pc, aborted>> 
    BY <1>8 DEF Fail, Exit
  <2>3. BlameInv'
    <3>1. CASE Fail(n)
      <4>1. failure' # {}
        BY <3>1 DEF Fail
      <4>2. cancelled' = TRUE
        BY <3>1 DEF Fail
      <4> QED BY <4>1, <4>2 DEF BlameInv
    <3>2. CASE Exit(n)
      BY <3>2 DEF BlameInv, Exit
    <3> QED BY <1>8, <3>1, <3>2
  <2>4. (ready \subseteq ready' \/ cancelled) /\ (cancelled => cancelled')
    BY <1>8, <2>2 DEF Fail, Exit
  <2> QED BY <1>1, <2>1, <2>2, <2>3, <2>4
<1> QED BY <1>3, <1>4, <1>5, <1>6, <1>7, <1>8 DEF Next, Coordinator, Worker, Finished

\* When the coordinator stalls, some in-degree is too high: otherwise a node
\* all whose predecessors were received would be ready.
LEMMA StallTells ==
  ASSUME IInv, CauseInv, Stall
  PROVE  ~ Consistent
<1> SUFFICES ASSUME Consistent PROVE FALSE
  OBVIOUS
<1>1. /\ g \in Graphs /\ g.nodes \subseteq Key /\ g.edges \subseteq g.nodes \X g.nodes
      /\ IsFiniteSet(g.nodes) /\ Total \in Nat /\ g.in \in [Key -> Nat]
  BY GraphFacts DEF IInv, TypeOK
<1>2. ready = {} /\ inFlight = 0 /\ ~ cancelled /\ finished < Total
  BY DEF Stall, NothingComes, IInv, ScheduleInv
<1>3. Received \subseteq Started /\ Started \subseteq g.nodes
  BY DEF Received, Succeeded, Started, InState, IInv, ScheduleInv
<1>4. Started \subseteq Received
  <2>1. Cardinality(Started \ Received) = 0 /\ Started \ Received \subseteq Key
    BY <1>1, <1>2, <1>3 DEF IInv, CountersInv
  <2> QED BY <2>1, KeysFinite, FS_EmptySet
<1>5. g.nodes \ Received # {}
  <2>1. Cardinality(Received) < Cardinality(g.nodes)
    BY <1>2 DEF IInv, CountersInv, Total
  <2>2. Received \in SUBSET g.nodes /\ Cardinality(Received) \in Nat /\ Cardinality(g.nodes) \in Nat
    BY <1>1, <1>3, FS_Subset, FS_CardinalityType
  <2>3. Received # g.nodes
    BY <2>1, <2>2
  <2> QED BY <2>2, <2>3
<1>6. PICK v \in g.nodes \ Received : \A w \in g.nodes \ Received : <<w, v>> \notin g.edges
  <2>1. IsAcyclic(g.nodes, g.edges)
    BY <1>1, GraphsAcyclic
  <2>2. g.nodes \ Received \in SUBSET g.nodes
    OBVIOUS
  <2> QED BY <1>1, <1>5, <2>1, <2>2 DEF IsAcyclic
<1>7. Into(g.edges, v) \cap Received = Into(g.edges, v)
  BY <1>1, <1>6 DEF Into
<1>8. inDegree[v] = 0
  <2>1. v \in Key /\ g.in[v] = Cardinality(Into(g.edges, v)) /\ g.in[v] \in Nat
    BY <1>1, <1>6 DEF Consistent
  <2> QED BY <1>7, <2>1 DEF CauseInv, ExactInv
<1> QED BY <1>2, <1>3, <1>4, <1>6, <1>8 DEF CauseInv, ReadyInv

\* When every node came back, no in-degree was too high.
LEMMA CompletionTells ==
  ASSUME IInv, CauseInv, pc = "wait"
  PROVE  Consistent
<1>1. /\ g.nodes \subseteq Key /\ g.edges \subseteq g.nodes \X g.nodes
      /\ IsFiniteSet(g.nodes) /\ g.in \in [Key -> Nat]
  BY GraphFacts DEF IInv, TypeOK
<1>2. Received \subseteq Started /\ Received \in SUBSET g.nodes
  BY DEF Received, Succeeded, Started, InState, IInv, ScheduleInv
<1>3. Received = g.nodes
  BY <1>1, <1>2, FS_Subset DEF IInv, ScheduleInv, CountersInv, Total
<1>4. ASSUME NEW n \in g.nodes
      PROVE  g.in[n] = Cardinality(Into(g.edges, n))
  <2>1. Into(g.edges, n) \cap Received = Into(g.edges, n) /\ Into(g.edges, n) \subseteq Key
    BY <1>1, <1>3 DEF Into
  <2>2. n \in Key /\ inDegree[n] = 0 /\ g.in[n] \in Nat
    BY <1>1, <1>2, <1>3 DEF IInv, DegreeInv
  <2>3. inDegree[n] = g.in[n] - Cardinality(Into(g.edges, n))
    BY <2>1, <2>2 DEF CauseInv, ExactInv
  <2>4. Cardinality(Into(g.edges, n)) \in Nat
    BY <2>1, KeysFinite
  <2> QED BY <2>2, <2>3, <2>4
<1> QED BY <1>4 DEF Consistent

\* The error of Process tells what went wrong, whatever came together: a stall
\* that the graph is inconsistent, nil that it is not, and a cancellation that
\* it was the caller's and no worker had failed (process.go:106-137).
THEOREM ErrorsTell == Spec => []ErrorTellsCause
<1> USE DEF ErrorTellsCause, StallTellsInconsistent, CancelledByCaller
<1>1. Init => ErrorTellsCause
  BY DEF Init
<1>2. IInv /\ CauseInv /\ ErrorTellsCause /\ [Next]_vars => ErrorTellsCause'
  <2> SUFFICES ASSUME IInv, CauseInv, ErrorTellsCause, [Next]_vars
               PROVE  ErrorTellsCause'
    OBVIOUS
  <2>1. ASSUME UNCHANGED g PROVE Consistent' <=> Consistent
    BY <2>1 DEF Consistent
  <2>2. CASE Stall
    BY <2>1, <2>2, StallTells DEF Stall
  <2>3. CASE WaitReturns
    BY <2>1, <2>3, CompletionTells DEF WaitReturns, Outcome, CauseInv, BlameInv
  <2>4. ASSUME NEW n \in Key, Fail(n)
        PROVE  ErrorTellsCause'
    <3>1. result = "none" /\ UNCHANGED <<g, result>>
      BY <2>4 DEF Fail, IInv, OutcomeInv, Running, InState
    <3> QED BY <3>1
  <2>5. CASE \/ \E n \in Key : Take(n) \/ Report(n) \/ Exit(n)
             \/ Break \/ Go \/ ToSelect \/ Receive \/ SelectCancelled \/ CallerCancels \/ UNCHANGED vars
    <3>1. UNCHANGED <<g, result, failure>> /\ (aborted => aborted')
      BY <2>5 DEF Take, Report, Exit, Break, Go, ToSelect, Receive, SelectCancelled, CallerCancels, vars
    <3> QED BY <2>1, <3>1
  <2> QED BY <2>2, <2>3, <2>4, <2>5 DEF Next, Coordinator, Worker, Finished
<1> QED BY <1>1, <1>2, InitInv, StepInv, InitCause, StepCause, PTL DEF Spec
=============================================================================
