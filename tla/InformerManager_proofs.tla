----------------------- MODULE InformerManager_proofs -----------------------
(***************************************************************************)
(* Proofs about InformerManager, for any number of deployers, workers,     *)
(* kinds and watched objects.                                              *)
(***************************************************************************)
EXTENDS InformerManager, FiniteSetTheorems, WellFoundedInduction, SequenceTheorems, TLAPS

-----------------------------------------------------------------------------
\* Names that are used again.

\* A set of natural numbers has a least one.
LEMMA LeastNumber ==
  ASSUME NEW S \in SUBSET Nat, S # {}
  PROVE  \E n \in S : \A k \in S : n <= k
<1> DEFINE R == OpToRel(<, Nat)
<1>1. IsWellFoundedOn(R, Nat)
  BY NatLessThanWellFounded
<1>2. \A x, y \in Nat : y < x => <<y, x>> \in R
  BY DEF OpToRel
<1> HIDE DEF R
<1>3. PICK n \in S : \A k \in S : ~ (<<k, n>> \in R)
  BY <1>1, WFMin
<1>4. ASSUME NEW k \in S PROVE n <= k
  <2>1. n \in Nat /\ k \in Nat /\ ~ (k < n)
    BY <1>2, <1>3
  <2> QED BY <2>1
<1> QED BY <1>4

\* Of one more numbers than there are in use, one is free: a new name is in use
\* nowhere and no larger than that.
LEMMA FreshName ==
  ASSUME NEW used, IsFiniteSet(used)
  PROVE  Fresh(used) \in 1..(Cardinality(used) + 1) /\ Fresh(used) \notin used
<1> DEFINE n == Cardinality(used)
           free == (1..(n + 1)) \ used
<1>1. n \in Nat
  BY FS_CardinalityType
<1>2. free # {}
  <2> SUFFICES ASSUME free = {} PROVE FALSE
    OBVIOUS
  <2>1. Cardinality(1..(n + 1)) = n + 1
    BY <1>1, FS_Interval
  <2>2. Cardinality(1..(n + 1)) <= Cardinality(used)
    BY FS_Subset
  <2> QED BY <1>1, <2>1, <2>2
<1>3. PICK m \in free : \A k \in free : m <= k
  <2>1. free \in SUBSET Nat
    BY <1>1
  <2> HIDE DEF free
  <2> QED BY <1>2, <2>1, LeastNumber
<1>4. Min(free) \in free
  BY <1>3 DEF Min
<1> QED BY <1>4 DEF Fresh

\* There are no more values of a function than arguments.
LEMMA ImageBound ==
  ASSUME NEW S, NEW f, IsFiniteSet(S)
  PROVE  /\ IsFiniteSet({f[x] : x \in S})
         /\ Cardinality({f[x] : x \in S}) <= Cardinality(S)
         /\ Cardinality(S) \in Nat /\ Cardinality({f[x] : x \in S}) \in Nat
<1> DEFINE T == {f[x] : x \in S}
           h == [x \in S |-> f[x]]
<1>1. h \in Surjection(S, T)
  BY DEF Surjection
<1> HIDE DEF h
<1>2. IsFiniteSet(T) /\ Cardinality(T) <= Cardinality(S)
  BY <1>1, FS_Surjection
<1> QED BY <1>2, FS_CardinalityType

\* Three sets hold together no more than each of them.
LEMMA UnionBound ==
  ASSUME NEW A, NEW B, NEW C, IsFiniteSet(A), IsFiniteSet(B), IsFiniteSet(C), NEW x
  PROVE  /\ IsFiniteSet((A \cup B \cup C) \ {x})
         /\ Cardinality((A \cup B \cup C) \ {x}) <= Cardinality(A) + Cardinality(B) + Cardinality(C)
<1>1. IsFiniteSet(A \cup B) /\ Cardinality(A \cup B) <= Cardinality(A) + Cardinality(B)
  <2>1. /\ IsFiniteSet(A \cup B) /\ IsFiniteSet(A \cap B)
        /\ Cardinality(A \cup B) = Cardinality(A) + Cardinality(B) - Cardinality(A \cap B)
    BY FS_Union, FS_Intersection
  <2>2. Cardinality(A) \in Nat /\ Cardinality(B) \in Nat /\ Cardinality(A \cap B) \in Nat
    BY <2>1, FS_CardinalityType
  <2> QED BY <2>1, <2>2
<1> DEFINE D == A \cup B
<1>2. /\ IsFiniteSet(D \cup C) /\ IsFiniteSet(D \cap C)
      /\ Cardinality(D \cup C) = Cardinality(D) + Cardinality(C) - Cardinality(D \cap C)
  BY <1>1, FS_Union, FS_Intersection
<1>3. /\ Cardinality(A) \in Nat /\ Cardinality(B) \in Nat /\ Cardinality(C) \in Nat /\ Cardinality(D) \in Nat
      /\ Cardinality(D \cap C) \in Nat /\ Cardinality(D \cup C) \in Nat
  BY <1>1, <1>2, FS_CardinalityType
<1> DEFINE U == D \cup C
<1>4. IsFiniteSet(U \ {x}) /\ Cardinality(U \ {x}) <= Cardinality(U) /\ Cardinality(U \ {x}) \in Nat
  BY <1>2, FS_Subset, FS_CardinalityType
<1> HIDE DEF D
<1>5. Cardinality(U \ {x}) <= Cardinality(A) + Cardinality(B) + Cardinality(C)
  BY <1>1, <1>2, <1>3, <1>4 DEF D
<1> QED BY <1>4, <1>5 DEF D

-----------------------------------------------------------------------------
\* The type invariant.  Next to it, that handlers are finitely many.
TypeInv == TypeOK /\ IsFiniteSet(handlers) /\ Cardinality(handlers) <= MaxHandlers

Bound == MaxHandlers + Cardinality(Child) + Cardinality(Worker) + Cardinality(GVK)

\* Numbers are counted from None.
LEMMA IdsFacts ==
  /\ Cardinality(Child) \in Nat /\ Cardinality(Worker) \in Nat /\ Cardinality(GVK) \in Nat
  /\ MaxHandlers \in Nat /\ Bound \in Nat /\ Ids = 0..Bound /\ None \in Ids /\ NoTask \in Task
<1>1. Cardinality(Child) \in Nat /\ Cardinality(Worker) \in Nat /\ Cardinality(GVK) \in Nat /\ MaxHandlers \in Nat
  BY InformerManagerAssumption, FS_CardinalityType
<1>2. Bound \in Nat /\ Ids = 0..Bound
  BY <1>1 DEF Bound, Ids
<1> QED BY <1>1, <1>2 DEF None, NoTask, Task

\* The name of a new informer: one kind has none, the others, the tasks and the
\* workers hold the rest of the names.
LEMMA NewInformer ==
  ASSUME TypeInv, NEW g \in GVK, informer[g] = None
  PROVE  FreshInformer \in Ids /\ FreshInformer # None
<1> DEFINE A == {informer[x] : x \in GVK}
           B == {task[c].inf : c \in Child}
           C == {inf[w] : w \in Worker}
           f == [c \in Child |-> task[c].inf]
           used == (A \cup B \cup C) \ {None}
<1>1. /\ IsFiniteSet(A) /\ Cardinality(A) <= Cardinality(GVK) /\ Cardinality(A) \in Nat
      /\ IsFiniteSet(C) /\ Cardinality(C) <= Cardinality(Worker) /\ Cardinality(C) \in Nat
  <2>1. IsFiniteSet(A) /\ Cardinality(A) <= Cardinality(GVK) /\ Cardinality(A) \in Nat
    BY ImageBound, InformerManagerAssumption
  <2>2. IsFiniteSet(C) /\ Cardinality(C) <= Cardinality(Worker) /\ Cardinality(C) \in Nat
    BY ImageBound, InformerManagerAssumption
  <2> QED BY <2>1, <2>2
<1>2. IsFiniteSet(B) /\ Cardinality(B) <= Cardinality(Child) /\ Cardinality(B) \in Nat
  <2>1. B = {f[c] : c \in Child}
    OBVIOUS
  <2>2. IsFiniteSet(Child)
    BY InformerManagerAssumption
  <2> HIDE DEF f, B
  <2> QED BY <2>1, <2>2, ImageBound
<1>3. None \in A
  OBVIOUS
<1> DEFINE D == A \ {None}
<1>4. IsFiniteSet(D) /\ Cardinality(D) = Cardinality(A) - 1
  BY <1>1, <1>3, FS_RemoveElement
<1>5. used = (D \cup B \cup C) \ {None}
  OBVIOUS
<1>6. FreshInformer = Fresh(used)
  BY DEF FreshInformer
<1> HIDE DEF A, B, C, D, used
<1>7. IsFiniteSet(used) /\ Cardinality(used) <= Cardinality(D) + Cardinality(B) + Cardinality(C)
  BY <1>1, <1>2, <1>4, <1>5, UnionBound
<1>8. Cardinality(used) \in Nat /\ Fresh(used) \in 1..(Cardinality(used) + 1)
  BY <1>7, FreshName, FS_CardinalityType
<1>9. Cardinality(used) + 1 <= Bound
  <2>1. /\ Cardinality(A) <= Cardinality(GVK) /\ Cardinality(B) <= Cardinality(Child)
        /\ Cardinality(C) <= Cardinality(Worker) /\ Cardinality(D) = Cardinality(A) - 1
        /\ Cardinality(used) <= Cardinality(D) + Cardinality(B) + Cardinality(C)
    BY <1>1, <1>2, <1>4, <1>7
  <2>2. /\ Cardinality(A) \in Nat /\ Cardinality(B) \in Nat /\ Cardinality(C) \in Nat
        /\ Cardinality(used) \in Nat
    BY <1>1, <1>2, <1>8
  <2>3. /\ Cardinality(Child) \in Nat /\ Cardinality(Worker) \in Nat /\ Cardinality(GVK) \in Nat
        /\ MaxHandlers \in Nat
    BY IdsFacts
  <2> QED BY <2>1, <2>2, <2>3 DEF Bound
<1>10. Fresh(used) \in Nat /\ 1 <= Fresh(used) /\ Fresh(used) <= Cardinality(used) + 1
  BY <1>8
<1>11. Bound \in Nat /\ Ids = 0..Bound
  BY IdsFacts
<1>12. Fresh(used) \in 0..Bound /\ Fresh(used) # 0
  BY <1>8, <1>9, <1>10, <1>11
<1> QED BY <1>6, <1>11, <1>12 DEF None

\* The name of a new registration, as long as one more handler is allowed.
LEMMA NewReg ==
  ASSUME TypeInv, Cardinality(handlers) < MaxHandlers
  PROVE  FreshReg \in Ids /\ FreshReg # None
<1> DEFINE A == {h.reg : h \in handlers}
           B == {task[c].reg : c \in Child}
           C == {reg[w] : w \in Worker}
           e == [h \in handlers |-> h.reg]
           f == [c \in Child |-> task[c].reg]
           used == (A \cup B \cup C) \ {None}
<1>1. IsFiniteSet(C) /\ Cardinality(C) <= Cardinality(Worker) /\ Cardinality(C) \in Nat
  BY ImageBound, InformerManagerAssumption
<1>2. /\ IsFiniteSet(A) /\ Cardinality(A) <= Cardinality(handlers) /\ Cardinality(A) \in Nat
      /\ Cardinality(handlers) \in Nat
  <2>1. A = {e[h] : h \in handlers}
    OBVIOUS
  <2> HIDE DEF e, A
  <2> QED BY <2>1, ImageBound DEF TypeInv
<1>3. IsFiniteSet(B) /\ Cardinality(B) <= Cardinality(Child) /\ Cardinality(B) \in Nat
  <2>1. B = {f[c] : c \in Child}
    OBVIOUS
  <2>2. IsFiniteSet(Child)
    BY InformerManagerAssumption
  <2> HIDE DEF f, B
  <2> QED BY <2>1, <2>2, ImageBound
<1>4. FreshReg = Fresh(used)
  BY DEF FreshReg
<1> HIDE DEF A, B, C, used
<1>5. IsFiniteSet(used) /\ Cardinality(used) <= Cardinality(A) + Cardinality(B) + Cardinality(C)
  BY <1>1, <1>2, <1>3, UnionBound DEF used
<1>6. Cardinality(used) \in Nat /\ Fresh(used) \in 1..(Cardinality(used) + 1)
  BY <1>5, FreshName, FS_CardinalityType
<1>7. Cardinality(used) + 1 <= Bound
  <2>1. /\ Cardinality(A) < MaxHandlers /\ Cardinality(B) <= Cardinality(Child)
        /\ Cardinality(C) <= Cardinality(Worker)
        /\ Cardinality(used) <= Cardinality(A) + Cardinality(B) + Cardinality(C)
    BY <1>1, <1>2, <1>3, <1>5, IdsFacts
  <2>2. /\ Cardinality(A) \in Nat /\ Cardinality(B) \in Nat /\ Cardinality(C) \in Nat
        /\ Cardinality(used) \in Nat
    BY <1>1, <1>2, <1>3, <1>6
  <2>3. /\ Cardinality(Child) \in Nat /\ Cardinality(Worker) \in Nat /\ Cardinality(GVK) \in Nat
        /\ MaxHandlers \in Nat
    BY IdsFacts
  <2> QED BY <2>1, <2>2, <2>3 DEF Bound
<1> QED BY <1>4, <1>6, <1>7, IdsFacts DEF None

\* What Append, Head and Tail do to a channel.
LEMMA ChannelFacts ==
  ASSUME NEW q \in Seq(Child)
  PROVE  /\ Len(q) \in Nat
         /\ \A c \in Child : Append(q, c) \in Seq(Child) /\ Len(Append(q, c)) = Len(q) + 1
         /\ q # <<>> => Head(q) \in Child /\ Tail(q) \in Seq(Child) /\ Len(Tail(q)) = Len(q) - 1
BY AppendProperties, HeadTailProperties, LenProperties

\* The initial state has its type.
LEMMA InitType == Init => TypeInv
<1> SUFFICES ASSUME Init PROVE TypeInv
  OBVIOUS
<1>1. (CHOOSE c \in Child : TRUE) \in Child
  BY InformerManagerAssumption
<1>2. Cardinality(handlers) <= MaxHandlers /\ IsFiniteSet(handlers)
  BY FS_EmptySet, IdsFacts DEF Init
<1>3. register \in Seq(Child) /\ Len(register) <= BufferSize /\ unregister \in Seq(Child) /\ Len(unregister) <= BufferSize
  BY InformerManagerAssumption DEF Init
<1>4. failures \in 0..MaxFailures
  BY InformerManagerAssumption DEF Init
<1> QED BY <1>1, <1>2, <1>3, <1>4, IdsFacts DEF Init, TypeInv, TypeOK

\* A reconcile and its environment touch only the deployers and what is sent.
LEMMA DeployerType ==
  ASSUME TypeInv, NEW d \in Deployer, Reconcile(d) \/ Delete(d) \/ Enqueue(d)
  PROVE  TypeInv'
<1>1. UNCHANGED <<watches, workers>>
  BY DEF Reconcile, StartTrack, TrackDone, StartUntrack, UntrackDone, TrackSynced, TrackRegisters,
         UntrackStopped, UntrackSends, Delete, Enqueue
<1>2. /\ register' \in Seq(Child) /\ Len(register') <= BufferSize
      /\ unregister' \in Seq(Child) /\ Len(unregister') <= BufferSize
  <2>1. CASE \E c \in Child : TrackRegisters(d, c) \/ UntrackSends(d, c)
    <3>1. BufferSize \in Nat /\ register \in Seq(Child) /\ unregister \in Seq(Child)
      BY InformerManagerAssumption DEF TypeInv, TypeOK
    <3>2. /\ Len(register) \in Nat /\ Len(unregister) \in Nat
          /\ \A c \in Child : /\ Append(register, c) \in Seq(Child) /\ Len(Append(register, c)) = Len(register) + 1
                            /\ Append(unregister, c) \in Seq(Child)
                            /\ Len(Append(unregister, c)) = Len(unregister) + 1
      BY <3>1, ChannelFacts
    <3>3. Len(register) <= BufferSize /\ Len(unregister) <= BufferSize
      BY DEF TypeInv, TypeOK
    <3>4. PICK c \in Child : TrackRegisters(d, c) \/ UntrackSends(d, c)
      BY <2>1
    <3>5. register' = register \/ (Len(register) < BufferSize /\ register' = Append(register, c))
      BY <3>4 DEF TrackRegisters, UntrackSends
    <3>6. unregister' = unregister \/ (Len(unregister) < BufferSize /\ unregister' = Append(unregister, c))
      BY <3>4 DEF TrackRegisters, UntrackSends
    <3>7. register' \in Seq(Child) /\ Len(register') <= BufferSize
      BY <3>1, <3>2, <3>3, <3>5
    <3>8. unregister' \in Seq(Child) /\ Len(unregister') <= BufferSize
      BY <3>1, <3>2, <3>3, <3>6
    <3> QED BY <3>7, <3>8
  <2>2. CASE UNCHANGED <<register, unregister>>
    BY <2>2 DEF TypeInv, TypeOK
  <2> QED
    BY <2>1, <2>2 DEF Reconcile, StartTrack, TrackDone, StartUntrack, UntrackDone, TrackSynced,
       UntrackStopped, Delete, Enqueue, channels
<1>3. /\ life' \in [Deployer -> {"live", "deleting", "gone"}] /\ ready' \in [Deployer -> BOOLEAN]
      /\ due' \in [Deployer -> BOOLEAN] /\ again' \in [Deployer -> BOOLEAN]
      /\ at' \in [Deployer -> {"idle", "track", "untrack"}] /\ left' \in [Deployer -> SUBSET Child]
  <2>1. life' \in [Deployer -> {"live", "deleting", "gone"}]
    BY DEF Reconcile, StartTrack, TrackDone, StartUntrack, UntrackDone, TrackSynced, TrackRegisters,
             UntrackStopped, UntrackSends, Delete, Enqueue, TypeInv, TypeOK
  <2>2. ready' \in [Deployer -> BOOLEAN]
    BY DEF Reconcile, StartTrack, TrackDone, StartUntrack, UntrackDone, TrackSynced, TrackRegisters,
             UntrackStopped, UntrackSends, Delete, Enqueue, TypeInv, TypeOK
  <2>3. due' \in [Deployer -> BOOLEAN]
    BY DEF Reconcile, StartTrack, TrackDone, StartUntrack, UntrackDone, TrackSynced, TrackRegisters,
             UntrackStopped, UntrackSends, Delete, Enqueue, TypeInv, TypeOK
  <2>4. again' \in [Deployer -> BOOLEAN]
    BY DEF Reconcile, StartTrack, TrackDone, StartUntrack, UntrackDone, TrackSynced, TrackRegisters,
             UntrackStopped, UntrackSends, Delete, Enqueue, TypeInv, TypeOK
  <2>5. at' \in [Deployer -> {"idle", "track", "untrack"}]
    BY DEF Reconcile, StartTrack, TrackDone, StartUntrack, UntrackDone, TrackSynced, TrackRegisters,
             UntrackStopped, UntrackSends, Delete, Enqueue, TypeInv, TypeOK
  <2>6. left' \in [Deployer -> SUBSET Child]
    BY InformerManagerAssumption DEF Reconcile, StartTrack, TrackDone, StartUntrack, UntrackDone, TrackSynced, TrackRegisters,
             UntrackStopped, UntrackSends, Delete, Enqueue, TypeInv, TypeOK, Watches
  <2> QED BY <2>1, <2>2, <2>3, <2>4, <2>5, <2>6
<1>4. failures' \in 0..MaxFailures
  BY InformerManagerAssumption
     DEF Reconcile, StartTrack, TrackDone, StartUntrack, UntrackDone, TrackSynced, TrackRegisters,
         UntrackStopped, UntrackSends, Delete, Enqueue, TypeInv, TypeOK
<1> QED BY <1>1, <1>2, <1>3, <1>4 DEF TypeInv, TypeOK, watches, workers

\* So does a worker; the informer and the registration it makes have names.
LEMMA WorkerType ==
  ASSUME TypeInv, NEW w \in Worker, Work(w)
  PROVE  TypeInv'
<1>1. UNCHANGED deployers
  BY DEF Work, TakeRegister, TakeUnregister, LoadActive, LoadMissing, GetInformer, GetInformerFails,
         AddHandler, AddHandlerFails, Store, GetTask, RemoveHandler, RemoveInformer, DeleteTask
<1>2. /\ register' \in Seq(Child) /\ Len(register') <= BufferSize
      /\ unregister' \in Seq(Child) /\ Len(unregister') <= BufferSize
      /\ key' \in [Worker -> Child]
  <2>1. CASE TakeRegister(w) \/ TakeUnregister(w)
    <3>1. BufferSize \in Nat /\ register \in Seq(Child) /\ unregister \in Seq(Child)
      BY InformerManagerAssumption DEF TypeInv, TypeOK
    <3>2. /\ Len(register) \in Nat /\ Len(unregister) \in Nat
          /\ register # <<>> => /\ Head(register) \in Child /\ Tail(register) \in Seq(Child)
                               /\ Len(Tail(register)) = Len(register) - 1
          /\ unregister # <<>> => /\ Head(unregister) \in Child /\ Tail(unregister) \in Seq(Child)
                                 /\ Len(Tail(unregister)) = Len(unregister) - 1
      BY <3>1, ChannelFacts
    <3>3. Len(register) <= BufferSize /\ Len(unregister) <= BufferSize /\ key \in [Worker -> Child]
      BY DEF TypeInv, TypeOK
    <3>4. CASE TakeRegister(w)
      BY <3>1, <3>2, <3>3, <3>4 DEF TakeRegister
    <3>5. CASE TakeUnregister(w)
      BY <3>1, <3>2, <3>3, <3>5 DEF TakeUnregister
    <3> QED BY <2>1, <3>4, <3>5
  <2>2. CASE UNCHANGED <<register, unregister, key>>
    BY <2>2 DEF TypeInv, TypeOK
  <2> QED
    BY <2>1, <2>2 DEF Work, LoadActive, LoadMissing, GetInformer, GetInformerFails, AddHandler,
       AddHandlerFails, Store, GetTask, RemoveHandler, RemoveInformer, DeleteTask, channels
<1>3. failures' \in 0..MaxFailures
  BY InformerManagerAssumption
     DEF Work, TakeRegister, TakeUnregister, LoadActive, LoadMissing, GetInformer, GetInformerFails,
         AddHandler, AddHandlerFails, Store, GetTask, RemoveHandler, RemoveInformer, DeleteTask,
         TypeInv, TypeOK
<1>4. pc' \in [Worker -> {"idle", "load", "getInformer", "addHandler", "store",
                          "getTask", "removeHandler", "removeInformer", "delete"}]
  BY DEF Work, TakeRegister, TakeUnregister, LoadActive, LoadMissing, GetInformer, GetInformerFails,
         AddHandler, AddHandlerFails, Store, GetTask, RemoveHandler, RemoveInformer, DeleteTask,
         Goto, Forget, TypeInv, TypeOK
<1>5. /\ task' \in [Child -> Task] /\ informer' \in [GVK -> Ids]
      /\ inf' \in [Worker -> Ids] /\ reg' \in [Worker -> Ids]
      /\ handlers' \subseteq [reg : Ids, inf : Ids] /\ synced' \subseteq Ids
      /\ IsFiniteSet(handlers') /\ Cardinality(handlers') <= MaxHandlers
  <2>1. CASE GetInformer(w)
    <3>1. Kind[key[w]] \in GVK
      BY InformerManagerAssumption DEF TypeInv, TypeOK
    <3> QED BY <2>1, <3>1, NewInformer DEF GetInformer, TypeInv, TypeOK
  <2>2. CASE AddHandler(w)
    <3>1. FreshReg \in Ids
      BY <2>2, NewReg DEF AddHandler
    <3>2. IsFiniteSet(handlers') /\ Cardinality(handlers') <= MaxHandlers
      <4>1. Cardinality(handlers) \in Nat /\ Cardinality(handlers) < MaxHandlers /\ MaxHandlers \in Nat
        BY <2>2, FS_CardinalityType, IdsFacts DEF AddHandler, TypeInv
      <4>2. PICK h : handlers' = handlers \cup {h}
        BY <2>2 DEF AddHandler
      <4>3. /\ IsFiniteSet(handlers')
            /\ Cardinality(handlers') = Cardinality(handlers) \/ Cardinality(handlers') = Cardinality(handlers) + 1
        BY <4>2, FS_AddElement DEF TypeInv
      <4> QED BY <4>1, <4>3
    <3>3. handlers' \subseteq [reg : Ids, inf : Ids] /\ synced' \subseteq Ids /\ reg' \in [Worker -> Ids]
      BY <2>2, <3>1 DEF AddHandler, TypeInv, TypeOK
    <3> QED BY <2>2, <3>2, <3>3 DEF AddHandler, TypeInv, TypeOK
  <2>3. CASE RemoveHandler(w) \/ RemoveInformer(w)
    <3>1. handlers' \subseteq handlers
      BY <2>3 DEF RemoveHandler, RemoveInformer
    <3>2. IsFiniteSet(handlers') /\ Cardinality(handlers') <= MaxHandlers
      <4>1. IsFiniteSet(handlers') /\ Cardinality(handlers') <= Cardinality(handlers)
        BY <3>1, FS_Subset DEF TypeInv
      <4> QED BY <4>1, FS_CardinalityType, IdsFacts DEF TypeInv
    <3> QED BY <2>3, <3>1, <3>2, IdsFacts DEF RemoveHandler, RemoveInformer, TypeInv, TypeOK
  <2>4. CASE Store(w) \/ GetTask(w) \/ DeleteTask(w) \/ AddHandlerFails(w)
    <3>1. key[w] \in Child /\ inf[w] \in Ids /\ reg[w] \in Ids /\ task[key[w]].inf \in Ids /\ task[key[w]].reg \in Ids
      BY DEF TypeInv, TypeOK, Task
    <3>2. task' \in [Child -> Task]
      <4>1. task' = task \/ \E e \in Task : task' = [task EXCEPT ![key[w]] = e]
        <5>1. [inf |-> inf[w], reg |-> reg[w]] \in Task /\ NoTask \in Task
          BY <3>1, IdsFacts DEF Task
        <5>2. CASE GetTask(w) \/ AddHandlerFails(w)
          BY <5>2 DEF GetTask, AddHandlerFails, watches
        <5>3. CASE Store(w)
          BY <5>1, <5>3 DEF Store
        <5>4. CASE DeleteTask(w)
          BY <5>1, <5>4 DEF DeleteTask
        <5> QED BY <2>4, <5>2, <5>3, <5>4
      <4>2. task \in [Child -> Task]
        BY DEF TypeInv, TypeOK
      <4> QED BY <4>1, <4>2
    <3>3. inf' \in [Worker -> Ids] /\ reg' \in [Worker -> Ids]
      <4>1. \E i, r \in Ids : inf' = [inf EXCEPT ![w] = i] /\ reg' = [reg EXCEPT ![w] = r]
        <5>1. CASE Forget(w)
          BY <5>1, IdsFacts DEF Forget
        <5>2. CASE GetTask(w) /\ ~ Forget(w)
          BY <3>1, <5>2 DEF GetTask
        <5> QED BY <2>4, <5>1, <5>2 DEF Store, GetTask, DeleteTask, AddHandlerFails
      <4>2. inf \in [Worker -> Ids] /\ reg \in [Worker -> Ids]
        BY DEF TypeInv, TypeOK
      <4> QED BY <4>1, <4>2
    <3>4. UNCHANGED <<informer, handlers, synced>>
      BY <2>4 DEF Store, GetTask, DeleteTask, AddHandlerFails, watches
    <3> QED BY <3>2, <3>3, <3>4 DEF TypeInv, TypeOK
  <2>5. CASE UNCHANGED <<watches, inf, reg>>
    BY <2>5 DEF watches, TypeInv, TypeOK
  <2> QED
    BY <2>1, <2>2, <2>3, <2>4, <2>5 DEF Work, TakeRegister, TakeUnregister, LoadActive, LoadMissing,
       GetInformerFails
<1> QED BY <1>1, <1>2, <1>3, <1>4, <1>5 DEF TypeInv, TypeOK, deployers

\* Every step keeps the types.
LEMMA TypeKept == TypeInv /\ [Next]_vars => TypeInv'
<1> SUFFICES ASSUME TypeInv, [Next]_vars PROVE TypeInv'
  OBVIOUS
<1>1. ASSUME NEW d \in Deployer, Reconcile(d) \/ Delete(d) \/ Enqueue(d) PROVE TypeInv'
  BY <1>1, DeployerType
<1>2. ASSUME NEW w \in Worker, Work(w) PROVE TypeInv'
  BY <1>2, WorkerType
<1>3. ASSUME NEW h \in handlers, Sync(h) PROVE TypeInv'
  BY <1>3 DEF Sync, TypeInv, TypeOK, deployers, channels, workers
<1>4. CASE UNCHANGED vars
  BY <1>4 DEF vars, deployers, channels, watches, workers, TypeInv, TypeOK
<1> QED BY <1>1, <1>2, <1>3, <1>4 DEF Next

\* TypeOK: the channels never hold more than their buffers, and the names in use
\* at any time are bounded by what can refer to one, however many watches have
\* been started and stopped.
THEOREM TypeCorrect == Spec => []TypeOK
<1>1. TypeInv => TypeOK
  BY DEF TypeInv
<1> QED BY <1>1, InitType, TypeKept, PTL DEF Spec

-----------------------------------------------------------------------------
\* Ready means watched.  Untrack stops the watches of all deployers of the kind,
\* so it holds until one of them is deleted: nothing is unregistered up to then,
\* an informer that runs goes on, and a handler at it stays.
NobodyDeleted == \A d \in Deployer : life[d] = "live"

\* A handler is at the informer of the object's kind, which runs.
Held(c) == informer[Kind[c]] # None /\ Watched(c)

NothingUnregistered ==
  /\ unregister = <<>>
  /\ \A d \in Deployer : at[d] # "untrack"
  /\ \A w \in Worker : pc[w] \in {"idle", "load", "getInformer", "addHandler", "store"}

\* A worker about to add its handler holds the informer of its kind, also if
\* another one registers the same watch; past that, and for every task, there is
\* a handler.
WorkersHold ==
  \A w \in Worker :
    /\ pc[w] \in {"addHandler", "store"} => inf[w] # None /\ inf[w] = informer[Kind[key[w]]]
    /\ pc[w] = "store" => Held(key[w])
TasksHold == \A c \in Child : task[c] # NoTask => Held(c)

\* A reconcile that has not had to ask has seen the watches it has done with.
TracksHold ==
  \A d \in Deployer :
    /\ at[d] = "track" /\ ~ again[d] => \A c \in Deploys[d] \ left[d] : Held(c)
    /\ ready[d] => \A c \in Deploys[d] : Held(c)

HoldInv == NothingUnregistered /\ WorkersHold /\ TasksHold /\ TracksHold

\* What is held stays so: informers and handlers only come.
LEMMA HeldStays ==
  ASSUME handlers \subseteq handlers', \A g \in GVK : informer[g] # None => informer'[g] = informer[g],
         NEW c \in Child, Held(c)
  PROVE  Held(c)'
BY InformerManagerAssumption DEF Held, Watched

\* Initially nothing is watched and nobody is ready.
LEMMA InitHolds == Init => HoldInv
<1> SUFFICES ASSUME Init PROVE HoldInv
  OBVIOUS
<1>1. NothingUnregistered /\ WorkersHold /\ TasksHold
  BY DEF Init, NothingUnregistered, WorkersHold, TasksHold
<1>2. TracksHold
  BY DEF Init, TracksHold
<1> QED BY <1>1, <1>2 DEF HoldInv

\* Nobody comes back to life.
LEMMA DeletedBefore ==
  ASSUME TypeInv, [Next]_vars, NobodyDeleted'
  PROVE  NobodyDeleted
<1>1. CASE UNCHANGED life
  BY <1>1 DEF NobodyDeleted
<1>2. ASSUME NEW d \in Deployer, UntrackDone(d) \/ Delete(d)
      PROVE  NobodyDeleted
  <2>1. \/ life' = life
        \/ \E l \in {"gone", "deleting"} : life' = [life EXCEPT ![d] = l]
    BY <1>2 DEF UntrackDone, Delete
  <2>2. life \in [Deployer -> {"live", "deleting", "gone"}]
    BY DEF TypeInv, TypeOK
  <2>3. CASE \E l \in {"gone", "deleting"} : life' = [life EXCEPT ![d] = l]
    <3>1. life'[d] # "live"
      BY <2>2, <2>3
    <3> QED BY <3>1 DEF NobodyDeleted
  <2> QED BY <1>1, <2>1, <2>3
<1>3. ASSUME NEW d \in Deployer, Reconcile(d), ~ UntrackDone(d) PROVE UNCHANGED life
  BY <1>3 DEF Reconcile, StartTrack, TrackDone, StartUntrack, TrackSynced, TrackRegisters,
              UntrackStopped, UntrackSends
<1>4. ASSUME NEW w \in Worker, Work(w) PROVE UNCHANGED life
  BY <1>4 DEF Work, TakeRegister, TakeUnregister, LoadActive, LoadMissing, GetInformer, GetInformerFails,
              AddHandler, AddHandlerFails, Store, GetTask, RemoveHandler, RemoveInformer, DeleteTask, deployers
<1>5. ASSUME NEW d \in Deployer, Enqueue(d) PROVE UNCHANGED life
  BY <1>5 DEF Enqueue
<1>6. ASSUME NEW h \in handlers, Sync(h) PROVE UNCHANGED life
  BY <1>6 DEF Sync, deployers
<1>7. CASE UNCHANGED vars
  BY <1>1, <1>7 DEF vars, deployers
<1> QED BY <1>1, <1>2, <1>3, <1>4, <1>5, <1>6, <1>7 DEF Next

\* A deployer counts an object as done only if its watch has synced, or else has
\* to come again.
LEMMA DeployersHold ==
  ASSUME TypeInv, HoldInv, NobodyDeleted, NobodyDeleted',
         NEW d \in Deployer, Reconcile(d) \/ Delete(d) \/ Enqueue(d)
  PROVE  HoldInv'
<1>1. UNCHANGED <<watches, workers>>
  BY DEF Reconcile, StartTrack, TrackDone, StartUntrack, UntrackDone, TrackSynced, TrackRegisters,
         UntrackStopped, UntrackSends, Delete, Enqueue
<1>2. \A c \in Child : Held(c)' = Held(c)
  BY <1>1 DEF Held, Watched, watches
<1>3. WorkersHold' /\ TasksHold'
  BY <1>1, <1>2 DEF HoldInv, WorkersHold, TasksHold, watches, workers, TypeInv, TypeOK
<1>4. \/ StartTrack(d) \/ TrackDone(d) \/ Enqueue(d)
      \/ \E c \in Child : TrackSynced(d, c) \/ TrackRegisters(d, c)
  BY DEF Reconcile, StartUntrack, UntrackDone, UntrackStopped, UntrackSends, Delete, NobodyDeleted,
         HoldInv, NothingUnregistered, TypeInv, TypeOK
<1>5. NothingUnregistered'
  BY <1>1, <1>4 DEF StartTrack, TrackDone, Enqueue, TrackSynced, TrackRegisters, HoldInv,
     NothingUnregistered, TypeInv, TypeOK, channels, workers
<1>6. TracksHold'
  <2>1. CASE StartTrack(d) \/ Enqueue(d)
    BY <1>2, <2>1, InformerManagerAssumption DEF StartTrack, Enqueue, HoldInv, TracksHold, TypeInv, TypeOK
  <2>2. CASE TrackDone(d)
    BY <1>2, <2>2, InformerManagerAssumption DEF TrackDone, HoldInv, TracksHold, TypeInv, TypeOK
  <2>3. ASSUME NEW c \in Child, TrackSynced(d, c) PROVE TracksHold'
    <3>1. Held(c)
      BY <2>3 DEF TrackSynced, HasSynced, HoldInv, TasksHold
    <3> QED BY <1>2, <2>3, <3>1, InformerManagerAssumption DEF TrackSynced, HoldInv, TracksHold, TypeInv, TypeOK
  <2>4. ASSUME NEW c \in Child, TrackRegisters(d, c) PROVE TracksHold'
    BY <1>2, <2>4, InformerManagerAssumption DEF TrackRegisters, HoldInv, TracksHold, TypeInv, TypeOK
  <2> QED BY <1>4, <2>1, <2>2, <2>3, <2>4
<1> QED BY <1>3, <1>5, <1>6 DEF HoldInv

\* A worker starts an informer only if the kind has none, and stores a task after
\* the handler is there; two workers on one watch leave two handlers.
LEMMA WorkersKeep ==
  ASSUME TypeInv, HoldInv, NEW w \in Worker, Work(w)
  PROVE  HoldInv'
<1>1. UNCHANGED deployers
  BY DEF Work, TakeRegister, TakeUnregister, LoadActive, LoadMissing, GetInformer, GetInformerFails,
         AddHandler, AddHandlerFails, Store, GetTask, RemoveHandler, RemoveInformer, DeleteTask
<1>2. \/ TakeRegister(w) \/ LoadActive(w) \/ LoadMissing(w) \/ GetInformer(w) \/ GetInformerFails(w)
      \/ AddHandler(w) \/ Store(w)
  <2>1. ~ AddHandlerFails(w)
    <3>1. Kind[key[w]] \in GVK
      BY InformerManagerAssumption DEF TypeInv, TypeOK
    <3> QED BY <3>1 DEF AddHandlerFails, Running, HoldInv, WorkersHold
  <2> QED BY <2>1 DEF Work, TakeUnregister, GetTask, RemoveHandler, RemoveInformer, DeleteTask,
         HoldInv, NothingUnregistered
<1>3. handlers \subseteq handlers' /\ \A g \in GVK : informer[g] # None => informer'[g] = informer[g]
  BY <1>2 DEF TakeRegister, LoadActive, LoadMissing, GetInformer, GetInformerFails, AddHandler, Store,
     TypeInv, TypeOK, watches
<1>4. \A c \in Child : Held(c) => Held(c)'
  BY <1>3, HeldStays
<1>5. NothingUnregistered'
  BY <1>1, <1>2 DEF TakeRegister, LoadActive, LoadMissing, GetInformer, GetInformerFails, AddHandler, Store,
     Goto, Forget, HoldInv, NothingUnregistered, TypeInv, TypeOK, channels, deployers
<1>6. TracksHold'
  BY <1>1, <1>4, InformerManagerAssumption DEF HoldInv, TracksHold, deployers, TypeInv, TypeOK
<1>7. WorkersHold' /\ TasksHold'
  <2>1. CASE TakeRegister(w) \/ LoadActive(w) \/ LoadMissing(w) \/ GetInformerFails(w)
    BY <1>4, <2>1 DEF TakeRegister, LoadActive, LoadMissing, GetInformerFails, Goto, HoldInv, WorkersHold,
       TasksHold, TypeInv, TypeOK, watches
  <2>2. CASE GetInformer(w)
    BY <1>4, <2>2, NewInformer, InformerManagerAssumption DEF GetInformer, Goto, HoldInv, WorkersHold, TasksHold, TypeInv, TypeOK
  <2>3. CASE AddHandler(w)
    <3>1. inf[w] # None /\ inf[w] = informer[Kind[key[w]]]
      BY <2>3 DEF AddHandler, HoldInv, WorkersHold
    <3>2. UNCHANGED <<task, informer, key, inf>> /\ \E h \in handlers' : h.inf = inf[w]
      <4>1. PICK r : handlers' = handlers \cup {[reg |-> r, inf |-> inf[w]]}
        BY <2>3 DEF AddHandler
      <4>2. [reg |-> r, inf |-> inf[w]] \in handlers' /\ [reg |-> r, inf |-> inf[w]].inf = inf[w]
        BY <4>1
      <4> QED BY <2>3, <4>2 DEF AddHandler
    <3>3. Held(key[w])'
      BY <3>1, <3>2 DEF Held, Watched
    <3>4. \A x \in Worker \ {w} : pc'[x] = pc[x]
      BY <2>3 DEF AddHandler, Goto, TypeInv, TypeOK
    <3>5. key \in [Worker -> Child]
      BY DEF TypeInv, TypeOK
    <3> HIDE DEF Held
    <3>6. TasksHold'
      BY <1>4, <3>2 DEF HoldInv, TasksHold
    <3>7. WorkersHold'
      BY <1>4, <3>1, <3>2, <3>3, <3>4, <3>5 DEF HoldInv, WorkersHold
    <3> QED BY <3>6, <3>7
  <2>4. CASE Store(w)
    BY <1>4, <2>4 DEF Store, Goto, Forget, HoldInv, WorkersHold, TasksHold, TypeInv, TypeOK
  <2> QED BY <1>2, <2>1, <2>2, <2>3, <2>4
<1> QED BY <1>5, <1>6, <1>7 DEF HoldInv

\* ReadyMeansWatched holds until a deployer of the kind is deleted: whatever
\* registrations race, fail and are repeated.
THEOREM ReadyIsWatched == Spec => [](NobodyDeleted => ReadyMeansWatched)
<1> DEFINE Inv == TypeInv /\ (NobodyDeleted => HoldInv)
<1>1. Init => Inv
  BY InitType, InitHolds
<1>2. Inv /\ [Next]_vars => Inv'
  <2> SUFFICES ASSUME Inv, [Next]_vars, NobodyDeleted' PROVE HoldInv'
    BY TypeKept
  <2>1. NobodyDeleted /\ HoldInv
    BY DeletedBefore
  <2>2. ASSUME NEW d \in Deployer, Reconcile(d) \/ Delete(d) \/ Enqueue(d) PROVE HoldInv'
    BY <2>1, <2>2, DeployersHold
  <2>3. ASSUME NEW w \in Worker, Work(w) PROVE HoldInv'
    BY <2>1, <2>3, WorkersKeep
  <2>4. CASE UNCHANGED <<deployers, channels, task, informer, handlers, workers>>
    BY <2>1, <2>4 DEF HoldInv, NothingUnregistered, WorkersHold, TasksHold, TracksHold, Held, Watched,
       deployers, channels, workers
  <2> QED BY <2>2, <2>3, <2>4 DEF Next, Sync, vars, watches
<1>3. Inv => (NobodyDeleted => ReadyMeansWatched)
  BY DEF HoldInv, TracksHold, Held, ReadyMeansWatched
<1> QED BY <1>1, <1>2, <1>3, PTL DEF Spec

\* A deployer that is alone of its kind is watched whenever it is ready, its own
\* deletion included.
THEOREM ReadyAloneIsWatched ==
  ASSUME NEW d, Deployer = {d}
  PROVE  Spec => []ReadyMeansWatched
<1>1. (NobodyDeleted => ReadyMeansWatched) => ReadyMeansWatched
  BY DEF NobodyDeleted, ReadyMeansWatched
<1> QED BY <1>1, ReadyIsWatched, PTL

-----------------------------------------------------------------------------
\* What BecomesReady and DeletionCompletes rest on besides fairness: a deployer
\* that is not ready, or is being deleted, is in the workqueue or in a reconcile
\* that puts it there, also if it was deleted during one that registers.
NobodyForgotten ==
  \A d \in Deployer :
    /\ life[d] = "live" /\ at[d] = "idle" /\ ~ ready[d] => due[d]
    /\ life[d] = "deleting" /\ at[d] # "untrack" => due[d]

\* Only a deployer being deleted unregisters, and it is not gone before.
ReconcileInv == \A d \in Deployer : at[d] = "untrack" => life[d] = "deleting"

\* The step of one deployer.
LEMMA RemembersDeployer ==
  ASSUME TypeInv, ReconcileInv, NobodyForgotten, NEW d \in Deployer, Reconcile(d) \/ Delete(d) \/ Enqueue(d)
  PROVE  ReconcileInv' /\ NobodyForgotten'
<1>1. \A e \in Deployer \ {d} :
        life'[e] = life[e] /\ ready'[e] = ready[e] /\ due'[e] = due[e] /\ at'[e] = at[e]
  BY DEF Reconcile, StartTrack, TrackDone, StartUntrack, UntrackDone, TrackSynced, TrackRegisters,
         UntrackStopped, UntrackSends, Delete, Enqueue, TypeInv, TypeOK
<1>2. /\ at'[d] = "untrack" => life'[d] = "deleting"
      /\ life'[d] = "live" /\ at'[d] = "idle" /\ ~ ready'[d] => due'[d]
      /\ life'[d] = "deleting" /\ at'[d] # "untrack" => due'[d]
  <2>1. CASE StartTrack(d) \/ StartUntrack(d)
    BY <2>1 DEF StartTrack, StartUntrack, TypeInv, TypeOK
  <2>2. CASE TrackDone(d)
    BY <2>2 DEF TrackDone, TypeInv, TypeOK, ReconcileInv, NobodyForgotten
  <2>3. CASE UntrackDone(d)
    BY <2>3 DEF UntrackDone, TypeInv, TypeOK, ReconcileInv, NobodyForgotten
  <2>4. CASE Delete(d) \/ Enqueue(d)
    BY <2>4 DEF Delete, Enqueue, TypeInv, TypeOK, ReconcileInv, NobodyForgotten
  <2>5. CASE UNCHANGED <<life, ready, due, at>>
    BY <2>5 DEF ReconcileInv, NobodyForgotten
  <2> QED
    BY <2>1, <2>2, <2>3, <2>4, <2>5 DEF Reconcile, TrackSynced, TrackRegisters, UntrackStopped, UntrackSends
<1> QED BY <1>1, <1>2 DEF ReconcileInv, NobodyForgotten

\* Nobody is forgotten.
THEOREM NobodyIsForgotten == Spec => []NobodyForgotten
<1> DEFINE Inv == TypeInv /\ ReconcileInv /\ NobodyForgotten
<1>1. Init => Inv
  BY InitType DEF Init, ReconcileInv, NobodyForgotten
<1>2. Inv /\ [Next]_vars => Inv'
  <2> SUFFICES ASSUME Inv, [Next]_vars PROVE ReconcileInv' /\ NobodyForgotten'
    BY TypeKept
  <2>1. ASSUME NEW d \in Deployer, Reconcile(d) \/ Delete(d) \/ Enqueue(d)
        PROVE  ReconcileInv' /\ NobodyForgotten'
    BY <2>1, RemembersDeployer
  <2>2. CASE UNCHANGED deployers
    BY <2>2 DEF deployers, ReconcileInv, NobodyForgotten
  <2> QED
    BY <2>1, <2>2 DEF Next, Work, Sync, vars, TakeRegister, TakeUnregister, LoadActive, LoadMissing,
       GetInformer, GetInformerFails, AddHandler, AddHandlerFails, Store, GetTask, RemoveHandler,
       RemoveInformer, DeleteTask
<1> QED BY <1>1, <1>2, PTL DEF Spec
=============================================================================
