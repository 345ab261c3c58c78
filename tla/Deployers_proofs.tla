--------------------------- MODULE Deployers_proofs ---------------------------
(***************************************************************************)
(* Proofs about Deployers, for any deployers, objects and manifests.       *)
(***************************************************************************)
EXTENDS Deployers, TLAPS

\* A version written is a version.
LEMMA VersionWritten ==
  ASSUME NEW old \in Version, NEW new \in Version
  PROVE  Versioned(old, new) \in Version
<1>1. CASE new = old
  BY <1>1 DEF Versioned
<1>2. CASE new # old
  <2> DEFINE phase == IF new.phase = "deleting" /\ new.finalizers = {} THEN "gone" ELSE new.phase
  <2>1. phase \in {"live", "deleting", "gone"} /\ new.rv + 1 \in Nat
    BY DEF Version
  <2>2. Versioned(old, new) = [new EXCEPT !.rv = new.rv + 1, !.phase = phase]
    BY <1>2 DEF Versioned
  <2> HIDE DEF phase
  <2> QED BY <2>1, <2>2 DEF Version
<1> QED BY <1>1, <1>2

\* So is one whose fields are set to what they may hold.
LEMMA VersionEdited ==
  ASSUME NEW v \in Version
  PROVE  /\ \A F \in SUBSET Finalizer : [v EXCEPT !.finalizers = F] \in Version
         /\ \A x \in {"live", "deleting", "gone"} : [v EXCEPT !.phase = x] \in Version
         /\ \A x \in BOOLEAN : [v EXCEPT !.suspended = x] \in Version
         /\ \A G \in SUBSET {GK[o] : o \in Object}, N \in SUBSET {NS[o] : o \in Object} :
              [v EXCEPT !.gks = G, !.namespaces = N] \in Version
<1> USE DEF Version
<1>1. ASSUME NEW F \in SUBSET Finalizer PROVE [v EXCEPT !.finalizers = F] \in Version
  OBVIOUS
<1>2. ASSUME NEW x \in {"live", "deleting", "gone"} PROVE [v EXCEPT !.phase = x] \in Version
  OBVIOUS
<1>3. ASSUME NEW x \in BOOLEAN PROVE [v EXCEPT !.suspended = x] \in Version
  OBVIOUS
<1>4. ASSUME NEW G \in SUBSET {GK[o] : o \in Object}, NEW N \in SUBSET {NS[o] : o \in Object}
      PROVE  [v EXCEPT !.gks = G, !.namespaces = N] \in Version
  OBVIOUS
<1> QED BY <1>1, <1>2, <1>3, <1>4

\* A write at the API server keeps the types of the stored deployers.
LEMMA WriteTyped ==
  ASSUME api \in [Deployer -> Version], NEW d \in Deployer, NEW new \in Version, Write(d, new)
  PROVE  api' \in [Deployer -> Version]
BY VersionWritten DEF Write

\* The end of a reconcile keeps the types of its local state.
LEMMA EndsTyped ==
  ASSUME TypeOK, NEW d \in Deployer, NEW again \in BOOLEAN, Ends(d, again)
  PROVE  /\ at' \in [Deployer -> Stages] /\ due' \in [Deployer -> BOOLEAN]
         /\ todo' \in [Deployer -> SUBSET Object] /\ found' \in [Deployer -> SUBSET Object]
         /\ want' \in [Deployer -> SUBSET Object] /\ failed' \in [Deployer -> BOOLEAN]
         /\ seen' \in [Deployer -> Version]
<1>1. New \in Version
  BY DEF New, Version, Finalizer
<1>2. "idle" \in Stages
  BY DEF Stages
<1>3. due' \in [Deployer -> BOOLEAN]
  BY DEF Ends, TypeOK
<1> QED BY <1>1, <1>2, <1>3 DEF Ends, TypeOK

\* Faults are counted up to their bound.
LEMMA UpsetTyped ==
  ASSUME TypeOK, NEW kind, Upset(kind)
  PROVE  upsets' \in 0 .. MaxUpsets
BY DeployersAssumption DEF Upset, TypeOK

Stored == [stage : {"absent", "there", "terminating"}, part : Deployer \cup {None}, owner : Deployer \cup {None}]

\* A change of an object keeps the types of objects and of what is due.
LEMMA BecomesTyped ==
  ASSUME TypeOK, NEW o \in Object, NEW new \in Stored, Becomes(o, new)
  PROVE  obj' \in [Object -> Stored] /\ due' \in [Deployer -> BOOLEAN]
<1>1. obj' \in [Object -> Stored]
  BY DEF Becomes, TypeOK, Stored
<1>2. due' \in [Deployer -> BOOLEAN]
  BY DEF Becomes, TypeOK
<1> QED BY <1>1, <1>2

\* The type invariant.
THEOREM TypeCorrect == Spec => []TypeOK
<1> USE DeployersAssumption
<1>1. Init => TypeOK
  <2> SUFFICES ASSUME Init PROVE TypeOK
    OBVIOUS
  <2>1. New \in Version /\ "idle" \in Stages /\ Absent \in Stored
    BY DEF New, Version, Finalizer, Stages, Absent, Stored
  <2>2. api \in [Deployer -> Version] /\ cache = api
    <3>1. PICK policy \in [Deployer -> Policies] : api = [d \in Deployer |-> [New EXCEPT !.policy = policy[d]]]
      BY DEF Init
    <3>2. \A x \in {"Orphan", "Delete"} : [New EXCEPT !.policy = x] \in Version
      BY <2>1 DEF Version
    <3> QED BY <3>1, <3>2 DEF Init
  <2> QED BY <2>1, <2>2 DEF Init, TypeOK, Stored
<1>2. TypeOK /\ [Next]_vars => TypeOK'
  <2> SUFFICES ASSUME TypeOK, Next \/ UNCHANGED vars PROVE TypeOK'
    OBVIOUS
  <2> USE DEF deployer, reconcile, cluster
  <2>1. CASE UNCHANGED vars
    BY <2>1 DEF vars, TypeOK
  \* The reconcile ends without more.
  <2>2. ASSUME NEW d \in Deployer, Fails(d)
        PROVE  TypeOK'
    BY <2>2, EndsTyped DEF Fails, TypeOK
  \* It goes on.
  <2>3. ASSUME NEW d \in Deployer, Goes(d, "scope", "detect") \/ Goes(d, "detect", "apply")
          \/ Goes(d, "apply", "prune") \/ Goes(d, "prune", "delete") \/ Goes(d, "delete", "track")
          \/ Goes(d, "giveup", "finalize") \/ Goes(d, "delete", "finalize")
          \/ Goes(d, "members", "release") \/ Goes(d, "release", "finalize") \/ Goes(d, "idle", "scope")
        PROVE  at' \in [Deployer -> Stages]
    BY <2>3 DEF Goes, TypeOK, Stages
  <2>4. ASSUME NEW d \in Deployer, AddsFinalizers(d)
        PROVE  TypeOK'
    <3>0. cache[d] \in Version
      BY DEF TypeOK
    <3>1. [cache[d] EXCEPT !.finalizers = Finalizer] \in Version
      BY <3>0, VersionEdited
    <3>2. api' \in [Deployer -> Version]
      BY <2>4, <3>1, WriteTyped DEF AddsFinalizers, TypeOK
    <3> QED BY <2>4, <3>1, <3>2 DEF AddsFinalizers, TypeOK
  <2>5. ASSUME NEW d \in Deployer, Loads(d)
        PROVE  TypeOK'
    BY <2>5, <2>3 DEF Loads, TypeOK
  <2>6. ASSUME NEW d \in Deployer, WritesScope(d)
        PROVE  TypeOK'
    <3>0. seen[d] \in Version /\ want[d] \in SUBSET Object
      BY DEF TypeOK
    <3>4. /\ seen[d].gks \cup {GK[o] : o \in want[d]} \in SUBSET {GK[o] : o \in Object}
          /\ seen[d].namespaces \cup ({NS[o] : o \in want[d]} \ {Home[d], Cluster})
               \in SUBSET {NS[o] : o \in Object}
      BY <3>0 DEF Version
    <3>1. Projected(d) \in Version
      BY <3>0, <3>4, VersionEdited DEF Projected
    <3>2. api' \in [Deployer -> Version]
      BY <2>6, <3>1, WriteTyped DEF WritesScope, TypeOK
    <3> QED BY <2>6, <3>1, <3>2, <2>3 DEF WritesScope, TypeOK
  <2>7. ASSUME NEW d \in Deployer, Detects(d) \/ ApplyEnds(d) \/ PruneEnds(d) \/ CollectorWillDo(d) \/ NothingLeft(d) \/ Released(d)
        PROVE  TypeOK'
    <3>1. CASE Detects(d)
      BY <3>1, <2>3 DEF Detects, TypeOK
    <3>2. CASE ApplyEnds(d) \/ PruneEnds(d) \/ NothingLeft(d) \/ Released(d)
      BY <3>2, <2>3 DEF ApplyEnds, PruneEnds, NothingLeft, Released, TypeOK
    <3>3. CASE CollectorWillDo(d)
      BY <3>3 DEF CollectorWillDo, TypeOK, Stages
    <3> QED BY <2>7, <3>1, <3>2, <3>3
  <2>8. ASSUME NEW d \in Deployer, Lists(d) \/ ListsMembers(d)
        PROVE  TypeOK'
    <3>1. CASE Lists(d)
      <4>1. found' \in [Deployer -> SUBSET Object] /\ todo' \in [Deployer -> SUBSET Object]
        BY <3>1 DEF Lists, Members, TypeOK
      <4> QED BY <3>1, <4>1, <2>3 DEF Lists, TypeOK
    <3>2. CASE ListsMembers(d)
      <4>1. todo' \in [Deployer -> SUBSET Object]
        BY <3>2 DEF ListsMembers, Members, TypeOK
      <4> QED BY <3>2, <4>1, <2>3 DEF ListsMembers, TypeOK
    <3> QED BY <2>8, <3>1, <3>2
  <2>9. ASSUME NEW d \in Deployer, GivesUp(d)
        PROVE  TypeOK'
    BY <2>9, <2>3 DEF GivesUp, TypeOK
  <2>10. ASSUME NEW d \in Deployer, Uninstalls(d)
        PROVE  TypeOK'
    BY <2>10 DEF Uninstalls, Stages, TypeOK
  <2>11. ASSUME NEW d \in Deployer, Tracks(d)
        PROVE  TypeOK'
    BY <2>11, EndsTyped DEF Tracks, TypeOK
  <2>12. ASSUME NEW d \in Deployer, Finalizes(d)
        PROVE  TypeOK'
    <3>0. seen[d] \in Version
      BY DEF TypeOK
    <3>4. seen[d].finalizers \ {"prune"} \in SUBSET Finalizer
      BY <3>0 DEF Version
    <3>1. [seen[d] EXCEPT !.finalizers = @ \ {"prune"}] \in Version
      BY <3>0, <3>4, VersionEdited
    <3>2. api' \in [Deployer -> Version]
      BY <2>12, <3>1, WriteTyped DEF Finalizes, TypeOK
    <3> QED BY <2>12, <3>1, <3>2, EndsTyped DEF Finalizes, TypeOK
  <2>13. ASSUME NEW d \in Deployer, StopsWatches(d)
        PROVE  TypeOK'
    BY <2>13 DEF StopsWatches, TypeOK
  <2>14. ASSUME NEW d \in Deployer, Untracked(d)
        PROVE  TypeOK'
    <3>0. cache[d] \in Version
      BY DEF TypeOK
    <3>1. [cache[d] EXCEPT !.finalizers = {}] \in Version
      BY <3>0, VersionEdited
    <3>2. api' \in [Deployer -> Version]
      BY <2>14, <3>1, WriteTyped DEF Untracked, TypeOK
    <3> QED BY <2>14, <3>1, <3>2 DEF Untracked, TypeOK
  <2>15. ASSUME NEW d \in Deployer, Ignores(d)
        PROVE  TypeOK'
    BY <2>15 DEF Ignores, TypeOK
  <2>16. ASSUME NEW d \in Deployer, NEW o \in Object, Applies(d, o)
        PROVE  TypeOK'
    <3>1. [stage |-> IF obj[o].stage = "absent" THEN "there" ELSE obj[o].stage,
           part |-> d, owner |-> IF CanOwn(d, o) THEN d ELSE None] \in Stored
      BY <2>16, None \in {None} DEF Applies, TypeOK, Stored
    <3>2. obj' \in [Object -> Stored] /\ due' \in [Deployer -> BOOLEAN]
      BY <2>16, <3>1, BecomesTyped DEF Applies
    <3> QED BY <2>16, <3>2 DEF Applies, TypeOK, Stored
  <2>17. ASSUME NEW d \in Deployer, NEW o \in Object, Deletes(d, o)
        PROVE  TypeOK'
    <3>1. (IF obj[o].stage = "there" THEN Deleting(o) ELSE obj[o]) \in Stored
      <4>1. obj[o] \in Stored /\ Absent \in Stored
        BY DEF TypeOK, Stored, Absent
      <4>2. [obj[o] EXCEPT !.stage = "terminating"] \in Stored
        BY <4>1 DEF Stored
      <4> QED BY <4>1, <4>2 DEF Deleting
    <3>2. obj' \in [Object -> Stored] /\ due' \in [Deployer -> BOOLEAN]
      BY <2>17, <3>1, BecomesTyped DEF Deletes
    <3> QED BY <2>17, <3>2 DEF Deletes, TypeOK, Stored
  <2>18. ASSUME NEW d \in Deployer, NEW o \in Object, Releases(d, o)
        PROVE  TypeOK'
    <3>1. (IF obj[o].stage = "absent" THEN obj[o] ELSE [obj[o] EXCEPT !.part = None, !.owner = None]) \in Stored
      <4>1. obj[o] \in Stored
        BY DEF TypeOK, Stored
      <4>2. [obj[o] EXCEPT !.part = None, !.owner = None] \in Stored
        BY <4>1 DEF Stored
      <4> QED BY <4>1, <4>2
    <3>2. obj' \in [Object -> Stored] /\ due' \in [Deployer -> BOOLEAN]
      BY <2>18, <3>1, BecomesTyped DEF Releases
    <3> QED BY <2>18, <3>2 DEF Releases, TypeOK, Stored
  <2>19. ASSUME NEW o \in Object, Vanishes(o)
        PROVE  TypeOK'
    <3>1. Absent \in Stored
      BY <2>19, None \in {None} DEF Vanishes, TypeOK, Stored, Absent
    <3>2. obj' \in [Object -> Stored] /\ due' \in [Deployer -> BOOLEAN]
      BY <2>19, <3>1, BecomesTyped DEF Vanishes
    <3> QED BY <2>19, <3>2 DEF Vanishes, TypeOK, Stored
  <2>20. ASSUME NEW o \in Object, Collected(o)
        PROVE  TypeOK'
    <3>1. Deleting(o) \in Stored
      <4>1. obj[o] \in Stored
        BY DEF TypeOK, Stored
      <4> QED BY <4>1, None \in {None} DEF Stored, Deleting, Absent
    <3>2. obj' \in [Object -> Stored] /\ due' \in [Deployer -> BOOLEAN]
      BY <2>20, <3>1, BecomesTyped DEF Collected
    <3> QED BY <2>20, <3>2 DEF Collected, TypeOK, Stored
  <2>21. ASSUME NEW o \in Object, Drifts(o)
        PROVE  TypeOK'
    <3>1. Deleting(o) \in Stored
      <4>1. obj[o] \in Stored
        BY DEF TypeOK, Stored
      <4> QED BY <4>1, None \in {None} DEF Stored, Deleting, Absent
    <3>2. obj' \in [Object -> Stored] /\ due' \in [Deployer -> BOOLEAN]
      BY <2>21, <3>1, BecomesTyped DEF Drifts
    <3> QED BY <2>21, <3>2 DEF Drifts, TypeOK, Stored, Upset
  <2>22. ASSUME NEW d \in Deployer, NEW o \in Object, ApplyRefused(d, o) \/ ReleaseRefused(d, o) \/ ObjectFails(d, o)
        PROVE  TypeOK'
    <3>1. todo' \in [Deployer -> SUBSET Object] /\ failed' \in [Deployer -> BOOLEAN]
      <4>1. todo' = [todo EXCEPT ![d] = @ \ {o}] /\ failed' = [failed EXCEPT ![d] = TRUE]
        BY <2>22 DEF ApplyRefused, ReleaseRefused, ObjectFails
      <4> QED BY <4>1 DEF TypeOK
    <3>2. CASE ApplyRefused(d, o) \/ ReleaseRefused(d, o)
      BY <3>1, <3>2 DEF ApplyRefused, ReleaseRefused, TypeOK
    <3>3. CASE ObjectFails(d, o)
      BY <3>1, <3>3, UpsetTyped DEF ObjectFails, TypeOK
    <3> QED BY <2>22, <3>2, <3>3
  <2>23. ASSUME NEW d \in Deployer, Syncs(d)
        PROVE  TypeOK'
    <3>1. due' \in [Deployer -> BOOLEAN]
      BY <2>23 DEF Syncs, TypeOK
    <3> QED BY <2>23, <3>1 DEF Syncs, TypeOK
  <2>24. ASSUME NEW o \in Object, WatchStarts(o)
        PROVE  TypeOK'
    BY <2>24 DEF WatchStarts, TypeOK
  <2>25. ASSUME NEW d \in Deployer, Changes(d)
        PROVE  TypeOK'
    BY <2>25 DEF Changes, Upset, TypeOK
  <2>26. ASSUME NEW d \in Deployer, UserDeletes(d)
        PROVE  TypeOK'
    <3>0. api[d] \in Version
      BY DEF TypeOK
    <3>1. [api[d] EXCEPT !.phase = "deleting"] \in Version
      BY <3>0, VersionEdited
    <3>2. api' \in [Deployer -> Version]
      BY <2>26, <3>1, WriteTyped DEF UserDeletes, TypeOK
    <3> QED BY <2>26, <3>1, <3>2 DEF UserDeletes, Upset, TypeOK
  <2>27. ASSUME NEW d \in Deployer, Suspends(d)
        PROVE  TypeOK'
    <3>0. api[d] \in Version
      BY DEF TypeOK
    <3>4. (~ api[d].suspended) \in BOOLEAN
      OBVIOUS
    <3>1. [api[d] EXCEPT !.suspended = ~ @] \in Version
      BY <3>0, <3>4, VersionEdited
    <3>2. api' \in [Deployer -> Version]
      BY <2>27, <3>1, WriteTyped DEF Suspends, TypeOK
    <3> QED BY <2>27, <3>1, <3>2 DEF Suspends, Upset, TypeOK
  <2>28. ASSUME NEW d \in Deployer, CallFails(d)
        PROVE  TypeOK'
    BY <2>28, EndsTyped, UpsetTyped DEF CallFails, TypeOK
  <2>29. ASSUME NEW d \in Deployer, AccountChanges(d)
        PROVE  TypeOK'
    BY <2>29 DEF AccountChanges, Upset, TypeOK
  <2>30. ASSUME NEW d \in Deployer, NamespaceTerminates(d)
        PROVE  TypeOK'
    <3>1. \A e \in Deployer : [api[e] EXCEPT !.phase = "deleting"] \in Version
      BY VersionEdited DEF TypeOK
    <3>2. \A e \in Deployer : Versioned(api[e], [api[e] EXCEPT !.phase = "deleting"]) \in Version
      BY <3>1, VersionWritten DEF TypeOK
    <3>3. api' \in [Deployer -> Version]
      BY <2>30, <3>2 DEF NamespaceTerminates, TypeOK
    <3> QED BY <2>30, <3>3 DEF NamespaceTerminates, Upset, TypeOK
  <2>31. ASSUME Restarts
        PROVE  TypeOK'
    <3>1. New \in Version /\ "idle" \in Stages
      BY DEF New, Version, Finalizer, Stages
    <3> QED BY <2>31, <3>1 DEF Restarts, Upset, TypeOK
  <2> QED
    BY <2>1, <2>2, <2>4, <2>5, <2>6, <2>7, <2>8, <2>9, <2>10, <2>11, <2>12, <2>13, <2>14, <2>15,
       <2>16, <2>17, <2>18, <2>19, <2>20, <2>21, <2>22, <2>23, <2>24, <2>25, <2>26, <2>27, <2>28,
       <2>29, <2>30, <2>31
       DEF Next, Follows, Happens, Reconciles, Deploys, Removes, LoadFails, ScopeRefused, DetectRefused,
           ApplyFailed, PruneRefused, Blocked, DeletionBlocked, StillPruning, ReleaseFailed,
           FinalizeRefused
<1> QED BY <1>1, <1>2, PTL DEF Spec

-----------------------------------------------------------------------------
\* A read of a deployer is older than what is stored, or the same.
Fresh(d, v) == v.rv <= api[d].rv /\ (v.rv = api[d].rv => v = api[d])

Covered(d, o) == GK[o] \in api[d].gks /\ NS[o] \in api[d].namespaces \cup {Home[d], Cluster}

\* What makes ScopeCoversMembers inductive: writes are made on what is stored,
\* and what is to be applied is covered before.
ScopeInv ==
  \A d \in Deployer :
    /\ Fresh(d, cache[d])
    /\ at[d] # "idle" => Fresh(d, seen[d])
    /\ at[d] \in {"detect", "apply"} => \A o \in want[d] : Covered(d, o)
    /\ at[d] = "apply" => todo[d] \subseteq want[d]
    /\ \A o \in Members(d) : Covered(d, o)

\* What is stored only grows.
Later(d) ==
  /\ api[d].gks \subseteq api'[d].gks /\ api[d].namespaces \subseteq api'[d].namespaces
  /\ api'[d] = api[d] \/ api'[d].rv = api[d].rv + 1

\* A new version keeps what the annotations hold and counts up when it differs.
LEMMA VersionGrows ==
  ASSUME NEW old \in Version, NEW new \in Version,
         new.rv = old.rv, old.gks \subseteq new.gks, old.namespaces \subseteq new.namespaces
  PROVE  LET v == Versioned(old, new)
         IN /\ v.gks = new.gks /\ v.namespaces = new.namespaces
            /\ v = old \/ v.rv = old.rv + 1
<1>1. CASE new = old
  BY <1>1 DEF Versioned
<1>2. CASE new # old
  <2> DEFINE phase == IF new.phase = "deleting" /\ new.finalizers = {} THEN "gone" ELSE new.phase
  <2>1. Versioned(old, new) = [new EXCEPT !.rv = new.rv + 1, !.phase = phase]
    BY <1>2 DEF Versioned
  <2> HIDE DEF phase
  <2> QED BY <2>1 DEF Version
<1> QED BY <1>1, <1>2

\* A write that only adds to the annotations leaves a later version.
LEMMA WriteGrows ==
  ASSUME TypeOK, NEW d \in Deployer, NEW new \in Version, Write(d, new),
         new.rv = api[d].rv, api[d].gks \subseteq new.gks, api[d].namespaces \subseteq new.namespaces
  PROVE  /\ \A e \in Deployer : Later(e)
         /\ api'[d].gks = new.gks /\ api'[d].namespaces = new.namespaces
<1>1. api' = [api EXCEPT ![d] = Versioned(api[d], new)] /\ api[d] \in Version /\ api \in [Deployer -> Version]
  BY DEF Write, TypeOK
<1>2. api'[d] = Versioned(api[d], new) /\ \A e \in Deployer : e # d => api'[e] = api[e]
  BY <1>1
<1>3. api'[d].gks = new.gks /\ api'[d].namespaces = new.namespaces /\ Later(d)
  BY <1>1, <1>2, VersionGrows DEF Later
<1> QED BY <1>2, <1>3 DEF Later

\* What a deployer is going to apply is covered once its scope is written.
LEMMA ScopeWritten ==
  ASSUME TypeOK, ScopeInv, NEW d \in Deployer, WritesScope(d)
  PROVE  /\ \A e \in Deployer : Later(e)
         /\ \A o \in want[d] : Covered(d, o)'
<1>1. seen[d] \in Version /\ seen[d] = api[d] /\ want[d] \in SUBSET Object
  BY DEF TypeOK, ScopeInv, Fresh, WritesScope, Goes, Current
<1>2. /\ seen[d].gks \cup {GK[o] : o \in want[d]} \in SUBSET {GK[o] : o \in Object}
      /\ seen[d].namespaces \cup ({NS[o] : o \in want[d]} \ {Home[d], Cluster})
           \in SUBSET {NS[o] : o \in Object}
  BY <1>1 DEF Version
<1>3. /\ Projected(d) \in Version /\ Projected(d).rv = seen[d].rv
      /\ Projected(d).gks = seen[d].gks \cup {GK[o] : o \in want[d]}
      /\ Projected(d).namespaces = seen[d].namespaces \cup ({NS[o] : o \in want[d]} \ {Home[d], Cluster})
  BY <1>1, <1>2, VersionEdited DEF Projected, Version
<1>4. Write(d, Projected(d))
  BY DEF WritesScope
<1>5. /\ \A e \in Deployer : Later(e)
      /\ api'[d].gks = Projected(d).gks /\ api'[d].namespaces = Projected(d).namespaces
  BY <1>1, <1>3, <1>4, WriteGrows
<1> QED BY <1>3, <1>5 DEF Covered

\* Every write is made on the stored version and drops nothing of its scope.
LEMMA ApiGrows ==
  ASSUME TypeOK, ScopeInv, Next, NEW e \in Deployer
  PROVE  Later(e)
<1>1. CASE UNCHANGED api
  BY <1>1 DEF Later
<1>2. ASSUME NEW d \in Deployer, AddsFinalizers(d) \/ Untracked(d)
      PROVE  Later(e)
  <2>1. cache[d] \in Version /\ cache[d] = api[d]
    BY <1>2 DEF TypeOK, ScopeInv, Fresh, AddsFinalizers, Untracked, Current
  <2>2. PICK F \in SUBSET Finalizer : Write(d, [cache[d] EXCEPT !.finalizers = F])
    BY <1>2 DEF AddsFinalizers, Untracked
  <2> DEFINE new == [cache[d] EXCEPT !.finalizers = F]
  <2>3. new \in Version /\ new.rv = cache[d].rv /\ new.gks = cache[d].gks /\ new.namespaces = cache[d].namespaces
    BY <2>1, VersionEdited DEF Version
  <2> QED BY <2>1, <2>2, <2>3, WriteGrows
<1>3. ASSUME NEW d \in Deployer, WritesScope(d)
      PROVE  Later(e)
  BY <1>3, ScopeWritten
<1>4. ASSUME NEW d \in Deployer, Finalizes(d)
      PROVE  Later(e)
  <2>1. seen[d] \in Version /\ seen[d] = api[d]
    BY <1>4 DEF TypeOK, ScopeInv, Fresh, Finalizes, Current
  <2> DEFINE new == [seen[d] EXCEPT !.finalizers = @ \ {"prune"}]
  <2>2. seen[d].finalizers \ {"prune"} \in SUBSET Finalizer
    BY <2>1 DEF Version
  <2>3. new \in Version /\ new.rv = seen[d].rv /\ new.gks = seen[d].gks /\ new.namespaces = seen[d].namespaces
    BY <2>1, <2>2, VersionEdited DEF Version
  <2>4. Write(d, new)
    BY <1>4 DEF Finalizes
  <2> QED BY <2>1, <2>3, <2>4, WriteGrows
<1>5. ASSUME NEW d \in Deployer, UserDeletes(d) \/ Suspends(d)
      PROVE  Later(e)
  <2>1. api[d] \in Version
    BY DEF TypeOK
  <2>2. PICK new : /\ Write(d, new) /\ new \in Version
                   /\ new.rv = api[d].rv /\ new.gks = api[d].gks /\ new.namespaces = api[d].namespaces
    <3>1. CASE UserDeletes(d)
      <4> DEFINE new == [api[d] EXCEPT !.phase = "deleting"]
      <4>1. new \in Version /\ new.rv = api[d].rv /\ new.gks = api[d].gks /\ new.namespaces = api[d].namespaces
        BY <2>1, VersionEdited DEF Version
      <4>2. Write(d, new)
        BY <3>1 DEF UserDeletes
      <4> QED BY <4>1, <4>2
    <3>2. CASE Suspends(d)
      <4> DEFINE new == [api[d] EXCEPT !.suspended = ~ @]
      <4>1. new \in Version /\ new.rv = api[d].rv /\ new.gks = api[d].gks /\ new.namespaces = api[d].namespaces
        <5>1. (~ api[d].suspended) \in BOOLEAN
          OBVIOUS
        <5>2. new \in Version
          BY <2>1, <5>1, VersionEdited
        <5> QED BY <2>1, <5>2 DEF Version
      <4>2. Write(d, new)
        BY <3>2 DEF Suspends
      <4> QED BY <4>1, <4>2
    <3> QED BY <1>5, <3>1, <3>2
  <2> QED BY <2>1, <2>2, WriteGrows
<1>6. ASSUME NEW d \in Deployer, NamespaceTerminates(d)
      PROVE  Later(e)
  <2>1. api[e] \in Version
    BY DEF TypeOK
  <2> DEFINE new == [api[e] EXCEPT !.phase = "deleting"]
  <2>2. new \in Version /\ new.rv = api[e].rv /\ new.gks = api[e].gks /\ new.namespaces = api[e].namespaces
    BY <2>1, VersionEdited DEF Version
  <2>3. api'[e] = api[e] \/ api'[e] = Versioned(api[e], new)
    BY <1>6 DEF NamespaceTerminates
  <2> HIDE DEF new
  <2> QED BY <2>1, <2>2, <2>3, VersionGrows DEF Later
<1>7. CASE Follows
  BY <1>1, <1>7 DEF Follows, Syncs, WatchStarts, Vanishes, Collected, deployer
<1>8. CASE Happens
  BY <1>1, <1>5, <1>6, <1>8
     DEF Happens, Changes, CallFails, AccountChanges, ObjectFails, Restarts, Drifts, deployer
<1>9. ASSUME NEW d \in Deployer, Fails(d) PROVE UNCHANGED api
  BY <1>9 DEF Fails, cluster, deployer
<1>10. ASSUME NEW d \in Deployer, Deploys(d)
       PROVE  Later(e)
  BY <1>1, <1>2, <1>3, <1>9, <1>10
     DEF Deploys, Loads, LoadFails, ScopeRefused, Detects, DetectRefused, Applies, ApplyRefused,
     ApplyEnds, ApplyFailed, Lists, Deletes, PruneEnds, PruneRefused, Tracks, cluster, deployer
<1>11. ASSUME NEW d \in Deployer, Removes(d)
       PROVE  Later(e)
  BY <1>1, <1>2, <1>4, <1>9, <1>11
     DEF Removes, Uninstalls, GivesUp, Blocked, CollectorWillDo, DeletionBlocked,
     StillPruning, NothingLeft, ListsMembers, Releases, ReleaseRefused, Released, ReleaseFailed, FinalizeRefused,
     StopsWatches, cluster, deployer
<1> QED BY <1>1, <1>7, <1>8, <1>10, <1>11 DEF Next, Reconciles, Ignores, deployer

\* What a step does to reads, plans and members, beside what is stored.
Moves(d) ==
  /\ cache'[d] \in {cache[d], api[d]}
  /\ at'[d] # "idle" => \/ at[d] # "idle" /\ seen'[d] = seen[d]
                        \/ seen'[d] \in {cache[d], api'[d]}
  /\ at'[d] \in {"detect", "apply"} => /\ want'[d] = want[d]
                                       /\ at[d] \in {"detect", "apply"} \/ WritesScope(d)
  /\ at'[d] = "apply" => todo'[d] \subseteq want[d] \/ (at[d] = "apply" /\ todo'[d] \subseteq todo[d])
  /\ \A o \in Object : obj'[o].part = d => obj[o].part = d \/ (at[d] = "apply" /\ o \in todo[d])

\* An object that is deleted joins no ApplySet.
LEMMA DeletingParts ==
  ASSUME TypeOK, NEW o \in Object, NEW e \in Deployer
  PROVE  Absent.part # e /\ (Deleting(o).part = e => obj[o].part = e)
<1>1. Absent.part # e
  BY DeployersAssumption DEF Absent, None
<1>2. [obj[o] EXCEPT !.stage = "terminating"].part = obj[o].part
  BY DEF TypeOK
<1> QED BY <1>1, <1>2 DEF Deleting

\* How every step moves the rest of the state.
LEMMA StepMoves ==
  ASSUME TypeOK, Next, NEW e \in Deployer
  PROVE  Moves(e)
<1> USE DEF deployer, reconcile, cluster
<1>1. CASE UNCHANGED <<cache, obj, reconcile>>
  BY <1>1 DEF Moves
<1>2. ASSUME NEW d \in Deployer, Fails(d) \/ Tracks(d) \/ Finalizes(d) \/ CallFails(d)
      PROVE  Moves(e)
  <2>1. /\ cache' = cache /\ obj' = obj /\ at' = [at EXCEPT ![d] = "idle"]
        /\ e # d => seen'[e] = seen[e] /\ want'[e] = want[e] /\ todo'[e] = todo[e]
    BY <1>2 DEF Fails, Tracks, Finalizes, CallFails, Ends, TypeOK
  <2>2. CASE e = d
    BY <2>1, <2>2 DEF Moves, TypeOK
  <2>3. CASE e # d
    BY <2>1, <2>3 DEF Moves, TypeOK
  <2> QED BY <2>2, <2>3
<1>3. ASSUME NEW d \in Deployer, Loads(d) \/ Uninstalls(d)
      PROVE  Moves(e)
  <2>1. /\ cache' = cache /\ obj' = obj /\ todo' = todo
        /\ seen' = [seen EXCEPT ![d] = cache[d]]
        /\ e # d => at'[e] = at[e] /\ want'[e] = want[e]
        /\ at'[d] \notin {"detect", "apply"}
    BY <1>3 DEF Loads, Uninstalls, Goes, TypeOK
  <2>2. CASE e = d
    BY <2>1, <2>2 DEF Moves, TypeOK
  <2>3. CASE e # d
    BY <2>1, <2>3 DEF Moves, TypeOK
  <2> QED BY <2>2, <2>3
<1>4. ASSUME NEW d \in Deployer, WritesScope(d)
      PROVE  Moves(e)
  <2>1. /\ cache' = cache /\ obj' = obj /\ todo' = todo /\ want' = want
        /\ seen' = [seen EXCEPT ![d] = api'[d]] /\ at' = [at EXCEPT ![d] = "detect"]
    BY <1>4 DEF WritesScope, Goes
  <2>2. CASE e = d
    BY <1>4, <2>1, <2>2 DEF Moves, TypeOK
  <2>3. CASE e # d
    BY <2>1, <2>3 DEF Moves, TypeOK
  <2> QED BY <2>2, <2>3
<1>5. ASSUME NEW d \in Deployer, Detects(d)
      PROVE  Moves(e)
  <2>1. /\ cache' = cache /\ obj' = obj /\ want' = want /\ seen' = seen
        /\ at[d] = "detect" /\ at' = [at EXCEPT ![d] = "apply"]
        /\ todo' = [todo EXCEPT ![d] = want[d] \ Conflicts(d)]
    BY <1>5 DEF Detects, Goes
  <2>2. CASE e = d
    BY <2>1, <2>2 DEF Moves, TypeOK
  <2>3. CASE e # d
    BY <2>1, <2>3 DEF Moves, TypeOK
  <2> QED BY <2>2, <2>3
<1>6. ASSUME NEW d \in Deployer,
             \/ ApplyEnds(d) \/ PruneEnds(d) \/ GivesUp(d) \/ CollectorWillDo(d) \/ NothingLeft(d)
             \/ Lists(d) \/ ListsMembers(d) \/ Released(d)
      PROVE  Moves(e)
  <2>1. /\ cache' = cache /\ obj' = obj /\ want' = want /\ seen' = seen /\ at[d] # "idle"
        /\ at'[d] \notin {"detect", "apply"}
        /\ e # d => at'[e] = at[e] /\ todo'[e] = todo[e]
    BY <1>6 DEF ApplyEnds, PruneEnds, GivesUp, CollectorWillDo, NothingLeft, Lists, ListsMembers, Released,
                Goes, TypeOK
  <2>2. CASE e = d
    BY <2>1, <2>2 DEF Moves, TypeOK
  <2>3. CASE e # d
    BY <2>1, <2>3 DEF Moves, TypeOK
  <2> QED BY <2>2, <2>3
<1>7. ASSUME NEW d \in Deployer, NEW o \in Object,
             \/ Applies(d, o) \/ Deletes(d, o) \/ Releases(d, o)
             \/ ApplyRefused(d, o) \/ ReleaseRefused(d, o) \/ ObjectFails(d, o)
      PROVE  Moves(e)
  <2>1. /\ cache' = cache /\ want' = want /\ seen' = seen /\ at' = at
        /\ todo' = [todo EXCEPT ![d] = @ \ {o}]
    BY <1>7 DEF Applies, Deletes, Releases, ApplyRefused, ReleaseRefused, ObjectFails
  <2>2. \A x \in Object : obj'[x].part = e => obj[x].part = e \/ (at[e] = "apply" /\ x \in todo[e])
    <3>1. CASE obj' = obj
      BY <3>1
    <3>2. CASE Applies(d, o)
      BY <3>2 DEF Applies, Becomes, TypeOK
    <3>3. CASE Deletes(d, o)
      <4>1. obj' = [obj EXCEPT ![o] = IF obj[o].stage = "there" THEN Deleting(o) ELSE obj[o]]
        BY <3>3 DEF Deletes, Becomes
      <4> QED BY <4>1, DeletingParts DEF TypeOK
    <3>4. CASE Releases(d, o)
      <4>1. obj' = [obj EXCEPT ![o] = IF obj[o].stage = "absent" THEN obj[o]
                                       ELSE [obj[o] EXCEPT !.part = None, !.owner = None]]
        BY <3>4 DEF Releases, Becomes
      <4>2. [obj[o] EXCEPT !.part = None, !.owner = None].part = None
        BY DEF TypeOK
      <4> QED BY <4>1, <4>2, DeployersAssumption DEF TypeOK, None
    <3> QED BY <1>7, <3>1, <3>2, <3>3, <3>4 DEF ApplyRefused, ReleaseRefused, ObjectFails
  <2>3. todo'[e] \subseteq todo[e]
    BY <2>1 DEF TypeOK
  <2> QED BY <2>1, <2>2, <2>3 DEF Moves
<1>8. ASSUME NEW o \in Object, Vanishes(o) \/ Collected(o) \/ Drifts(o)
      PROVE  Moves(e)
  <2>1. UNCHANGED <<cache, reconcile>>
    BY <1>8 DEF Vanishes, Collected, Drifts
  <2>2. obj' = [obj EXCEPT ![o] = Absent] \/ obj' = [obj EXCEPT ![o] = Deleting(o)]
    BY <1>8 DEF Vanishes, Collected, Drifts, Becomes
  <2>3. \A x \in Object : obj'[x].part = e => obj[x].part = e
    BY <2>2, DeletingParts DEF TypeOK
  <2> QED BY <2>1, <2>3 DEF Moves
<1>9. ASSUME NEW d \in Deployer, Syncs(d)
      PROVE  Moves(e)
  BY <1>9 DEF Moves, Syncs, TypeOK
<1>10. CASE Restarts
  BY <1>10 DEF Moves, Restarts
<1>11. CASE Follows
  BY <1>1, <1>8, <1>9, <1>11 DEF Follows, WatchStarts
<1>12. CASE Happens
  BY <1>1, <1>2, <1>7, <1>8, <1>10, <1>12
     DEF Happens, Changes, UserDeletes, Suspends, AccountChanges, NamespaceTerminates
<1>13. ASSUME NEW d \in Deployer, Deploys(d)
       PROVE  Moves(e)
  BY <1>1, <1>2, <1>3, <1>4, <1>5, <1>6, <1>7, <1>13
     DEF Deploys, AddsFinalizers, LoadFails, ScopeRefused, DetectRefused, ApplyFailed, PruneRefused
<1>14. ASSUME NEW d \in Deployer, Removes(d)
       PROVE  Moves(e)
  BY <1>1, <1>2, <1>3, <1>6, <1>7, <1>14
     DEF Removes, Blocked, DeletionBlocked, StillPruning, ReleaseFailed, FinalizeRefused,
         StopsWatches, Untracked
<1>15. ASSUME NEW d \in Deployer, Ignores(d)
       PROVE  Moves(e)
  BY <1>1, <1>15 DEF Ignores
<1> QED BY <1>11, <1>12, <1>13, <1>14, <1>15 DEF Next, Reconciles

\* ScopeInv holds in every behavior.
LEMMA ScopeAlways == Spec => []ScopeInv
<1>1. Init => ScopeInv
  <2> SUFFICES ASSUME Init PROVE ScopeInv
    OBVIOUS
  <2>1. \A d \in Deployer : cache[d] = api[d] /\ api[d].rv = 0 /\ at[d] = "idle"
    <3>1. PICK policy \in [Deployer -> Policies] : api = [d \in Deployer |-> [New EXCEPT !.policy = policy[d]]]
      BY DEF Init
    <3>2. \A x : [New EXCEPT !.policy = x].rv = 0
      BY DEF New
    <3> QED BY <3>1, <3>2 DEF Init
  <2>2. \A d \in Deployer : Members(d) = {}
    BY DeployersAssumption DEF Init, Members, Absent, None
  <2> QED BY <2>1, <2>2 DEF ScopeInv, Fresh
<1>2. TypeOK /\ ScopeInv /\ [Next]_vars => ScopeInv'
  <2>1. CASE UNCHANGED vars
    BY <2>1 DEF vars, cluster, reconcile, deployer, ScopeInv, Fresh, Covered, Members
  <2>2. ASSUME TypeOK, ScopeInv, Next, NEW d \in Deployer
        PROVE  /\ Fresh(d, cache[d])'
               /\ at'[d] # "idle" => Fresh(d, seen[d])'
               /\ at'[d] \in {"detect", "apply"} => \A o \in want'[d] : Covered(d, o)'
               /\ at'[d] = "apply" => todo'[d] \subseteq want'[d]
               /\ \A o \in Members(d)' : Covered(d, o)'
    <3>1. Later(d) /\ Moves(d)
      BY <2>2, ApiGrows, StepMoves
    <3>2. api[d].rv \in Nat /\ cache[d].rv \in Nat /\ seen[d].rv \in Nat /\ api'[d].rv \in Int
      BY <2>2, <3>1 DEF TypeOK, Version, Later
    <3>3. \A v : v.rv \in Nat /\ Fresh(d, v) => v.rv <= api'[d].rv /\ (v.rv = api'[d].rv => v = api'[d])
      BY <3>1, <3>2 DEF Later, Fresh
    <3>4. Fresh(d, api[d]) /\ Fresh(d, cache[d]) /\ (at[d] # "idle" => Fresh(d, seen[d]))
      BY <2>2, <3>2 DEF ScopeInv, Fresh
    <3>5. Fresh(d, cache[d])'
      BY <3>1, <3>2, <3>3, <3>4 DEF Moves, Fresh
    <3>6. at'[d] # "idle" => Fresh(d, seen[d])'
      BY <3>1, <3>2, <3>3, <3>4 DEF Moves, Fresh
    <3>7. \A o : Covered(d, o) => Covered(d, o)'
      BY <3>1 DEF Covered, Later
    <3>8. at'[d] \in {"detect", "apply"} => \A o \in want'[d] : Covered(d, o)'
      <4>1. WritesScope(d) => \A o \in want[d] : Covered(d, o)'
        BY <2>2, ScopeWritten
      <4> QED BY <2>2, <3>1, <3>7, <4>1 DEF Moves, ScopeInv
    <3>9. at'[d] = "apply" => todo'[d] \subseteq want'[d]
      BY <2>2, <3>1 DEF Moves, ScopeInv
    <3>10. \A o \in Members(d)' : Covered(d, o)'
      BY <2>2, <3>1, <3>7 DEF Moves, ScopeInv, Members
    <3> QED BY <3>5, <3>6, <3>8, <3>9, <3>10
  <2> QED BY <2>1, <2>2 DEF ScopeInv
<1> QED BY <1>1, <1>2, TypeCorrect, PTL DEF Spec

\* The annotations of a deployer name the kind and the namespace of every member
\* of its ApplySet, for any deployers and manifests, through every fault, stale
\* read, conflict and restart (Project and setApplySetMetadata come before Apply).
THEOREM ScopeAlwaysCovers == Spec => []ScopeCoversMembers
<1>1. ScopeInv => ScopeCoversMembers
  BY DEF ScopeInv, ScopeCoversMembers, Covered
<1> QED BY <1>1, ScopeAlways, PTL

-----------------------------------------------------------------------------
\* An object that is labelled as part of an ApplySet names its deployer as owner
\* where it can, and no other one does.
Labelled(o, x) ==
  /\ x.stage = "absent" => x.part = None
  /\ x.owner # None => x.owner = x.part
  /\ \A d \in Deployer : x.part = d /\ CanOwn(d, o) => x.owner = d
LabelInv == \A o \in Object : Labelled(o, obj[o])

\* The finalizer of a deployer may go: its members are left to the garbage
\* collector, or given up; none is left if they are to stay.
Safe(d) ==
  /\ ~ abandoned[d] => \A o \in Members(d) : CanOwn(d, o)
  /\ api[d].policy = "Orphan" /\ Home[d] \notin terminating => Members(d) = {}

\* How far a reconcile has come.
Progress(d) ==
  /\ at[d] = "idle" => want[d] = {}
  /\ at[d] \in {"scope", "detect", "apply"} => seen[d].phase = "live"
  /\ at[d] = "scope" => "prune" \in seen[d].finalizers
  /\ at[d] \in {"prune", "delete"} /\ seen[d].phase = "deleting" => want[d] = {} /\ seen[d].policy # "Orphan"

\* What a reconcile has left to do, as long as what it has read is what is stored.
Remaining(d) ==
  Current(d, seen[d]) =>
    /\ at[d] = "delete" /\ seen[d].phase = "deleting" => Members(d) \subseteq found[d]
    /\ at[d] = "release" /\ ~ failed[d] => Members(d) \subseteq todo[d]
    /\ at[d] = "finalize" => Safe(d)

\* What the finalizer keeps away.
Guarded(d) ==
  /\ at[d] \in {"detect", "apply"} => "prune" \in api[d].finalizers
  /\ "prune" \notin api[d].finalizers => Safe(d)
  /\ api[d].phase = "gone" => "prune" \notin api[d].finalizers

DeleteInv == \A d \in Deployer : Progress(d) /\ Remaining(d) /\ Guarded(d)

\* Whatever becomes of an object, its label and its owner go together.
LEMMA LabelStep ==
  ASSUME TypeOK, LabelInv, Next
  PROVE  LabelInv'
<1> USE DeployersAssumption
<1>1. CASE UNCHANGED obj
  BY <1>1 DEF LabelInv
<1>2. ASSUME NEW o \in Object, NEW new, Becomes(o, new), Labelled(o, new)
      PROVE  LabelInv'
  <2>1. obj' = [obj EXCEPT ![o] = new]
    BY <1>2 DEF Becomes
  <2> QED BY <1>2, <2>1 DEF LabelInv, TypeOK
<1>3. \A o : Labelled(o, Absent)
  BY DEF Labelled, Absent, None
<1>4. ASSUME NEW o \in Object PROVE Labelled(o, Deleting(o))
  <2> DEFINE x == [obj[o] EXCEPT !.stage = "terminating"]
  <2>1. x.stage = "terminating" /\ x.part = obj[o].part /\ x.owner = obj[o].owner
    BY DEF TypeOK
  <2>2. Labelled(o, x)
    BY <2>1 DEF LabelInv, Labelled
  <2> QED BY <2>2, <1>3 DEF Deleting
<1>5. ASSUME NEW d \in Deployer, NEW o \in Object, Applies(d, o)
      PROVE  LabelInv'
  <2> DEFINE x == [stage |-> IF obj[o].stage = "absent" THEN "there" ELSE obj[o].stage,
                   part |-> d, owner |-> IF CanOwn(d, o) THEN d ELSE None]
  <2>1. x.stage # "absent" /\ x.part = d /\ x.owner = IF CanOwn(d, o) THEN d ELSE None
    OBVIOUS
  <2>2. Labelled(o, x)
    BY <2>1 DEF Labelled
  <2>3. Becomes(o, x)
    BY <1>5 DEF Applies
  <2> QED BY <1>2, <2>2, <2>3
<1>6. ASSUME NEW d \in Deployer, NEW o \in Object, Deletes(d, o)
      PROVE  LabelInv'
  <2>1. Becomes(o, Deleting(o)) \/ Becomes(o, obj[o])
    BY <1>6 DEF Deletes
  <2> QED BY <1>2, <1>4, <2>1 DEF LabelInv
<1>7. ASSUME NEW d \in Deployer, NEW o \in Object, Releases(d, o)
      PROVE  LabelInv'
  <2> DEFINE x == [obj[o] EXCEPT !.part = None, !.owner = None]
  <2>1. x.part = None /\ x.owner = None
    BY DEF TypeOK
  <2>2. Labelled(o, x)
    BY <2>1 DEF Labelled, None
  <2>3. Becomes(o, obj[o]) \/ Becomes(o, x)
    BY <1>7 DEF Releases
  <2> QED BY <1>2, <2>2, <2>3 DEF LabelInv
<1>8. ASSUME NEW o \in Object, Vanishes(o) \/ Collected(o) \/ Drifts(o)
      PROVE  LabelInv'
  BY <1>2, <1>3, <1>4, <1>8 DEF Vanishes, Collected, Drifts
<1>9. ASSUME NEW d \in Deployer, Fails(d) PROVE UNCHANGED obj
  BY <1>9 DEF Fails, cluster
<1>10. CASE Follows
  BY <1>1, <1>8, <1>10 DEF Follows, Syncs, WatchStarts
<1>11. CASE Happens
  BY <1>1, <1>8, <1>11
     DEF Happens, Changes, UserDeletes, Suspends, CallFails, AccountChanges, NamespaceTerminates,
     ObjectFails, Restarts
<1>12. ASSUME NEW d \in Deployer, Deploys(d)
       PROVE  LabelInv'
  BY <1>1, <1>5, <1>6, <1>9, <1>12 DEF Deploys, AddsFinalizers, Loads, WritesScope, LoadFails, ScopeRefused, Detects,
     DetectRefused, ApplyRefused, ApplyEnds, ApplyFailed, Lists, PruneEnds, PruneRefused, Tracks, cluster
<1>13. ASSUME NEW d \in Deployer, Removes(d)
       PROVE  LabelInv'
  BY <1>1, <1>7, <1>9, <1>13 DEF Removes, Uninstalls, GivesUp, Blocked, CollectorWillDo, DeletionBlocked,
     StillPruning, NothingLeft, ListsMembers, ReleaseRefused, Released, ReleaseFailed, Finalizes, FinalizeRefused,
     StopsWatches, Untracked, cluster
<1> QED BY <1>1, <1>10, <1>11, <1>12, <1>13 DEF Next, Reconciles, Ignores

\* What a write leaves of a version.
LEMMA VersionKeeps ==
  ASSUME NEW old \in Version, NEW new \in Version
  PROVE  LET v == Versioned(old, new)
         IN /\ v.finalizers = new.finalizers /\ v.policy = new.policy
            /\ \/ v.phase = new.phase
               \/ v.phase = "gone" /\ new.phase = "deleting" /\ new.finalizers = {}
<1>1. CASE new = old
  BY <1>1 DEF Versioned
<1>2. CASE new # old
  <2> DEFINE phase == IF new.phase = "deleting" /\ new.finalizers = {} THEN "gone" ELSE new.phase
  <2>1. Versioned(old, new) = [new EXCEPT !.rv = new.rv + 1, !.phase = phase]
    BY <1>2 DEF Versioned
  <2>2. [new EXCEPT !.rv = new.rv + 1, !.phase = phase].phase = phase
    BY DEF Version
  <2>3. phase = new.phase \/ (phase = "gone" /\ new.phase = "deleting" /\ new.finalizers = {})
    OBVIOUS
  <2> HIDE DEF phase
  <2> QED BY <2>1, <2>2, <2>3 DEF Version
<1> QED BY <1>1, <1>2

\* The finalizer goes in one place, and before the deployer does.
Keeps(d) ==
  /\ api'[d].policy = api[d].policy
  /\ "prune" \in api[d].finalizers \ api'[d].finalizers => at[d] = "finalize" /\ Current(d, seen[d])
  /\ api'[d].phase = "gone" => "prune" \notin api'[d].finalizers

\* A write that leaves the finalizer or is allowed to remove it.
LEMMA WriteKeeps ==
  ASSUME TypeOK, DeleteInv, NEW d \in Deployer, NEW new \in Version, Write(d, new),
         new.policy = api[d].policy,
         "prune" \in api[d].finalizers \ new.finalizers => at[d] = "finalize" /\ Current(d, seen[d]),
         new.phase = "gone" => "prune" \notin new.finalizers
  PROVE  \A e \in Deployer : Keeps(e)
<1>1. api' = [api EXCEPT ![d] = Versioned(api[d], new)] /\ api[d] \in Version /\ api \in [Deployer -> Version]
  BY DEF Write, TypeOK
<1>2. api'[d] = Versioned(api[d], new) /\ \A e \in Deployer : e # d => api'[e] = api[e]
  BY <1>1
<1>3. Keeps(d)
  BY <1>1, <1>2, VersionKeeps DEF Keeps
<1> QED BY <1>2, <1>3 DEF Keeps, DeleteInv, Guarded

\* Every step keeps the finalizer where it is to stay.
LEMMA ApiKeeps ==
  ASSUME TypeOK, ScopeInv, DeleteInv, Next, NEW e \in Deployer
  PROVE  Keeps(e)
<1>1. CASE UNCHANGED api
  BY <1>1 DEF Keeps, DeleteInv, Guarded
<1>2. ASSUME NEW d \in Deployer, AddsFinalizers(d)
      PROVE  Keeps(e)
  <2> DEFINE new == [cache[d] EXCEPT !.finalizers = Finalizer]
  <2>1. cache[d] \in Version /\ cache[d] = api[d] /\ cache[d].phase = "live" /\ Write(d, new)
    BY <1>2 DEF TypeOK, ScopeInv, Fresh, AddsFinalizers, Current
  <2>2. new \in Version /\ new.policy = api[d].policy /\ new.finalizers = Finalizer /\ new.phase = "live"
    BY <2>1, VersionEdited DEF Version
  <2> QED BY <2>1, <2>2, WriteKeeps DEF Finalizer
<1>3. ASSUME NEW d \in Deployer, Untracked(d)
      PROVE  Keeps(e)
  <2> DEFINE new == [cache[d] EXCEPT !.finalizers = {}]
  <2>1. cache[d] \in Version /\ cache[d] = api[d] /\ cache[d].finalizers = {"watch"} /\ Write(d, new)
    BY <1>3 DEF TypeOK, ScopeInv, Fresh, Untracked, Current
  <2>2. new \in Version /\ new.policy = api[d].policy /\ new.finalizers = {}
    BY <2>1, VersionEdited DEF Version
  <2> HIDE DEF new
  <2> QED BY <2>1, <2>2, WriteKeeps
<1>4. ASSUME NEW d \in Deployer, WritesScope(d)
      PROVE  Keeps(e)
  <2>1. seen[d] \in Version /\ seen[d] = api[d] /\ seen[d].phase = "live" /\ want[d] \in SUBSET Object
    BY <1>4 DEF TypeOK, ScopeInv, Fresh, WritesScope, Goes, Current, DeleteInv, Progress
  <2>2. /\ seen[d].gks \cup {GK[o] : o \in want[d]} \in SUBSET {GK[o] : o \in Object}
        /\ seen[d].namespaces \cup ({NS[o] : o \in want[d]} \ {Home[d], Cluster})
             \in SUBSET {NS[o] : o \in Object}
    BY <2>1 DEF Version
  <2>3. /\ Projected(d) \in Version /\ Projected(d).policy = api[d].policy
        /\ Projected(d).finalizers = api[d].finalizers /\ Projected(d).phase = "live"
    BY <2>1, <2>2, VersionEdited DEF Projected, Version
  <2>4. Write(d, Projected(d))
    BY <1>4 DEF WritesScope
  <2> QED BY <2>3, <2>4, WriteKeeps
<1>5. ASSUME NEW d \in Deployer, Finalizes(d)
      PROVE  Keeps(e)
  <2> DEFINE new == [seen[d] EXCEPT !.finalizers = @ \ {"prune"}]
  <2>1. /\ seen[d] \in Version /\ seen[d] = api[d] /\ Write(d, new)
        /\ at[d] = "finalize" /\ Current(d, seen[d])
    BY <1>5 DEF TypeOK, ScopeInv, Fresh, Finalizes, Current
  <2>2. seen[d].finalizers \ {"prune"} \in SUBSET Finalizer
    BY <2>1 DEF Version
  <2>3. new \in Version /\ new.policy = api[d].policy /\ "prune" \notin new.finalizers
    BY <2>1, <2>2, VersionEdited DEF Version
  <2> QED BY <2>1, <2>3, WriteKeeps
<1>6. ASSUME NEW d \in Deployer, UserDeletes(d)
      PROVE  Keeps(e)
  <2> DEFINE new == [api[d] EXCEPT !.phase = "deleting"]
  <2>0. api[d] \in Version
    BY DEF TypeOK
  <2>1. new \in Version /\ new.policy = api[d].policy /\ new.finalizers = api[d].finalizers /\ new.phase = "deleting"
    BY <2>0, VersionEdited DEF Version
  <2>2. Write(d, new)
    BY <1>6 DEF UserDeletes
  <2> QED BY <2>1, <2>2, WriteKeeps
<1>7. ASSUME NEW d \in Deployer, Suspends(d)
      PROVE  Keeps(e)
  <2> DEFINE new == [api[d] EXCEPT !.suspended = ~ @]
  <2>1. api[d] \in Version /\ (~ api[d].suspended) \in BOOLEAN
    BY DEF TypeOK
  <2>2. new \in Version
    BY <2>1, VersionEdited
  <2>3. new.policy = api[d].policy /\ new.finalizers = api[d].finalizers /\ new.phase = api[d].phase
    BY <2>1 DEF Version
  <2>4. Write(d, new) /\ api[d].phase # "gone"
    BY <1>7 DEF Suspends
  <2> QED BY <2>2, <2>3, <2>4, WriteKeeps
<1>8. ASSUME NEW d \in Deployer, NamespaceTerminates(d)
      PROVE  Keeps(e)
  <2> DEFINE new == [api[e] EXCEPT !.phase = "deleting"]
  <2>0. api[e] \in Version
    BY DEF TypeOK
  <2>1. /\ new \in Version /\ new.policy = api[e].policy
        /\ new.finalizers = api[e].finalizers /\ new.phase = "deleting"
    BY <2>0, VersionEdited DEF Version
  <2>2. api'[e] = api[e] \/ api'[e] = Versioned(api[e], new)
    BY <1>8 DEF NamespaceTerminates
  <2> HIDE DEF new
  <2> QED BY <2>0, <2>1, <2>2, VersionKeeps DEF Keeps, DeleteInv, Guarded
<1>9. CASE Follows
  BY <1>1, <1>9 DEF Follows, Syncs, WatchStarts, Vanishes, Collected, deployer
<1>10. CASE Happens
  BY <1>1, <1>6, <1>7, <1>8, <1>10
     DEF Happens, Changes, CallFails, AccountChanges, ObjectFails, Restarts, Drifts, deployer
<1>11. ASSUME NEW d \in Deployer, Fails(d) PROVE UNCHANGED api
  BY <1>11 DEF Fails, cluster, deployer
<1>12. ASSUME NEW d \in Deployer, Deploys(d)
       PROVE  Keeps(e)
  BY <1>1, <1>2, <1>4, <1>11, <1>12
     DEF Deploys, Loads, LoadFails, ScopeRefused, Detects, DetectRefused, Applies, ApplyRefused,
     ApplyEnds, ApplyFailed, Lists, Deletes, PruneEnds, PruneRefused, Tracks, cluster, deployer
<1>13. ASSUME NEW d \in Deployer, Removes(d)
       PROVE  Keeps(e)
  BY <1>1, <1>3, <1>5, <1>11, <1>13
     DEF Removes, Uninstalls, GivesUp, Blocked, CollectorWillDo, DeletionBlocked,
     StillPruning, NothingLeft, ListsMembers, Releases, ReleaseRefused, Released, ReleaseFailed, FinalizeRefused,
     StopsWatches, cluster, deployer
<1> QED BY <1>1, <1>9, <1>10, <1>12, <1>13 DEF Next, Reconciles, Ignores, deployer

\* What was given up stays so, and a namespace that ends does not come back.
LEMMA LossesStay ==
  ASSUME TypeOK, Next, NEW e \in Deployer
  PROVE  (abandoned[e] => abandoned'[e]) /\ terminating \subseteq terminating'
<1> USE DEF deployer, cluster
<1>1. CASE UNCHANGED <<abandoned, terminating>>
  BY <1>1
<1>2. ASSUME NEW d \in Deployer, GivesUp(d) \/ NamespaceTerminates(d)
      PROVE  (abandoned[e] => abandoned'[e]) /\ terminating \subseteq terminating'
  BY <1>2 DEF GivesUp, NamespaceTerminates, TypeOK
<1>3. CASE Follows
  BY <1>1, <1>3 DEF Follows, Syncs, WatchStarts, Vanishes, Collected
<1>4. CASE Happens
  BY <1>1, <1>2, <1>4
     DEF Happens, Changes, UserDeletes, Suspends, CallFails, AccountChanges, ObjectFails, Restarts, Drifts
<1>5. ASSUME NEW d \in Deployer, Fails(d) PROVE UNCHANGED <<abandoned, terminating>>
  BY <1>5 DEF Fails
<1>6. ASSUME NEW d \in Deployer, Deploys(d)
      PROVE  (abandoned[e] => abandoned'[e]) /\ terminating \subseteq terminating'
  BY <1>1, <1>5, <1>6
     DEF Deploys, AddsFinalizers, Loads, WritesScope, LoadFails, ScopeRefused, Detects, DetectRefused, Applies,
     ApplyRefused, ApplyEnds, ApplyFailed, Lists, Deletes, PruneEnds, PruneRefused, Tracks
<1>7. ASSUME NEW d \in Deployer, Removes(d)
      PROVE  (abandoned[e] => abandoned'[e]) /\ terminating \subseteq terminating'
  BY <1>1, <1>2, <1>5, <1>7 DEF Removes, Uninstalls, Blocked, CollectorWillDo, DeletionBlocked, StillPruning,
     NothingLeft, ListsMembers, Releases, ReleaseRefused, Released, ReleaseFailed, Finalizes, FinalizeRefused,
     StopsWatches, Untracked
<1> QED BY <1>1, <1>3, <1>4, <1>6, <1>7 DEF Next, Reconciles, Ignores

\* What a step does to one reconcile: nothing, its end, or a step of its own.
Rests(d) ==
  /\ at'[d] = at[d] /\ seen'[d] = seen[d] /\ want'[d] = want[d]
  /\ todo'[d] = todo[d] /\ found'[d] = found[d] /\ failed'[d] = failed[d]
Stops(d) == at'[d] = "idle" /\ want'[d] = {}
Advances(d) ==
  \/ Loads(d) \/ WritesScope(d) \/ Detects(d) \/ ApplyEnds(d) \/ Lists(d) \/ PruneEnds(d)
  \/ Uninstalls(d) \/ GivesUp(d) \/ CollectorWillDo(d) \/ NothingLeft(d) \/ ListsMembers(d) \/ Released(d)
Handles(d, o) ==
  \/ Applies(d, o) \/ ApplyRefused(d, o) \/ Deletes(d, o) \/ Releases(d, o) \/ ReleaseRefused(d, o)
  \/ ObjectFails(d, o)
Turns(d) == Rests(d) \/ Stops(d) \/ Advances(d) \/ \E o \in Object : Handles(d, o)

\* Every step turns every reconcile, most often by letting it rest.
LEMMA StepTurns ==
  ASSUME TypeOK, Next, NEW e \in Deployer
  PROVE  Turns(e)
<1> USE DEF deployer, cluster, reconcile
<1>1. CASE UNCHANGED reconcile
  BY <1>1 DEF Turns, Rests
<1>2. ASSUME NEW d \in Deployer, NEW again, Ends(d, again)
      PROVE  Turns(e)
  <2>1. CASE d = e
    BY <1>2, <2>1 DEF Ends, Turns, Stops, TypeOK
  <2>2. CASE d # e
    BY <1>2, <2>2 DEF Ends, Turns, Rests, TypeOK
  <2> QED BY <2>1, <2>2
<1>3. ASSUME NEW d \in Deployer, Advances(d)
      PROVE  Turns(e)
  <2>1. CASE d = e
    BY <1>3, <2>1 DEF Turns
  <2>2. CASE d # e
    BY <1>3, <2>2 DEF Turns, Rests, TypeOK, Goes, Advances, Loads, WritesScope, Detects, ApplyEnds,
       Lists, PruneEnds,
       Uninstalls, GivesUp, CollectorWillDo, NothingLeft, ListsMembers, Released
  <2> QED BY <2>1, <2>2
<1>4. ASSUME NEW d \in Deployer, NEW o \in Object, Handles(d, o)
      PROVE  Turns(e)
  <2>1. CASE d = e
    BY <1>4, <2>1 DEF Turns
  <2>2. CASE d # e
    BY <1>4, <2>2 DEF Turns, Rests, TypeOK, Handles, Applies, ApplyRefused, Deletes, Releases, ReleaseRefused,
       ObjectFails
  <2> QED BY <2>1, <2>2
<1>5. CASE Restarts
  BY <1>5 DEF Restarts, Turns, Stops
<1>6. CASE Follows
  BY <1>1, <1>6 DEF Follows, Syncs, WatchStarts, Vanishes, Collected
<1>7. ASSUME NEW d \in Deployer, CallFails(d)
      PROVE  Turns(e)
  BY <1>2, <1>7 DEF CallFails
<1>8. ASSUME NEW d \in Deployer, NEW o \in Object, ObjectFails(d, o)
      PROVE  Turns(e)
  BY <1>4, <1>8 DEF Handles
<1>9. CASE Happens
  BY <1>1, <1>5, <1>7, <1>8, <1>9
     DEF Happens, Changes, UserDeletes, Suspends, AccountChanges, NamespaceTerminates, Drifts
<1>10. ASSUME NEW d \in Deployer, Fails(d) \/ Tracks(d) \/ Finalizes(d)
       PROVE  Turns(e)
  BY <1>2, <1>10 DEF Fails, Tracks, Finalizes
<1>11. ASSUME NEW d \in Deployer, Deploys(d)
       PROVE  Turns(e)
  <2>1. CASE AddsFinalizers(d)
    BY <1>1, <2>1 DEF AddsFinalizers
  <2>2. CASE Advances(d) \/ \E o \in Object : Handles(d, o)
    BY <1>3, <1>4, <2>2
  <2>3. CASE Fails(d) \/ Tracks(d)
    BY <1>10, <2>3
  <2> QED BY <1>11, <2>1, <2>2, <2>3
          DEF Deploys, Advances, Handles, LoadFails, ScopeRefused, DetectRefused, ApplyFailed, PruneRefused
<1>12. ASSUME NEW d \in Deployer, Removes(d)
       PROVE  Turns(e)
  <2>1. CASE StopsWatches(d) \/ Untracked(d)
    BY <1>1, <2>1 DEF StopsWatches, Untracked
  <2>2. CASE Advances(d) \/ \E o \in Object : Handles(d, o)
    BY <1>3, <1>4, <2>2
  <2>3. CASE Fails(d) \/ Finalizes(d)
    BY <1>10, <2>3
  <2> QED BY <1>12, <2>1, <2>2, <2>3
          DEF Removes, Advances, Handles, Blocked, DeletionBlocked, StillPruning, ReleaseFailed,
              FinalizeRefused
<1> QED BY <1>1, <1>6, <1>9, <1>11, <1>12 DEF Next, Reconciles, Ignores

\* Nothing joins an ApplySet unless its deployer is applying.
LEMMA MembersShrink ==
  ASSUME TypeOK, Next, NEW e \in Deployer, at[e] # "apply"
  PROVE  Members(e)' \subseteq Members(e)
BY StepMoves DEF Moves, Members

\* What is safe stays safe while nothing is applied.
LEMMA SafeStays ==
  ASSUME TypeOK, ScopeInv, DeleteInv, Next, NEW e \in Deployer, at[e] # "apply", Safe(e)
  PROVE  Safe(e)'
BY MembersShrink, ApiKeeps, LossesStay DEF Safe, Keeps, CanOwn

\* What a reconcile has read and is still stored has not been written since.
LEMMA CurrentBefore ==
  ASSUME TypeOK, ScopeInv, Next, NEW e \in Deployer, at[e] # "idle", seen'[e] = seen[e], Current(e, seen[e])'
  PROVE  /\ Current(e, seen[e]) /\ seen[e] = api[e] /\ api'[e] = api[e]
         /\ \A o \in Members(e) : InScope(e, o)
<1>1. Later(e) /\ Fresh(e, seen[e]) /\ api[e].rv \in Nat /\ seen[e].rv \in Nat
  BY ApiGrows DEF ScopeInv, TypeOK, Version
<1>2. seen[e].rv = api'[e].rv
  BY DEF Current
<1>3. seen[e] = api[e] /\ api'[e] = api[e]
  BY <1>1, <1>2 DEF Later, Fresh
<1> QED BY <1>3 DEF Current, ScopeInv, Covered, InScope

\* The finalizer is there while objects are applied, and goes when that is safe.
LEMMA GuardedStep ==
  ASSUME TypeOK, ScopeInv, DeleteInv, Next, NEW e \in Deployer
  PROVE  Guarded(e)'
<1>1. Keeps(e) /\ Moves(e) /\ Guarded(e) /\ Progress(e) /\ Remaining(e)
  BY ApiKeeps, StepMoves DEF DeleteInv
<1>2. at'[e] \in {"detect", "apply"} => "prune" \in api'[e].finalizers
  <2> SUFFICES ASSUME at'[e] \in {"detect", "apply"} PROVE "prune" \in api'[e].finalizers
    OBVIOUS
  <2>1. CASE at[e] \in {"detect", "apply"}
    BY <1>1, <2>1 DEF Guarded, Keeps
  <2>2. CASE WritesScope(e)
    <3>1. at[e] = "scope" /\ seen[e] = api[e]
      BY <2>2 DEF WritesScope, Goes, Current, ScopeInv, Fresh
    <3> QED BY <1>1, <3>1 DEF Progress, Keeps
  <2> QED BY <1>1, <2>1, <2>2 DEF Moves
<1>3. "prune" \notin api'[e].finalizers => Safe(e)'
  <2> SUFFICES ASSUME "prune" \notin api'[e].finalizers PROVE Safe(e)'
    OBVIOUS
  <2>1. at[e] # "apply" /\ Safe(e)
    BY <1>1 DEF Keeps, Guarded, Remaining
  <2> QED BY <2>1, SafeStays
<1> QED BY <1>1, <1>2, <1>3 DEF Guarded, Keeps

\* A reconcile that deletes has nothing to apply and is not to orphan.
LEMMA ProgressStep ==
  ASSUME TypeOK, ScopeInv, DeleteInv, Next, NEW e \in Deployer
  PROVE  Progress(e)'
<1>1. Progress(e) /\ Turns(e)
  BY StepTurns DEF DeleteInv
<1>2. CASE Rests(e) \/ Stops(e) \/ \E o \in Object : Handles(e, o)
  BY <1>1, <1>2 DEF Progress, Rests, Stops, Handles, Applies, ApplyRefused, Deletes, Releases, ReleaseRefused,
     ObjectFails
<1>3. CASE Loads(e) \/ Uninstalls(e)
  BY <1>1, <1>3 DEF Progress, Loads, Uninstalls, Takes, Goes, Finalizer, TypeOK
<1>4. CASE WritesScope(e)
  <2>1. /\ seen[e] \in Version /\ api[e] \in Version /\ seen[e].phase = "live" /\ want[e] \in SUBSET Object
        /\ at' = [at EXCEPT ![e] = "detect"]
        /\ api' = [api EXCEPT ![e] = Versioned(@, Projected(e))] /\ seen' = [seen EXCEPT ![e] = api'[e]]
    BY <1>1, <1>4 DEF WritesScope, Goes, Write, Progress, TypeOK
  <2>2. /\ seen[e].gks \cup {GK[o] : o \in want[e]} \in SUBSET {GK[o] : o \in Object}
        /\ seen[e].namespaces \cup ({NS[o] : o \in want[e]} \ {Home[e], Cluster})
             \in SUBSET {NS[o] : o \in Object}
    BY <2>1 DEF Version
  <2>3. Projected(e) \in Version /\ Projected(e).phase = "live"
    BY <2>1, <2>2, VersionEdited DEF Projected, Version
  <2>4. Versioned(api[e], Projected(e)).phase = "live"
    BY <2>1, <2>3, VersionKeeps
  <2>5. at'[e] = "detect" /\ seen'[e].phase = "live"
    BY <2>1, <2>4 DEF TypeOK
  <2> QED BY <2>5 DEF Progress
<1>5. CASE \/ Detects(e) \/ ApplyEnds(e) \/ Lists(e) \/ PruneEnds(e) \/ GivesUp(e) \/ CollectorWillDo(e)
           \/ NothingLeft(e) \/ ListsMembers(e) \/ Released(e)
  BY <1>1, <1>5 DEF Progress, Detects, ApplyEnds, Lists, PruneEnds, GivesUp, CollectorWillDo, NothingLeft,
     ListsMembers, Released, Goes, TypeOK
<1> QED BY <1>1, <1>2, <1>3, <1>4, <1>5 DEF Turns, Advances

\* What a deletion still has to do covers every member, until it is safe.
LEMMA RemainingStep ==
  ASSUME TypeOK, ScopeInv, LabelInv, DeleteInv, Next, NEW e \in Deployer
  PROVE  Remaining(e)'
<1> SUFFICES ASSUME Current(e, seen[e])'
             PROVE  /\ at'[e] = "delete" /\ seen'[e].phase = "deleting" => Members(e)' \subseteq found'[e]
                    /\ at'[e] = "release" /\ ~ failed'[e] => Members(e)' \subseteq todo'[e]
                    /\ at'[e] = "finalize" => Safe(e)'
  BY DEF Remaining
<1>1. Progress(e) /\ Remaining(e) /\ Turns(e)
  BY StepTurns DEF DeleteInv
<1>2. CASE Stops(e) \/ Loads(e) \/ WritesScope(e) \/ Uninstalls(e) \/ Detects(e) \/ ApplyEnds(e) \/ PruneEnds(e)
  <2>1. at'[e] \notin {"delete", "release", "finalize"}
    BY <1>2 DEF Stops, Loads, WritesScope, Uninstalls, Detects, ApplyEnds, PruneEnds, Goes, TypeOK
  <2> QED BY <2>1
\* In all other steps the reconcile goes on with what it has read.
<1> SUFFICES ASSUME at[e] # "idle", at[e] # "apply", seen'[e] = seen[e],
                    \/ Rests(e) \/ \E o \in Object : Handles(e, o)
                    \/ Lists(e) \/ GivesUp(e) \/ CollectorWillDo(e) \/ NothingLeft(e) \/ ListsMembers(e) \/ Released(e)
             PROVE  /\ at'[e] = "delete" /\ seen'[e].phase = "deleting" => Members(e)' \subseteq found'[e]
                    /\ at'[e] = "release" /\ ~ failed'[e] => Members(e)' \subseteq todo'[e]
                    /\ at'[e] = "finalize" => Safe(e)'
  <2>1. CASE at[e] \in {"idle", "apply"} /\ (Rests(e) \/ \E o \in Object : Handles(e, o))
    BY <2>1 DEF Rests, Handles, Applies, ApplyRefused, Deletes, Releases, ReleaseRefused, ObjectFails
  <2>2. CASE Lists(e) \/ GivesUp(e) \/ CollectorWillDo(e) \/ NothingLeft(e) \/ ListsMembers(e) \/ Released(e)
    <3>1. at[e] \notin {"idle", "apply"} /\ seen'[e] = seen[e]
      BY <2>2 DEF Lists, GivesUp, CollectorWillDo, NothingLeft, ListsMembers, Released, Goes
    <3> QED BY <2>2, <3>1
  <2>3. Rests(e) \/ (\E o \in Object : Handles(e, o)) => seen'[e] = seen[e]
    BY DEF Rests, Handles, Applies, ApplyRefused, Deletes, Releases, ReleaseRefused, ObjectFails
  <2> QED BY <1>1, <1>2, <2>1, <2>2, <2>3 DEF Turns, Advances
<1>3. /\ Current(e, seen[e]) /\ seen[e] = api[e] /\ \A o \in Members(e) : InScope(e, o)
      /\ Members(e)' \subseteq Members(e)
      /\ Safe(e) => Safe(e)'
  BY CurrentBefore, MembersShrink, SafeStays
<1>4. CASE Rests(e)
  BY <1>1, <1>3, <1>4 DEF Rests, Remaining
<1>5. ASSUME NEW o \in Object, Deletes(e, o)
      PROVE  at'[e] = "delete" /\ (seen'[e].phase = "deleting" => Members(e)' \subseteq found'[e])
  BY <1>1, <1>3, <1>5 DEF Deletes, Remaining
<1>6. ASSUME NEW o \in Object, Releases(e, o)
      PROVE  at'[e] = "release" /\ (~ failed'[e] => Members(e)' \subseteq todo'[e])
  <2>1. at[e] = "release" /\ at' = at /\ failed' = failed /\ todo' = [todo EXCEPT ![e] = @ \ {o}]
    BY <1>6 DEF Releases
  <2>2. o \notin Members(e)'
    <3>1. [obj[o] EXCEPT !.part = None, !.owner = None].part = None
      BY DEF TypeOK
    <3>2. obj'[o].part = None
      BY <1>6, <3>1 DEF Releases, Becomes, LabelInv, Labelled, TypeOK
    <3> QED BY <3>2, DeployersAssumption DEF Members, None
  <2> QED BY <1>1, <1>3, <2>1, <2>2 DEF Remaining, TypeOK
<1>7. ASSUME NEW o \in Object, ApplyRefused(e, o) \/ ReleaseRefused(e, o) \/ ObjectFails(e, o) \/ Applies(e, o)
      PROVE  at'[e] \in {"apply", "release"} /\ (at'[e] = "release" => failed'[e])
  BY <1>7 DEF ApplyRefused, ReleaseRefused, ObjectFails, Applies, TypeOK
<1>8. CASE Lists(e)
  <2>1. /\ at'[e] = "delete" /\ at[e] = "prune" /\ seen' = seen
        /\ found'[e] = {o \in Members(e) \ want[e] : InScope(e, o)}
    BY <1>8 DEF Lists, Goes, TypeOK
  <2>2. seen'[e].phase = "deleting" => want[e] = {}
    BY <1>1, <2>1 DEF Progress
  <2> QED BY <1>3, <2>1, <2>2
<1>9. CASE ListsMembers(e)
  <2>1. at'[e] = "release" /\ todo'[e] = {o \in Members(e) : InScope(e, o)}
    BY <1>9 DEF ListsMembers, Goes, TypeOK
  <2> QED BY <1>3, <2>1
<1>10. CASE GivesUp(e)
  <2>1. at'[e] = "finalize" /\ abandoned'[e] /\ (seen[e].policy = "Orphan" => Home[e] \in terminating)
    BY <1>10 DEF GivesUp, BlocksWithoutAccount, Goes, TypeOK
  <2>2. api'[e].policy = api[e].policy /\ terminating \subseteq terminating'
    BY ApiKeeps, LossesStay DEF Keeps
  <2> QED BY <1>3, <2>1, <2>2 DEF Safe
<1>11. CASE CollectorWillDo(e)
  <2>1. at'[e] = "finalize" /\ seen[e].policy # "Orphan" /\ Outside(e) = {}
    BY <1>1, <1>11 DEF CollectorWillDo, Progress, TypeOK, Stages
  <2>2. Safe(e)
    BY <1>3, <2>1 DEF Safe, Outside, CanOwn
  <2> QED BY <1>3, <2>1, <2>2
<1>12. CASE NothingLeft(e) \/ Released(e)
  <2>1. at'[e] = "finalize" /\ Members(e) = {}
    BY <1>1, <1>3, <1>12 DEF NothingLeft, Released, Goes, Remaining, TypeOK
  <2>2. Safe(e)
    BY <2>1 DEF Safe
  <2> QED BY <1>3, <2>1, <2>2
<1> QED BY <1>4, <1>5, <1>6, <1>7, <1>8, <1>9, <1>10, <1>11, <1>12 DEF Handles

\* Both hold in every behavior.
LEMMA DeletionsSafe == Spec => [](LabelInv /\ DeleteInv)
<1>1. Init => LabelInv /\ DeleteInv
  <2> SUFFICES ASSUME Init PROVE LabelInv /\ DeleteInv
    OBVIOUS
  <2>1. \A o \in Object : obj[o] = Absent
    BY DEF Init
  <2>2. \A d \in Deployer : Members(d) = {}
    BY <2>1, DeployersAssumption DEF Members, Absent, None
  <2>3. \A d \in Deployer : api[d].phase = "live" /\ at[d] = "idle" /\ want[d] = {}
    <3>1. PICK policy \in [Deployer -> Policies] : api = [d \in Deployer |-> [New EXCEPT !.policy = policy[d]]]
      BY DEF Init
    <3>2. \A x : [New EXCEPT !.policy = x].phase = "live"
      BY DEF New
    <3> QED BY <3>1, <3>2 DEF Init
  <2>4. LabelInv
    BY <2>1, DeployersAssumption DEF LabelInv, Labelled, Absent, None
  <2> QED BY <2>2, <2>3, <2>4 DEF DeleteInv, Progress, Remaining, Guarded, Safe
<1>2. TypeOK /\ ScopeInv /\ LabelInv /\ DeleteInv /\ [Next]_vars => LabelInv' /\ DeleteInv'
  <2>1. CASE UNCHANGED vars
    BY <2>1 DEF vars, cluster, reconcile, deployer, LabelInv, DeleteInv, Progress, Remaining,
       Guarded, Safe, Members,
       CanOwn, Current
  <2>2. TypeOK /\ ScopeInv /\ LabelInv /\ DeleteInv /\ Next => LabelInv' /\ DeleteInv'
    BY LabelStep, GuardedStep, ProgressStep, RemainingStep DEF DeleteInv
  <2> QED BY <2>1, <2>2
<1> QED BY <1>1, <1>2, TypeCorrect, ScopeAlways, PTL DEF Spec

\* A deployer that is gone leaves no object of its own to nobody, for any deployers
\* and manifests: it waited for its prune, or what is left the garbage collector
\* deletes, or the loss was reported (pruneWithApplySet, blocksDeletion).
THEOREM NothingIsLeft == Spec => []GoneLeavesNothing
<1>1. LabelInv /\ DeleteInv => GoneLeavesNothing
  <2> SUFFICES ASSUME LabelInv, DeleteInv, NEW d \in Deployer, api[d].phase = "gone", ~ abandoned[d],
                      NEW o \in Members(d)
               PROVE  obj[o].owner = d
    BY DEF GoneLeavesNothing
  <2>1. CanOwn(d, o)
    BY DEF DeleteInv, Guarded, Safe
  <2> QED BY <2>1 DEF LabelInv, Labelled, Members
<1> QED BY <1>1, DeletionsSafe, PTL

\* What a deployer is to orphan is never owned by it when it is gone, unless the
\* namespace goes too: the garbage collector has nothing to follow
\* (releaseOnDeletion, blocksOrphanWithoutServiceAccount).
THEOREM OrphansAlwaysSurvive == Spec => []OrphansSurvive
<1>1. TypeOK /\ LabelInv /\ DeleteInv => OrphansSurvive
  <2> SUFFICES ASSUME TypeOK, LabelInv, DeleteInv, NEW d \in Deployer, api[d].phase = "gone",
                      api[d].policy = "Orphan", Home[d] \notin terminating, NEW o \in Object, obj[o].owner = d
               PROVE  FALSE
    BY DEF OrphansSurvive
  <2>1. Members(d) = {}
    BY DEF DeleteInv, Guarded, Safe
  <2>2. obj[o].part = d
    BY DeployersAssumption DEF LabelInv, Labelled, None
  <2> QED BY <2>1, <2>2 DEF Members
<1> QED BY <1>1, TypeCorrect, DeletionsSafe, PTL
=============================================================================
