----------------------------- MODULE Deployers -----------------------------
(***************************************************************************)
(* What the Deployer and NamespacedDeployer reconcilers apply, prune and   *)
(* delete (deployer_controller.go, namespaced.go) through their ApplySets  *)
(* (applyset/applyset.go).                                                 *)
(*                                                                         *)
(* An object is applied with a label that names its ApplySet, one for each *)
(* deployer; a prune finds the members of the set by that label, in the    *)
(* kinds and namespaces that annotations on the deployer remember.  The    *)
(* reconciler reads its deployer from a cache that may lag behind, writes  *)
(* it under optimistic concurrency, and may fail or be restarted anywhere. *)
(* The owner reference and the annotation that names a NamespacedDeployer  *)
(* are set and removed together with the label, except that a              *)
(* NamespacedDeployer owns only objects of its own namespace.              *)
(*                                                                         *)
(* An object goes through these stages: absent, there, terminating (its    *)
(* deletion is asked for and not finished).  The lists of one prune are    *)
(* taken at one moment; so is the list of conflicts.  Only a               *)
(* NamespacedDeployer uses a service account; what it may do is taken as a *)
(* whole, and calls on behalf of one that is gone may succeed or not.      *)
(***************************************************************************)
EXTENDS Integers, FiniteSets

CONSTANTS
  Deployer, Namespaced,   \* the deployers; whether they are NamespacedDeployers
  Policies,               \* their deletion policies, as far as they differ: "Orphan" or "Delete"
  Home,                   \* the namespace of a deployer, "default" of a cluster-scoped one
  Object, GK, NS,         \* what manifests hold; kind and namespace of each, Cluster if it has none
  Cluster,
  Manifests,              \* the sets of objects each deployer may be asked to deploy
  Lingering,              \* objects whose deletion takes time
  Warm,                   \* objects watched from the start
  Upsets,                 \* what may happen beside the reconcilers
  MaxUpsets               \* bound: how often

ASSUME DeployersAssumption ==
  /\ Namespaced \in BOOLEAN /\ "none" \notin Deployer /\ Policies \subseteq {"Orphan", "Delete"}
  /\ Lingering \subseteq Object /\ Warm \subseteq Object
  /\ Manifests \in [Deployer -> SUBSET SUBSET Object]
  /\ \A d \in Deployer : Manifests[d] # {} /\ Home[d] # Cluster
  /\ IsFiniteSet(Object) /\ MaxUpsets \in Nat

VARIABLES
  api, cache,             \* each deployer at the API server, and in the cache of the controller
  desired,                \* the manifest its Resource holds
  obj,                    \* each object: its stage, the ApplySet it is part of, its owner
  watch,                  \* the watch of each object: no, asked, on
  due,                    \* the deployer is in the workqueue
  at, seen, want,         \* its reconcile: where it is, the deployer as read, the manifest as loaded
  todo, found, failed,    \* objects to go, objects a list found, an object could not be applied
  account, abandoned,     \* its service account: ok, forbidden, gone; its objects were given up
  terminating,            \* namespaces being deleted
  upsets

deployer  == <<api, cache, desired, account, terminating>>
reconcile == <<at, seen, want, todo, found, failed>>
cluster   == <<deployer, obj, watch, abandoned, upsets>>
vars      == <<cluster, due, reconcile>>

None      == "none"
Absent    == [stage |-> "absent", part |-> None, owner |-> None]
Finalizer == {"prune", "watch"}

New == [phase |-> "live", suspended |-> FALSE, policy |-> "Delete", finalizers |-> {},
        gks |-> {}, namespaces |-> {}, rv |-> 0]

Init ==
  /\ \E policy \in [Deployer -> Policies] : api = [d \in Deployer |-> [New EXCEPT !.policy = policy[d]]]
  /\ cache = api
  /\ desired \in [Deployer -> SUBSET Object] /\ \A d \in Deployer : desired[d] \in Manifests[d]
  /\ obj = [o \in Object |-> Absent] /\ watch = [o \in Object |-> IF o \in Warm THEN "on" ELSE "no"]
  /\ due = [d \in Deployer |-> TRUE]
  /\ at = [d \in Deployer |-> "idle"] /\ seen = [d \in Deployer |-> New]
  /\ want = [d \in Deployer |-> {}] /\ todo = [d \in Deployer |-> {}]
  /\ found = [d \in Deployer |-> {}] /\ failed = [d \in Deployer |-> FALSE]
  /\ account = [d \in Deployer |-> "ok"] /\ abandoned = [d \in Deployer |-> FALSE]
  /\ terminating = {} /\ upsets = 0

-----------------------------------------------------------------------------
Members(d) == {o \in Object : obj[o].part = d}

\* PruneScope of Project: the kinds and namespaces the annotations name, and
\* the namespace of the deployer.
InScope(d, o) ==
  GK[o] \in seen[d].gks /\ NS[o] \in seen[d].namespaces \cup {Home[d], Cluster}

\* orphanedObjects: the members a deletion would leave behind for good.
Outside(d) == {o \in Members(d) : InScope(d, o) /\ NS[o] # Home[d]}

CanOwn(d, o) == Namespaced => NS[o] = Home[d]

\* mutant of Notified
OnlyNewOwner(o, new) ==
  {d \in Deployer : watch[o] = "on" /\ obj[o].stage # "absent" /\ new # obj[o] /\ d = new.part}

\* A changed or deleted object puts the deployers it names and named into the
\* workqueue, if it is watched; that it was created is ignored.
Notified(o, new) ==
  {d \in Deployer : watch[o] = "on" /\ obj[o].stage # "absent" /\ new # obj[o]
                    /\ d \in {obj[o].part, new.part}}

Becomes(o, new) ==
  /\ obj' = [obj EXCEPT ![o] = new]
  /\ due' = [d \in Deployer |-> due[d] \/ d \in Notified(o, new)]

Deleting(o) ==
  IF o \in Lingering THEN [obj[o] EXCEPT !.stage = "terminating"] ELSE Absent

\* A reconcile ends; the deployer comes again after an error or on request.
Ends(d, again) ==
  /\ at' = [at EXCEPT ![d] = "idle"] /\ due' = [due EXCEPT ![d] = @ \/ again]
  /\ todo' = [todo EXCEPT ![d] = {}] /\ found' = [found EXCEPT ![d] = {}]
  /\ want' = [want EXCEPT ![d] = {}] /\ failed' = [failed EXCEPT ![d] = FALSE]
  /\ seen' = [seen EXCEPT ![d] = New]

Fails(d) == Ends(d, TRUE) /\ UNCHANGED cluster

Goes(d, from, to) ==
  /\ at[d] = from
  /\ at' = [at EXCEPT ![d] = to]

Versioned(old, new) ==
  IF new = old THEN old
  ELSE [new EXCEPT !.rv = @ + 1,
                   !.phase = IF @ = "deleting" /\ new.finalizers = {} THEN "gone" ELSE @]

\* mutant of Current
LastWriterWins(d, read) == TRUE

\* Update of a deployer: refused unless it is the version the caller has read.
Current(d, read) == read.rv = api[d].rv

Write(d, new) == api' = [api EXCEPT ![d] = Versioned(@, new)]

-----------------------------------------------------------------------------
\* Reconcile: the deployer is read from the cache.
Takes(d) ==
  /\ at[d] = "idle" /\ due[d]
  /\ cache[d].phase # "gone" /\ ~ cache[d].suspended

Ignores(d) ==
  /\ at[d] = "idle" /\ due[d]
  /\ cache[d].phase = "gone" \/ cache[d].suspended
  /\ due' = [due EXCEPT ![d] = FALSE]
  /\ UNCHANGED <<deployer, obj, watch, reconcile, abandoned, upsets>>

AddsFinalizers(d) ==
  /\ Takes(d) /\ cache[d].phase = "live" /\ cache[d].finalizers # Finalizer
  /\ Current(d, cache[d])
  /\ Write(d, [cache[d] EXCEPT !.finalizers = Finalizer])
  /\ UNCHANGED <<cache, desired, account, terminating, obj, watch, due, reconcile, abandoned, upsets>>

\* reconcileDeployment: the manifest is loaded.
Loads(d) ==
  /\ Takes(d) /\ cache[d].phase = "live" /\ cache[d].finalizers = Finalizer
  /\ desired[d] # {}
  /\ Goes(d, "idle", "scope") /\ due' = [due EXCEPT ![d] = FALSE]
  /\ seen' = [seen EXCEPT ![d] = cache[d]] /\ want' = [want EXCEPT ![d] = desired[d]]
  /\ UNCHANGED <<deployer, obj, watch, todo, found, failed, abandoned, upsets>>

\* decodeObjectsFromManifest: "no objects found in manifest" ends the reconcile
\* before anything is applied or pruned.
LoadFails(d) ==
  /\ Takes(d) /\ cache[d].phase = "live" /\ cache[d].finalizers = Finalizer
  /\ desired[d] = {}
  /\ Fails(d)

\* Project and setApplySetMetadata: the annotations only ever grow.
Projected(d) ==
  [seen[d] EXCEPT !.gks = @ \cup {GK[o] : o \in want[d]},
                  !.namespaces = @ \cup ({NS[o] : o \in want[d]} \ {Home[d], Cluster})]

WritesScope(d) ==
  /\ account[d] # "gone" /\ Current(d, seen[d])
  /\ Goes(d, "scope", "detect")
  /\ Write(d, Projected(d)) /\ seen' = [seen EXCEPT ![d] = api'[d]]
  /\ UNCHANGED <<cache, desired, account, terminating, obj, watch, due, want, todo, found, failed,
                 abandoned, upsets>>

ScopeRefused(d) ==
  /\ at[d] = "scope" /\ (account[d] = "gone" \/ ~ Current(d, seen[d]))
  /\ Fails(d)

\* detectConflicts: objects that are part of another ApplySet are not applied.
Conflicts(d) == {o \in want[d] : obj[o].part \notin {None, d}}

Detects(d) ==
  /\ account[d] # "forbidden" /\ Goes(d, "detect", "apply")
  /\ todo' = [todo EXCEPT ![d] = want[d] \ Conflicts(d)]
  /\ failed' = [failed EXCEPT ![d] = Conflicts(d) # {}]
  /\ UNCHANGED <<cluster, due, seen, want, found>>

DetectRefused(d) == at[d] = "detect" /\ account[d] # "ok" /\ Fails(d)

\* applyResource, one goroutine per object; a failure does not stop the others.
Applies(d, o) ==
  /\ at[d] = "apply" /\ o \in todo[d] /\ account[d] # "forbidden"
  /\ NS[o] \notin terminating \/ obj[o].stage # "absent"
  /\ Becomes(o, [stage |-> IF obj[o].stage = "absent" THEN "there" ELSE obj[o].stage,
                 part |-> d, owner |-> IF CanOwn(d, o) THEN d ELSE None])
  /\ todo' = [todo EXCEPT ![d] = @ \ {o}]
  /\ UNCHANGED <<deployer, watch, at, seen, want, found, failed, abandoned, upsets>>

ApplyRefused(d, o) ==
  /\ at[d] = "apply" /\ o \in todo[d]
  /\ account[d] # "ok" \/ (NS[o] \in terminating /\ obj[o].stage = "absent")
  /\ todo' = [todo EXCEPT ![d] = @ \ {o}] /\ failed' = [failed EXCEPT ![d] = TRUE]
  /\ UNCHANGED <<cluster, due, at, seen, want, found>>

ApplyEnds(d) ==
  /\ todo[d] = {} /\ ~ failed[d] /\ Goes(d, "apply", "prune")
  /\ UNCHANGED <<cluster, due, seen, want, todo, found, failed>>

ApplyFailed(d) == at[d] = "apply" /\ todo[d] = {} /\ failed[d] /\ Fails(d)

\* Prune: what is a member and was not applied; the terminating are left alone.
Lists(d) ==
  /\ account[d] # "forbidden" /\ Goes(d, "prune", "delete")
  /\ found' = [found EXCEPT ![d] = {o \in Members(d) \ want[d] : InScope(d, o)}]
  /\ todo' = [todo EXCEPT ![d] = {o \in found'[d] : obj[o].stage = "there"}]
  /\ UNCHANGED <<cluster, due, seen, want, failed>>

\* The delete names the object and nothing else.
Deletes(d, o) ==
  /\ at[d] = "delete" /\ o \in todo[d] /\ account[d] # "forbidden"
  /\ Becomes(o, IF obj[o].stage = "there" THEN Deleting(o) ELSE obj[o])
  /\ todo' = [todo EXCEPT ![d] = @ \ {o}]
  /\ UNCHANGED <<deployer, watch, at, seen, want, found, failed, abandoned, upsets>>

PruneEnds(d) ==
  /\ seen[d].phase = "live" /\ todo[d] = {} /\ Goes(d, "delete", "track")
  /\ UNCHANGED <<cluster, due, seen, want, todo, found, failed>>

PruneRefused(d) ==
  /\ at[d] \in {"prune", "delete"} /\ account[d] # "ok" /\ seen[d].phase = "live"
  /\ at[d] = "delete" => todo[d] # {}
  /\ Fails(d)

\* trackConcurrently: success once every object is watched.
Tracks(d) ==
  /\ at[d] = "track"
  /\ watch' = [o \in Object |-> IF o \in want[d] /\ watch[o] = "no" THEN "asked" ELSE watch[o]]
  /\ Ends(d, \E o \in want[d] : watch[o] # "on")
  /\ UNCHANGED <<deployer, obj, abandoned, upsets>>

-----------------------------------------------------------------------------
\* reconcileDeletionTimestamp, first pruneWithApplySet.
Uninstalls(d) ==
  /\ Takes(d) /\ cache[d].phase = "deleting" /\ "prune" \in cache[d].finalizers
  /\ at' = [at EXCEPT ![d] = IF account[d] = "gone" THEN "giveup"
                              ELSE IF cache[d].policy = "Orphan" THEN "members" ELSE "prune"]
  /\ due' = [due EXCEPT ![d] = FALSE] /\ seen' = [seen EXCEPT ![d] = cache[d]]
  /\ UNCHANGED <<deployer, obj, watch, want, todo, found, failed, abandoned, upsets>>

\* mutant of BlocksWithoutAccount
NeverBlocks(d) == FALSE

\* blocksOrphanWithoutServiceAccount: only while the namespace stays.
BlocksWithoutAccount(d) == seen[d].policy = "Orphan" /\ Home[d] \notin terminating

\* orphanOnDeletion
GivesUp(d) ==
  /\ ~ BlocksWithoutAccount(d) /\ Goes(d, "giveup", "finalize")
  /\ abandoned' = [abandoned EXCEPT ![d] = TRUE]
  /\ UNCHANGED <<deployer, obj, watch, due, seen, want, todo, found, failed, upsets>>

Blocked(d) == at[d] = "giveup" /\ BlocksWithoutAccount(d) /\ Fails(d)

\* blocksDeletion: a prune that is forbidden is given up when the garbage
\* collector will do.
CollectorWillDo(d) ==
  /\ at[d] \in {"prune", "delete"} /\ account[d] # "ok" /\ seen[d].phase = "deleting"
  /\ at[d] = "delete" => todo[d] # {}
  /\ Outside(d) = {} /\ at' = [at EXCEPT ![d] = "finalize"]
  /\ UNCHANGED <<cluster, due, seen, want, todo, found, failed>>

DeletionBlocked(d) ==
  /\ at[d] \in {"prune", "delete"} /\ account[d] # "ok" /\ seen[d].phase = "deleting"
  /\ at[d] = "delete" => todo[d] # {}
  /\ Outside(d) # {}
  /\ Fails(d)

\* mutant of StillPruning
StopsWaiting(d) ==
  /\ at[d] = "delete" /\ seen[d].phase = "deleting" /\ todo[d] = {} /\ found[d] # {}
  /\ Ends(d, FALSE) /\ UNCHANGED cluster

StillPruning(d) ==
  /\ at[d] = "delete" /\ seen[d].phase = "deleting" /\ todo[d] = {} /\ found[d] # {}
  /\ Fails(d)

\* mutant of NothingLeft
AllAsked(d) ==
  /\ seen[d].phase = "deleting" /\ todo[d] = {} /\ Goes(d, "delete", "finalize")
  /\ UNCHANGED <<cluster, due, seen, want, todo, found, failed>>

NothingLeft(d) ==
  /\ seen[d].phase = "deleting" /\ todo[d] = {} /\ found[d] = {} /\ Goes(d, "delete", "finalize")
  /\ UNCHANGED <<cluster, due, seen, want, todo, found, failed>>

\* releaseOnDeletion, under optimistic concurrency.
ListsMembers(d) ==
  /\ Goes(d, "members", "release")
  /\ todo' = [todo EXCEPT ![d] = {o \in Members(d) : InScope(d, o)}]
  /\ UNCHANGED <<cluster, due, seen, want, found, failed>>

Releases(d, o) ==
  /\ at[d] = "release" /\ o \in todo[d] /\ account[d] # "forbidden"
  /\ obj[o].part = d \/ obj[o].stage = "absent"
  /\ Becomes(o, IF obj[o].stage = "absent" THEN obj[o] ELSE [obj[o] EXCEPT !.part = None, !.owner = None])
  /\ todo' = [todo EXCEPT ![d] = @ \ {o}]
  /\ UNCHANGED <<deployer, watch, at, seen, want, found, failed, abandoned, upsets>>

ReleaseRefused(d, o) ==
  /\ at[d] = "release" /\ o \in todo[d]
  /\ account[d] # "ok" \/ obj[o].part \notin {d, None}
  /\ todo' = [todo EXCEPT ![d] = @ \ {o}] /\ failed' = [failed EXCEPT ![d] = TRUE]
  /\ UNCHANGED <<cluster, due, at, seen, want, found>>

Released(d) ==
  /\ todo[d] = {} /\ ~ failed[d] /\ Goes(d, "release", "finalize")
  /\ UNCHANGED <<cluster, due, seen, want, todo, found, failed>>

ReleaseFailed(d) == at[d] = "release" /\ todo[d] = {} /\ failed[d] /\ Fails(d)

\* removeFinalizer
Finalizes(d) ==
  /\ at[d] = "finalize" /\ Current(d, seen[d])
  /\ Write(d, [seen[d] EXCEPT !.finalizers = @ \ {"prune"}])
  /\ Ends(d, TRUE)
  /\ UNCHANGED <<cache, desired, account, terminating, obj, watch, abandoned, upsets>>

FinalizeRefused(d) == at[d] = "finalize" /\ ~ Current(d, seen[d]) /\ Fails(d)

\* Then Untrack: it stops the watches of every deployer and comes again.
StopsWatches(d) ==
  /\ Takes(d) /\ cache[d].phase = "deleting" /\ cache[d].finalizers = {"watch"}
  /\ \E o \in Object : watch[o] = "on"
  /\ watch' = [o \in Object |-> IF watch[o] = "on" THEN "no" ELSE watch[o]]
  /\ UNCHANGED <<deployer, obj, due, reconcile, abandoned, upsets>>

Untracked(d) ==
  /\ Takes(d) /\ cache[d].phase = "deleting" /\ cache[d].finalizers = {"watch"}
  /\ \A o \in Object : watch[o] # "on"
  /\ Current(d, cache[d])
  /\ Write(d, [cache[d] EXCEPT !.finalizers = {}])
  /\ due' = [due EXCEPT ![d] = FALSE]
  /\ UNCHANGED <<cache, desired, account, terminating, obj, watch, reconcile, abandoned, upsets>>

-----------------------------------------------------------------------------
\* The rest of the cluster.
Syncs(d) ==
  /\ cache[d] # api[d]
  /\ cache' = [cache EXCEPT ![d] = api[d]]
  /\ due' = [due EXCEPT ![d] = \/ @ \/ cache[d].phase # api[d].phase
                               \/ cache[d].suspended # api[d].suspended]
  /\ UNCHANGED <<api, desired, account, terminating, obj, watch, reconcile, abandoned, upsets>>

WatchStarts(o) ==
  /\ watch[o] = "asked" /\ watch' = [watch EXCEPT ![o] = "on"]
  /\ UNCHANGED <<deployer, obj, due, reconcile, abandoned, upsets>>

\* An object whose deletion ends; the garbage collector; a namespace that ends.
Vanishes(o) ==
  /\ obj[o].stage = "terminating" /\ Becomes(o, Absent)
  /\ UNCHANGED <<deployer, watch, reconcile, abandoned, upsets>>

Collected(o) ==
  /\ obj[o].stage = "there"
  /\ \/ \E d \in Deployer : obj[o].owner = d /\ api[d].phase = "gone"
     \/ NS[o] \in terminating
  /\ Becomes(o, Deleting(o))
  /\ UNCHANGED <<deployer, watch, reconcile, abandoned, upsets>>

Upset(kind) == kind \in Upsets /\ upsets < MaxUpsets /\ upsets' = upsets + 1

\* A new version of the Resource; its watch brings the deployer back.
Changes(d) ==
  /\ Upset("manifest") /\ \E m \in Manifests[d] \ {desired[d]} : desired' = [desired EXCEPT ![d] = m]
  /\ due' = [due EXCEPT ![d] = TRUE]
  /\ UNCHANGED <<api, cache, account, terminating, obj, watch, reconcile, abandoned>>

UserDeletes(d) ==
  /\ Upset("delete") /\ api[d].phase = "live" /\ Write(d, [api[d] EXCEPT !.phase = "deleting"])
  /\ UNCHANGED <<cache, desired, account, terminating, obj, watch, due, reconcile, abandoned>>

Suspends(d) ==
  /\ Upset("suspend") /\ api[d].phase # "gone" /\ Write(d, [api[d] EXCEPT !.suspended = ~ @])
  /\ UNCHANGED <<cache, desired, account, terminating, obj, watch, due, reconcile, abandoned>>

\* A call fails: of one object among several, or of the whole reconcile.
CallFails(d) ==
  /\ Upset("fault") /\ at[d] # "idle" /\ Ends(d, TRUE)
  /\ UNCHANGED <<deployer, obj, watch, abandoned>>

ObjectFails(d, o) ==
  /\ Upset("fault") /\ at[d] \in {"apply", "release"} /\ o \in todo[d]
  /\ todo' = [todo EXCEPT ![d] = @ \ {o}] /\ failed' = [failed EXCEPT ![d] = TRUE]
  /\ UNCHANGED <<deployer, obj, watch, due, at, seen, want, found, abandoned>>

\* The controller restarts: every deployer is listed, and nothing is watched.
Restarts ==
  /\ Upset("restart") /\ cache' = api /\ watch' = [o \in Object |-> "no"]
  /\ due' = [d \in Deployer |-> TRUE] /\ at' = [d \in Deployer |-> "idle"]
  /\ seen' = [d \in Deployer |-> New] /\ failed' = [d \in Deployer |-> FALSE]
  /\ want' = [d \in Deployer |-> {}] /\ todo' = want' /\ found' = want'
  /\ UNCHANGED <<api, desired, account, terminating, obj, abandoned>>

Drifts(o) ==
  /\ Upset("drift") /\ obj[o].stage = "there" /\ Becomes(o, Deleting(o))
  /\ UNCHANGED <<deployer, watch, reconcile, abandoned>>

AccountChanges(d) ==
  /\ Upset("account") /\ Namespaced
  /\ \E a \in {"ok", "forbidden", "gone"} \ {account[d]} : account' = [account EXCEPT ![d] = a]
  /\ UNCHANGED <<api, cache, desired, terminating, obj, watch, due, reconcile, abandoned>>

NamespaceTerminates(d) ==
  /\ Upset("namespace") /\ Namespaced /\ Home[d] \notin terminating
  /\ terminating' = terminating \cup {Home[d]}
  /\ api' = [e \in Deployer |-> IF Home[e] = Home[d] /\ api[e].phase = "live"
                                 THEN Versioned(api[e], [api[e] EXCEPT !.phase = "deleting"]) ELSE api[e]]
  /\ UNCHANGED <<cache, desired, account, obj, watch, due, reconcile, abandoned>>

-----------------------------------------------------------------------------
Deploys(d) ==
  \/ AddsFinalizers(d) \/ Loads(d) \/ LoadFails(d) \/ WritesScope(d) \/ ScopeRefused(d) \/ Detects(d) \/ DetectRefused(d)
  \/ \E o \in Object : Applies(d, o) \/ ApplyRefused(d, o)
  \/ ApplyEnds(d) \/ ApplyFailed(d)
  \/ Lists(d) \/ \E o \in Object : Deletes(d, o)
  \/ PruneEnds(d) \/ PruneRefused(d) \/ Tracks(d)

Removes(d) ==
  \/ Uninstalls(d) \/ GivesUp(d) \/ Blocked(d) \/ CollectorWillDo(d) \/ DeletionBlocked(d)
  \/ StillPruning(d) \/ NothingLeft(d)
  \/ ListsMembers(d) \/ \E o \in Object : Releases(d, o) \/ ReleaseRefused(d, o)
  \/ Released(d) \/ ReleaseFailed(d) \/ Finalizes(d) \/ FinalizeRefused(d)
  \/ StopsWatches(d) \/ Untracked(d)

Reconciles(d) == Ignores(d) \/ Deploys(d) \/ Removes(d)

Follows == \/ \E d \in Deployer : Syncs(d)
           \/ \E o \in Object : WatchStarts(o) \/ Vanishes(o) \/ Collected(o)

Happens ==
  \/ \E d \in Deployer : \/ Changes(d) \/ UserDeletes(d) \/ Suspends(d) \/ CallFails(d)
                         \/ AccountChanges(d) \/ NamespaceTerminates(d)
                         \/ \E o \in Object : ObjectFails(d, o)
  \/ Restarts
  \/ \E o \in Object : Drifts(o)

Next == Follows \/ Happens \/ \E d \in Deployer : Reconciles(d)

Fairness ==
  /\ \A d \in Deployer : WF_vars(Reconciles(d)) /\ WF_vars(Syncs(d))
  /\ \A o \in Object : WF_vars(WatchStarts(o)) /\ WF_vars(Vanishes(o)) /\ WF_vars(Collected(o))

Spec == Init /\ [][Next]_vars /\ Fairness

-----------------------------------------------------------------------------
Version == [phase : {"live", "deleting", "gone"}, suspended : BOOLEAN,
            policy : {"Orphan", "Delete"}, finalizers : SUBSET Finalizer, gks : SUBSET {GK[o] : o \in Object},
            namespaces : SUBSET {NS[o] : o \in Object}, rv : Nat]
Stages == {"idle", "scope", "detect", "apply", "prune", "delete", "track",
           "giveup", "members", "release", "finalize"}

\* Every variable is of its type.
TypeOK ==
  /\ api \in [Deployer -> Version] /\ cache \in [Deployer -> Version]
  /\ seen \in [Deployer -> Version]
  /\ desired \in [Deployer -> SUBSET Object] /\ want \in [Deployer -> SUBSET Object]
  /\ todo \in [Deployer -> SUBSET Object] /\ found \in [Deployer -> SUBSET Object]
  /\ obj \in [Object -> [stage : {"absent", "there", "terminating"},
                         part : Deployer \cup {None}, owner : Deployer \cup {None}]]
  /\ watch \in [Object -> {"no", "asked", "on"}]
  /\ due \in [Deployer -> BOOLEAN] /\ failed \in [Deployer -> BOOLEAN]
  /\ abandoned \in [Deployer -> BOOLEAN]
  /\ at \in [Deployer -> Stages]
  /\ account \in [Deployer -> {"ok", "forbidden", "gone"}]
  /\ terminating \subseteq {Home[d] : d \in Deployer}
  /\ upsets \in 0..MaxUpsets

\* Whatever fails, restarts or is read late, the annotations of a deployer name
\* the kind and the namespace of every member of its ApplySet, so that a later
\* prune or deletion finds them (Project, setApplySetMetadata before Apply).
ScopeCoversMembers ==
  \A d \in Deployer : api[d].phase # "gone" =>
    \A o \in Members(d) : GK[o] \in api[d].gks /\ NS[o] \in api[d].namespaces \cup {Home[d], Cluster}

\* A deployer that is gone leaves no member behind that nobody will delete,
\* unless its service account was gone and the loss was reported.
GoneLeavesNothing ==
  \A d \in Deployer : api[d].phase = "gone" /\ ~ abandoned[d] =>
    \A o \in Members(d) : obj[o].owner = d

\* Under the deletion policy Orphan the garbage collector never follows the
\* deletion of a deployer, unless the whole namespace goes.
OrphansSurvive ==
  \A d \in Deployer : api[d].phase = "gone" /\ api[d].policy = "Orphan" /\ Home[d] \notin terminating =>
    \A o \in Object : obj[o].owner # d

\* A deployer with a conflict does not prune, so deployers that each want an
\* object of the next one wait for one another for good.
Waits(d, e) == d # e /\ desired[d] \cap Members(e) # {}
Ring == \E S \in SUBSET Deployer \ {{}} : \A d \in S : \E e \in S : Waits(d, e)

\* The objects of a deployer come to be those of its manifest and stay so, once
\* the manifests hold objects and have none in common, as long as no ring of
\* deployers exchanges them and no deletion stops the watches of all.
Settled ==
  /\ \A d, e \in Deployer : d # e => desired[d] \cap desired[e] = {}
  /\ \A d \in Deployer : api[d].phase = "live" /\ desired[d] # {}
  /\ ~ Ring
InSync(d) ==
  \/ api[d].suspended \/ account[d] # "ok"
  \/ {o \in Members(d) : obj[o].stage = "there"} = desired[d]
Converges == <>[]Settled => \A d \in Deployer : <>[]InSync(d)

\* A deployer that is deleted is gone in the end, unless it is suspended or its
\* service account keeps it.
Removed(d) == api[d].phase = "gone" \/ api[d].suspended \/ account[d] # "ok"
DeletionEnds == \A d \in Deployer : api[d].phase = "deleting" ~> Removed(d)
=============================================================================
