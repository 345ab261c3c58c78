-------------------------- MODULE InformerManager --------------------------
(***************************************************************************)
(* The watches of deployed objects: the Deployer reconciler that asks for  *)
(* them (track and Untrack of deployer_controller.go) and the workers of   *)
(* dynamic/informer_manager.go that start and stop them, connected by two  *)
(* buffered channels.                                                      *)
(*                                                                         *)
(* A watch task is kept per kind and namespace of the watched object, a    *)
(* Child; every Reconciler has a manager of its own and reconciles objects *)
(* of one kind, so the parent in the key of a task is always the same and  *)
(* the task is shared by all deployers, and no other task is ever found in *)
(* stopTask.  The informer behind a task is shared by all namespaces.      *)
(*                                                                         *)
(* A deployer is modelled from the moment it has its finalizers: what it   *)
(* deploys is applied, and pruned, before the steps shown.  A suspended    *)
(* deployer is one that is not due.  GetInformer waits for the informer to *)
(* sync, and an informer taken out of the cache stops at once.             *)
(***************************************************************************)
EXTENDS Integers, Sequences, FiniteSets, FiniteSetsExt

CONSTANTS
  Deployer, Worker,
  Child, GVK, Kind,       \* watched kind and namespace, kinds, kind of each
  Deploys,                \* what each deployer deploys
  Deleted,                \* bound: the deployers a user may delete
  BufferSize,             \* channelBufferSize
  MaxFailures,            \* bound: failing calls to the API server
  MaxHandlers             \* bound: handlers registered at a time

None == 0

ASSUME InformerManagerAssumption ==
  /\ IsFiniteSet(Deployer) /\ IsFiniteSet(Worker) /\ IsFiniteSet(Child) /\ IsFiniteSet(GVK) /\ Child # {}
  /\ Kind \in [Child -> GVK] /\ Deploys \in [Deployer -> SUBSET Child] /\ Deleted \subseteq Deployer
  /\ BufferSize \in Nat \ {0} /\ MaxFailures \in Nat /\ MaxHandlers \in Nat

VARIABLES
  life, ready,            \* of each deployer: live, deleting or gone; its Ready condition
  due, at, left, again,   \* its reconcile: in the workqueue, where it is, objects to go, must come again
  register, unregister,   \* the channels
  task,                   \* mgr.tasks: the informer and the registration of a watch
  informer,               \* mgr.cache: the running informer of each kind
  handlers, synced,       \* registrations at their informers; those that have synced
  pc, key, inf, reg,      \* of each worker: where it is and what it holds
  failures

deployers == <<life, ready, due, at, left, again>>
channels  == <<register, unregister>>
watches   == <<task, informer, handlers, synced>>
workers   == <<pc, key, inf, reg>>
vars      == <<deployers, channels, watches, workers, failures>>

NoTask == [inf |-> None, reg |-> None]

Init ==
  /\ life = [d \in Deployer |-> "live"] /\ ready = [d \in Deployer |-> FALSE]
  /\ due = [d \in Deployer |-> TRUE] /\ at = [d \in Deployer |-> "idle"]
  /\ left = [d \in Deployer |-> {}] /\ again = [d \in Deployer |-> FALSE]
  /\ register = <<>> /\ unregister = <<>>
  /\ task = [c \in Child |-> NoTask] /\ informer = [g \in GVK |-> None]
  /\ handlers = {} /\ synced = {}
  /\ pc = [w \in Worker |-> "idle"] /\ key = [w \in Worker |-> CHOOSE c \in Child : TRUE]
  /\ inf = [w \in Worker |-> None] /\ reg = [w \in Worker |-> None]
  /\ failures = 0

\* An informer runs until it is taken out of the cache.
Running(i) == \E g \in GVK : i # None /\ informer[g] = i

HasSynced(c) == task[c] # NoTask /\ task[c].reg \in synced
IsStopped(c) == task[c] # NoTask /\ ~ Running(task[c].inf)

\* A name that nothing refers to any more is used again.
Fresh(used) == Min((1..(Cardinality(used) + 1)) \ used)
FreshInformer ==
  Fresh(({informer[g] : g \in GVK} \cup {task[c].inf : c \in Child} \cup {inf[w] : w \in Worker}) \ {None})
FreshReg ==
  Fresh(({h.reg : h \in handlers} \cup {task[c].reg : c \in Child} \cup {reg[w] : w \in Worker}) \ {None})

-----------------------------------------------------------------------------
\* Deployers.  A reconcile of one of them is never run twice at a time.
StartTrack(d) ==
  /\ life[d] = "live" /\ due[d] /\ at[d] = "idle"
  /\ at' = [at EXCEPT ![d] = "track"] /\ left' = [left EXCEPT ![d] = Deploys[d]]
  /\ again' = [again EXCEPT ![d] = FALSE] /\ due' = [due EXCEPT ![d] = FALSE]
  /\ UNCHANGED <<life, ready, channels, watches, workers, failures>>

\* track, one goroutine per object: a watch that has synced is taken as it is.
TrackSynced(d, c) ==
  /\ at[d] = "track" /\ c \in left[d] /\ HasSynced(c)
  /\ left' = [left EXCEPT ![d] = @ \ {c}]
  /\ UNCHANGED <<life, ready, due, at, again, channels, watches, workers, failures>>

\* Else it is asked for and the reconcile fails; the first failure cancels the
\* context of the goroutines that have not yet sent.
TrackRegisters(d, c) ==
  /\ at[d] = "track" /\ c \in left[d] /\ ~ HasSynced(c)
  /\ \/ Len(register) < BufferSize /\ register' = Append(register, c)
     \/ again[d] /\ UNCHANGED register
  /\ again' = [again EXCEPT ![d] = TRUE]
  /\ left' = [left EXCEPT ![d] = @ \ {c}]
  /\ UNCHANGED <<life, ready, due, at, unregister, watches, workers, failures>>

\* mutant of TrackDone
TracksOnce(d) ==
  /\ at[d] = "track" /\ left[d] = {}
  /\ ready' = [ready EXCEPT ![d] = ~ again[d]]
  /\ at' = [at EXCEPT ![d] = "idle"]
  /\ UNCHANGED <<life, due, left, again, channels, watches, workers, failures>>

\* mutant of TrackDone
ReadyOnceAsked(d) ==
  /\ at[d] = "track" /\ left[d] = {}
  /\ ready' = [ready EXCEPT ![d] = TRUE]
  /\ due' = [due EXCEPT ![d] = @ \/ again[d]]
  /\ at' = [at EXCEPT ![d] = "idle"]
  /\ UNCHANGED <<life, left, again, channels, watches, workers, failures>>

TrackDone(d) ==
  /\ at[d] = "track" /\ left[d] = {}
  /\ ready' = [ready EXCEPT ![d] = ~ again[d]]
  /\ due' = [due EXCEPT ![d] = @ \/ again[d]]
  /\ at' = [at EXCEPT ![d] = "idle"]
  /\ UNCHANGED <<life, left, again, channels, watches, workers, failures>>

\* Untrack: the watches of every deployer of this kind are found.
Watches == {c \in Child : task[c] # NoTask}

StartUntrack(d) ==
  /\ life[d] = "deleting" /\ due[d] /\ at[d] = "idle"
  /\ at' = [at EXCEPT ![d] = "untrack"] /\ left' = [left EXCEPT ![d] = Watches]
  /\ again' = [again EXCEPT ![d] = FALSE] /\ due' = [due EXCEPT ![d] = FALSE]
  /\ UNCHANGED <<life, ready, channels, watches, workers, failures>>

UntrackStopped(d, c) ==
  /\ at[d] = "untrack" /\ c \in left[d] /\ IsStopped(c)
  /\ left' = [left EXCEPT ![d] = @ \ {c}]
  /\ UNCHANGED <<life, ready, due, at, again, channels, watches, workers, failures>>

\* mutant of UntrackSends
UntrackNeverBlocks(d, c) ==
  /\ at[d] = "untrack" /\ c \in left[d] /\ ~ IsStopped(c)
  /\ unregister' = Append(unregister, c)
  /\ again' = [again EXCEPT ![d] = TRUE]
  /\ left' = [left EXCEPT ![d] = @ \ {c}]
  /\ UNCHANGED <<life, ready, due, at, register, watches, workers, failures>>

UntrackSends(d, c) ==
  /\ at[d] = "untrack" /\ c \in left[d] /\ ~ IsStopped(c)
  /\ Len(unregister) < BufferSize /\ unregister' = Append(unregister, c)
  /\ again' = [again EXCEPT ![d] = TRUE]
  /\ left' = [left EXCEPT ![d] = @ \ {c}]
  /\ UNCHANGED <<life, ready, due, at, register, watches, workers, failures>>

\* mutant of UntrackDone
UntracksOnce(d) ==
  /\ at[d] = "untrack" /\ left[d] = {}
  /\ at' = [at EXCEPT ![d] = "idle"]
  /\ life' = IF again[d] THEN life ELSE [life EXCEPT ![d] = "gone"]
  /\ UNCHANGED <<ready, due, left, again, channels, watches, workers, failures>>

\* With nothing left to stop the finalizer goes, and the deployer with it.
UntrackDone(d) ==
  /\ at[d] = "untrack" /\ left[d] = {}
  /\ at' = [at EXCEPT ![d] = "idle"]
  /\ \/ again[d] /\ due' = [due EXCEPT ![d] = TRUE] /\ UNCHANGED <<life, failures>>
     \/ ~ again[d] /\ life' = [life EXCEPT ![d] = "gone"] /\ UNCHANGED <<due, failures>>
     \/ /\ ~ again[d] /\ failures < MaxFailures      \* Update fails
        /\ failures' = failures + 1 /\ due' = [due EXCEPT ![d] = TRUE] /\ UNCHANGED life
  /\ UNCHANGED <<ready, left, again, channels, watches, workers>>

-----------------------------------------------------------------------------
\* Workers.  The two channels are read in any order.
Goto(w, l) == pc' = [pc EXCEPT ![w] = l]

Forget(w) ==
  /\ Goto(w, "idle")
  /\ inf' = [inf EXCEPT ![w] = None] /\ reg' = [reg EXCEPT ![w] = None]

TakeRegister(w) ==
  /\ pc[w] = "idle" /\ register # <<>>
  /\ key' = [key EXCEPT ![w] = Head(register)] /\ register' = Tail(register)
  /\ Goto(w, "load")
  /\ UNCHANGED <<deployers, unregister, watches, inf, reg, failures>>

TakeUnregister(w) ==
  /\ pc[w] = "idle" /\ unregister # <<>>
  /\ key' = [key EXCEPT ![w] = Head(unregister)] /\ unregister' = Tail(unregister)
  /\ Goto(w, "getTask")
  /\ UNCHANGED <<deployers, register, watches, inf, reg, failures>>

\* Register: nothing to do if there is a task for the key.
LoadActive(w) ==
  /\ pc[w] = "load" /\ task[key[w]] # NoTask
  /\ Goto(w, "idle")
  /\ UNCHANGED <<deployers, channels, watches, key, inf, reg, failures>>

LoadMissing(w) ==
  /\ pc[w] = "load" /\ task[key[w]] = NoTask
  /\ Goto(w, "getInformer")
  /\ UNCHANGED <<deployers, channels, watches, key, inf, reg, failures>>

\* cache.GetInformer: the informer of the kind, started if there is none.
GetInformer(w) ==
  /\ pc[w] = "getInformer"
  /\ LET g == Kind[key[w]]
         i == IF informer[g] = None THEN FreshInformer ELSE informer[g]
     IN  informer' = [informer EXCEPT ![g] = i] /\ inf' = [inf EXCEPT ![w] = i]
  /\ Goto(w, "addHandler")
  /\ UNCHANGED <<deployers, channels, task, handlers, synced, key, reg, failures>>

GetInformerFails(w) ==
  /\ pc[w] = "getInformer" /\ failures < MaxFailures
  /\ failures' = failures + 1
  /\ Goto(w, "idle")
  /\ UNCHANGED <<deployers, channels, watches, key, inf, reg>>

AddHandler(w) ==
  /\ pc[w] = "addHandler" /\ Running(inf[w]) /\ Cardinality(handlers) < MaxHandlers
  /\ handlers' = handlers \cup {[reg |-> FreshReg, inf |-> inf[w]]}
  /\ reg' = [reg EXCEPT ![w] = FreshReg] /\ synced' = synced \ {FreshReg}
  /\ Goto(w, "store")
  /\ UNCHANGED <<deployers, channels, task, informer, key, inf, failures>>

\* A stopped informer takes no handler.
AddHandlerFails(w) ==
  /\ pc[w] = "addHandler" /\ ~ Running(inf[w])
  /\ Forget(w)
  /\ UNCHANGED <<deployers, channels, watches, key, failures>>

Store(w) ==
  /\ pc[w] = "store"
  /\ task' = [task EXCEPT ![key[w]] = [inf |-> inf[w], reg |-> reg[w]]]
  /\ Forget(w)
  /\ UNCHANGED <<deployers, channels, informer, handlers, synced, key, failures>>

\* Unregister and stopTask.
GetTask(w) ==
  /\ pc[w] = "getTask"
  /\ IF task[key[w]] = NoTask THEN Forget(w)
     ELSE /\ inf' = [inf EXCEPT ![w] = task[key[w]].inf]
          /\ reg' = [reg EXCEPT ![w] = task[key[w]].reg]
          /\ Goto(w, "removeHandler")
  /\ UNCHANGED <<deployers, channels, watches, key, failures>>

RemoveHandler(w) ==
  /\ pc[w] = "removeHandler"
  /\ handlers' = {h \in handlers : h.reg # reg[w]}
  /\ Goto(w, "removeInformer")
  /\ UNCHANGED <<deployers, channels, task, informer, synced, key, inf, reg, failures>>

\* The object given to RemoveInformer has the kind only: whichever informer
\* the kind has now is stopped, whatever the namespaces it serves.
RemoveInformer(w) ==
  /\ pc[w] = "removeInformer"
  /\ LET g == Kind[key[w]]
     IN  /\ handlers' = {h \in handlers : h.inf # informer[g]}
         /\ informer' = [informer EXCEPT ![g] = None]
  /\ Goto(w, "delete")
  /\ UNCHANGED <<deployers, channels, task, synced, key, inf, reg, failures>>

DeleteTask(w) ==
  /\ pc[w] = "delete"
  /\ task' = [task EXCEPT ![key[w]] = NoTask]
  /\ Forget(w)
  /\ UNCHANGED <<deployers, channels, informer, handlers, synced, key, failures>>

-----------------------------------------------------------------------------
\* The first list of objects has reached the handler.
Sync(h) ==
  /\ h \in handlers /\ h.reg \notin synced
  /\ synced' = synced \cup {h.reg}
  /\ UNCHANGED <<deployers, channels, task, informer, handlers, workers, failures>>

\* A user deletes the deployer; pruning its objects comes first.
Delete(d) ==
  /\ d \in Deleted /\ life[d] = "live"
  /\ life' = [life EXCEPT ![d] = "deleting"] /\ due' = [due EXCEPT ![d] = TRUE]
  /\ UNCHANGED <<ready, at, left, again, channels, watches, workers, failures>>

\* Its Resource changes, or a watched object that it owns.
Enqueue(d) ==
  /\ life[d] # "gone" /\ ~ due[d]
  /\ due' = [due EXCEPT ![d] = TRUE]
  /\ UNCHANGED <<life, ready, at, left, again, channels, watches, workers, failures>>

Reconcile(d) ==
  \/ StartTrack(d) \/ TrackDone(d) \/ StartUntrack(d) \/ UntrackDone(d)
  \/ \E c \in Child : TrackSynced(d, c) \/ TrackRegisters(d, c) \/ UntrackStopped(d, c) \/ UntrackSends(d, c)

Work(w) ==
  \/ TakeRegister(w) \/ TakeUnregister(w) \/ LoadActive(w) \/ LoadMissing(w)
  \/ GetInformer(w) \/ GetInformerFails(w) \/ AddHandler(w) \/ AddHandlerFails(w) \/ Store(w)
  \/ GetTask(w) \/ RemoveHandler(w) \/ RemoveInformer(w) \/ DeleteTask(w)

Next ==
  \/ \E d \in Deployer : Reconcile(d) \/ Delete(d) \/ Enqueue(d)
  \/ \E w \in Worker : Work(w)
  \/ \E h \in handlers : Sync(h)

\* Goroutines are scheduled, the workqueue hands out what is due, and a running
\* informer delivers its first list.
Fairness ==
  /\ \A d \in Deployer : WF_vars(Reconcile(d))
  /\ \A w \in Worker : WF_vars(Work(w))
  /\ WF_vars(\E h \in handlers : Sync(h))

Spec == Init /\ [][Next]_vars /\ Fairness

-----------------------------------------------------------------------------
Ids == 0..(MaxHandlers + Cardinality(Child) + Cardinality(Worker) + Cardinality(GVK))
Task == [inf : Ids, reg : Ids]

\* Every variable has its type, and the channels hold no more than their buffers
\* (make(chan Event, opts.RegisterChannelBufferSize)).
TypeOK ==
  /\ life \in [Deployer -> {"live", "deleting", "gone"}] /\ ready \in [Deployer -> BOOLEAN]
  /\ due \in [Deployer -> BOOLEAN] /\ again \in [Deployer -> BOOLEAN]
  /\ at \in [Deployer -> {"idle", "track", "untrack"}] /\ left \in [Deployer -> SUBSET Child]
  /\ register \in Seq(Child) /\ Len(register) <= BufferSize
  /\ unregister \in Seq(Child) /\ Len(unregister) <= BufferSize
  /\ task \in [Child -> Task] /\ informer \in [GVK -> Ids]
  /\ handlers \subseteq [reg : Ids, inf : Ids] /\ synced \subseteq Ids
  /\ key \in [Worker -> Child] /\ inf \in [Worker -> Ids] /\ reg \in [Worker -> Ids]
  /\ pc \in [Worker -> {"idle", "load", "getInformer", "addHandler", "store",
                        "getTask", "removeHandler", "removeInformer", "delete"}]
  /\ failures \in 0..MaxFailures

Watched(c) == \E h \in handlers : h.inf = informer[Kind[c]]

\* A deployer that reports Ready has a handler at the running informer of every
\* object it deployed: a change of one of them reaches the reconciler (trackConcurrently
\* before MarkReady).  It holds as long as no deployer of the kind is deleted.
ReadyMeansWatched == \A d \in Deployer : ready[d] /\ life[d] = "live" => \A c \in Deploys[d] : Watched(c)

\* A deployer being deleted goes in the end: Untrack finds its watches stopped although
\* sends block, updates fail and registrations asked for before are still being served.
DeletionCompletes == \A d \in Deployer : life[d] = "deleting" ~> life[d] = "gone"

\* A deployer becomes Ready, or is deleted: a registration that fails is asked for again
\* and two workers that register the same watch do not undo each other.
BecomesReady == \A d \in Deployer : <>(ready[d] \/ life[d] # "live")

=============================================================================
