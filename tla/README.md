# A TLA+ model of open-component-model

open-component-model (OCM) describes, builds, transfers, signs and deploys software components. The repository holds
the Go libraries (`src/bindings/go`), a command line on top of them and a kubernetes controller. This directory models
the parts where goroutines, caches, files and remote systems meet, checks the models with TLC and proves the most
important results with TLAPS. Paths below are relative to `src/bindings/go` unless they begin with `src/`.

    tlc -config MCDag.cfg MCDag            # one run
    tlapm Processor_proofs.tla             # one module of proofs

## Inventory

Components, the state each keeps, what it does, with whom, what is hard, and what makes it correct. Those marked **M**
are modelled, at least in part; `PROJECT.json` lists all with their files and the reason or the plan.

| component | state | operations | interacts with | hard behaviour | correct when |
|---|---|---|---|---|---|
| **M** `dag` | vertices, edges, two degree counters per vertex | AddVertex, AddEdge, DeleteEdge, DeleteVertex; sorts, paths, Reverse | everything below that has a graph | AddEdge undone when it closes a cycle; deletion under an edge | acyclic, counters agree with edges, walks agree with reachability |
| **M** `dag/sync` discoverer | shared graph, a claim and a channel per key, a state per vertex, nested errgroups | Discover, CurrentEdges, CurrentState | constructor, transfer, transform, controller, `cli get` | goroutines claim, wait for one another, fail, are cancelled | returns; nil means everything was discovered; states only advance; no cycle |
| **M** `dag/sync` processor | ready nodes, in-degrees, the channel done, an errgroup with a limit | Process | constructor, transform, `cli get` | blocking eg.Go, late errors, cancellation | a node starts once and after its predecessors; the error tells what happened; returns |
| **M** `oci/cache` reference cache | LRU with TTL, a snapshot file per repository, singleflight | Resolve, Push, Tag, Untag, reload | registry, file system | rewrites race with evictions; restart at any point; tags move | snapshot current, untagged stays forgotten, tags from the registry, one request per digest |
| **M** `oci/ctf`, `ctf` archive store | one index and one set of blobs for the repositories of all components | Push, Tag, Untag, Resolve, Tags, Referrers | repository, file system | the list of referrers is written in four files; a stop between two; one digest with several entries | a tag names one complete artifact and moves on request; referrers are kept |
| **M** `oci` repository | none: series of calls of a store | add versions, resources, ownership, aliases; list | store, constructor, transfer, controller | calls of two goroutines interleave; blobs already there are not pushed | a listing is complete; what is tagged is all there |
| **M** `constructor` | graph of components, descriptors built, conflict policy | Construct | dag/sync, repository, inputs | components processed concurrently, calls that fail or are killed and are repeated with other input, other clients of the target | the target is closed under references, digests right, nothing overwritten that could be seen |
| **M** controller: Deployer and ApplySet | objects with a label, annotations and finalizers of the deployer | apply, prune, delete, orphan | API server, watches | stale caches, failures between two writes, slow deletions, lost rights | what is applied is found again; what is deleted is gone; what is to stay stays |
| **M** controller: watches | tasks, informers, handlers, two channels | Register, Unregister, track, Untrack | Deployer reconciler, API server | workers race; watches shared by deployers and namespaces | Ready means watched; deletion completes |
| controller: other reconcilers, resolution service | status, a work queue of resolutions | resolve, verify, replicate | API server, repositories | check-then-act on caches | status tells what was resolved |
| `oci/cache` blob cache | LRU of files | Fetch, self-heal | file system | removal racing a rename | a hit is a complete blob |
| `transform` | graph of transformations, compiled expressions | build, check, run with retries, events | dag/sync | event channel nobody reads, retries | every transformation runs once with the results it refers to |
| `transfer` | component graph, digests and targets per component | discover, build a transformation graph | transform, repositories | two parents of one component | every expected digest is compared, every target reached |
| `credentials` | graph of identities | ingest, resolve directly or by plugins | plugins | plugins asked concurrently, first one wins | credentials found if any plugin has them |
| `oci` chunked push, tar layouts | upload session; a stream | push, verify | registry | broken sessions | what was sent is what is there |
| `repository` | resolvers, caches of repositories | fallback, match, verify, pin | oci | check-then-act caches | first repository that has it answers |
| `plugin` | plugin processes, registries | start, call, stop | cli, controller | idle timeout racing a call | a call gets a live plugin |
| `blob`, `http` | lazily computed digests; replayable bodies | read, retry | all of the above | readers share, retries repeat | the same bytes each time |
| `runtime`, `descriptor`, signing, `cel`, configuration, inputs, accesses, `generator`, `cli` | types, data | conversion, encoding, downloads, output | | sequential | outside: pure data, cryptography or I/O |

## Modules

| module | models |
|---|---|
| `Digraphs` | reachability, acyclicity, simple paths, children-first orders, as set theory: what the code is measured against |
| `Dag` | `dag/dag.go`: state and one action per call, panics of a walk over a deleted vertex included |
| `DagWalks` | the walks of `dag.go` that only read (TopologicalSort, findPath, findSortedPath, hasCycle, Reverse), each as the states its loop goes through |
| `MCDag` | Dag on a few keys with bounded deletions, and the walks against `Digraphs` on every graph it reaches |
| `Discoverer` | `dag/sync/discover.go` |
| `TopoExec` | abstract: what processing a graph promises |
| `Processor` | `dag/sync/process.go` and its refinement of `TopoExec` |
| `ReferenceCache` | `oci/cache/reference_cache.go` with the calls of `oci/cache/repository.go` and the TTL of `options.go` |
| `ArtifactIndex` | `ctf/index/v1/index.go`: the index of an archive as a sequence of entries |
| `TagRegistry` | abstract: what an archive promises; names that are given and taken away at one moment, on request, for complete artifacts |
| `CTFStore` | `oci/ctf/store.go`, `referrers.go` over `ArtifactIndex`, and the calls of `oci/repository.go` that are made of them; their refinement of `TagRegistry` |
| `Constructor` | `constructor/construct.go`, `processor.go`, `discoverer.go`, composed with `TopoExec` |
| `Deployers` | `deployer_controller.go`, `namespaced.go`, `annotations.go` and `applyset/applyset.go` |
| `InformerManager` | `dynamic/informer_manager.go` and track/Untrack of `deployer_controller.go` |
| `MC*` | instances of the module they are named after |
| `*_proofs` | theorems of the module they are named after |

Operators marked `mutant of X` next to a definition X are X with a plausible bug: put in X's place, each makes the
property listed with it under "mutants" in `PROJECT.json` fail, so that no property holds by the shape of the model.

### Dag
`vertices`, `edges`, `inDegree` and `outDegree` are the maps and counters of `DirectedAcyclicGraph`. AddEdge writes the
edge and the counters, looks for a cycle and takes them back; one lock section, so one action, with one action for
each way it ends: refused, already there, added, undone (AddEdgeCycle) or panicking in the walk. `orphaned` is
history: keys deleted while an edge led to them. A walk of `DagWalks` starts in a state (the stack, the vertices seen,
the paths or the order so far) and takes as many steps as it can on the graph; one step is one turn of the loop, or one
call or return of the recursive `dfs`. Keys are integers, because the code sorts them.

### Discoverer
A task is one call of `discover`; `pc` follows it from the check of its context through the claim in the doneMap
(`claimer`), the two callbacks, the loop that adds edges and starts children, errgroup.Wait and the deferred close.
`cancelled` and `within` are the nested contexts. A step is the code between two points where another goroutine can be
seen to run. CurrentEdges is `OrderSlots`, evaluated in every state.

### Processor
`pc` is the coordinator: in the range over ready nodes, blocked in eg.Go, in the select, or in eg.Wait; `worker` gives
each node's goroutine. `Exec == INSTANCE TopoExec` maps running, succeeded and failed nodes and the result.

### ReferenceCache
A step is the code between two lock sections or remote calls. The LRU (`order`, `mem`) has its own lock; `writing` is
the section of `c.mu` in which a namespace's file is rewritten, in two steps, since LRU.Keys and LRU.Peek are separate
lock sections. `seen`, `answer`, `gone`, `unsaved` and `born` are history. Restart may happen in any state and reloads
the files in any order. The policy of the options is chosen in Init.

### ArtifactIndex and CTFStore
`blobs` and `index` are the files of one archive. A call of the repository becomes a list of calls of the store, `job`,
which a process works off one at a time: push, tag, untag, resolve, the copy of a graph, the attachment of ownership.
A call of the store holds the archive's lock and is one step; `PushWrites` is the sequence of file states it goes
through, and `Stop` ends it after any of them, as an error does for one process and a kill for all. Digests are what
they are computed from: a manifest is its own digest, and a list of referrers, which is stored as a blob, is the
sequence of its referrers, so that equal lists of two repositories are one blob, as in the archive. `attached`, `lost`
and `shared` are history. `Registry == INSTANCE TagRegistry` maps to a name the digest of its entries (`Named`), to the
content what is stored (`Stored`), and to what a process was asked the tag or untag with which its call ends (`Asked`):
a call that writes many files gives its name at one moment, the last of its steps, or never.

### Constructor
One call at a time (`active`), given any specification of `Specs`; `target` and `blobs` are the repository that stays
between calls. `nodes`, `edges`, `running`, `succeeded`, `failed` and `outcome` are those of `TopoExec`, which `Processor` implements; `step`
follows each component through conflict check, build, blobs and AddComponentVersion. `processed` are the descriptors
written to the vertices, from which a parent's processReference takes the digest. Published components are copied
or left where they are (`copy`); `external` is what discovery has read of the components that are not specified, from
the configured resolvers (`Published`) or, for what they do not match, from the target itself. Discovery reads at one
moment; what changes afterwards is a change during the call. Another client may write a version of any component at any
moment (`OtherWrites`), complete at that moment: into the window between ProcessConflictStrategy and
AddComponentVersion, over a version that was read or constructed, or before a copy, which is made without a look at the
target. Two sets of history tell afterwards what nobody can promise: `raced`, the components others wrote since the
call looked for them, and `overwritten`, those whose version was ever replaced by another. A component that is both
specified and published (`Disputed`) has two versions under one identity, against the "globally unique identity" of
`discoverer.go`; a reader may find either, so digests of references to it are left out.

### Deployers
`api` and `cache` are each deployer at the API server and as the reconciler sees it, which may be older; an update from
an outdated copy is a conflict (`Current`). `at` is the place in the reconcile, `seen`, `want`, `todo`, `found` and
`failed` its local state; each write to the API server is a step of its own, and between two of them the other
deployer, the garbage collector, a user and faults may act. `obj` says of each object whether it exists, the ApplySet it
is labelled with and the deployer that owns it. Faults (`Upsets`) are counted: a changed manifest, a user's deletion, a
suspension, a failing call, an object deleted by someone, a service account that loses its rights or is deleted, a
namespace that terminates, a restart.

### InformerManager
`life`, `ready`, `at`, `left` are the deployers and their reconciles, never two of one deployer at a time; `register`
and `unregister` the channels; `task`, `informer`, `handlers`, `synced` the manager's tasks, the cache of informers and
the handlers at them; `pc`, `key`, `inf`, `reg` the workers. Register and Unregister are cut
at every access of the task map and of the cache. A task is kept for a kind and a namespace under the *kind* of the
parent, and one manager serves one kind of parent: all deployers share the tasks. Informers and registrations are
numbered, and a number nothing refers to is used again, so the state space is finite without a bound on them.
`Deployers` takes from this module that a watch which was asked for starts (`WatchStarts`) and that Untrack stops the
watches of all.

## Runs

Bounds are the smallest at which every action fires and every race between two actors can occur; every mutant is
found within them. Deadlock is checked except where stopping is legitimate: a graph that has panicked or used its
deletions, deployers that are gone or in sync, calls that are used up.

| run | instance | states | shows |
|---|---|---|---|
| `MCDag` | 4 keys, 2 deletions | 108 000 | acyclicity, and counters and dangling edges under calls in any order (`BookkeepingExact`); the walks against their definitions on every graph (`WalksAnswerEdges`), including two joining paths, the first shape in which they differ from a depth-first guess |
| `MCDiscoverer` | 11 workloads of at most 4 keys and 2 references each | 53 000 | what a nil and an error tell (`ResultTells`), nothing runs on after the return (`QuietAtReturn`), neighbors of completed vertices have settled in their declared order (`NeighborsKept`), states only advance, no cycle, termination, with failures of three keys and a cancellation at any time |
| `MCProcessor` | every acyclic graph of 4 nodes, and with one in-degree too high; limit 2 | 249 000 | refinement of `TopoExec`, the error returned, at most one late start, room in done, termination |
| `MCReferenceCache` | 2 goroutines, a digest and a tag in 2 repositories, LRU of 1, one restart, both policies | 1 042 000 | every Add evicts the other repository's entry: snapshot, untag, tags, round trips, current answers |
| `MCReferenceCacheAging` | 3 goroutines that resolve one digest, 3 ticks (3 TTLs), 2 restarts | 71 000 | an entry lives at most two TTLs; leaders and followers return |
| `MCInformerManagerLive` | 1 deployer, 2 workers, channels of length 1, 1 failing call | 372 000 | Ready means watched, deletion completes, Ready is reached |
| `MCInformerManagerUntrack` | 2 deployers, one deletable | | *violated*, finding 1 |
| `MCDeployers` | 2 deployers with manifests of 1 or 2 of 2 objects, which hand objects on or exchange them, 2 faults | 789 000 | what is deployed becomes and stays what the manifests say, unless deployers wait for one another |
| `MCDeployersNamespaced` | 1 NamespacedDeployer, 3 objects (its namespace, another, none) and an empty manifest, both deletion policies, 3 faults | 159 000 | the annotations cover every member, a deployer that is gone leaves nothing, orphans survive, deletion ends |
| `MCConstructor` | 5 components, 5 specifications, 3 calls, 1 write of another client, 3 policies, copying or not | 400 000 | target closed under references, digests, what nil means, what can be overwritten and what cannot, a call returns |
| `MCCTFStore` | 2 repositories, each with 2 versions, and a signed image in common, 2 goroutines, 3 calls, 1 stop | 192 000 | refinement of `TagRegistry`, complete artifacts, referrers kept, listings complete |
| `MCCTFStoreOwnership` | the same with 2 calls and no stop | | *violated*, finding 2 |

`CallsReturn` is checked for Resolve, whose followers depend on another call; Tag and Untag are its last steps with a
remote call before them. Several races need two actors and one resource; a third actor repeats one of the two roles. Buffers of one make every
blocking send occur. Two restarts show what a second reload adds (nothing), one LRU entry forces an eviction on every
Add. Three calls of the constructor are a first one that fails, one with other input and one that meets what both left;
three calls of the repository are two versions or images and a listing or an alias, the shortest in which a tag has
moved or a list of referrers has been rewritten before it is used, and in which a listing, by referrers in one repository
and by tags in the other, could miss one of two versions. One write of another client is enough for every window: between
check and add, before a copy, after an add, between two calls. `MaxHandlers`, `MaxFailures`, `MaxTime`,
`MaxRestarts`, `MaxDeletions`, `MaxUpsets`, `MaxFaults`, `MaxOthers` and `MaxCalls` bound what the environment does.

### Fairness
Goroutines are weakly fair: the Go scheduler runs each one that can run. Callbacks (Resolver, ProcessValue, registry
and API calls) return. `TakeKeys` is strongly fair, because sync.Mutex does not starve a waiter. For the controller the
workqueue hands out what is due, a running informer delivers its first list, the cache of the controller catches up,
and the API server and its garbage collector finish the deletions they were asked for. A user's deletion, a
cancellation, a tick, a restart, a fault, a change of a manifest, another client's change and an extra Enqueue are never fair.
`DeletionCompletes` is checked for one deployer: with a second one that is enqueued for ever, Untrack and its
registrations may alternate. `Converges` excepts
deployers that wait for an object of one another (`Ring`) and manifests without objects, which are an error
(`deployer_controller.go:735`) that ends the reconcile before the prune. `DeletionEnds` excepts a suspended deployer and one whose service account is forbidden or
gone: the code waits for both. `CTFStore` states safety only: its calls are straight lines.

## Findings

1. `deployer_controller.go:256` with `informer_manager.go:294`: deleting one Deployer stops the watches of all Deployers;
   the others stay Ready and nothing tells them, against `src/website/content/docs/concepts/kubernetes-deployer.md:84`.
2. `oci/ctf/store.go:147`: Exists looks among all blobs of the archive, whatever repository is asked. When a second
   component adds an image the archive holds already for another one, nothing is pushed, its repository gets no entry
   for the image, Resolve answers octet-stream and the ownership referrer is skipped without an error, against
   `oci/repository.go:891`.

Met while modelling, without a run of their own:

- `dag/sync/discover.go:192`: a vertex becomes completed although a neighbor it shares failed under another parent; the
  comment at line 49 says all reachable neighbors were discovered. Discover as a whole still fails (`ResultTells`). A
  neighbor listed twice gives an order index past the slice of CurrentEdges (line 91; `NeighborsKept` speaks of lists
  without one). DeleteVertex leaves the edges that lead to the vertex although `dag.go:132` says all edges are removed.
- `oci/cache/reference_cache.go:441`: an entry reloaded from disk gets a new TTL, so it is served for up to two
  (`AgeBounded`), against `options.go:58`. A TTL of 0 is replaced by the default (`options.go:117`) although line 59 says
  it disables expiry; an expiry leaves the snapshot as it was until the next Add (`reference_cache.go:142`).
- `informer_manager.go:475`: stopping a watch in one namespace stops the informer of the kind; the other namespace's task is kept and
  HasSynced stays true. Line 311: two workers can register one watch twice, and the gauge of
  `informer_manager_metrics.go:36` stays one too high. A registration queued before the last deployer goes leaves a
  watch behind.
- Deployers: an object that vanishes, is changed or is taken over before its watch is on is noticed only by the next
  reconcile, so `MCDeployers` begins with the watches on. The annotations never shrink, although step 5 of
  `applyset/doc.go` narrows them. Conflicts are detected by a list taken before the objects are applied, so two plain
  deployers may take an object from one another, against `applyset/const.go:9`. A conflict ends the reconcile before it
  prunes (`deployer_controller.go:952`), so two deployers that exchange an object wait for one another for good (`Ring`).
- Constructor: `options.go:131` says that the policy fails or skips if a version exists; another client may add it
  after the look and before the add, and it is then overwritten (`construct.go:313`, `:251`), as the command line says of
  its flag (`src/bindings/go/cli/cmd/add/component-version/cmd.go:64`). Copies of published components overwrite
  without a look (`processor.go:182`). `OnlyUnseenOverwritten` says that there is no third way, and the model without
  either exception violates it. After a component was replaced, what referred to it keeps the old digest until it is
  constructed again (`DigestsMatch` names the case); under "fail" a call that was stopped halfway cannot be repeated as
  it was.
- CTF: after a kill between the blob of a manifest and its entry, a repeated copy finds the blob and never enters it.
  Deleting the old list of referrers of one repository takes it from another one with the same list, and a stop
  between the deletion of the old list and the new index loses earlier referrers (`ReferrersKept` names both). An alias
  that is removed between the two halves of a listing fails the listing. Switching referrers on hides older versions
  while a newer one is listed by referrers. Untag leaves a tag behind when one digest has two untagged entries and both got it.

## Proofs

All theorems hold for every value of the constants that satisfies the module's named assumptions.

- `Dag_proofs`: type correctness; the graph stays acyclic under every sequence of calls; `BookkeepingHolds`: edges
  dangle, and walks panic, only after a deletion under an edge, and both counters agree with the edges. The second
  needs the first in its induction: only it excludes that a new vertex already has incoming edges. About graphs it needs
  two facts: an edge whose target does not reach its source keeps a graph acyclic (`EdgeKeepsAcyclic`), and so does
  leaving edges out (`SubgraphAcyclic`). `IsAcyclic` says that among any nodes some have no predecessor there, which for
  a finite graph is the same as having no cycle and is the form both the proofs and the scheduler's argument need.
  The walks are proved to answer what the edges say (`WalksAlwaysAnswer`). A walk is a function of the number of its
  steps: what holds of its start and is kept by a step holds of every state (`NatSets`, the induction over the numbers
  stated for sets, since the library's own takes an operator). `PathInv` says that the way kept to each key is a simple
  path and that whatever was seen and popped has all its neighbors seen; `VisitInv` that the stack is a path and that
  who was left has its children before it in the order. Each walk ends within the steps it is given, because
  a measure grows until the state is final (`WalkEnds`: vertices popped, vertices visited and left, edges reversed).
  So findPath finds exactly what can be reached (`PathFound`), the sort puts children first (`SortSorts`), an edge that
  closes a cycle makes hasCycle report one (`CycleIsFound`), and Reverse is its own inverse (`ReverseReverses`).
  `AddEdgeDecidesByWalk` joins the two halves: on the graph with the new edge in it, which may have a cycle, findPath
  answers the very condition that separates AddEdgeNew from AddEdgeCycle.
  Assumed: keys are integers and finitely many.
- `Discoverer_proofs`: type correctness, acyclicity of the shared graph for any workload and number of goroutines, and
  the other safety properties. The invariant `TaskInv` says what belongs together: a call and the tasks that make it up,
  a task and the one that waits for it, the owner of a key, the position in the loop over neighbors, the edges made, and
  what was asked of the resolver. Every step moves one task (`Moves`). That nothing runs when Discover returns follows
  because whatever runs or has failed is waited for by what runs or has failed, and along an acyclic graph that ends in a
  root (`NoneBelowRoots`). That an error has a cause needs `CleanInv` and `NoWayBack`: an edge AddEdge refuses is part of
  a cycle of the graph it would give.
  Order indices are those of the neighbors by a bijection between first calls and edges.
- `Processor_proofs`: type correctness and the refinement `Spec => Implements`. The inductive invariant `IInv` says that
  the channel holds distinct succeeded nodes, the counters count what was started and received, an in-degree bounds the
  predecessors not yet received and is used up for what is ready or started, and a failure means a cancelled context.
  Without the third part a node could start twice or early; without the second the stall test would mean nothing.
  From `IInv` follows that a report never blocks (`RoomForEveryReport`); with `LateInv`, the context is looked at before
  every hand-over, that at most one node starts late. `ErrorsTell` needs `CauseInv`: in-degrees are exactly the counter
  minus what was received, what falls to zero is ready, and a cancelled context has a culprit. If the run stalls on
  exact counters, the nodes not received have a source, the graph being acyclic, and it would be ready: a contradiction.
  The assumption is `GraphsAcyclic`, which AddEdge keeps (`GraphStaysAcyclic`).
- `ReferenceCache_proofs`: no needless round trip, and current answers under `Always`, for any number of goroutines and
  restarts. The first rests on `FlightInv`: past its second lookup a digest belongs to the leader of its flight, so
  nobody else adds it before the leader asks the registry. The second rests on `AlwaysInv`: no call is in a flight, and
  what each call has learnt is among what the registry held since it began. Then, for finitely many references: tags
  come from the registry (`TagsAreAsked`), ages are bounded (`AgeIsBounded`), once rewrites are over each file
  agrees with the memory (`SnapshotsCurrent`), and what was untagged stays forgotten (`UntaggedStaysGone`), each by an invariant of its own
  on what the calls have in hand (`TagInv`, `AgeInv`, `FileInv`, `GoneInv`). Type correctness includes that the LRU
  never holds more than `MaxEntries` entries and lists each once: an Add past the limit drops the oldest, which is not
  the one it adds, and a reload keeps the last ones (`AddListed`, `RestartListed`, over facts on sequences without
  repetition: `RemovedOnce`, `NewestFacts`, `EndFacts`).
- `CTFStore_proofs`: first the index: AddArtifact and RemoveTag keep a tag on one digest, AddArtifact moves no other tag
  and gives the one it is asked for to the digest it is asked for. With these, every repository has one digest for a tag
  (`TagsAreUnique`), in all interleavings and after every stop. The inductive invariant is that the index is a list of
  entries with one digest for each tag; the file states of a push are followed one by one. The other safety properties
  rest on `StoreInv`: an entry tagged as a version or alias has all its parts among the blobs and, if it is a referrer,
  was pushed as one (`Ready`); and whatever a call is still to tag is there or pushed earlier in what it has left to do
  (`Prepared`). No step loses content, so tags name complete artifacts (`ArtifactsAreComplete`). `KeptInv` adds that
  every dangling or shared list is known: a list can only go with the push that replaces it in another repository, or
  where a call stops (`ReferrersAreKept`). `ListingInv` says that each version a listing must have is found or still to
  be looked up (`ListingsAreComplete`). The refinement of `TagRegistry` (`ArchiveImplementsRegistry`) takes all of it:
  a call gives or takes a name in its last step (`Ends`, a part of `Prepared`), what it names is complete by then, a
  step that names moves that one name (`NamedMoves`) and any other step, a stop between two files included, moves none
  (`NamedStays`). An Untag that leaves a second entry with the tag is the abstract call that ends without effect.
  Assumed: digests, tags and lists of referrers are told apart, a manifest has finitely many layers and referrers, the
  component versions of a component all have the well-known subject or none has it.
- `Constructor_proofs`: all four safety properties of the constructor, whatever other clients write, from one invariant.
  `ComponentInv` says what each component has come to in this call: what it refers to has been processed, its blobs so
  far are stored, its descriptor has the digests of what was processed, and what is stored in the graph is what a reader
  finds, unless it was replaced since (`IsPlaced`, `Superseded`). `ExternalInv` says the same of what discovery has read,
  `LastingInv` what the target keeps between calls. A step touches one component (`Touches`), and of the target all that
  others need to know is that versions do not go away and that a replaced one is remembered (`Steady`); with these two
  the invariant of all other components is kept. A write of another client keeps it because it turns what was known of
  that component into what is known to be superseded (`OtherWritesKeep`). `OverwritesAreUnseen` then follows: past the
  check a component is not in the target or was written by others since.
  Assumed: versions have content, and what is published is complete and has the right digests (`VersionsComplete`). That
  failures are told from successes needs that no running component has failed before, which the abstract execution
  `TopoExec` guarantees.
- `Deployers_proofs`: type correctness and the three safety properties. The invariant of `ScopeAlwaysCovers` relates four
  things: a copy of a deployer, cached or in a reconcile, is not newer than the API server's, and equal to it if it has
  the same version (`Fresh`); annotations only grow with versions; past the write of the annotations a reconcile's manifest is covered by them, so
  whatever it applies is; and every member is. Optimistic concurrency is what carries the second part. Deletion adds
  `DeleteInv`: as long as what a reconcile read is what is stored, what it has found to delete or has still to release
  covers every member, and at the end the finalizer may go (`Remaining`, `Safe`); and without the finalizer it may go
  in any case (`Guarded`). `LabelInv` says that the label and the owner of an object go together. So a deployer that is
  gone leaves nothing to nobody (`NothingIsLeft`), and what it is to orphan is its own no more (`OrphansAlwaysSurvive`).

- `InformerManager_proofs`: type correctness, with the bound on remembered registrations (numbers are used again, so one
  is always free: `NewInformer`, `NewReg`). Ready means watched as long as no deployer has been deleted
  (`ReadyIsWatched`), and with a single deployer always (`ReadyAloneIsWatched`); finding 1 shows that no more is true.
  The invariant `HoldInv` says where a handler is held: at every task, at a worker about to store one, at every watch a
  reconcile is done with that has not had to ask. `NobodyIsForgotten` is the safety half of the two liveness properties:
  no deployer that has something to do is out of the workqueue. Assumed: there is an object to deploy (`Child # {}`).

Every invariant and action property of the passing runs is stated by a theorem. Only model-checked: the liveness
properties (`Terminates`, `CallReturns`, `CallsReturn`, `Converges`, `DeletionEnds`, `BecomesReady`,
`DeletionCompletes`), since TLAPS proves neither liveness under fairness nor anything with ENABLED. `ReadyMeansWatched` is
proved where it holds: before a deletion, or with a single deployer.

## Not modelled

The order of Go map iteration beyond "any order"; contents of descriptors, blobs and objects; logging and metrics; a
panic in a goroutine of the discoverer (not recovered by the code); a second Discover on the same discoverer, which
finds every key claimed; contexts of callers of the reference cache; the shutdown of the informer manager, which closes
channels a reconciler may still send on; two programs on one archive, pins, sources and streaming of the repository, an
index manifest as a component version, a referrer policy that differs between calls; hooks, sources and validation of
the constructor, a policy that differs between calls, duplicate components in one specification; status
conditions of the Deployer, single kinds the API server does not know, policies changed while a deployer lives. The
remaining components are in the inventory: those of the last row are data transformation, cryptography or plain input
and output, and most of the repository's lines are theirs.

## Plan

1. `TransformRuntime` (retry loop, events, composed with `TopoExec`), `TransferDiscovery` (digests and targets of shared
   components, composed with the discoverer), `BlobCache`, `CredentialResolution`, `ChunkedPush`.
2. Abstract specifications: a read-through cache that `ReferenceCache` implements for digests.
3. Theorems: the refinement of 2, step by step, once TLC has checked it.
4. Later components: plugin manager, fallback repository, http retries, shared blobs, the other reconcilers.
