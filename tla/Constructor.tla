---------------------------- MODULE Constructor ----------------------------
(***************************************************************************)
(* The component constructor (constructor/construct.go, processor.go,      *)
(* discoverer.go): from a specification of components, and the published   *)
(* component versions they refer to, component versions are added to a     *)
(* target repository, the referenced before the referencing, with the      *)
(* digests of what they refer to.                                          *)
(*                                                                         *)
(* The components of one call are processed as TopoExec promises; that the *)
(* graph processor keeps the promise is shown with module Processor.  A    *)
(* call may fail anywhere or be killed, and the next one may be given      *)
(* another specification: what earlier calls have added stays.             *)
(*                                                                         *)
(* The target may be written by other clients at any time, also between    *)
(* the moment a call looks for a component version and the one it adds it. *)
(* The external repository is that of the configured resolvers, and for    *)
(* all they do not match the target itself.                                *)
(*                                                                         *)
(* A component version is its content and the digests of its references;   *)
(* a digest is taken to be as good as what it is computed from, so the     *)
(* digest of a component version is that component version.                *)
(***************************************************************************)
EXTENDS Digraphs

CONSTANTS
  Component,
  Specs,              \* the specifications a call may be given
  Published,          \* the component versions the configured resolvers find
  Local,              \* the resources of a component that are stored with it
  Policies,           \* what to do with a version that exists: "replace", "fail", "skip"
  Others,             \* of each component, the versions other clients may write
  MaxCalls, MaxOthers \* bounds

None == [content |-> "none", refs |-> << >>]

ASSUME ConstructorAssumption ==
  /\ Policies \subseteq {"replace", "fail", "skip"} /\ MaxCalls \in Nat /\ MaxOthers \in Nat
  /\ DOMAIN Published \subseteq Component /\ DOMAIN Local = Component
  /\ \A s \in Specs : DOMAIN s \subseteq Component

\* Every version has content; what is published is complete, with right digests.
ASSUME VersionsComplete ==
  /\ \A s \in Specs : \A c \in DOMAIN s : s[c].content # "none" /\ DOMAIN s[c].refs \subseteq Component
  /\ \A c \in Component : \A v \in Others[c] : v.content # "none" /\ DOMAIN v.refs \subseteq Component
  /\ \A c \in DOMAIN Published :
       /\ Published[c].content # "none"
       /\ \A r \in DOMAIN Published[c].refs : r \in DOMAIN Published /\ Published[c].refs[r] = Published[r]

VARIABLES
  policy, copy,       \* the options of all calls; copy: published versions go to the target
  target, blobs,      \* the target repository: component versions, and local blobs
  calls, active,      \* calls begun, and whether one is running
  spec, external,     \* the specification of the call, and the external versions it has found
  step, left, draft,  \* of each component: how far it is, resources to upload, its descriptor
  processed,          \* the descriptors stored in the graph
  nodes, edges, running, succeeded, failed, outcome,  \* the graph and the processing of it
  others,             \* writes of other clients
  raced, overwritten  \* history: components others wrote since the call looked for them, and
                      \* those whose version in the target was replaced by another

Exec == INSTANCE TopoExec WITH Key <- Component, Limit <- 0

graph == <<nodes, edges, running, succeeded, failed, outcome>>
options == <<policy, copy>>
call  == <<calls, active, spec, external>>
history == <<others, raced, overwritten>>
vars  == <<options, target, blobs, call, history, step, left, draft, processed, graph>>

Nothing == [c \in Component |-> None]
Idle    == [c \in Component |-> "idle"]

Init ==
  /\ policy \in Policies /\ copy \in BOOLEAN
  /\ target = Nothing /\ blobs = {} /\ calls = 0 /\ active = FALSE
  /\ spec = << >> /\ external = Nothing /\ others = 0 /\ raced = {} /\ overwritten = {}
  /\ step = Idle /\ left = [c \in Component |-> {}] /\ draft = Nothing /\ processed = Nothing
  /\ nodes = {} /\ edges = {} /\ running = {} /\ succeeded = {} /\ failed = {} /\ outcome = "none"

-----------------------------------------------------------------------------
Digest(desc) == desc

\* Where a component version is that is not specified: the first resolver whose
\* pattern matches decides, and the target comes last.
External(c) == IF c \in DOMAIN Published THEN Published[c] ELSE target[c]

\* Where a reader of the target finds what a component version refers to.
Found(c) == IF copy THEN target[c] ELSE External(c)

\* resolverAndDiscoverer: what the specification holds comes before what is external.
References(s, found, c) == IF c \in DOMAIN s THEN DOMAIN s[c].refs ELSE DOMAIN found[c].refs

Discovered(s, found) ==
  LET refers == {e \in Component \X Component : e[2] \in References(s, found, e[1])}
  IN ReachableFrom(Component, refers, DOMAIN s)

\* What Discover accepts: every component is found, and references do not go round.
ReferenceEdges(s, found) ==
  LET N == Discovered(s, found) IN {e \in N \X N : e[1] \in References(s, found, e[2])}

IsDiscovered(s, found) ==
  /\ \A c \in Discovered(s, found) : c \in DOMAIN s \/ found[c] # None
  /\ IsAcyclic(Discovered(s, found), ReferenceEdges(s, found))

\* Construct: discovery, and the graph reversed.  The external versions are read
\* at one moment.
Begin ==
  /\ ~ active /\ calls < MaxCalls
  /\ external' = [c \in Component |-> External(c)]
  /\ \E s \in {x \in Specs : IsDiscovered(x, external')} :
       spec' = s /\ nodes' = Discovered(s, external') /\ edges' = ReferenceEdges(s, external')
  /\ active' = TRUE /\ calls' = calls + 1
  /\ step' = Idle /\ left' = [c \in Component |-> {}] /\ draft' = Nothing /\ processed' = Nothing
  /\ running' = {} /\ succeeded' = {} /\ failed' = {} /\ outcome' = "none"
  /\ raced' = {}
  /\ UNCHANGED <<options, target, blobs, others, overwritten>>

Start(c) ==
  /\ active /\ Exec!Start(c)
  /\ step' = [step EXCEPT ![c] = IF c \in DOMAIN spec THEN "check" ELSE "copy"]
  /\ UNCHANGED <<options, target, blobs, call, history, left, draft, processed>>

\* The processing of a component ends, well or not.
Succeeds(c) == Exec!End(c) /\ c \in succeeded'

\* mutant of Fails
FailureLost(c) ==
  /\ step' = [step EXCEPT ![c] = "idle"]
  /\ UNCHANGED <<options, target, blobs, call, history, left, draft, processed, graph>>

Fails(c) ==
  /\ Exec!End(c) /\ c \in failed'
  /\ step' = [step EXCEPT ![c] = "idle"]
  /\ UNCHANGED <<options, target, blobs, call, history, left, draft, processed>>

\* mutant of Exists
NeverLooks(c) == FALSE

\* ProcessConflictStrategy
Exists(c) == policy # "replace" /\ target[c] # None

Checks(c) ==
  /\ step[c] = "check" /\ ~ Exists(c)
  /\ step' = [step EXCEPT ![c] = "build"] /\ left' = [left EXCEPT ![c] = Local[c]]
  /\ raced' = raced \ {c}
  /\ UNCHANGED <<options, target, blobs, call, others, overwritten, draft, processed, graph>>

ExistsAlready(c) == step[c] = "check" /\ Exists(c) /\ policy = "fail" /\ Fails(c)

\* mutant of Skips
SkipsAlways(c) ==
  /\ step[c] = "check" /\ Exists(c)
  /\ draft' = [draft EXCEPT ![c] = target[c]]
  /\ step' = [step EXCEPT ![c] = "store"]
  /\ UNCHANGED <<options, target, blobs, call, history, left, processed, graph>>

\* An existing component version stands in for the one specified.
Skips(c) ==
  /\ step[c] = "check" /\ Exists(c) /\ policy = "skip"
  /\ draft' = [draft EXCEPT ![c] = target[c]]
  /\ step' = [step EXCEPT ![c] = "store"]
  /\ UNCHANGED <<options, target, blobs, call, history, left, processed, graph>>

\* addColocatedResourceLocalBlob and its like, one goroutine per resource.
Blob(c, desc, l) == <<c, desc.content, l>>

Uploads(c, l) ==
  /\ step[c] \in {"build", "blobs"} /\ l \in left[c]
  /\ blobs' = blobs \cup {Blob(c, IF c \in DOMAIN spec THEN spec[c] ELSE external[c], l)}
  /\ left' = [left EXCEPT ![c] = @ \ {l}]
  /\ UNCHANGED <<options, target, call, history, step, draft, processed, graph>>

\* mutant of Uploaded
NeverWaits(c) == TRUE

Uploaded(c) == left[c] = {}

\* mutant of DigestOf
DigestPublished(c) == Digest(IF c \in DOMAIN spec THEN spec[c] ELSE external[c])

\* getComponentDigest: of the descriptor the referenced component was processed to.
DigestOf(c) == Digest(processed[c])

\* processReference: a digest that is pinned must be the one computed.
Matches(c) ==
  \A r \in DOMAIN spec[c].refs : spec[c].refs[r] \in {None, DigestOf(r)}

Builds(c) ==
  /\ step[c] = "build" /\ Uploaded(c) /\ Matches(c)
  /\ draft' = [draft EXCEPT ![c] =
       [content |-> spec[c].content, refs |-> [r \in DOMAIN spec[c].refs |-> DigestOf(r)]]]
  /\ step' = [step EXCEPT ![c] = "add"]
  /\ UNCHANGED <<options, target, blobs, call, history, left, processed, graph>>

Mismatches(c) == step[c] = "build" /\ ~ Matches(c) /\ Fails(c)

\* processExternalComponent: what is at the target is not looked at.
Copies(c) ==
  /\ step[c] = "copy"
  /\ draft' = [draft EXCEPT ![c] = external[c]]
  /\ step' = [step EXCEPT ![c] = IF copy THEN "blobs" ELSE "store"]
  /\ left' = [left EXCEPT ![c] = IF copy THEN Local[c] ELSE {}]
  /\ UNCHANGED <<options, target, blobs, call, history, processed, graph>>

Copied(c) ==
  /\ step[c] = "blobs" /\ Uploaded(c)
  /\ step' = [step EXCEPT ![c] = "add"]
  /\ UNCHANGED <<options, target, blobs, call, history, left, draft, processed, graph>>

\* AddComponentVersion: an existing version is replaced.
Writes(c, version) ==
  /\ target' = [target EXCEPT ![c] = version]
  /\ overwritten' = IF target[c] \in {None, version} THEN overwritten ELSE overwritten \cup {c}

Adds(c) ==
  /\ step[c] = "add" /\ Writes(c, draft[c])
  /\ step' = [step EXCEPT ![c] = "store"]
  /\ UNCHANGED <<options, blobs, call, others, raced, left, draft, processed, graph>>

Stores(c) ==
  /\ step[c] = "store"
  /\ processed' = [processed EXCEPT ![c] = draft[c]]
  /\ step' = [step EXCEPT ![c] = "idle"] /\ Succeeds(c)
  /\ UNCHANGED <<options, target, blobs, call, history, left, draft>>

\* Any call to an input method, a digest processor or a repository may fail.
Breaks(c) == step[c] \in {"check", "build", "blobs", "add"} /\ Fails(c)

Returns ==
  /\ active /\ \E o \in {"ok", "failed"} : Exec!Return(o)
  /\ active' = FALSE
  /\ UNCHANGED <<options, target, blobs, calls, spec, external, history, step, left, draft, processed>>

\* The process is killed: nothing but the target repository stays.
Killed ==
  /\ active /\ active' = FALSE /\ outcome' = "cancelled"
  /\ spec' = << >> /\ external' = Nothing /\ raced' = {}
  /\ step' = Idle /\ left' = [c \in Component |-> {}] /\ draft' = Nothing /\ processed' = Nothing
  /\ nodes' = {} /\ edges' = {} /\ running' = {} /\ succeeded' = {} /\ failed' = {}
  /\ UNCHANGED <<options, target, blobs, calls, others, overwritten>>

\* Another client adds a version, with its blobs, to what a reader finds, and
\* replaces one that is there.
OtherWrites(c) ==
  /\ others < MaxOthers /\ others' = others + 1
  /\ \E v \in Others[c] :
       /\ \A r \in DOMAIN v.refs : Found(r) # None
       /\ Writes(c, [content |-> v.content, refs |-> [r \in DOMAIN v.refs |-> Digest(Found(r))]])
       /\ blobs' = blobs \cup {Blob(c, v, l) : l \in Local[c]}
  /\ raced' = raced \cup {c}
  /\ UNCHANGED <<options, call, step, left, draft, processed, graph>>

Constructs(c) ==
  \/ Start(c) \/ Checks(c) \/ ExistsAlready(c) \/ Skips(c) \/ Builds(c) \/ Mismatches(c)
  \/ \E l \in Local[c] : Uploads(c, l)
  \/ Copies(c) \/ Copied(c) \/ Adds(c) \/ Stores(c)

Next ==
  \/ Begin \/ Returns \/ Killed
  \/ \E c \in Component : Constructs(c) \/ Breaks(c) \/ OtherWrites(c)

Fairness == WF_vars(Returns) /\ \A c \in Component : WF_vars(Constructs(c))

Spec == Init /\ [][Next]_vars /\ Fairness

-----------------------------------------------------------------------------
\* Every variable is of its type.
Shaped(desc) == DOMAIN desc = {"content", "refs"} /\ DOMAIN desc.refs \subseteq Component
TypeOK ==
  /\ policy \in Policies /\ copy \in BOOLEAN /\ calls \in 0..MaxCalls /\ active \in BOOLEAN
  /\ \A c \in Component : Shaped(target[c]) /\ Shaped(external[c]) /\ Shaped(draft[c]) /\ Shaped(processed[c])
  /\ step \in [Component -> {"idle", "check", "build", "copy", "blobs", "add", "store"}]
  /\ \A c \in Component : left[c] \subseteq Local[c]
  /\ nodes \subseteq Component /\ edges \subseteq nodes \X nodes
  /\ running \subseteq nodes /\ succeeded \subseteq nodes /\ failed \subseteq nodes
  /\ outcome \in Exec!Outcomes
  /\ \A c \in Component : step[c] # "idle" => c \in running
  /\ others \in 0..MaxOthers /\ raced \subseteq Component /\ overwritten \subseteq Component

\* Whenever a call fails or is killed, what a component version of the target
\* refers to and the blobs of its local resources can be found (processed in
\* reverse topological order, and added last).
TargetClosed ==
  \A c \in Component :
    /\ \A r \in DOMAIN target[c].refs : Found(r) # None
    /\ target[c] # None => \A l \in Local[c] : Blob(c, target[c], l) \in blobs

\* Components that are specified although the resolvers find another version of
\* them: their identity is not unique.
Disputed == {c \in DOMAIN Published : \E s \in Specs : c \in DOMAIN s}

Agrees(c, except) ==
  \A r \in DOMAIN target[c].refs \ (except \cup Disputed) : target[c].refs[r] = Digest(Found(r))

\* A digest recorded in the target is the digest of what it refers to, as long
\* as that was not overwritten; and what a call that succeeded has constructed
\* has the digests of what it has processed, as long as others did not write it.
DigestsMatch ==
  /\ policy # "replace" => \A c \in Component : Agrees(c, overwritten)
  /\ outcome = "ok" /\ policy # "skip" => \A c \in DOMAIN spec \ raced : Agrees(c, raced)

\* A call that succeeds leaves every component of its specification in the
\* target: as specified, unless an existing one was to be kept or another client
\* has written it since the call looked for it.
OkMeansAdded ==
  outcome = "ok" => \A c \in DOMAIN spec :
    target[c] # None /\ (policy # "skip" /\ c \notin raced => target[c].content = spec[c].content)

\* The only versions that change in the target, unless they are to be replaced,
\* are those another client wrote after the call had looked for them (a check
\* first "gives no guarantee", cmd.go) and those copies are written over, which
\* are made without a check (processExternalComponent).
OnlyUnseenOverwritten ==
  [][policy # "replace" =>
       \A c \in Component : target[c] # None /\ target'[c] # target[c] =>
         c \in raced' \/ (copy /\ c \in DOMAIN Published \ DOMAIN spec)]_vars

\* Every call returns: no component waits for one that is never processed.
CallReturns == active ~> ~ active
=============================================================================
