------------------------- MODULE Constructor_proofs -------------------------
(***************************************************************************)
(* The target repository of the constructor, for any components, any       *)
(* specifications of the calls, any failures and kills, and any writes of  *)
(* other clients.                                                          *)
(***************************************************************************)
EXTENDS Constructor, TLAPS

\* The variables that map components are functions.
IsMap(f) == f = [c \in Component |-> f[c]]
MapsInv == IsMap(target) /\ IsMap(draft) /\ IsMap(processed) /\ IsMap(step) /\ IsMap(left)

\* The graph of a call holds what it specifies and all that is referred to.
GraphInv ==
  /\ spec \in Specs \cup {<< >>}
  /\ DOMAIN spec \subseteq nodes /\ nodes \subseteq Component
  /\ \A c \in nodes : References(spec, external, c) \subseteq Into(edges, c)

RunInv ==
  /\ running \cap (succeeded \cup failed) = {} /\ running \cup succeeded \subseteq nodes
  /\ outcome = "ok" => succeeded = nodes

\* The blobs of a component are stored: all, and all that were uploaded so far.
AllStored(c, desc)  == \A l \in Local[c] : Blob(c, desc, l) \in blobs
SomeStored(c, desc) == \A l \in Local[c] \ left[c] : Blob(c, desc, l) \in blobs

\* A descriptor refers to what this call has processed.
Refers(desc) == \A r \in DOMAIN desc.refs : r \in succeeded /\ desc.refs[r] = processed[r]

AsSpecified(c, desc) == desc.content = spec[c].content /\ Refers(desc)

\* Others have replaced a version since this call looked for it.
Superseded(c) == c \in raced \cap overwritten

\* What stands for a component in this call is what a reader finds.
IsPlaced(c, desc) ==
  /\ desc # None /\ Found(c) # None
  /\ c \notin DOMAIN spec => desc = external[c]
  /\ Found(c) = desc \/ Superseded(c) \/ c \in Disputed
  /\ c \in DOMAIN spec =>
       target[c] # None /\ (policy # "skip" => c \in raced \/ AsSpecified(c, target[c]))

\* The references of a version of the target, and of one taken from it, can be
\* found, with their digests as long as they are not overwritten.
Lasts(desc) ==
  \A r \in DOMAIN desc.refs :
    /\ r \in Component /\ Found(r) # None
    /\ policy # "replace" => desc.refs[r] = Found(r) \/ r \in overwritten \cup Disputed

\* What a call has found of an external component.
ExternalInv(c) ==
  c \in nodes \ DOMAIN spec =>
    /\ external[c] # None
    /\ c \in DOMAIN Published => external[c] = Published[c]
    /\ c \notin DOMAIN Published =>
         target[c] # None /\ Lasts(external[c]) /\ (external[c] = target[c] \/ Superseded(c))

\* What a component has come to in this call.
ComponentInv(c) ==
  /\ step[c] # "idle" => c \in running
  /\ c \in running => References(spec, external, c) \subseteq succeeded
  /\ step[c] \in {"check", "build"} => c \in DOMAIN spec
  /\ step[c] \in {"copy", "blobs"} => c \notin DOMAIN spec
  /\ step[c] = "build" => SomeStored(c, spec[c])
  /\ step[c] = "blobs" => copy /\ draft[c] = external[c] /\ SomeStored(c, external[c])
  /\ step[c] = "add" => /\ draft[c] # None /\ AllStored(c, draft[c])
                        /\ c \in DOMAIN spec => AsSpecified(c, draft[c])
                        /\ c \notin DOMAIN spec => copy /\ draft[c] = external[c]
  /\ step[c] \in {"build", "add"} /\ c \in DOMAIN spec /\ policy # "replace" => target[c] = None \/ c \in raced
  /\ step[c] = "store" => IsPlaced(c, draft[c])
  /\ c \in succeeded => IsPlaced(c, processed[c])

\* What a component of the target has, whatever calls there were.
LastingInv(c) == Lasts(target[c]) /\ (target[c] # None => AllStored(c, target[c]))

IInv ==
  /\ MapsInv /\ GraphInv /\ RunInv
  /\ \A c \in Component : ComponentInv(c) /\ ExternalInv(c) /\ LastingInv(c)

-----------------------------------------------------------------------------
\* A version with content is not None.
LEMMA HasContent ==
  ASSUME NEW desc, desc.content # "none"
  PROVE  desc # None
BY DEF None

\* None refers to nothing.
LEMMA NoneRefers == DOMAIN None.refs = {}
<1>1. DOMAIN << >> = {}
  OBVIOUS
<1> QED BY <1>1 DEF None

\* What is published is there, and refers to what is published.
LEMMA PublishedFacts ==
  ASSUME NEW c \in DOMAIN Published
  PROVE  /\ c \in Component /\ Published[c] # None
         /\ \A r \in DOMAIN Published[c].refs : r \in DOMAIN Published /\ Published[c].refs[r] = Published[r]
BY HasContent, ConstructorAssumption, VersionsComplete

\* What a node of the graph refers to is a node too (Discovered takes in all
\* that is referred to).
LEMMA DiscoveredClosed ==
  ASSUME NEW s \in Specs, NEW found, \A c \in Component : DOMAIN found[c].refs \subseteq Component,
         NEW c \in Discovered(s, found), NEW r \in References(s, found, c)
  PROVE  r \in Discovered(s, found)
<1> DEFINE refers == {e \in Component \X Component : e[2] \in References(s, found, e[1])}
<1>1. c \in Component /\ r \in Component
  <2>1. c \in Component
    BY DEF Discovered, ReachableFrom
  <2>2. CASE c \in DOMAIN s
    <3>1. References(s, found, c) = DOMAIN s[c].refs
      BY <2>2 DEF References
    <3>2. DOMAIN s[c].refs \subseteq Component
      BY <2>2, VersionsComplete
    <3> QED BY <2>1, <3>1, <3>2
  <2>3. CASE c \notin DOMAIN s
    BY <2>1, <2>3 DEF References
  <2> QED BY <2>1, <2>2, <2>3
<1>2. PICK o \in DOMAIN s : Reaches(Component, refers, o, c)
  BY DEF Discovered, ReachableFrom
<1>3. <<c, r>> \in refers
  BY <1>1
<1>4. Reaches(Component, refers, o, r)
  BY <1>2, <1>3 DEF Reaches, IsClosed
<1> QED BY <1>1, <1>2, <1>4 DEF Discovered, ReachableFrom

\* What is specified is discovered.
LEMMA SpecifiedDiscovered ==
  ASSUME NEW s \in Specs, NEW found
  PROVE  DOMAIN s \subseteq Discovered(s, found)
<1> SUFFICES ASSUME NEW c \in DOMAIN s PROVE c \in Discovered(s, found)
  OBVIOUS
<1>1. c \in Component
  BY ConstructorAssumption
<1> DEFINE refers == {e \in Component \X Component : e[2] \in References(s, found, e[1])}
<1>2. Reaches(Component, refers, c, c)
  BY DEF Reaches
<1> QED BY <1>1, <1>2 DEF Discovered, ReachableFrom

\* What is published and specified is disputed.
LEMMA SpecifiedDisputed ==
  ASSUME GraphInv, NEW c \in DOMAIN spec \cap DOMAIN Published
  PROVE  c \in Disputed
<1>1. DOMAIN << >> = {}
  OBVIOUS
<1> QED BY <1>1 DEF GraphInv, Disputed

-----------------------------------------------------------------------------
\* Versions of the target do not go away, and one that is replaced is known.
Steady ==
  /\ UNCHANGED <<policy, copy>> /\ overwritten \subseteq overwritten' /\ blobs \subseteq blobs'
  /\ \A c \in Component : target[c] # None =>
       target'[c] # None /\ (target'[c] = target[c] \/ c \in overwritten')

\* The same holds of what a reader finds.
LEMMA SteadyFound ==
  ASSUME Steady, NEW c \in Component, Found(c) # None
  PROVE  Found(c)' # None /\ (Found(c)' = Found(c) \/ c \in overwritten')
BY DEF Steady, Found, External

\* What the target has stays complete when it stays.
LEMMA TargetKeeps ==
  ASSUME Steady, NEW d, LastingInv(d), target'[d] = target[d]
  PROVE  LastingInv(d)'
<1>1. Lasts(target[d])'
  BY SteadyFound DEF Steady, LastingInv, Lasts
<1>2. target'[d] # None => AllStored(d, target[d])'
  BY DEF Steady, LastingInv, AllStored
<1> QED BY <1>1, <1>2 DEF LastingInv

\* What a call has found of a component stays so when that does not change.
LEMMA ExternalKeeps ==
  ASSUME Steady, NEW d, ExternalInv(d), UNCHANGED <<nodes, spec, external>>, target'[d] = target[d],
         d \in nodes \ DOMAIN spec /\ d \in raced => d \in raced'
  PROVE  ExternalInv(d)'
<1> SUFFICES ASSUME d \in nodes \ DOMAIN spec, d \notin DOMAIN Published
             PROVE  /\ target'[d] # None /\ Lasts(external[d])'
                    /\ external'[d] = target'[d] \/ Superseded(d)'
  BY DEF ExternalInv
<1>1. Lasts(external[d])'
  BY SteadyFound DEF Steady, ExternalInv, Lasts
<1> QED BY <1>1 DEF ExternalInv, Superseded, Steady

-----------------------------------------------------------------------------
\* A step of one component: what others have come to is not its business.
Touches(c) ==
  /\ UNCHANGED <<spec, external, nodes, edges, outcome>> /\ MapsInv' /\ Steady
  /\ c \in nodes /\ c \notin succeeded /\ (c \in failed' \cup succeeded' => c \notin running')
  /\ failed' \in {failed, failed \cup {c}}
  /\ succeeded' \in {succeeded, succeeded \cup {c}}
  /\ running' \in {running, running \cup {c}, running \ {c}}
  /\ raced' \in {raced, raced \ {c}}
  /\ c \notin DOMAIN spec => raced' = raced
  /\ step[c] # "store" => succeeded' = succeeded /\ processed' = processed
  /\ \A d \in Component \ {c} :
       /\ step'[d] = step[d] /\ left'[d] = left[d] /\ draft'[d] = draft[d]
       /\ target'[d] = target[d] /\ processed'[d] = processed[d]

\* All steps of components are such.
LEMMA StepsTouch ==
  ASSUME IInv, NEW c \in Component, Constructs(c) \/ Breaks(c)
  PROVE  Touches(c)
<1>1. /\ c \in running => c \in nodes /\ c \notin succeeded \cup failed
      /\ step[c] # "idle" => c \in running
      /\ step[c] = "check" => c \in DOMAIN spec
  BY DEF IInv, RunInv, ComponentInv
<1>2. CASE Start(c)
  BY <1>1, <1>2 DEF Start, Exec!Start, Touches, Steady, IInv, MapsInv, IsMap, options, call, history
<1>3. ASSUME Fails(c), step[c] \notin {"idle", "store"}
      PROVE  Touches(c)
  BY <1>1, <1>3 DEF Fails, Exec!End, Touches, Steady, IInv, MapsInv, IsMap, options, call, history
<1>4. CASE Checks(c) \/ Skips(c)
  BY <1>1, <1>4 DEF Checks, Skips, Touches, Steady, IInv, MapsInv, IsMap, options, graph, call, history
<1>5. CASE Builds(c)
  BY <1>1, <1>5 DEF Builds, Touches, Steady, IInv, MapsInv, IsMap, options, graph, call, history
<1>6. CASE Copies(c) \/ Copied(c)
  BY <1>1, <1>6 DEF Copies, Copied, Touches, Steady, IInv, MapsInv, IsMap, options, graph, call, history
<1>7. ASSUME NEW l \in Local[c], Uploads(c, l)
      PROVE  Touches(c)
  BY <1>1, <1>7 DEF Uploads, Touches, Steady, IInv, MapsInv, IsMap, options, graph, call, history
<1>8. CASE Adds(c)
  <2>1. draft[c] # None
    BY <1>8 DEF Adds, IInv, ComponentInv
  <2>2. /\ \A d \in Component : target'[d] = IF d = c THEN draft[c] ELSE target[d]
        /\ overwritten' = IF target[c] \in {None, draft[c]} THEN overwritten ELSE overwritten \cup {c}
    BY <1>8 DEF Adds, Writes, IInv, MapsInv, IsMap
  <2>3. Steady
    BY <1>8, <2>1, <2>2 DEF Adds, Steady, options
  <2>4. MapsInv'
    BY <1>8 DEF Adds, Writes, IInv, MapsInv, IsMap
  <2> QED BY <1>1, <1>8, <2>2, <2>3, <2>4 DEF Adds, Touches, IInv, MapsInv, IsMap, options, graph, call
<1>9. CASE Stores(c)
  BY <1>1, <1>9 DEF Stores, Succeeds, Exec!End, Touches, Steady, IInv, MapsInv, IsMap, options, call, history
<1>10. ExistsAlready(c) \/ Mismatches(c) \/ Breaks(c) => Fails(c) /\ step[c] \notin {"idle", "store"}
  BY DEF ExistsAlready, Mismatches, Breaks
<1> QED BY <1>2, <1>3, <1>4, <1>5, <1>6, <1>7, <1>8, <1>9, <1>10 DEF Constructs

\* The graph and the sets of components that run and have succeeded stay right,
LEMMA TouchKeepsRun ==
  ASSUME IInv, NEW c \in Component, Touches(c)
  PROVE  MapsInv' /\ GraphInv' /\ RunInv'
<1>1. GraphInv'
  BY DEF IInv, GraphInv, Touches, References, Into
<1>2. RunInv'
  BY DEF IInv, RunInv, Touches
<1> QED BY <1>1, <1>2 DEF Touches

\* and so do the other components.
LEMMA OthersKeep ==
  ASSUME IInv, NEW c \in Component, Touches(c), NEW d \in Component \ {c}
  PROVE  ComponentInv(d)' /\ ExternalInv(d)' /\ LastingInv(d)'
<1>1. /\ step'[d] = step[d] /\ left'[d] = left[d] /\ draft'[d] = draft[d]
      /\ target'[d] = target[d] /\ processed'[d] = processed[d]
      /\ policy' = policy /\ copy' = copy /\ spec' = spec /\ external' = external
      /\ blobs \subseteq blobs' /\ succeeded \subseteq succeeded'
      /\ overwritten \subseteq overwritten' /\ (d \in raced => d \in raced')
      /\ d \in running' => d \in running
      /\ d \in running => d \in running'
      /\ d \in succeeded' => d \in succeeded
      /\ \A r \in succeeded : r \in Component /\ processed'[r] = processed[r]
  BY DEF Touches, Steady, IInv, RunInv, GraphInv
<1>2. ComponentInv(d) /\ ExternalInv(d) /\ LastingInv(d)
  BY DEF IInv
<1>3. ASSUME NEW desc, Refers(desc)
      PROVE  \A r \in DOMAIN desc.refs : r \in succeeded' /\ desc.refs[r] = processed'[r]
  BY <1>1, <1>3 DEF Refers
<1>4. /\ AsSpecified(d, draft[d]) => AsSpecified(d, draft[d])'
      /\ AsSpecified(d, target[d]) => AsSpecified(d, target[d])'
  BY <1>1, <1>3 DEF AsSpecified, Refers
<1>5. /\ IsPlaced(d, draft[d]) => IsPlaced(d, draft[d])'
      /\ IsPlaced(d, processed[d]) => IsPlaced(d, processed[d])'
  BY <1>1, <1>4 DEF IsPlaced, Found, External, Superseded
<1>6. /\ step[d] = "build" => SomeStored(d, spec[d])'
      /\ step[d] = "blobs" => SomeStored(d, external[d])'
      /\ step[d] = "add" => AllStored(d, draft[d])'
  BY <1>1, <1>2 DEF ComponentInv, SomeStored, AllStored
<1>7. ComponentInv(d)'
  BY <1>1, <1>2, <1>4, <1>5, <1>6 DEF ComponentInv, References
<1> QED BY <1>1, <1>2, <1>7, ExternalKeeps, TargetKeeps DEF Touches

\* A step that does not write the target leaves it, and what was found, as it is.
LEMMA NoWrite ==
  ASSUME IInv, NEW c \in Component, Touches(c), target' = target
  PROVE  ExternalInv(c)' /\ LastingInv(c)'
<1>1. ExternalInv(c) /\ LastingInv(c) /\ Steady
  BY DEF IInv, Touches
<1> QED BY <1>1, ExternalKeeps, TargetKeeps DEF Touches

-----------------------------------------------------------------------------
\* What each step makes of its own component. While a component is processed it
\* is known to be a node, and what it refers to has been processed.
LEMMA ReferencesPlaced ==
  ASSUME IInv, NEW c \in Component, NEW r \in References(spec, external, c), c \in running
  PROVE  r \in nodes /\ r \in Component /\ r \in succeeded /\ IsPlaced(r, processed[r])
BY DEF IInv, RunInv, GraphInv, ComponentInv

\* Checks, and Start, find nothing done yet.
LEMMA ChecksKeep ==
  ASSUME IInv, NEW c \in Component, Start(c) \/ Checks(c)
  PROVE  ComponentInv(c)'
<1>1. IsMap(step) /\ IsMap(left) /\ ComponentInv(c)
      /\ (c \in nodes => References(spec, external, c) \subseteq Into(edges, c))
  BY DEF IInv, MapsInv, GraphInv
<1>2. CASE Start(c)
  <2>1. Exec!Into(edges, c) = Into(edges, c)
    BY DEF Exec!Into, Into
  <2>2. c \in nodes /\ c \notin succeeded /\ References(spec, external, c) \subseteq succeeded
    BY <1>1, <1>2, <2>1 DEF Start, Exec!Start
  <2>3. /\ step'[c] = IF c \in DOMAIN spec THEN "check" ELSE "copy"
        /\ UNCHANGED <<spec, external, succeeded>> /\ running' = running \cup {c}
    BY <1>1, <1>2 DEF Start, Exec!Start, IsMap, call
  <2> QED BY <2>2, <2>3 DEF ComponentInv, References
<1>3. CASE Checks(c)
  <2>1. /\ step'[c] = "build" /\ left'[c] = Local[c] /\ step[c] = "check"
        /\ policy = "replace" \/ target[c] = None
        /\ UNCHANGED <<spec, external, succeeded, running, policy, copy, target, processed>>
    BY <1>1, <1>3 DEF Checks, Exists, IsMap, options, graph, call
  <2>2. c \notin succeeded
    BY <1>1, <2>1 DEF ComponentInv, IInv, RunInv
  <2> QED BY <1>1, <2>1, <2>2 DEF ComponentInv, SomeStored, References
<1> QED BY <1>2, <1>3

\* A failure leaves the component to itself.
LEMMA FailsKeep ==
  ASSUME IInv, NEW c \in Component, Fails(c), c \notin succeeded
  PROVE  ComponentInv(c)'
<1>1. step'[c] = "idle" /\ c \notin running' /\ c \notin succeeded'
  BY DEF Fails, Exec!End, IInv, MapsInv, IsMap, RunInv
<1> QED BY <1>1 DEF ComponentInv

\* An upload stores one more blob.
LEMMA UploadsKeep ==
  ASSUME IInv, NEW c \in Component, NEW l \in Local[c], Uploads(c, l)
  PROVE  ComponentInv(c)'
<1>1. /\ UNCHANGED <<spec, external, succeeded, running, policy, copy, target, processed, draft, step, raced>>
      /\ left'[c] = left[c] \ {l} /\ step[c] \in {"build", "blobs"}
      /\ blobs' = blobs \cup {Blob(c, IF c \in DOMAIN spec THEN spec[c] ELSE external[c], l)}
  BY DEF Uploads, IInv, MapsInv, IsMap, options, graph, call, history
<1>2. ComponentInv(c) /\ c \notin succeeded
  BY <1>1 DEF IInv, RunInv, ComponentInv
<1>3. step[c] = "build" => SomeStored(c, spec[c])'
  BY <1>1, <1>2 DEF ComponentInv, SomeStored
<1>4. step[c] = "blobs" => SomeStored(c, external[c])'
  BY <1>1, <1>2 DEF ComponentInv, SomeStored
<1> QED BY <1>1, <1>2, <1>3, <1>4 DEF ComponentInv, References

\* What exists and is kept is in its place.
LEMMA SkipsKeep ==
  ASSUME IInv, NEW c \in Component, Skips(c)
  PROVE  ComponentInv(c)'
<1>1. /\ UNCHANGED <<spec, external, succeeded, running, policy, copy, target, processed, blobs>>
      /\ step'[c] = "store" /\ draft'[c] = target[c] /\ target[c] # None /\ policy = "skip" /\ step[c] = "check"
  BY DEF Skips, Exists, IInv, MapsInv, IsMap, options, graph, call
<1>2. ComponentInv(c) /\ c \notin succeeded /\ c \in DOMAIN spec /\ c \in running
  BY <1>1 DEF IInv, RunInv, ComponentInv
<1>3. Found(c) # None /\ (Found(c) = target[c] \/ c \in Disputed)
  BY <1>1, <1>2, PublishedFacts, SpecifiedDisputed DEF Found, External, IInv
<1>4. IsPlaced(c, draft[c])'
  BY <1>1, <1>2, <1>3 DEF IsPlaced, Found, External, Disputed
<1> QED BY <1>1, <1>2, <1>4 DEF ComponentInv, References

\* The descriptor that is built has the digests of what was processed.
LEMMA BuildsKeep ==
  ASSUME IInv, NEW c \in Component, Builds(c)
  PROVE  ComponentInv(c)'
<1>1. /\ UNCHANGED <<spec, external, succeeded, running, policy, copy, target, processed, blobs, raced>>
      /\ step'[c] = "add" /\ step[c] = "build" /\ left[c] = {}
      /\ draft'[c] = [content |-> spec[c].content, refs |-> [r \in DOMAIN spec[c].refs |-> processed[r]]]
  BY DEF Builds, Uploaded, DigestOf, Digest, IInv, MapsInv, IsMap, options, graph, call, history
<1>2. ComponentInv(c) /\ c \notin succeeded /\ c \in running /\ c \in DOMAIN spec
  BY <1>1 DEF IInv, RunInv, ComponentInv
<1>3. spec \in Specs
  <2>1. DOMAIN << >> = {}
    OBVIOUS
  <2> QED BY <1>2, <2>1 DEF IInv, GraphInv
<1>4. draft'[c].content = spec[c].content /\ draft'[c] # None
  <2>1. draft'[c].content = spec[c].content /\ spec[c].content # "none"
    BY <1>1, <1>2, <1>3, VersionsComplete
  <2> QED BY <2>1, HasContent
<1>5. AllStored(c, draft[c])'
  BY <1>1, <1>2, <1>4 DEF ComponentInv, SomeStored, AllStored, Blob
<1>6. Refers(draft[c])'
  <2>1. DOMAIN spec[c].refs = References(spec, external, c)
    BY <1>2 DEF References
  <2>2. \A r \in DOMAIN spec[c].refs : r \in succeeded
    BY <1>2, <2>1 DEF ComponentInv
  <2>3. DOMAIN draft'[c].refs = DOMAIN spec[c].refs /\ \A r \in DOMAIN spec[c].refs : draft'[c].refs[r] = processed[r]
    BY <1>1
  <2> QED BY <1>1, <2>2, <2>3 DEF Refers
<1>7. AsSpecified(c, draft[c])'
  BY <1>1, <1>4, <1>6 DEF AsSpecified
<1> QED BY <1>1, <1>2, <1>4, <1>5, <1>7 DEF ComponentInv, References

\* An external version that is not copied is where readers find it.
LEMMA CopiesKeep ==
  ASSUME IInv, NEW c \in Component, Copies(c)
  PROVE  ComponentInv(c)'
<1>1. /\ UNCHANGED <<spec, external, succeeded, running, policy, copy, target, processed, blobs, raced, overwritten>>
      /\ step'[c] = (IF copy THEN "blobs" ELSE "store") /\ draft'[c] = external[c] /\ step[c] = "copy"
      /\ copy => left'[c] = Local[c]
  BY DEF Copies, IInv, MapsInv, IsMap, options, graph, call, history
<1>2. /\ ComponentInv(c) /\ ExternalInv(c) /\ c \notin succeeded /\ c \in running
      /\ c \in nodes /\ c \notin DOMAIN spec
  BY <1>1 DEF IInv, RunInv, ComponentInv
<1>3. CASE copy
  BY <1>1, <1>2, <1>3 DEF ComponentInv, SomeStored, References
<1>4. CASE ~ copy
  <2>1. external[c] # None /\ Found(c) # None /\ (Found(c) = external[c] \/ Superseded(c))
    BY <1>2, <1>4, PublishedFacts DEF ExternalInv, Found, External
  <2>2. IsPlaced(c, draft[c])'
    BY <1>1, <1>2, <2>1 DEF IsPlaced, Found, External, Superseded
  <2> QED BY <1>1, <1>2, <1>4, <2>2 DEF ComponentInv, References
<1> QED BY <1>3, <1>4

\* One that is copied is added when its blobs are.
LEMMA CopiedKeep ==
  ASSUME IInv, NEW c \in Component, Copied(c)
  PROVE  ComponentInv(c)'
<1>1. /\ UNCHANGED <<spec, external, succeeded, running, policy, copy, target, processed, blobs, draft>>
      /\ step'[c] = "add" /\ step[c] = "blobs" /\ left[c] = {}
  BY DEF Copied, Uploaded, IInv, MapsInv, IsMap, options, graph, call
<1>2. /\ ComponentInv(c) /\ c \notin succeeded /\ c \in running /\ c \notin DOMAIN spec
      /\ copy /\ draft[c] = external[c] /\ SomeStored(c, external[c]) /\ external[c] # None
  BY <1>1 DEF IInv, RunInv, ComponentInv, ExternalInv
<1>3. AllStored(c, draft[c])'
  BY <1>1, <1>2 DEF SomeStored, AllStored
<1> QED BY <1>1, <1>2, <1>3 DEF ComponentInv, References

\* What a descriptor to be added refers to can be found, with its digest.
LEMMA DraftLasts ==
  ASSUME IInv, NEW c \in Component, step[c] = "add"
  PROVE  Lasts(draft[c])
<1> SUFFICES ASSUME NEW r \in DOMAIN draft[c].refs
             PROVE  /\ r \in Component /\ Found(r) # None
                    /\ policy # "replace" => draft[c].refs[r] = Found(r) \/ r \in overwritten \cup Disputed
  BY DEF Lasts
<1>1. ComponentInv(c) /\ ExternalInv(c) /\ c \in running /\ c \in nodes
  BY DEF IInv, RunInv, ComponentInv
<1>2. CASE c \in DOMAIN spec
  <2>1. r \in succeeded /\ draft[c].refs[r] = processed[r] /\ r \in Component
    BY <1>1, <1>2 DEF ComponentInv, AsSpecified, Refers, IInv, RunInv, GraphInv
  <2>2. IsPlaced(r, processed[r])
    BY <2>1 DEF IInv, ComponentInv
  <2> QED BY <2>1, <2>2 DEF IsPlaced, Superseded
<1>3. CASE c \notin DOMAIN spec /\ c \in DOMAIN Published
  <2>1. draft[c] = external[c] /\ external[c] = Published[c]
    BY <1>1, <1>3 DEF ComponentInv, ExternalInv
  <2>2. r \in DOMAIN Published /\ draft[c].refs[r] = Published[r]
    BY <1>3, <2>1, PublishedFacts
  <2>3. r \in nodes /\ r \in Component /\ IsPlaced(r, processed[r])
    BY <1>1, <1>3, <2>1, ReferencesPlaced DEF References
  <2>4. r \in DOMAIN spec => r \in Disputed
    BY <2>2, SpecifiedDisputed DEF IInv
  <2>5. r \notin DOMAIN spec => processed[r] = Published[r]
    BY <2>2, <2>3 DEF IInv, ExternalInv, IsPlaced
  <2> QED BY <2>2, <2>3, <2>4, <2>5 DEF IsPlaced, Superseded
<1>4. CASE c \notin DOMAIN spec /\ c \notin DOMAIN Published
  BY <1>1, <1>4 DEF ComponentInv, ExternalInv, Lasts
<1> QED BY <1>2, <1>3, <1>4

\* What is added is placed.
LEMMA AddsKeep ==
  ASSUME IInv, NEW c \in Component, Adds(c)
  PROVE  ComponentInv(c)' /\ ExternalInv(c)' /\ LastingInv(c)'
<1>1. /\ UNCHANGED <<spec, external, nodes, succeeded, running, policy, copy, processed, blobs, draft, raced>>
      /\ step'[c] = "store" /\ step[c] = "add" /\ target'[c] = draft[c]
  BY DEF Adds, Writes, IInv, MapsInv, IsMap, options, graph, call
<1>2. /\ ComponentInv(c) /\ ExternalInv(c) /\ c \notin succeeded /\ c \in running
      /\ draft[c] # None /\ AllStored(c, draft[c])
      /\ c \in DOMAIN spec => AsSpecified(c, draft[c])
      /\ c \notin DOMAIN spec => copy /\ draft[c] = external[c]
  BY <1>1 DEF IInv, RunInv, ComponentInv
<1>3. Steady
  BY StepsTouch DEF Touches, Constructs
<1>4. Found(c)' # None /\ (Found(c)' = draft[c] \/ c \in Disputed)
  BY <1>1, <1>2, PublishedFacts, SpecifiedDisputed DEF Found, External, IInv
<1>5. IsPlaced(c, draft[c])'
  BY <1>1, <1>2, <1>4 DEF IsPlaced, AsSpecified, Refers, Disputed
<1>6. ComponentInv(c)'
  BY <1>1, <1>2, <1>5 DEF ComponentInv, References
<1>7. Lasts(draft[c])'
  BY <1>1, <1>3, DraftLasts, SteadyFound DEF Lasts, Steady, Disputed
<1>8. ExternalInv(c)'
  BY <1>1, <1>2, <1>7 DEF ExternalInv, Lasts
<1>9. LastingInv(c)'
  BY <1>1, <1>2, <1>7 DEF LastingInv, Lasts, AllStored
<1> QED BY <1>6, <1>8, <1>9

\* The component has succeeded, and is what others refer to.
LEMMA StoresKeep ==
  ASSUME IInv, NEW c \in Component, Stores(c)
  PROVE  ComponentInv(c)'
<1>1. /\ UNCHANGED <<spec, external, policy, copy, target, raced, overwritten>>
      /\ step'[c] = "idle" /\ step[c] = "store" /\ processed'[c] = draft[c]
      /\ \A r \in Component \ {c} : processed'[r] = processed[r]
      /\ c \notin running' /\ succeeded \subseteq succeeded'
  BY DEF Stores, Succeeds, Exec!End, IInv, MapsInv, IsMap, options, call, history
<1>2. IsPlaced(c, draft[c]) /\ c \notin succeeded /\ succeeded \subseteq Component
  BY <1>1 DEF IInv, RunInv, GraphInv, ComponentInv
<1>3. AsSpecified(c, target[c]) => AsSpecified(c, target[c])'
  BY <1>1, <1>2 DEF AsSpecified, Refers
<1>4. IsPlaced(c, processed[c])'
  BY <1>1, <1>2, <1>3 DEF IsPlaced, Found, External, Superseded
<1> QED BY <1>1, <1>4 DEF ComponentInv

-----------------------------------------------------------------------------
\* Another client replaces what a call has come to, and leaves it known.
LEMMA OtherWritesKeep ==
  ASSUME IInv, NEW c \in Component, OtherWrites(c)
  PROVE  IInv'
<1>1. PICK v \in Others[c] :
        /\ \A r \in DOMAIN v.refs : Found(r) # None
        /\ Writes(c, [content |-> v.content, refs |-> [r \in DOMAIN v.refs |-> Digest(Found(r))]])
        /\ blobs' = blobs \cup {Blob(c, v, l) : l \in Local[c]}
  BY DEF OtherWrites
<1> DEFINE version == [content |-> v.content, refs |-> [r \in DOMAIN v.refs |-> Found(r)]]
<1>2. /\ version # None /\ version.content = v.content /\ DOMAIN version.refs \subseteq Component
      /\ \A r \in DOMAIN version.refs : Found(r) # None /\ version.refs[r] = Found(r)
  <2>1. version.content # "none"
    BY VersionsComplete
  <2>2. version # None
    BY <2>1, HasContent
  <2> QED BY <1>1, <2>2, VersionsComplete
<1>3. /\ UNCHANGED <<policy, copy, spec, external, nodes, edges, running, succeeded, outcome>>
      /\ UNCHANGED <<step, left, draft, processed>> /\ raced' = raced \cup {c}
      /\ \A d \in Component : target'[d] = IF d = c THEN version ELSE target[d]
      /\ overwritten' = IF target[c] \in {None, version} THEN overwritten ELSE overwritten \cup {c}
  BY <1>1 DEF OtherWrites, Writes, Digest, IInv, MapsInv, IsMap, options, graph, call
<1>4. Steady
  BY <1>1, <1>2, <1>3 DEF Steady
<1>5. MapsInv' /\ GraphInv' /\ RunInv'
  <2>1. IsMap(target)'
    BY <1>1 DEF Writes, IInv, MapsInv, IsMap
  <2>2. MapsInv'
    BY <1>3, <2>1 DEF IInv, MapsInv, IsMap
  <2>3. GraphInv'
    BY <1>3 DEF IInv, GraphInv, References, Into
  <2>4. RunInv'
    <3>1. UNCHANGED <<running, succeeded, failed, nodes, outcome>>
      BY DEF OtherWrites, graph
    <3> QED BY <3>1 DEF IInv, RunInv
  <2> QED BY <2>2, <2>3, <2>4
<1>6. ASSUME NEW d \in Component, NEW desc, IsPlaced(d, desc)
      PROVE  /\ Found(d)' # None /\ (Found(d)' = desc \/ Superseded(d)' \/ d \in Disputed)
             /\ d \in DOMAIN spec => target'[d] # None
             /\ d \in DOMAIN spec /\ policy # "skip" => d \in raced' \/ AsSpecified(d, target[d])'
  <2>1. CASE d = c
    <3>1. d \in raced' /\ target'[d] # None
      BY <1>2, <1>3, <2>1
    <3>2. Found(d)' # None /\ (Found(d)' = Found(d) \/ d \in overwritten')
      BY <1>4, <1>6, SteadyFound DEF IsPlaced
    <3> QED BY <1>3, <1>4, <1>6, <3>1, <3>2 DEF IsPlaced, Superseded, Steady
  <2>2. CASE d # c
    <3>1. AsSpecified(d, target[d]) => AsSpecified(d, target[d])'
      BY <1>3, <2>2 DEF AsSpecified, Refers
    <3>2. Found(d)' = Found(d) /\ target'[d] = target[d]
      BY <1>3, <2>2 DEF Found, External
    <3>3. (Superseded(d) => Superseded(d)') /\ (d \in raced => d \in raced')
      BY <1>3 DEF Superseded
    <3> QED BY <1>6, <3>1, <3>2, <3>3 DEF IsPlaced
  <2> QED BY <2>1, <2>2
<1>7. ASSUME NEW d \in Component PROVE ComponentInv(d)'
  <2>1. ComponentInv(d)
    BY DEF IInv
  <2>2. /\ step[d] = "store" => IsPlaced(d, draft[d])'
        /\ d \in succeeded => IsPlaced(d, processed[d])'
    <3>1. step[d] = "store" => IsPlaced(d, draft[d])
      BY <2>1 DEF ComponentInv
    <3>2. d \in succeeded => IsPlaced(d, processed[d])
      BY <2>1 DEF ComponentInv
    <3> QED BY <1>3, <1>6, <3>1, <3>2 DEF IsPlaced, Disputed
  <2>3. /\ step[d] = "build" => SomeStored(d, spec[d])'
        /\ step[d] = "blobs" => SomeStored(d, external[d])'
        /\ step[d] = "add" => AllStored(d, draft[d])' /\ (d \in DOMAIN spec => AsSpecified(d, draft[d])')
    BY <1>3, <1>4, <2>1 DEF ComponentInv, SomeStored, AllStored, AsSpecified, Refers, Steady
  <2>4. target'[d] = target[d] \/ d \in raced'
    BY <1>3
  <2> QED BY <1>3, <2>1, <2>2, <2>3, <2>4 DEF ComponentInv, References
<1>8. ASSUME NEW d \in Component PROVE ExternalInv(d)' /\ LastingInv(d)'
  <2>1. ExternalInv(d) /\ LastingInv(d)
    BY DEF IInv
  <2>2. CASE d = c
    <3>1. ExternalInv(d)'
      <4>1. ExternalInv(d) /\ Lasts(external[d]) => Lasts(external[d])'
        BY <1>3, <1>4, SteadyFound DEF Steady, Lasts
      <4>2. target[d] # None => target'[d] # None /\ (target'[d] = target[d] \/ d \in overwritten')
        BY <1>4 DEF Steady
      <4> QED BY <1>3, <1>4, <2>1, <2>2, <4>1, <4>2 DEF ExternalInv, Superseded, Steady
    <3>2. Lasts(target[d])'
      BY <1>2, <1>3, <1>4, <2>2, SteadyFound DEF Lasts, Steady
    <3>3. AllStored(d, target[d])'
      <4>1. target'[d].content = v.content
        <5>1. target'[d] = version
          BY <1>3, <2>2
        <5> QED BY <1>2, <5>1
      <4>2. \A l \in Local[c] : Blob(c, v, l) \in blobs'
        BY <1>1
      <4> QED BY <2>2, <4>1, <4>2 DEF AllStored, Blob
    <3> QED BY <3>1, <3>2, <3>3 DEF LastingInv
  <2>3. CASE d # c
    BY <1>3, <1>4, <2>1, <2>3, ExternalKeeps, TargetKeeps
  <2> QED BY <2>2, <2>3
<1> QED BY <1>5, <1>7, <1>8 DEF IInv

-----------------------------------------------------------------------------
\* A call begins with nothing done, and with a graph that holds all references.
LEMMA BeginKeeps ==
  ASSUME IInv, Begin
  PROVE  IInv'
<1>1. /\ UNCHANGED <<policy, copy, target, blobs, overwritten>> /\ MapsInv'
      /\ running' = {} /\ succeeded' = {} /\ failed' = {} /\ outcome' = "none"
      /\ \A c \in Component : step'[c] = "idle" /\ external'[c] = External(c)
  BY DEF Begin, options, IInv, MapsInv, IsMap, Idle, Nothing
<1>2. PICK s \in Specs :
        /\ IsDiscovered(s, external')
        /\ spec' = s /\ nodes' = Discovered(s, external') /\ edges' = ReferenceEdges(s, external')
  BY DEF Begin
<1>3. \A c \in Component : DOMAIN external'[c].refs \subseteq Component
  BY <1>1, PublishedFacts DEF External, IInv, LastingInv, Lasts
<1>4. \A c \in nodes' : References(s, external', c) \subseteq Into(edges', c)
  <2> SUFFICES ASSUME NEW c \in nodes', NEW r \in References(s, external', c) PROVE r \in Into(edges', c)
    OBVIOUS
  <2>1. r \in nodes'
    BY <1>2, <1>3, DiscoveredClosed
  <2>2. <<r, c>> \in edges'
    BY <1>2, <2>1 DEF ReferenceEdges
  <2> QED BY <2>2 DEF Into
<1>5. DOMAIN s \subseteq nodes' /\ nodes' \subseteq Component
  BY <1>2, SpecifiedDiscovered DEF Discovered, ReachableFrom
<1>6. GraphInv' /\ RunInv'
  BY <1>1, <1>2, <1>4, <1>5 DEF GraphInv, RunInv, References
<1>7. ASSUME NEW c \in Component PROVE ComponentInv(c)'
  BY <1>1 DEF ComponentInv
<1>8. ASSUME NEW c \in Component PROVE LastingInv(c)'
  BY <1>1, TargetKeeps DEF Steady, IInv
<1>9. ASSUME NEW c \in Component PROVE ExternalInv(c)'
  <2> SUFFICES ASSUME c \in nodes' \ DOMAIN s
               PROVE  /\ external'[c] # None
                      /\ c \in DOMAIN Published => external'[c] = Published[c]
                      /\ c \notin DOMAIN Published =>
                           target'[c] # None /\ Lasts(external[c])' /\ external'[c] = target'[c]
    BY <1>2 DEF ExternalInv
  <2>1. external'[c] # None
    BY <1>2 DEF IsDiscovered
  <2>2. c \notin DOMAIN Published => Lasts(external[c])'
    BY <1>1 DEF External, IInv, LastingInv, Lasts, Found
  <2> QED BY <1>1, <2>1, <2>2 DEF External
<1> QED BY <1>1, <1>6, <1>7, <1>8, <1>9 DEF IInv

\* A call that returns leaves what its components have come to.
LEMMA ReturnsKeep ==
  ASSUME IInv, Returns \/ UNCHANGED vars
  PROVE  IInv'
<1>1. /\ UNCHANGED <<policy, copy, spec, external, nodes, edges, target, blobs, step, left, draft, processed>>
      /\ UNCHANGED <<raced, overwritten, running, succeeded, failed>>
      /\ outcome' = outcome \/ (outcome' = "ok" => succeeded = nodes)
  <2>1. CASE Returns
    BY <2>1 DEF Returns, Exec!Return, options, history
  <2>2. CASE UNCHANGED vars
    BY <2>2 DEF vars, options, graph, call, history
  <2> QED BY <2>1, <2>2
<1>2. MapsInv' /\ GraphInv' /\ RunInv'
  BY <1>1 DEF IInv, MapsInv, IsMap, GraphInv, RunInv, References, Into
<1>3. Steady
  BY <1>1 DEF Steady
<1>4. ASSUME NEW c \in Component PROVE ComponentInv(c)'
  <2>1. ComponentInv(c)
    BY DEF IInv
  <2> QED BY <1>1, <2>1 DEF ComponentInv, SomeStored, AllStored, Refers, AsSpecified, IsPlaced, Superseded,
             Found, External, References, Blob
<1>5. ASSUME NEW c \in Component PROVE ExternalInv(c)' /\ LastingInv(c)'
  BY <1>1, <1>3, ExternalKeeps, TargetKeeps DEF IInv
<1> QED BY <1>2, <1>4, <1>5 DEF IInv

\* Of a call that is killed only the target is left.
LEMMA KilledKeeps ==
  ASSUME IInv, Killed
  PROVE  IInv'
<1>1. /\ UNCHANGED <<policy, copy, target, blobs, overwritten>> /\ MapsInv'
      /\ spec' = << >> /\ nodes' = {} /\ running' = {} /\ succeeded' = {} /\ outcome' = "cancelled"
      /\ \A c \in Component : step'[c] = "idle"
  BY DEF Killed, options, IInv, MapsInv, IsMap, Idle, Nothing
<1>2. GraphInv' /\ RunInv'
  <2>1. DOMAIN << >> = {}
    OBVIOUS
  <2> QED BY <1>1, <2>1 DEF GraphInv, RunInv
<1>3. ASSUME NEW c \in Component PROVE ComponentInv(c)' /\ ExternalInv(c)'
  BY <1>1 DEF ComponentInv, ExternalInv
<1>4. ASSUME NEW c \in Component PROVE LastingInv(c)'
  BY <1>1, TargetKeeps DEF Steady, IInv
<1> QED BY <1>1, <1>2, <1>3, <1>4 DEF IInv

\* The invariant holds whenever and however often Construct is called.
LEMMA InvAlways == Spec => []IInv
<1>1. Init => IInv
  <2> SUFFICES ASSUME Init PROVE IInv
    OBVIOUS
  <2>1. DOMAIN << >> = {}
    OBVIOUS
  <2>2. GraphInv /\ RunInv /\ MapsInv
    BY <2>1 DEF Init, GraphInv, RunInv, MapsInv, IsMap, Nothing, Idle
  <2>3. ASSUME NEW c \in Component PROVE ComponentInv(c) /\ ExternalInv(c) /\ LastingInv(c)
    BY NoneRefers DEF Init, ComponentInv, ExternalInv, LastingInv, Lasts, Nothing, Idle
  <2> QED BY <2>2, <2>3 DEF IInv
<1>2. ASSUME IInv, NEW c \in Component, Constructs(c) \/ Breaks(c)
      PROVE  IInv'
  <2>1. Touches(c)
    BY <1>2, StepsTouch
  <2>2. ComponentInv(c)'
    <3>1. ExistsAlready(c) \/ Mismatches(c) \/ Breaks(c) => Fails(c)
      BY DEF ExistsAlready, Mismatches, Breaks
    <3>2. c \notin succeeded
      BY <2>1 DEF Touches
    <3> QED BY <1>2, <3>1, <3>2, ChecksKeep, FailsKeep, UploadsKeep, SkipsKeep, BuildsKeep, CopiesKeep,
               CopiedKeep, AddsKeep, StoresKeep DEF Constructs
  <2>3. ExternalInv(c)' /\ LastingInv(c)'
    <3>1. CASE Adds(c)
      BY <1>2, <3>1, AddsKeep
    <3>2. CASE ~ Adds(c)
      <4>1. target' = target
        BY <1>2, <3>2 DEF Constructs, Start, Checks, ExistsAlready, Mismatches, Breaks, Fails, Skips,
           Uploads, Builds, Copies, Copied, Stores
      <4> QED BY <1>2, <2>1, <4>1, NoWrite
    <3> QED BY <3>1, <3>2
  <2> QED BY <1>2, <2>1, <2>2, <2>3, TouchKeepsRun, OthersKeep DEF IInv
<1>3. IInv /\ [Next]_vars => IInv'
  BY <1>2, BeginKeeps, ReturnsKeep, KilledKeeps, OtherWritesKeep DEF Next
<1> QED BY <1>1, <1>3, PTL DEF Spec

\* What the target holds can be read to the end: references and blobs are
\* there, whatever call failed or was killed (construct.go, "reverse topological
\* order") and whatever other clients have written.
THEOREM TargetAlwaysClosed == Spec => []TargetClosed
<1>1. IInv => TargetClosed
  BY DEF IInv, LastingInv, Lasts, TargetClosed, AllStored
<1> QED BY <1>1, InvAlways, PTL

\* The digests in the target are those of what is found, but for what was
\* overwritten, and a call that succeeds leaves those of what it has processed.
THEOREM DigestsAlwaysMatch == Spec => []DigestsMatch
<1>1. IInv => DigestsMatch
  <2> SUFFICES ASSUME IInv PROVE DigestsMatch
    OBVIOUS
  <2>1. ASSUME policy # "replace", NEW c \in Component PROVE Agrees(c, overwritten)
    BY <2>1 DEF IInv, LastingInv, Lasts, Agrees, Digest
  <2>2. ASSUME outcome = "ok", policy # "skip", NEW c \in DOMAIN spec \ raced PROVE Agrees(c, raced)
    <3> SUFFICES ASSUME NEW r \in DOMAIN target[c].refs, r \notin raced \cup Disputed
                 PROVE  target[c].refs[r] = Found(r)
      BY DEF Agrees, Digest
    <3>1. c \in succeeded /\ c \in Component
      BY <2>2 DEF IInv, RunInv, GraphInv
    <3>2. AsSpecified(c, target[c])
      BY <2>2, <3>1 DEF IInv, ComponentInv, IsPlaced
    <3>3. r \in succeeded /\ target[c].refs[r] = processed[r] /\ r \in Component
      BY <3>2 DEF IInv, RunInv, GraphInv, AsSpecified, Refers
    <3> QED BY <3>3 DEF IInv, ComponentInv, IsPlaced, Superseded
  <2> QED BY <2>1, <2>2 DEF DigestsMatch
<1> QED BY <1>1, InvAlways, PTL

\* A call that succeeds has added what was specified.
THEOREM OkAlwaysMeansAdded == Spec => []OkMeansAdded
<1>1. IInv => OkMeansAdded
  <2> SUFFICES ASSUME IInv, outcome = "ok", NEW c \in DOMAIN spec
               PROVE  /\ target[c] # None
                      /\ policy # "skip" /\ c \notin raced => target[c].content = spec[c].content
    BY DEF OkMeansAdded
  <2>1. c \in succeeded /\ c \in Component
    BY DEF IInv, RunInv, GraphInv
  <2>2. IsPlaced(c, processed[c])
    BY <2>1 DEF IInv, ComponentInv
  <2> QED BY <2>2 DEF IsPlaced, AsSpecified
<1> QED BY <1>1, InvAlways, PTL

\* Unless versions are to be replaced, one is only replaced when a call could not
\* have seen it (cmd.go, "gives no guarantee") or a copy is written over it.
THEOREM OverwritesAreUnseen == Spec => OnlyUnseenOverwritten
<1>1. IInv /\ [Next]_vars =>
        [policy # "replace" =>
           \A c \in Component : target[c] # None /\ target'[c] # target[c] =>
             c \in raced' \/ (copy /\ c \in DOMAIN Published \ DOMAIN spec)]_vars
  <2> SUFFICES ASSUME IInv, Next, policy # "replace", NEW c \in Component,
                      target[c] # None, target'[c] # target[c]
               PROVE  c \in raced' \/ (copy /\ c \in DOMAIN Published \ DOMAIN spec)
    OBVIOUS
  <2>1. CASE \E d \in Component : OtherWrites(d)
    BY <2>1 DEF OtherWrites, Writes, IInv, MapsInv, IsMap
  <2>2. CASE \E d \in Component : Constructs(d) \/ Breaks(d)
    <3>1. PICK d \in Component : Constructs(d) \/ Breaks(d)
      BY <2>2
    <3>2. d = c
      BY <3>1, StepsTouch DEF Touches
    <3>3. Adds(c)
      BY <3>1, <3>2 DEF Constructs, Start, Checks, ExistsAlready, Mismatches, Breaks, Fails, Skips,
         Uploads, Builds, Copies, Copied, Stores
    <3>4. step[c] = "add" /\ target'[c] = draft[c] /\ raced' = raced
      BY <3>3 DEF Adds, Writes, IInv, MapsInv, IsMap
    <3>5. ComponentInv(c) /\ ExternalInv(c) /\ (c \in running => c \in nodes)
      BY DEF IInv, RunInv
    <3> QED BY <3>4, <3>5 DEF ComponentInv, ExternalInv, Superseded
  <2>3. CASE Begin \/ Returns \/ Killed
    BY <2>3 DEF Begin, Returns, Killed
  <2> QED BY <2>1, <2>2, <2>3 DEF Next
<1> QED BY <1>1, InvAlways, PTL DEF Spec, OnlyUnseenOverwritten
=============================================================================
