------------------------------ MODULE CTFStore ------------------------------
(***************************************************************************)
(* Component versions in a CTF archive: the calls of the OCI repository    *)
(* (oci/repository.go) over the store of an archive (oci/ctf/store.go,     *)
(* referrers.go), down to the writes of files (ctf/filesystem_ctf.go).     *)
(*                                                                         *)
(* One archive holds the repositories of many components and images, with  *)
(* one index and one set of blobs.  A call of the repository is a series   *)
(* of calls of the store.  A call of the store holds the archive's lock;   *)
(* what stops it, an error or the death of the program, leaves the writes  *)
(* it has done.                                                            *)
(*                                                                         *)
(* A digest is what it is computed from.  The referrers of a subject are   *)
(* kept as a list in a blob of its own, so that blob is the list.          *)
(***************************************************************************)
EXTENDS ArtifactIndex, FiniteSets

CONSTANTS
  Repo, Process,
  Manifest,           \* image, referrer and component version manifests
  Subject,            \* what a manifest refers to as its subject, or NoSubject
  NoSubject,
  Layers,             \* the layers of a manifest
  Versions,           \* of a repository: the component version manifests of its component
  VersionOf,          \* the version such a manifest is annotated with
  Locals,             \* the images it has as local blobs
  Images,
  Attached,           \* the referrers an image has where it is copied from
  Ownership,          \* of a repository and an image: the referrer that names the component
  Index,              \* the well-known manifest all component versions refer to
  Alias,
  MaxCalls, MaxFaults \* bounds

VARIABLES
  blobs, index,       \* the files of the archive
  job,                \* of each process: the call of the repository it runs
  calls, faults,
  attached, lost, shared  \* history, for the properties: referrers pushed, lists that were
                          \* lost, subjects with one list in two repositories

disk    == <<blobs, index>>
history == <<attached, lost, shared>>
vars    == <<disk, job, calls, faults, history>>

VersionTag(v)    == <<"version", v>>
AliasTag(a)      == <<"alias", a>>
ReferrersTag(s)  == <<"referrers", s>>

Subjects == {Subject[m] : m \in Manifest} \ {NoSubject}

\* What is pushed: manifests and their layers.
Content == Manifest \cup UNION {Layers[m] : m \in Manifest}

ASSUME ManifestsAssumption ==
  /\ NoSubject \notin Manifest /\ Index \in Manifest /\ Images \subseteq Manifest
  /\ \A m \in Manifest : /\ Subject[m] \in Manifest \cup {NoSubject} /\ Locals[m] \subseteq Manifest
                         /\ IsFiniteSet(Layers[m])
  /\ \A i \in Images : Attached[i] \subseteq Manifest /\ IsFiniteSet(Attached[i])
  /\ \A r \in Repo : Versions[r] \subseteq Manifest /\ \A i \in Images : Ownership[r][i] \in Manifest

\* A list of referrers, which begins with a manifest, is neither another blob nor
\* a tag, and a tag is no blob.
ASSUME DigestsAssumption ==
  /\ Content \cap Seq(Manifest) = {} /\ Untagged \notin Content
  /\ {"none", "version", "alias", "referrers"} \cap Manifest = {}
  /\ \A s \in Subjects : ReferrersTag(s) \notin Content
  /\ \A a \in Alias : AliasTag(a) \notin Content
  /\ \A r \in Repo : \A m \in Versions[r] : VersionTag(VersionOf[m]) \notin Content

\* The referrer policy of a repository is one for all its component versions.
ASSUME PolicyAssumption ==
  \A r \in Repo : \A m, n \in Versions[r] : Subject[m] = Index => Subject[n] = Index

Idle == [kind |-> "idle", repo |-> NoSubject, todo |-> << >>, expect |-> {}, answer |-> {}]

Init ==
  /\ blobs = {} /\ index = << >> /\ job = [p \in Process |-> Idle]
  /\ calls = 0 /\ faults = 0 /\ attached = {} /\ lost = {} /\ shared = {}

-----------------------------------------------------------------------------
(* The store. *)

Unresolved == [digest |-> NoSubject, indexed |-> FALSE]

\* resolve: the first entry, which may have lost its blob; else a blob.
Resolve(r, ref) ==
  LET found == Matches(index, r, ref)
      d     == index[First(found)].digest
  IN IF found = {}
     THEN IF ref \in blobs THEN [digest |-> ref, indexed |-> FALSE] ELSE Unresolved
     ELSE IF d \in blobs THEN [digest |-> d, indexed |-> TRUE] ELSE Unresolved

Referrers(r, s) == IF Resolve(r, ReferrersTag(s)) = Unresolved THEN << >>
                   ELSE Resolve(r, ReferrersTag(s)).digest

Elements(list) == {list[i] : i \in DOMAIN list}

\* mutant of Listed: the list begins anew with each referrer
ListedAlone(list, m) == <<m>>

\* addReferrer
Listed(list, m) == IF m \in Elements(list) THEN list ELSE Append(list, m)

\* pushManifest and updateReferrersIndex: the files after each of their writes,
\* a prefix of which is done when the call stops early.
PushWrites(r, m) ==
  LET s        == Subject[m]
      old      == Referrers(r, s)
      new      == Listed(old, m)
      saved    == blobs \cup {m}
      relisted == saved \cup {new}
      cleaned  == relisted \ {old}
      indexed  == AddArtifact(index, Entry(r, Untagged, m))
      untagged == IF old = << >> THEN indexed ELSE RemoveTag(indexed, r, ReferrersTag(s))
  IN IF m \notin Manifest THEN << <<saved, index>> >>
     ELSE IF s = NoSubject \/ new = old THEN << <<saved, index>>, <<saved, indexed>> >>
     ELSE << <<saved, index>>, <<relisted, index>>, <<cleaned, index>>,
             <<cleaned, AddArtifact(untagged, Entry(r, ReferrersTag(s), new))>> >>

-----------------------------------------------------------------------------
(* The calls of the repository, as the calls of the store they make. *)

Push(d)    == [do |-> "push", of |-> d, tag |-> Untagged]
Copy(d)    == [do |-> "copy", of |-> d, tag |-> Untagged]
Tag(d, t)  == [do |-> "tag", of |-> d, tag |-> t]
Own(i)     == [do |-> "own", of |-> i, tag |-> Untagged]
Untag(t)   == [do |-> "untag", of |-> NoSubject, tag |-> t]
Lookup(t)  == [do |-> "resolve", of |-> NoSubject, tag |-> t]

\* The calls in one of the orders they may be made in.
Order(S) == CHOOSE f \in [1 .. Cardinality(S) -> S] : \A x \in S : \E i \in DOMAIN f : f[i] = x
Each(Call(_), S) == [i \in 1 .. Cardinality(S) |-> Call(Order(S)[i])]

Begin(p, k, r, todo, expect) ==
  /\ job[p].todo = << >> /\ calls < MaxCalls /\ calls' = calls + 1
  /\ job' = [job EXCEPT ![p] = [kind |-> k, repo |-> r, todo |-> todo, expect |-> expect, answer |-> {}]]
  /\ UNCHANGED <<disk, faults, history>>

\* AddDescriptorToStore and the tag: layers, then the manifest, then the tag.
AddDescriptor(p, r, m) ==
  Begin(p, "add", r,
        (IF Subject[m] = Index THEN <<Copy(Index)>> ELSE << >>) \o Each(Push, Layers[m])
          \o <<Push(m), Tag(m, VersionTag(VersionOf[m]))>>, {})

\* identifyLocalBlobManifestsAndLayers: all resolve.
LocalBlobsFound(r, m) == \A i \in Locals[m] : Resolve(r, i) # Unresolved

AddComponentVersion(p, r) == \E m \in Versions[r] : LocalBlobsFound(r, m) /\ AddDescriptor(p, r, m)

\* ResourceLocalBlobOCILayout: an image is copied with what refers to it.
CopyLayout(i) == IF Attached[i] = {} THEN <<Copy(i)>> ELSE Each(Copy, Attached[i])

\* AddLocalResource with an image.  A caller may have the ownership attached then.
AddLocalResource(p, r) == \E i \in Images, own \in BOOLEAN :
  Begin(p, IF own THEN "own" ELSE "upload", r,
        CopyLayout(i) \o (IF own THEN <<Own(i)>> ELSE << >>), IF own THEN {i} ELSE {})

\* validate.ComponentVersionDescriptor of what a tag stands for
IsVersion(r, t) == Resolve(r, t).digest \in Versions[r]

AddAlias(p, r) == \E m \in Versions[r], a \in Alias :
  LET t == VersionTag(VersionOf[m])
  IN IsVersion(r, t) /\ Begin(p, "alias", r, <<Tag(Resolve(r, t).digest, AliasTag(a))>>, {})

RemoveAlias(p, r) == \E a \in Alias :
  IsVersion(r, AliasTag(a)) /\ Begin(p, "unalias", r, <<Untag(AliasTag(a))>>, {})

Tags(r) == {index[i].tag : i \in {j \in DOMAIN index : index[j].repo = r}} \ {Untagged}

TaggedVersions(r) == {VersionOf[m] : m \in {n \in Versions[r] : VersionTag(VersionOf[n]) \in Tags(r)}}

\* ReferrerAnnotationVersionResolver
VersionsAmong(r, S) == {VersionOf[m] : m \in S \cap Versions[r]}

\* listViaReferrrers: all at once.
ListViaReferrers(p, r) ==
  /\ job[p].todo = << >> /\ calls < MaxCalls /\ calls' = calls + 1
  /\ job' = [job EXCEPT ![p] = [kind |-> "list", repo |-> r, todo |-> << >>, expect |-> TaggedVersions(r),
                                answer |-> VersionsAmong(r, Elements(Referrers(r, Index)))]]
  /\ UNCHANGED <<disk, faults, history>>

\* listViaTags: the tags at once, then what each of them stands for.
ListViaTags(p, r) == Begin(p, "list", r, Each(Lookup, Tags(r)), TaggedVersions(r))

\* ListComponentVersions: the referrers of the well-known manifest, if the
\* component versions have it as their subject and there are any; else the tags.
ListComponentVersions(p, r) ==
  /\ Versions[r] # {}
  /\ IF (\E m \in Versions[r] : Subject[m] = Index) /\ VersionsAmong(r, Elements(Referrers(r, Index))) # {}
     THEN ListViaReferrers(p, r)
     ELSE ListViaTags(p, r)

-----------------------------------------------------------------------------
(* The calls of the store a process makes. *)

At(p, call) == job[p].todo # << >> /\ Head(job[p].todo).do = call

\* What a listing has found, and that ownership was attached, is kept.
Next1(p)     == [job EXCEPT ![p] = IF Len(@.todo) = 1 /\ @.kind \notin {"list", "own"} THEN Idle
                                   ELSE [@ EXCEPT !.todo = Tail(job[p].todo)]]
Failed(p)    == [job EXCEPT ![p] = Idle]
Write(p, d)  == blobs' = d[1] /\ index' = d[2] /\ job' = Next1(p)

Dangling == {l \in Repo \X Subjects :
               \E i \in Holders(index, l[1], ReferrersTag(l[2])) : index[i].digest \notin blobs}
Shared   == {s \in Subjects : \E q, r \in Repo : q # r /\ Referrers(q, s) \in {Referrers(r, s)} \ {<< >>}}

Remember == lost' = lost \cup Dangling' /\ shared' = shared \cup Shared'

PushStep(p) ==
  LET r == job[p].repo
      m == Head(job[p].todo).of
      w == PushWrites(r, m)
  IN /\ At(p, "push")
     /\ Write(p, w[Len(w)])
     /\ IF m \in Manifest /\ Subject[m] # NoSubject
        THEN attached' = attached \cup {<<r, Subject[m], m>>} /\ Remember
        ELSE UNCHANGED history
     /\ UNCHANGED <<calls, faults>>

\* A step of oras' CopyGraph: nothing for what the archive has, else its
\* successors are copied and then it is pushed.
CopyStep(p) ==
  LET m    == Head(job[p].todo).of
      down == IF m \in Manifest THEN Layers[m] \cup ({Subject[m]} \ {NoSubject}) ELSE {}
  IN /\ At(p, "copy")
     /\ job' = IF m \in blobs THEN Next1(p)
               ELSE [job EXCEPT ![p].todo = Each(Copy, down) \o <<Push(m)>> \o Tail(@)]
     /\ UNCHANGED <<disk, calls, faults, history>>

\* AddOwnership of a local blob: a subject that does not resolve is an error,
\* one that resolves to something other than a manifest gets no referrer.
AddOwnership(p) ==
  LET i     == Head(job[p].todo).of
      found == Resolve(job[p].repo, i)
  IN /\ At(p, "own")
     /\ job' = IF found = Unresolved THEN Failed(p)
               ELSE IF ~ found.indexed THEN Next1(p)
               ELSE [job EXCEPT ![p].todo = <<Push(Ownership[job[p].repo][i])>> \o Tail(@)]
     /\ UNCHANGED <<disk, calls, faults, history>>

TagStep(p) ==
  LET c == Head(job[p].todo)
  IN /\ At(p, "tag")
     /\ IF c.of \in blobs
        THEN Write(p, <<blobs, AddArtifact(index, Entry(job[p].repo, c.tag, c.of))>>)
        ELSE job' = Failed(p) /\ UNCHANGED disk
     /\ UNCHANGED <<calls, faults, history>>

UntagStep(p) ==
  LET t == Head(job[p].todo).tag
  IN /\ At(p, "untag")
     /\ IF Holders(index, job[p].repo, t) # {}
        THEN Write(p, <<blobs, RemoveTag(index, job[p].repo, t)>>)
        ELSE job' = Failed(p) /\ UNCHANGED disk
     /\ UNCHANGED <<calls, faults, history>>

\* ReferenceTagVersionResolver: a tag that does not resolve ends the listing, one
\* that is no component version is passed over.
ResolveStep(p) ==
  LET found == Resolve(job[p].repo, Head(job[p].todo).tag)
  IN /\ At(p, "resolve")
     /\ job' = IF found = Unresolved THEN Failed(p)
               ELSE [Next1(p) EXCEPT ![p].answer = @ \cup VersionsAmong(job[p].repo, {found.digest})]
     /\ UNCHANGED <<disk, calls, faults, history>>

\* An error ends the call of one process, the death of the program all.
Stop ==
  /\ faults < MaxFaults /\ faults' = faults + 1
  /\ \E p \in Process :
       LET w == IF At(p, "push") THEN PushWrites(job[p].repo, Head(job[p].todo).of) ELSE << >>
       IN /\ job[p].todo # << >>
          /\ \E k \in 0 .. Len(w) :
               /\ k < Len(w) \/ k = 0
               /\ IF k = 0 THEN UNCHANGED disk ELSE blobs' = w[k][1] /\ index' = w[k][2]
          /\ \E ended \in {{p}, Process} : job' = [q \in Process |-> IF q \in ended THEN Idle ELSE job[q]]
  /\ Remember
  /\ UNCHANGED <<calls, attached>>

Call(p) == \E r \in Repo : \/ AddComponentVersion(p, r) \/ AddLocalResource(p, r)
                           \/ AddAlias(p, r) \/ RemoveAlias(p, r) \/ ListComponentVersions(p, r)

Step(p) == PushStep(p) \/ CopyStep(p) \/ AddOwnership(p) \/ TagStep(p) \/ UntagStep(p) \/ ResolveStep(p)

Next == Stop \/ \E p \in Process : Call(p) \/ Step(p)

Spec == Init /\ [][Next]_vars

-----------------------------------------------------------------------------
(* Properties *)

\* A tag of a repository stands for one digest, whatever was tagged, retagged
\* and untagged before, and pushed again (AddArtifact).
OneDigestPerTag == \A r \in Repo : \A t \in Tags(r) : \E d \in {e.digest : e \in Elements(index)} :
                     TagOf(index, r, t) = {d}

\* What is tagged as a component version or an alias is all there, with its
\* layers and its local blobs, also after a call was stopped anywhere.
TaggedIsComplete == \A e \in Elements(index) :
  e.tag # Untagged /\ e.digest \in Manifest => {e.digest} \cup Layers[e.digest] \cup Locals[e.digest] \subseteq blobs

\* A tag names one artifact, and all of it.
TagsNameArtifacts == OneDigestPerTag /\ TaggedIsComplete

\* The names of component versions and their aliases.
Names(r) == {VersionTag(VersionOf[m]) : m \in Versions[r]} \cup {AliasTag(a) : a \in Alias}
Name     == UNION {Names(r) : r \in Repo}

\* An archive as a registry: what a version consists of, what each name stands
\* for, and the name a process is still to give or to take away, the last thing
\* it does.
Parts  == [m \in UNION {Versions[r] : r \in Repo} |-> {m} \cup Layers[m] \cup Locals[m]]
Stored == blobs \cap Content

The(S) == IF S = {} THEN NoSubject ELSE CHOOSE d \in S : TRUE
Named  == [r \in Repo |-> [n \in Name |-> The(TagOf(index, r, n))]]

Asks(r, todo) ==
  LET c == todo[Len(todo)]
  IN IF todo # << >> /\ c.do \in {"tag", "untag"}
     THEN [repo |-> r, name |-> c.tag, artifact |-> c.of]
     ELSE [repo |-> NoSubject, name |-> NoSubject, artifact |-> NoSubject]
Asked == [p \in Process |-> Asks(job[p].repo, job[p].todo)]

Registry == INSTANCE TagRegistry WITH None <- NoSubject, tags <- Named, content <- Stored, asked <- Asked

\* Whatever its calls write and in which order, and wherever they stop, the
\* archive gives and takes away the names of versions and aliases at one moment
\* each, on request only, and gives one only to what is all there: no push, no
\* retagging of another tag, no call in another repository of the archive and no
\* loss of a referrers list moves it.
Implements == Registry!Spec

\* A referrer whose push returned is listed for its subject, as long as the list
\* was not lost.  A list is lost only where a call was stopped, or where another
\* repository of the archive had the same list, whose blob is then the same too.
ReferrersKept ==
  /\ \A x \in attached : x[3] \in Elements(Referrers(x[1], x[2])) \/ <<x[1], x[2]>> \in lost
  /\ \A l \in lost : faults > 0 \/ l[2] \in shared

\* A listing that succeeds has every version that was tagged when it began, by
\* referrers or by tags, unless the list of referrers was lost.
ListingIsComplete == \A p \in Process :
  job[p].kind = "list" /\ job[p].todo = << >> =>
    job[p].expect \subseteq job[p].answer \/ <<job[p].repo, Index>> \in lost

\* Where attaching the ownership has succeeded, the referrer is listed for the
\* image (AddOwnership: "The ownership is attached as a referrer manifest
\* pointing at the resource").
OwnershipAttached == \A p \in Process :
  job[p].kind = "own" /\ job[p].todo = << >> =>
    \A i \in job[p].expect : Ownership[job[p].repo][i] \in Elements(Referrers(job[p].repo, i))
=============================================================================
