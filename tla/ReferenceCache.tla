--------------------------- MODULE ReferenceCache ---------------------------
(***************************************************************************)
(* ReferenceCache of src/bindings/go/oci/cache/reference_cache.go and the  *)
(* calls of repository.go that go through it: Resolve, Tag and Untag by    *)
(* concurrent processes, against a registry other clients change too, with *)
(* restarts of the program.                                                *)
(*                                                                         *)
(* The memory is an expirable LRU with a lock of its own; the disk has one *)
(* snapshot file per namespace, rewritten as a whole under c.mu from what  *)
(* the LRU holds.  An eviction marks its namespace, and the next Add       *)
(* rewrites the marked ones.  A step of a process is the code between two  *)
(* lock sections or remote calls.  A rewrite is two: LRU.Keys, then Peek   *)
(* of each of them and the rename.                                         *)
(***************************************************************************)
EXTENDS Naturals, Sequences, FiniteSets, SequencesExt

CONSTANTS
  Proc, NoProc,               \* goroutines that use the repository
  Ref, NoRef, Digest,         \* references and the digests among them
  Namespace, NS,              \* repositories, and the one of each reference
  Desc, NoDesc,               \* descriptors; the answer "not found" or an error
  Policies,                   \* choices of opts.RemotePolicy: "IfNotPresent", "Always"
  MaxEntries,                 \* opts.MaxEntries
  RequestedTTL, DefaultTTL,   \* Options.TTL as given, and of Defaults
  MaxTime, MaxRestarts,       \* bounds
  Start                       \* what the registry holds at first

\* saved is the SavedAt of the entry; born is history, when it was resolved.
NoEntry == [desc |-> NoDesc, saved |-> 0, born |-> 0, expires |-> 0]
NoWrite == [by |-> NoProc, ns |-> NoRef, keys |-> {}]

ASSUME ReferenceCacheAssumption ==
  /\ NoProc \notin Proc /\ NoRef \notin Ref \cup Namespace /\ NoDesc \notin Desc
  /\ IsFiniteSet(Ref) /\ Digest \subseteq Ref /\ NS \in [Ref -> Namespace]
  /\ Policies \subseteq {"IfNotPresent", "Always"}
  /\ MaxEntries \in Nat \ {0} /\ RequestedTTL \in Nat /\ DefaultTTL \in Nat \ {0}
  /\ MaxTime \in Nat /\ MaxRestarts \in Nat /\ Start \in [Ref -> Desc \cup {NoDesc}]

VARIABLES
  policy,         \* opts.RemotePolicy
  remote,         \* the registry: descriptor of each reference
  now,            \* the clock
  order, mem,     \* the LRU: references from oldest to newest, their entries
  disk,           \* the entry of each reference in its namespace's file
  evicted,        \* namespacesWithEvictedRefs
  writing,        \* the rewrite that holds c.mu
  flight,         \* singleflight: the leader of each reference
  pc, ref, got,   \* of each process: where it is, its reference, descriptor
  todo,           \* namespaces it still has to rewrite
  seen,           \* history: what the registry held during its call
  answer,         \* history: what the last call to return gave, see Finish
  gone,           \* history: untagged, and not overlapped or tagged since
  unsaved,        \* history: namespaces whose last rewrite failed
  restarts

lru   == <<order, mem, evicted>>
files == <<disk, writing, unsaved>>
world == <<policy, remote, now, restarts>>
calls == <<pc, ref, got, todo, seen, flight>>
vars  == <<lru, files, world, calls, answer, gone>>

NoAnswer == [ref |-> NoRef, desc |-> NoDesc, seen |-> {}, flew |-> {}]

Init ==
  /\ policy \in Policies /\ remote = Start /\ now = 0 /\ restarts = 0
  /\ order = <<>> /\ mem = [r \in Ref |-> NoEntry] /\ evicted = {}
  /\ disk = [r \in Ref |-> NoEntry] /\ writing = NoWrite /\ unsaved = {}
  /\ pc = [p \in Proc |-> "idle"] /\ ref = [p \in Proc |-> NoRef]
  /\ got = [p \in Proc |-> NoDesc] /\ todo = [p \in Proc |-> {}]
  /\ seen = [p \in Proc |-> {}] /\ flight = [r \in Ref |-> NoProc]
  /\ answer = NoAnswer /\ gone = {}

Goto(p, l) == pc' = [pc EXCEPT ![p] = l]

-----------------------------------------------------------------------------
\* The LRU.  An entry that has expired stays until it is removed, but Get,
\* Keys and Peek pass over it.
TTL == IF RequestedTTL = 0 THEN DefaultTTL ELSE RequestedTTL

Live(r) == mem[r] # NoEntry /\ now <= mem[r].expires

KeepsOld(s, r) == Append(s, r)                     \* mutant of Newest
Newest(s, r) == Append(RemoveFirst(s, r), r)

\* lru.Add: r becomes the newest; past MaxEntries the oldest is evicted, and
\* its namespace marked by the callback.
LruAdd(r, d) ==
  LET s    == Newest(order, r)
      out  == IF Len(s) > MaxEntries THEN {Head(s)} ELSE {}
  IN  /\ order' = IF out = {} THEN s ELSE Tail(s)
      /\ mem' = [x \in Ref |-> IF x \in out THEN NoEntry
                               ELSE IF x = r
                               THEN [desc |-> d, saved |-> now, born |-> now, expires |-> now + TTL]
                               ELSE mem[x]]
      /\ evicted' = evicted \cup {NS[x] : x \in out}

\* Remove and expiry run the callback as well.
LruRemove(r) ==
  /\ order' = RemoveFirst(order, r)
  /\ mem' = [mem EXCEPT ![r] = NoEntry]
  /\ evicted' = IF mem[r] = NoEntry THEN evicted ELSE evicted \cup {NS[r]}

\* Only a digest is ever served from memory.
ServesAnything(r) == policy = "IfNotPresent"       \* mutant of Servable
Servable(r) == policy = "IfNotPresent" /\ r \in Digest

\* The processes P are back from their calls and rest; one of the answers is
\* kept, with what the registry held during that call and during the flight.
Finish(P, d, flew) ==
  /\ pc' = [p \in Proc |-> IF p \in P THEN "idle" ELSE pc[p]]
  /\ \E p \in P : answer' = [ref |-> ref[p], desc |-> d, seen |-> seen[p], flew |-> flew]
  /\ ref' = [p \in Proc |-> IF p \in P THEN NoRef ELSE ref[p]]
  /\ got' = [p \in Proc |-> IF p \in P THEN NoDesc ELSE got[p]]
  /\ seen' = [p \in Proc |-> IF p \in P THEN {} ELSE seen[p]]

-----------------------------------------------------------------------------
Begin(p, r, l) ==
  /\ pc[p] = "idle"
  /\ Goto(p, l) /\ ref' = [ref EXCEPT ![p] = r]
  /\ seen' = [seen EXCEPT ![p] = {remote[r]}]
  /\ answer' = NoAnswer
  /\ UNCHANGED <<lru, files, world, got, todo, flight, gone>>

CollapsesAlways(p, r) ==                           \* mutant of BeginResolve
  Begin(p, r, IF Servable(r) THEN "lookup" ELSE "flight")
BeginResolve(p, r) ==
  Begin(p, r, IF Servable(r) THEN "lookup" ELSE IF policy = "Always" THEN "upstream" ELSE "flight")

LookupHit(p) ==
  /\ pc[p] = "lookup" /\ Live(ref[p])
  /\ order' = Newest(order, ref[p])
  /\ Finish({p}, mem[ref[p]].desc, {})
  /\ UNCHANGED <<mem, evicted, files, world, todo, flight, gone>>

LookupMiss(p) ==
  /\ pc[p] = "lookup" /\ ~ Live(ref[p])
  /\ Goto(p, "flight")
  /\ UNCHANGED <<lru, files, world, ref, got, todo, seen, flight, answer, gone>>

\* sf.Do: the first caller leads, the others wait for its result.
Lead(p) ==
  /\ pc[p] = "flight" /\ flight[ref[p]] = NoProc
  /\ flight' = [flight EXCEPT ![ref[p]] = p]
  /\ Goto(p, IF Servable(ref[p]) THEN "recheck" ELSE "upstream")
  /\ UNCHANGED <<lru, files, world, ref, got, todo, seen, answer, gone>>

Join(p) ==
  /\ pc[p] = "flight" /\ flight[ref[p]] # NoProc
  /\ Goto(p, "joined")
  /\ UNCHANGED <<lru, files, world, ref, got, todo, seen, flight, answer, gone>>

SkipsRecheck(p) ==                                 \* mutant of RecheckHit
  /\ pc[p] = "recheck" /\ Live(ref[p])
  /\ Goto(p, "upstream")
  /\ UNCHANGED <<lru, files, world, ref, got, todo, seen, flight, answer, gone>>

RecheckHit(p) ==
  /\ pc[p] = "recheck" /\ Live(ref[p])
  /\ order' = Newest(order, ref[p])
  /\ got' = [got EXCEPT ![p] = mem[ref[p]].desc]
  /\ Goto(p, "land")
  /\ UNCHANGED <<mem, evicted, files, world, ref, todo, seen, flight, answer, gone>>

RecheckMiss(p) ==
  /\ pc[p] = "recheck" /\ ~ Live(ref[p])
  /\ Goto(p, "upstream")
  /\ UNCHANGED <<lru, files, world, ref, got, todo, seen, flight, answer, gone>>

\* The registry answers with what it holds, or the call fails.
Upstream(p) ==
  /\ pc[p] = "upstream"
  /\ \E d \in {remote[ref[p]], NoDesc} :
       /\ got' = [got EXCEPT ![p] = d]
       /\ Goto(p, IF d = NoDesc THEN "land" ELSE "add")
  /\ UNCHANGED <<lru, files, world, ref, todo, seen, flight, answer, gone>>

-----------------------------------------------------------------------------
\* Add: the LRU first, then the namespaces to rewrite: the marked ones, those
\* of other goroutines' evictions included, and its own.
Add(p) ==
  /\ pc[p] = "add"
  /\ LruAdd(ref[p], got[p])
  /\ Goto(p, "drain")
  /\ UNCHANGED <<files, world, ref, got, todo, seen, flight, answer, gone>>

DrainsNothing(p) ==                                \* mutant of Drain
  /\ pc[p] = "drain"
  /\ todo' = [todo EXCEPT ![p] = {NS[ref[p]]}]
  /\ evicted' = {}
  /\ Goto(p, "write")
  /\ UNCHANGED <<order, mem, files, world, ref, got, seen, flight, answer, gone>>

Drain(p) ==
  /\ pc[p] = "drain"
  /\ todo' = [todo EXCEPT ![p] = evicted \cup {NS[ref[p]]}]
  /\ evicted' = {}
  /\ Goto(p, "write")
  /\ UNCHANGED <<order, mem, files, world, ref, got, seen, flight, answer, gone>>

\* writeNamespace: with c.mu, the references of the namespace in the LRU, ...
TakeKeys(p) ==
  /\ pc[p] = "write" /\ writing = NoWrite
  /\ \E ns \in todo[p] :
       /\ writing' = [by |-> p, ns |-> ns, keys |-> {r \in Ref : NS[r] = ns /\ Live(r)}]
       /\ todo' = [todo EXCEPT ![p] = @ \ {ns}]
  /\ UNCHANGED <<lru, disk, unsaved, world, pc, ref, got, seen, flight, answer, gone>>

\* ... and those still there put into the file, which takes the place of the
\* old one; with none left the old file is only removed.
Recorded(r) == [mem[r] EXCEPT !.expires = 0]

Rewrite(p) ==
  /\ writing.by = p
  /\ disk' = [r \in Ref |-> IF NS[r] # writing.ns THEN disk[r]
                            ELSE IF r \in writing.keys /\ Live(r) THEN Recorded(r) ELSE NoEntry]
  /\ unsaved' = unsaved \ {writing.ns}
  /\ writing' = NoWrite
  /\ UNCHANGED <<lru, world, calls, answer, gone>>

\* The file cannot be written: the old one stays, a warning is logged.
RewriteFails(p) ==
  /\ writing.by = p
  /\ unsaved' = unsaved \cup {writing.ns}
  /\ writing' = NoWrite
  /\ UNCHANGED <<lru, disk, world, calls, answer, gone>>

Written(p) ==
  /\ pc[p] = "write" /\ todo[p] = {} /\ writing.by # p
  /\ Goto(p, "land")
  /\ UNCHANGED <<lru, files, world, ref, got, todo, seen, flight, answer, gone>>

\* The call returns, and the flight it led is over for those who joined it.
Joined(p) == IF flight[ref[p]] # p THEN {}
             ELSE {q \in Proc : pc[q] = "joined" /\ ref[q] = ref[p]}

LandsAlone(p) ==                                   \* mutant of Land
  /\ pc[p] = "land"
  /\ Finish({p}, got[p], seen[p])
  /\ flight' = [r \in Ref |-> IF flight[r] = p THEN NoProc ELSE flight[r]]
  /\ UNCHANGED <<lru, files, world, todo, gone>>

Land(p) ==
  /\ pc[p] = "land"
  /\ Finish({p} \cup Joined(p), got[p], seen[p])
  /\ flight' = [r \in Ref |-> IF flight[r] = p THEN NoProc ELSE flight[r]]
  /\ UNCHANGED <<lru, files, world, todo, gone>>

-----------------------------------------------------------------------------
\* The registry changes: every call under way on r may see it.
RemoteSet(r, d) ==
  /\ remote' = [remote EXCEPT ![r] = d]
  /\ seen' = [p \in Proc |-> IF ref[p] = r THEN seen[p] \cup {d} ELSE seen[p]]
  /\ UNCHANGED <<policy, now, restarts>>

BeginTag(p, r)   == r \notin Digest /\ Begin(p, r, "tag")
BeginUntag(p, r) == r \notin Digest /\ Begin(p, r, "untag")

TagRemote(p) ==
  /\ pc[p] = "tag"
  /\ \E d \in Desc :
       /\ RemoteSet(ref[p], d)
       /\ got' = [got EXCEPT ![p] = d]
  /\ gone' = gone \ {ref[p]}
  /\ Goto(p, "add")
  /\ UNCHANGED <<lru, files, ref, todo, flight, answer>>

\* The remote call fails: the cache is left alone.
RemoteFails(p) ==
  /\ pc[p] \in {"tag", "untag"}
  /\ Goto(p, "land")
  /\ UNCHANGED <<lru, files, world, ref, got, todo, seen, flight, answer, gone>>

Alone(p) == \A q \in Proc \ {p} : ref[q] # ref[p]

UntagRemote(p) ==
  /\ pc[p] = "untag" /\ remote[ref[p]] # NoDesc
  /\ RemoteSet(ref[p], NoDesc)
  /\ gone' = IF Alone(p) THEN gone \cup {ref[p]} ELSE gone \ {ref[p]}
  /\ Goto(p, "invalidate")
  /\ UNCHANGED <<lru, files, ref, got, todo, flight, answer>>

\* Invalidate: out of the LRU, then the namespace's file is rewritten.
ForgetsInMemory(p) ==                              \* mutant of Invalidate
  /\ pc[p] = "invalidate"
  /\ LruRemove(ref[p])
  /\ Goto(p, "land")
  /\ UNCHANGED <<files, world, ref, got, todo, seen, flight, answer, gone>>

Invalidate(p) ==
  /\ pc[p] = "invalidate"
  /\ LruRemove(ref[p])
  /\ todo' = [todo EXCEPT ![p] = {NS[ref[p]]}]
  /\ Goto(p, "write")
  /\ UNCHANGED <<files, world, ref, got, seen, flight, answer, gone>>

-----------------------------------------------------------------------------
\* Another client moves or deletes a tag.
RemoteMoves ==
  \E r \in Ref \ Digest, d \in Desc \cup {NoDesc} :
    /\ d # remote[r]
    /\ RemoteSet(r, d)
    /\ gone' = gone \ {r}
    /\ UNCHANGED <<lru, files, pc, ref, got, todo, flight, answer>>

Tick ==
  /\ now < MaxTime
  /\ now' = now + 1 /\ answer' = NoAnswer
  /\ UNCHANGED <<lru, files, policy, remote, restarts, calls, gone>>

\* The LRU's own goroutine removes what has expired.
Expire(r) ==
  /\ mem[r] # NoEntry /\ ~ Live(r)
  /\ LruRemove(r) /\ answer' = NoAnswer
  /\ UNCHANGED <<files, world, calls, gone>>

\* load: what is on disk and not older than the TTL, with its old age and a
\* new expiry.  Files come in any order and so do the entries of one.
AnyAge == {r \in Ref : disk[r] # NoEntry}            \* mutant of Fresh
Fresh == {r \in Ref : disk[r] # NoEntry /\ now - disk[r].saved <= TTL}

LoadOrders ==
  {s \in SetToAllKPermutations(Fresh) :
     /\ Len(s) = Cardinality(Fresh)
     /\ \A i, j, k \in 1..Len(s) : i < j /\ j < k /\ NS[s[i]] = NS[s[k]] => NS[s[j]] = NS[s[i]]}

Reload(r)     == [disk[r] EXCEPT !.expires = now + TTL]

\* The program ends at any point and starts again; entries past MaxEntries
\* are evicted while loading, and their namespaces rewritten at once unless
\* that fails.
Restart ==
  /\ restarts < MaxRestarts /\ restarts' = restarts + 1
  /\ \E s \in LoadOrders :
       LET kept  == SubSeq(s, IF Len(s) > MaxEntries THEN Len(s) - MaxEntries + 1 ELSE 1, Len(s))
           flush == {NS[r] : r \in Fresh \ ToSet(kept)}
       IN  /\ order' = kept
           /\ mem' = [r \in Ref |-> IF r \in ToSet(kept) THEN Reload(r) ELSE NoEntry]
           /\ unsaved' \in SUBSET flush
           /\ disk' = [r \in Ref |-> IF NS[r] \in flush \ unsaved' /\ r \notin ToSet(kept)
                                     THEN NoEntry ELSE disk[r]]
  /\ evicted' = {} /\ writing' = NoWrite
  /\ pc' = [p \in Proc |-> "idle"] /\ ref' = [p \in Proc |-> NoRef]
  /\ got' = [p \in Proc |-> NoDesc] /\ todo' = [p \in Proc |-> {}]
  /\ seen' = [p \in Proc |-> {}] /\ flight' = [r \in Ref |-> NoProc] /\ answer' = NoAnswer
  /\ gone' = {r \in gone : NS[r] \notin unsaved /\ \A p \in Proc : ref[p] # r}
  /\ UNCHANGED <<policy, remote, now>>

Step(p) ==
  \/ LookupHit(p) \/ LookupMiss(p) \/ Lead(p) \/ Join(p)
  \/ RecheckHit(p) \/ RecheckMiss(p) \/ Upstream(p)
  \/ Add(p) \/ Drain(p) \/ TakeKeys(p) \/ Rewrite(p) \/ RewriteFails(p)
  \/ Written(p) \/ Land(p)
  \/ TagRemote(p) \/ UntagRemote(p) \/ RemoteFails(p) \/ Invalidate(p)

Next ==
  \/ \E p \in Proc : Step(p)
  \/ \E p \in Proc, r \in Ref : BeginResolve(p, r) \/ BeginTag(p, r) \/ BeginUntag(p, r)
  \/ RemoteMoves \/ Tick \/ Restart
  \/ \E r \in Ref : Expire(r)

\* Goroutines are scheduled, calls to the registry return, and sync.Mutex does
\* not starve one that waits for it.
Fairness == \A p \in Proc : WF_vars(Step(p)) /\ SF_vars(TakeKeys(p))

Spec == Init /\ [][Next]_vars /\ Fairness

-----------------------------------------------------------------------------
\* Type invariant; the order of the LRU lists its entries, each once.
Entry == [desc : Desc \cup {NoDesc}, saved : 0..MaxTime, born : 0..MaxTime, expires : 0..(MaxTime + TTL)]

TypeOK ==
  /\ policy \in Policies /\ remote \in [Ref -> Desc \cup {NoDesc}] /\ now \in 0..MaxTime /\ restarts \in 0..MaxRestarts
  /\ order \in Seq(Ref) /\ Len(order) <= MaxEntries /\ IsInjective(order)
  /\ mem \in [Ref -> Entry] /\ ToSet(order) = {r \in Ref : mem[r] # NoEntry}
  /\ disk \in [Ref -> Entry] /\ evicted \subseteq Namespace /\ unsaved \subseteq Namespace
  /\ writing \in [by : Proc \cup {NoProc}, ns : Namespace \cup {NoRef}, keys : SUBSET Ref]
  /\ flight \in [Ref -> Proc \cup {NoProc}] /\ ref \in [Proc -> Ref \cup {NoRef}]
  /\ got \in [Proc -> Desc \cup {NoDesc}] /\ todo \in [Proc -> SUBSET Namespace]
  /\ seen \in [Proc -> SUBSET (Desc \cup {NoDesc})] /\ gone \subseteq Ref
  /\ pc \in [Proc -> {"idle", "lookup", "flight", "joined", "recheck", "upstream", "add", "drain",
                      "write", "land", "tag", "untag", "invalidate"}]

\* No process is between its change of the LRU and the rewrite it owes.
Quiet == \A p \in Proc : pc[p] \notin {"drain", "write"}

\* However Adds, evictions and invalidations of several goroutines interleave
\* with the rewrites, a rewrite never clobbers a newer one: once they are
\* over, each file holds every live entry of its namespace (a restart finds
\* them), and nothing the LRU dropped unless that expired or its namespace is
\* still marked.
SnapshotCurrent ==
  Quiet => \A r \in Ref : NS[r] \notin unsaved =>
    /\ Live(r) => disk[r] = Recorded(r)
    /\ disk[r] # NoEntry /\ NS[r] \notin evicted =>
         \/ mem[r] # NoEntry /\ disk[r] = Recorded(r)
         \/ now - disk[r].saved > TTL

\* After an Untag no other call overlapped, neither the memory nor the file
\* gives the reference back, a restart included (repository.go:72 "so a restart
\* does not resurrect the stale tag->descriptor mapping").
UntagForgets ==
  \A r \in gone : (\A p \in Proc : pc[p] = "invalidate" => ref[p] # r) =>
    /\ mem[r] = NoEntry
    /\ (Quiet /\ NS[r] \notin unsaved) => disk[r] = NoEntry

\* A tag is never answered from the memory: what a call gets, the registry
\* held during the call that led the flight.
TagsComeFromRegistry ==
  answer.ref \in Ref \ Digest /\ answer.desc # NoDesc => answer.desc \in answer.flew

\* A call goes to the registry for a digest only if memory does not hold it by
\* then, though its lookup was before another call's flight had landed.
NoNeedlessRoundTrip ==
  \A p \in Proc : pc[p] = "upstream" /\ Servable(ref[p]) => ~ Live(ref[p])

\* Across any number of restarts, an entry is served for at most two TTLs
\* after it was resolved: SavedAt keeps its value through memory and disk.
AgeBounded == \A r \in Ref : Live(r) => now - mem[r].born <= 2 * TTL

\* Under the policy "Always" a caller gets what the registry held during its
\* own call: no call is answered with another one's earlier question, which
\* under "IfNotPresent" the flight of a tag may do.
AnswersCurrent ==
  policy = "Always" /\ answer.desc # NoDesc => answer.desc \in answer.seen

\* A call that has begun returns, the followers of a flight included, whether
\* its leader succeeded or failed.
CallsReturn == \A p \in Proc : pc[p] # "idle" ~> pc[p] = "idle"
=============================================================================
