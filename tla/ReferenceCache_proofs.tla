----------------------- MODULE ReferenceCache_proofs ------------------------
(***************************************************************************)
(* Proofs about ReferenceCache, for any number of processes, references    *)
(* and restarts.                                                           *)
(***************************************************************************)
EXTENDS ReferenceCache, SequenceTheorems, FiniteSetTheorems, TLAPS

Places == {"idle", "lookup", "flight", "joined", "recheck", "upstream", "add", "drain",
           "write", "land", "tag", "untag", "invalidate"}
Answers == Desc \cup {NoDesc}
Timed == [desc : Answers, saved : Nat, born : Nat, expires : Nat]

\* What the arguments below need of the types: TypeOK without the bounds, and
\* that a call under way has a reference.
Shape ==
  /\ now \in Nat /\ mem \in [Ref -> Timed] /\ disk \in [Ref -> Timed]
  /\ pc \in [Proc -> Places] /\ ref \in [Proc -> Ref \cup {NoRef}]
  /\ got \in [Proc -> Answers] /\ seen \in [Proc -> SUBSET Answers]
  /\ remote \in [Ref -> Answers] /\ flight \in [Ref -> Proc \cup {NoProc}]
  /\ \A p \in Proc : pc[p] # "idle" => ref[p] \in Ref

\* The TTL that NewReferenceCache settles on is a number.
LEMMA TTLType == TTL \in Nat
BY ReferenceCacheAssumption DEF TTL

\* The place of an absent entry has the type of an entry.
LEMMA NoEntryType == NoEntry \in Timed
BY DEF NoEntry, Timed, Answers

\* A new program has the shape.
LEMMA InitShape == Init => Shape
BY NoEntryType, ReferenceCacheAssumption DEF Init, Shape, Places, Answers

\* Starting a Resolve, a Tag or an Untag keeps it.
LEMMA BeginShape ==
  ASSUME Shape, NEW p \in Proc, NEW r \in Ref, NEW l \in Places, Begin(p, r, l)
  PROVE  Shape'
BY DEF Begin, Goto, Shape, Answers, lru, files, world

\* The calls that return are idle again, the others are left alone.
LEMMA FinishShape ==
  ASSUME Shape, NEW P, NEW d, NEW flew, Finish(P, d, flew)
  PROVE  /\ pc' \in [Proc -> Places] /\ ref' \in [Proc -> Ref \cup {NoRef}]
         /\ got' \in [Proc -> Answers] /\ seen' \in [Proc -> SUBSET Answers]
         /\ \A p \in Proc : pc'[p] # "idle" => ref'[p] \in Ref
BY DEF Finish, Shape, Places, Answers

\* What the LRU holds after an Add or a Remove are entries.
LEMMA LruTypes ==
  ASSUME Shape, NEW r, NEW d \in Answers, LruAdd(r, d) \/ LruRemove(r)
  PROVE  mem' \in [Ref -> Timed]
<1>1. [desc |-> d, saved |-> now, born |-> now, expires |-> now + TTL] \in Timed
  BY TTLType DEF Shape, Timed
<1> QED BY <1>1, NoEntryType DEF Shape, LruAdd, LruRemove

\* No step of a call breaks the shape.
LEMMA StepShape ==
  ASSUME Shape, NEW p \in Proc, Step(p)
  PROVE  Shape'
<1> USE DEF Goto, Places, lru, files, world, calls
<1>0. pc[p] # "idle" => ref[p] \in Ref
  BY DEF Shape
<1>1. CASE LookupHit(p)
  BY <1>1, FinishShape DEF LookupHit, Shape
<1>2. CASE LookupMiss(p) \/ Join(p) \/ RecheckMiss(p) \/ RemoteFails(p) \/ Written(p)
  BY <1>2 DEF LookupMiss, Join, RecheckMiss, RemoteFails, Written, Shape
<1>3. CASE Lead(p)
  BY <1>0, <1>3 DEF Lead, Shape
<1>4. CASE RecheckHit(p)
  <2>1. ref[p] \in Ref /\ mem[ref[p]].desc \in Answers
    BY <1>0, <1>4 DEF Shape, Timed, RecheckHit
  <2> QED BY <1>4, <2>1 DEF RecheckHit, Shape
<1>5. CASE Upstream(p)
  <2>1. remote[ref[p]] \in Answers /\ NoDesc \in Answers
    BY <1>0, <1>5 DEF Upstream, Shape, Answers
  <2> QED BY <1>5, <2>1 DEF Upstream, Shape
<1>6. CASE Add(p)
  <2>1. mem' \in [Ref -> Timed]
    BY <1>6, LruTypes DEF Add, Shape
  <2> QED BY <1>6, <2>1 DEF Add, Shape
<1>7. CASE Drain(p) \/ TakeKeys(p) \/ RewriteFails(p)
  BY <1>7 DEF Drain, TakeKeys, RewriteFails, Shape
<1>8. CASE Rewrite(p)
  <2>1. \A r \in Ref : Recorded(r) \in Timed
    BY DEF Recorded, Shape, Timed
  <2>2. disk' \in [Ref -> Timed]
    BY <1>8, <2>1, NoEntryType DEF Rewrite, Shape
  <2> QED BY <1>8, <2>2 DEF Rewrite, Shape
<1>9. CASE Land(p)
  <2>1. flight' \in [Ref -> Proc \cup {NoProc}]
    BY <1>9 DEF Land, Shape
  <2> QED BY <1>9, <2>1, FinishShape DEF Land, Shape
<1>10. CASE TagRemote(p)
  <2> PICK d \in Desc : RemoteSet(ref[p], d) /\ got' = [got EXCEPT ![p] = d]
    BY <1>10 DEF TagRemote
  <2>1. remote' \in [Ref -> Answers] /\ seen' \in [Proc -> SUBSET Answers] /\ got' \in [Proc -> Answers]
    BY DEF RemoteSet, Shape, Answers
  <2> QED BY <1>10, <2>1, <1>0 DEF TagRemote, RemoteSet, Shape
<1>11. CASE UntagRemote(p)
  <2>1. remote' \in [Ref -> Answers] /\ seen' \in [Proc -> SUBSET Answers]
    BY <1>11 DEF UntagRemote, RemoteSet, Shape, Answers
  <2> QED BY <1>11, <2>1, <1>0 DEF UntagRemote, RemoteSet, Shape
<1>12. CASE Invalidate(p)
  <2>1. mem' \in [Ref -> Timed]
    BY <1>12, NoEntryType DEF Invalidate, LruRemove, Shape
  <2> QED BY <1>12, <2>1, <1>0 DEF Invalidate, Shape
<1> QED BY <1>1, <1>2, <1>3, <1>4, <1>5, <1>6, <1>7, <1>8, <1>9, <1>10, <1>11, <1>12 DEF Step

\* What the program reloads from its files are entries.
LEMMA RestartShape == ASSUME Shape, Restart PROVE Shape'
<1>1. \A r \in Ref : Reload(r) \in Timed
  BY TTLType DEF Reload, Shape, Timed
<1>2. mem' \in [Ref -> Timed]
  BY <1>1, NoEntryType DEF Restart
<1>3. disk' \in [Ref -> Timed]
  BY NoEntryType DEF Restart, Shape
<1> QED BY <1>2, <1>3 DEF Restart, Shape, Places, Answers

\* The types hold in every reachable state, whatever MaxTime and MaxRestarts.
THEOREM ShapeInv == Spec => []Shape
<1>1. ASSUME Shape, [Next]_vars PROVE Shape'
  <2>1. CASE \E p \in Proc : Step(p)
    BY <1>1, <2>1, StepShape
  <2>2. CASE \E p \in Proc, r \in Ref : BeginResolve(p, r) \/ BeginTag(p, r) \/ BeginUntag(p, r)
    BY <1>1, <2>2, BeginShape DEF BeginResolve, BeginTag, BeginUntag, Places
  <2>3. CASE RemoteMoves
    BY <1>1, <2>3 DEF RemoteMoves, RemoteSet, Shape, lru, files, Answers
  <2>4. CASE Tick
    BY <1>1, <2>4 DEF Tick, Shape, lru, files, calls
  <2>5. CASE Restart
    BY <1>1, <2>5, RestartShape
  <2>6. CASE \E r \in Ref : Expire(r)
    <3>1. mem' \in [Ref -> Timed]
      BY <1>1, <2>6, NoEntryType DEF Expire, LruRemove, Shape
    <3> QED BY <1>1, <2>6, <3>1 DEF Expire, Shape, files, world, calls
  <2>7. CASE UNCHANGED vars
    BY <1>1, <2>7 DEF Shape, vars, lru, files, world, calls
  <2> QED BY <1>1, <2>1, <2>2, <2>3, <2>4, <2>5, <2>6, <2>7 DEF Next
<1> QED BY <1>1, InitShape, PTL DEF Spec

-----------------------------------------------------------------------------
\* The order of the LRU, as a sequence.

\* What a sequence is made of, without the library's notation.
LEMMA Elements ==
  ASSUME NEW s \in Seq(Ref)
  PROVE  /\ Len(s) \in Nat /\ DOMAIN s = 1..Len(s) /\ \A i \in 1..Len(s) : s[i] \in Ref
         /\ ToSet(s) = {s[i] : i \in 1..Len(s)}
         /\ IsInjective(s) <=> \A i, j \in 1..Len(s) : s[i] = s[j] => i = j
BY LenProperties DEF ToSet, IsInjective

\* Taking an element out leaves the others as they are, and in their order.
LEMMA RemovedOnce ==
  ASSUME NEW s \in Seq(Ref), IsInjective(s), NEW r
  PROVE  /\ RemoveFirst(s, r) \in Seq(Ref) /\ IsInjective(RemoveFirst(s, r))
         /\ ToSet(RemoveFirst(s, r)) = ToSet(s) \ {r}
         /\ Len(RemoveFirst(s, r)) = IF r \in ToSet(s) THEN Len(s) - 1 ELSE Len(s)
<1>0. /\ Len(s) \in Nat /\ \A i \in 1..Len(s) : s[i] \in Ref
      /\ ToSet(s) = {s[i] : i \in 1..Len(s)}
      /\ \A i, j \in 1..Len(s) : s[i] = s[j] => i = j
  BY Elements
<1>1. CASE r \notin ToSet(s)
  <2>1. RemoveFirst(s, r) = s
    BY <1>0, <1>1 DEF RemoveFirst
  <2> QED BY <1>1, <2>1
<1>2. ASSUME NEW i \in 1..Len(s), s[i] = r
      PROVE  /\ RemoveFirst(s, r) \in Seq(Ref) /\ IsInjective(RemoveFirst(s, r))
             /\ ToSet(RemoveFirst(s, r)) = ToSet(s) \ {r}
             /\ Len(RemoveFirst(s, r)) = Len(s) - 1
  <2> DEFINE a == SubSeq(s, 1, i - 1)
             b == SubSeq(s, i + 1, Len(s))
             t == a \o b
  <2>1. RemoveFirst(s, r) = t
    <3>1. {j \in 1..Len(s) : s[j] = r} = {i}
      BY <1>0, <1>2
    <3>2. Min({i}) = i
      BY <1>0 DEF Min
    <3>3. SelectInSeq(s, LAMBDA v : v = r) = i
      BY <3>1, <3>2 DEF SelectInSeq
    <3> QED BY <1>2, <3>3 DEF RemoveFirst, RemoveAt
  <2>2. a \in Seq(Ref) /\ Len(a) = i - 1 /\ \A j \in 1..(i - 1) : a[j] = s[j]
    BY <1>0, SubSeqProperties
  <2>3. b \in Seq(Ref) /\ Len(b) = Len(s) - i /\ \A j \in 1..(Len(s) - i) : b[j] = s[i + j]
    BY <1>0, SubSeqProperties
  <2> HIDE DEF a, b
  <2>4. t \in Seq(Ref) /\ Len(t) = Len(s) - 1
    BY <1>0, <2>2, <2>3, ConcatProperties
  <2>5. \A j \in 1..(Len(s) - 1) : (j < i => t[j] = s[j]) /\ (~ (j < i) => t[j] = s[j + 1])
    <3>1. \A j \in 1..(Len(a) + Len(b)) : t[j] = IF j <= Len(a) THEN a[j] ELSE b[j - Len(a)]
      BY <2>2, <2>3, ConcatProperties
    <3>2. ASSUME NEW j \in 1..(Len(s) - 1), j < i PROVE t[j] = s[j]
      BY <1>0, <2>2, <2>3, <3>1, <3>2
    <3>3. ASSUME NEW j \in 1..(Len(s) - 1), ~ (j < i) PROVE t[j] = s[j + 1]
      <4>1. j - Len(a) \in 1..(Len(s) - i) /\ i + (j - Len(a)) = j + 1 /\ ~ (j <= Len(a)) /\ j \in 1..(Len(a) + Len(b))
        BY <1>0, <2>2, <2>3, <3>3
      <4> QED BY <2>3, <3>1, <4>1
    <3> HIDE DEF t
    <3> QED BY <3>2, <3>3
  <2> HIDE DEF t
  <2>6. IsInjective(t)
    <3>1. ASSUME NEW j \in 1..(Len(s) - 1), NEW k \in 1..(Len(s) - 1), t[j] = t[k] PROVE j = k
      <4>1. /\ j \in 1..Len(s) /\ k \in 1..Len(s) /\ j + 1 \in 1..Len(s) /\ k + 1 \in 1..Len(s)
            /\ j \in Int /\ k \in Int /\ i \in Int
        BY <1>0
      <4>2. CASE j < i /\ k < i
        BY <1>0, <2>5, <3>1, <4>1, <4>2
      <4>3. CASE ~ (j < i) /\ ~ (k < i)
        <5>1. s[j + 1] = s[k + 1]
          BY <2>5, <3>1, <4>3
        <5>2. j + 1 = k + 1
          BY <1>0, <4>1, <5>1
        <5> QED BY <4>1, <5>2
      <4>4. CASE j < i /\ ~ (k < i)
        <5>1. s[j] = s[k + 1]
          BY <2>5, <3>1, <4>4
        <5>2. j = k + 1
          BY <1>0, <4>1, <5>1
        <5> QED BY <4>1, <4>4, <5>2
      <4>5. CASE ~ (j < i) /\ k < i
        <5>1. s[j + 1] = s[k]
          BY <2>5, <3>1, <4>5
        <5>2. j + 1 = k
          BY <1>0, <4>1, <5>1
        <5> QED BY <4>1, <4>5, <5>2
      <4> QED BY <4>2, <4>3, <4>4, <4>5
    <3> QED BY <2>4, <3>1, Elements
  <2>7. ToSet(t) = ToSet(s) \ {r}
    <3>1. ToSet(t) = {t[j] : j \in 1..(Len(s) - 1)}
      BY <2>4, Elements
    <3>2. ASSUME NEW x \in ToSet(t) PROVE x \in ToSet(s) \ {r}
      BY <1>0, <1>2, <2>5, <3>1, <3>2
    <3>3. ASSUME NEW x \in ToSet(s) \ {r} PROVE x \in ToSet(t)
      <4>1. PICK j \in 1..Len(s) : s[j] = x /\ j # i
        BY <1>0, <1>2
      <4>2. CASE j < i
        BY <1>0, <2>5, <3>1, <4>1, <4>2
      <4>3. CASE j > i
        <5>1. j - 1 \in 1..(Len(s) - 1) /\ ~ (j - 1 < i) /\ (j - 1) + 1 = j
          BY <1>0, <4>1, <4>3
        <5> QED BY <2>5, <3>1, <4>1, <5>1
      <4> QED BY <1>0, <4>1, <4>2, <4>3
    <3> QED BY <3>2, <3>3
  <2> QED BY <2>1, <2>4, <2>6, <2>7
<1> QED BY <1>0, <1>1, <1>2

\* The entry just used is the last; it has come or has only moved.
LEMMA NewestFacts ==
  ASSUME NEW s \in Seq(Ref), IsInjective(s), NEW r \in Ref
  PROVE  /\ Newest(s, r) \in Seq(Ref) /\ IsInjective(Newest(s, r))
         /\ ToSet(Newest(s, r)) = ToSet(s) \cup {r}
         /\ Len(Newest(s, r)) = IF r \in ToSet(s) THEN Len(s) ELSE Len(s) + 1
         /\ Newest(s, r)[Len(Newest(s, r))] = r
<1> DEFINE t == RemoveFirst(s, r)
           u == Append(t, r)
<1>1. /\ t \in Seq(Ref) /\ IsInjective(t) /\ ToSet(t) = ToSet(s) \ {r}
      /\ Len(t) = IF r \in ToSet(s) THEN Len(s) - 1 ELSE Len(s)
  BY RemovedOnce
<1>2. Newest(s, r) = u
  BY DEF Newest
<1> HIDE DEF t
<1>3. /\ Len(t) \in Nat /\ Len(s) \in Nat
      /\ ToSet(t) = {t[i] : i \in 1..Len(t)}
      /\ \A i, j \in 1..Len(t) : t[i] = t[j] => i = j
  BY <1>1, Elements
<1>4. u \in Seq(Ref) /\ Len(u) = Len(t) + 1 /\ u[Len(t) + 1] = r /\ \A i \in 1..Len(t) : u[i] = t[i]
  BY <1>1, AppendProperties
<1> HIDE DEF u
<1>5. IsInjective(u)
  <2>1. \A i \in 1..Len(t) : u[i] # r
    BY <1>1, <1>3, <1>4
  <2>2. \A i, j \in 1..(Len(t) + 1) : u[i] = u[j] => i = j
    BY <1>3, <1>4, <2>1
  <2> QED BY <1>4, <2>2, Elements
<1>6. ToSet(u) = ToSet(s) \cup {r}
  <2>1. ToSet(u) = {u[i] : i \in 1..(Len(t) + 1)}
    BY <1>4, Elements
  <2>2. ToSet(u) = ToSet(t) \cup {r}
    BY <1>3, <1>4, <2>1
  <2> QED BY <1>1, <2>2
<1> QED BY <1>1, <1>2, <1>3, <1>4, <1>5, <1>6

\* The end of a list of distinct references is one, without what is before it.
LEMMA EndFacts ==
  ASSUME NEW s \in Seq(Ref), IsInjective(s), NEW k \in 1..(Len(s) + 1)
  PROVE  /\ SubSeq(s, k, Len(s)) \in Seq(Ref) /\ IsInjective(SubSeq(s, k, Len(s)))
         /\ ToSet(SubSeq(s, k, Len(s))) = {s[i] : i \in k..Len(s)}
         /\ Len(SubSeq(s, k, Len(s))) = Len(s) - k + 1
<1> DEFINE t == SubSeq(s, k, Len(s))
<1>0. /\ Len(s) \in Nat /\ \A i \in 1..Len(s) : s[i] \in Ref
      /\ \A i, j \in 1..Len(s) : s[i] = s[j] => i = j
  BY Elements
<1>1. t \in Seq(Ref) /\ Len(t) = Len(s) - k + 1 /\ \A i \in 1..(Len(s) - k + 1) : t[i] = s[k + i - 1]
  BY <1>0, SubSeqProperties
<1> HIDE DEF t
<1>2. IsInjective(t)
  <2>1. ASSUME NEW i \in 1..Len(t), NEW j \in 1..Len(t), t[i] = t[j] PROVE i = j
    <3>1. k + i - 1 \in 1..Len(s) /\ k + j - 1 \in 1..Len(s) /\ t[i] = s[k + i - 1] /\ t[j] = s[k + j - 1]
      BY <1>0, <1>1
    <3>2. k + i - 1 = k + j - 1
      BY <1>0, <2>1, <3>1
    <3> QED BY <1>0, <3>2
  <2> QED BY <1>1, <2>1, Elements
<1>3. ToSet(t) = {s[i] : i \in k..Len(s)}
  <2>1. ToSet(t) = {t[i] : i \in 1..(Len(s) - k + 1)}
    BY <1>1, Elements
  <2>2. ASSUME NEW i \in k..Len(s) PROVE s[i] \in ToSet(t)
    <3>1. i - k + 1 \in 1..(Len(s) - k + 1) /\ k + (i - k + 1) - 1 = i
      BY <1>0
    <3> QED BY <1>1, <2>1, <3>1
  <2>3. ASSUME NEW i \in 1..(Len(s) - k + 1) PROVE t[i] \in {s[j] : j \in k..Len(s)}
    <3>1. k + i - 1 \in k..Len(s)
      BY <1>0
    <3> QED BY <1>1, <3>1
  <2> QED BY <2>1, <2>2, <2>3
<1> QED BY <1>1, <1>2, <1>3 DEF t

-----------------------------------------------------------------------------
\* The type invariant: the rest of TypeOK, its bounds and what the LRU holds.
BoundsInv ==
  /\ policy \in Policies /\ now \in 0..MaxTime /\ restarts \in 0..MaxRestarts
  /\ mem \in [Ref -> Entry] /\ disk \in [Ref -> Entry]
  /\ evicted \subseteq Namespace /\ unsaved \subseteq Namespace /\ gone \subseteq Ref
  /\ writing \in [by : Proc, ns : Namespace, keys : SUBSET Ref] \cup {NoWrite}
  /\ todo \in [Proc -> SUBSET Namespace]

\* The order lists the entries, each once, and no more than MaxEntries.
Listed ==
  /\ order \in Seq(Ref) /\ IsInjective(order) /\ Len(order) <= MaxEntries
  /\ ToSet(order) = {r \in Ref : mem[r] # NoEntry}

\* The place of an absent entry has the type of an entry, one that was just made
\* as well, and is told from it by its expiry.
LEMMA EntryTypes ==
  ASSUME now \in 0..MaxTime, NEW e, e.expires = now + TTL
  PROVE  /\ NoEntry \in Entry /\ e # NoEntry
         /\ \A d \in Answers : [desc |-> d, saved |-> now, born |-> now, expires |-> now + TTL] \in Entry
         /\ \A x \in Entry : [x EXCEPT !.expires = now + TTL] \in Entry /\ [x EXCEPT !.expires = 0] \in Entry
<1>1. TTL \in Nat /\ TTL > 0 /\ MaxTime \in Nat /\ now \in Nat /\ now <= MaxTime
  BY ReferenceCacheAssumption DEF TTL
<1>2. 0 \in 0..(MaxTime + TTL) /\ now + TTL \in 0..(MaxTime + TTL) /\ 0 \in 0..MaxTime /\ now + TTL # 0
  BY <1>1
<1>3. NoEntry \in Entry
  BY <1>2 DEF NoEntry, Entry
<1>4. e # NoEntry
  BY <1>2 DEF NoEntry
<1>5. \A d \in Answers : [desc |-> d, saved |-> now, born |-> now, expires |-> now + TTL] \in Entry
  BY <1>2 DEF Entry, Answers
<1>6. \A x \in Entry : [x EXCEPT !.expires = now + TTL] \in Entry /\ [x EXCEPT !.expires = 0] \in Entry
  BY <1>2 DEF Entry
<1> QED BY <1>3, <1>4, <1>5, <1>6

\* An Add past MaxEntries drops the oldest entry, never the one it adds.
LEMMA AddListed ==
  ASSUME BoundsInv, Listed, NEW r \in Ref, NEW d \in Answers, LruAdd(r, d)
  PROVE  Listed' /\ mem' \in [Ref -> Entry] /\ evicted' \subseteq Namespace
<1> DEFINE s   == Newest(order, r)
           out == IF Len(s) > MaxEntries THEN {Head(s)} ELSE {}
           e   == [desc |-> d, saved |-> now, born |-> now, expires |-> now + TTL]
<1>1. /\ order' = IF out = {} THEN s ELSE Tail(s)
      /\ mem' = [x \in Ref |-> IF x \in out THEN NoEntry ELSE IF x = r THEN e ELSE mem[x]]
      /\ evicted' = evicted \cup {NS[x] : x \in out}
  BY DEF LruAdd
<1>2. /\ s \in Seq(Ref) /\ IsInjective(s) /\ ToSet(s) = ToSet(order) \cup {r} /\ s[Len(s)] = r
      /\ Len(s) = IF r \in ToSet(order) THEN Len(order) ELSE Len(order) + 1
  BY NewestFacts DEF Listed
<1>3. e \in Entry /\ e # NoEntry /\ NoEntry \in Entry
  BY EntryTypes DEF BoundsInv
<1> HIDE DEF s, e
<1>4. /\ Len(s) \in Nat /\ Len(order) \in Nat /\ ToSet(s) = {s[i] : i \in 1..Len(s)}
      /\ \A i \in 1..Len(s) : s[i] \in Ref
      /\ \A i, j \in 1..Len(s) : s[i] = s[j] => i = j
      /\ MaxEntries \in Nat \ {0} /\ Len(order) <= MaxEntries
  BY <1>2, Elements, ReferenceCacheAssumption DEF Listed
<1>5. out \subseteq Ref
  <2>1. Len(s) > MaxEntries => s # <<>>
    BY <1>4
  <2> QED BY <1>2, <2>1, HeadTailProperties
<1>6. mem' \in [Ref -> Entry] /\ evicted' \subseteq Namespace
  BY <1>1, <1>3, <1>5, ReferenceCacheAssumption DEF BoundsInv
<1>7. CASE Len(s) <= MaxEntries
  <2>1. out = {}
    BY <1>4, <1>7
  <2>2. order' = s /\ mem' = [x \in Ref |-> IF x = r THEN e ELSE mem[x]]
    BY <1>1, <2>1
  <2>3. ToSet(order') = {x \in Ref : mem'[x] # NoEntry}
    BY <1>2, <1>3, <2>2 DEF Listed
  <2> QED BY <1>2, <1>6, <1>7, <2>2, <2>3 DEF Listed
<1>8. CASE Len(s) > MaxEntries
  <2>1. Len(s) = MaxEntries + 1 /\ Len(s) > 1 /\ s # <<>>
    BY <1>2, <1>4, <1>8
  <2>2. Head(s) = s[1] /\ Tail(s) = SubSeq(s, 2, Len(s))
    BY <1>2, <2>1, HeadTailProperties, TailIsSubSeq
  <2>3. /\ Tail(s) \in Seq(Ref) /\ IsInjective(Tail(s)) /\ Len(Tail(s)) = Len(s) - 2 + 1
        /\ ToSet(Tail(s)) = {s[i] : i \in 2..Len(s)}
    <3>1. 2 \in 1..(Len(s) + 1)
      BY <1>4, <2>1
    <3> QED BY <1>2, <2>2, <3>1, EndFacts
  <2>4. s[1] # r /\ ToSet(Tail(s)) = ToSet(s) \ {s[1]}
    BY <1>2, <1>4, <2>1, <2>3
  <2>5. out = {s[1]}
    BY <1>8, <2>2
  <2>6. order' = Tail(s) /\ mem' = [x \in Ref |-> IF x = s[1] THEN NoEntry ELSE IF x = r THEN e ELSE mem[x]]
    BY <1>1, <2>5
  <2>7. ToSet(order') = {x \in Ref : mem'[x] # NoEntry}
    BY <1>2, <1>3, <2>4, <2>6 DEF Listed
  <2>8. order' = Tail(s)
    BY <2>6
  <2>9. Len(Tail(s)) <= MaxEntries
    BY <1>4, <2>1, <2>3
  <2>10. order' \in Seq(Ref) /\ IsInjective(order') /\ Len(order') <= MaxEntries
    BY <2>3, <2>8, <2>9
  <2> QED BY <1>6, <2>7, <2>10 DEF Listed
<1> QED BY <1>4, <1>7, <1>8

\* A use only moves its entry.
LEMMA UseListed ==
  ASSUME Listed, NEW r \in Ref, Live(r), order' = Newest(order, r), mem' = mem
  PROVE  Listed'
<1>1. r \in ToSet(order)
  BY DEF Listed, Live
<1>2. /\ order' \in Seq(Ref) /\ IsInjective(order') /\ ToSet(order') = ToSet(order) \cup {r}
      /\ Len(order') = Len(order)
  <2>1. order \in Seq(Ref) /\ IsInjective(order)
    BY DEF Listed
  <2> QED BY <1>1, <2>1, NewestFacts
<1> QED BY <1>1, <1>2 DEF Listed, Live

\* Remove and expiry.
LEMMA RemoveListed ==
  ASSUME BoundsInv, Listed, NEW r \in Ref, LruRemove(r)
  PROVE  Listed' /\ mem' \in [Ref -> Entry] /\ evicted' \subseteq Namespace
<1> DEFINE t == RemoveFirst(order, r)
<1>1. /\ t \in Seq(Ref) /\ IsInjective(t) /\ ToSet(t) = ToSet(order) \ {r}
      /\ Len(t) = IF r \in ToSet(order) THEN Len(order) - 1 ELSE Len(order)
  BY RemovedOnce DEF Listed
<1>2. order' = t /\ mem' = [mem EXCEPT ![r] = NoEntry]
  BY DEF LruRemove
<1> HIDE DEF t
<1>3. Len(t) <= MaxEntries
  BY <1>1, Elements, ReferenceCacheAssumption DEF Listed
<1>4. NoEntry \in Entry
  <2>1. [desc |-> NoDesc, saved |-> 0, born |-> 0, expires |-> now + TTL].expires = now + TTL
    OBVIOUS
  <2> QED BY <2>1, EntryTypes DEF BoundsInv
<1>5. mem' \in [Ref -> Entry] /\ evicted' \subseteq Namespace
  <2>1. NS[r] \in Namespace
    BY ReferenceCacheAssumption
  <2>2. evicted' = IF mem[r] = NoEntry THEN evicted ELSE evicted \cup {NS[r]}
    BY DEF LruRemove
  <2>3. mem' \in [Ref -> Entry]
    BY <1>2, <1>4 DEF BoundsInv
  <2> QED BY <2>1, <2>2, <2>3 DEF BoundsInv
<1>6. ToSet(t) = {x \in Ref : mem'[x] # NoEntry}
  BY <1>1, <1>2 DEF Listed, BoundsInv
<1> QED BY <1>1, <1>2, <1>3, <1>5, <1>6 DEF Listed

\* The files a program reloads from have entries that are made anew; past
\* MaxEntries the first of them are dropped, so the last ones are listed.
LEMMA RestartListed ==
  ASSUME BoundsInv, Restart
  PROVE  BoundsInv' /\ Listed'
<1>1. PICK s \in LoadOrders :
        LET kept  == SubSeq(s, IF Len(s) > MaxEntries THEN Len(s) - MaxEntries + 1 ELSE 1, Len(s))
            flush == {NS[r] : r \in Fresh \ ToSet(kept)}
        IN  /\ order' = kept
            /\ mem' = [r \in Ref |-> IF r \in ToSet(kept) THEN Reload(r) ELSE NoEntry]
            /\ unsaved' \in SUBSET flush
            /\ disk' = [r \in Ref |-> IF NS[r] \in flush \ unsaved' /\ r \notin ToSet(kept)
                                      THEN NoEntry ELSE disk[r]]
  BY DEF Restart
<1> DEFINE k     == IF Len(s) > MaxEntries THEN Len(s) - MaxEntries + 1 ELSE 1
           kept  == SubSeq(s, k, Len(s))
           flush == {NS[r] : r \in Fresh \ ToSet(kept)}
<1>2. s \in Seq(Ref) /\ IsInjective(s)
  <2>1. PICK S \in SUBSET Fresh : s \in SetToSeqs(S)
    BY DEF LoadOrders, SetToAllKPermutations
  <2>2. /\ s \in [1..Cardinality(S) -> S]
        /\ \A i, j \in 1..Cardinality(S) : i # j => s[i] # s[j]
    BY <2>1 DEF SetToSeqs
  <2>3. Cardinality(S) \in Nat /\ S \subseteq Ref
    BY <2>1, ReferenceCacheAssumption, FS_Subset, FS_CardinalityType DEF Fresh
  <2> QED BY <2>2, <2>3, SeqDef DEF IsInjective
<1>3. Len(s) \in Nat /\ MaxEntries \in Nat \ {0} /\ k \in 1..(Len(s) + 1) /\ Len(s) - k + 1 <= MaxEntries
  BY <1>2, Elements, ReferenceCacheAssumption
<1> HIDE DEF k
<1>4. kept \in Seq(Ref) /\ IsInjective(kept) /\ Len(kept) <= MaxEntries /\ ToSet(kept) \subseteq Ref
  BY <1>2, <1>3, EndFacts, Elements
<1> HIDE DEF kept
<1>5. order' = kept /\ mem' = [r \in Ref |-> IF r \in ToSet(kept) THEN Reload(r) ELSE NoEntry]
  BY <1>1 DEF kept, k
<1>6. unsaved' \subseteq flush /\ disk' = [r \in Ref |-> IF NS[r] \in flush \ unsaved' /\ r \notin ToSet(kept)
                                                    THEN NoEntry ELSE disk[r]]
  BY <1>1 DEF kept, k
<1>7. flush \subseteq Namespace
  BY ReferenceCacheAssumption DEF Fresh
<1> HIDE DEF flush
<1>8. \A r \in Ref : Reload(r) \in Entry /\ Reload(r) # NoEntry /\ NoEntry \in Entry
  <2> TAKE r \in Ref
  <2>1. disk[r] \in Entry /\ Reload(r).expires = now + TTL
    BY DEF BoundsInv, Reload, Entry
  <2> QED BY <2>1, EntryTypes DEF BoundsInv, Reload
<1>9. mem' \in [Ref -> Entry] /\ disk' \in [Ref -> Entry] /\ unsaved' \subseteq Namespace
  BY <1>5, <1>6, <1>7, <1>8 DEF BoundsInv
<1>10. ToSet(kept) = {r \in Ref : mem'[r] # NoEntry}
  BY <1>4, <1>5, <1>8
<1>11. Listed'
  BY <1>4, <1>5, <1>10 DEF Listed
<1>12. /\ policy' \in Policies /\ now' \in 0..MaxTime /\ restarts' \in 0..MaxRestarts
       /\ evicted' \subseteq Namespace /\ gone' \subseteq Ref /\ todo' \in [Proc -> SUBSET Namespace]
       /\ writing' = NoWrite
  BY ReferenceCacheAssumption DEF Restart, BoundsInv
<1> QED BY <1>9, <1>11, <1>12 DEF BoundsInv

\* A step of a call.
LEMMA StepListed ==
  ASSUME Shape, BoundsInv, Listed, NEW p \in Proc, Step(p)
  PROVE  BoundsInv' /\ Listed'
<1>0. pc[p] # "idle" => ref[p] \in Ref /\ NS[ref[p]] \in Namespace
  BY ReferenceCacheAssumption DEF Shape
<1>1. CASE LookupHit(p) \/ RecheckHit(p)
  <2>1. Live(ref[p]) /\ ref[p] \in Ref /\ order' = Newest(order, ref[p]) /\ mem' = mem
    BY <1>0, <1>1 DEF LookupHit, RecheckHit
  <2>2. Listed'
    BY <2>1, UseListed
  <2>3. BoundsInv'
    BY <1>1 DEF LookupHit, RecheckHit, BoundsInv, files, world
  <2> QED BY <2>2, <2>3
<1>2. CASE \/ LookupMiss(p) \/ Lead(p) \/ Join(p) \/ RecheckMiss(p) \/ Upstream(p) \/ RemoteFails(p)
           \/ Written(p) \/ Land(p)
  <2>1. UNCHANGED <<lru, files, world, todo, gone>>
    BY <1>2 DEF LookupMiss, Lead, Join, RecheckMiss, Upstream, RemoteFails, Written, Land
  <2> QED BY <2>1 DEF BoundsInv, Listed, lru, files, world
<1>3. CASE Add(p)
  <2>1. got[p] \in Answers /\ ref[p] \in Ref /\ LruAdd(ref[p], got[p])
    BY <1>0, <1>3 DEF Add, Shape
  <2>2. Listed' /\ mem' \in [Ref -> Entry] /\ evicted' \subseteq Namespace
    BY <2>1, AddListed
  <2> QED BY <1>3, <2>2 DEF Add, BoundsInv, files, world
<1>4. CASE Drain(p)
  BY <1>0, <1>4 DEF Drain, BoundsInv, Listed, files, world
<1>5. CASE TakeKeys(p)
  <2>1. PICK ns \in todo[p] :
          /\ writing' = [by |-> p, ns |-> ns, keys |-> {r \in Ref : NS[r] = ns /\ Live(r)}]
          /\ todo' = [todo EXCEPT ![p] = todo[p] \ {ns}]
    BY <1>5 DEF TakeKeys
  <2>2. writing' \in [by : Proc, ns : Namespace, keys : SUBSET Ref]
    BY <2>1 DEF BoundsInv
  <2>3. todo' \in [Proc -> SUBSET Namespace]
    BY <2>1 DEF BoundsInv
  <2> QED BY <1>5, <2>2, <2>3 DEF TakeKeys, BoundsInv, Listed, lru, world
<1>6. CASE Rewrite(p) \/ RewriteFails(p)
  <2>1. writing.by = p /\ writing' = NoWrite
    BY <1>6 DEF Rewrite, RewriteFails
  <2>2. \A r \in Ref : Recorded(r) \in Entry /\ NoEntry \in Entry
    <3> TAKE r \in Ref
    <3>1. mem[r] \in Entry /\ [mem[r] EXCEPT !.expires = now + TTL].expires = now + TTL
      BY DEF BoundsInv, Entry
    <3> QED BY <3>1, EntryTypes DEF BoundsInv, Recorded
  <2>3. disk' \in [Ref -> Entry]
    BY <1>6, <2>2 DEF Rewrite, RewriteFails, BoundsInv
  <2>4. unsaved' \subseteq Namespace
    <3>1. p # NoProc
      BY ReferenceCacheAssumption
    <3>2. writing.ns \in Namespace
      BY <2>1, <3>1 DEF BoundsInv, NoWrite
    <3> QED BY <1>6, <3>2 DEF Rewrite, RewriteFails, BoundsInv
  <2> QED BY <1>6, <2>1, <2>3, <2>4 DEF Rewrite, RewriteFails, BoundsInv, Listed, lru, world, calls
<1>7. CASE TagRemote(p) \/ UntagRemote(p)
  <2>1. UNCHANGED <<lru, files, policy, now, restarts, todo>>
    BY <1>7 DEF TagRemote, UntagRemote, RemoteSet
  <2>2. gone' \subseteq Ref
    BY <1>0, <1>7 DEF TagRemote, UntagRemote, BoundsInv
  <2> QED BY <2>1, <2>2 DEF BoundsInv, Listed, lru, files
<1>8. CASE Invalidate(p)
  <2>1. ref[p] \in Ref /\ LruRemove(ref[p])
    BY <1>0, <1>8 DEF Invalidate
  <2>2. Listed' /\ mem' \in [Ref -> Entry] /\ evicted' \subseteq Namespace
    BY <2>1, RemoveListed
  <2>3. todo' \in [Proc -> SUBSET Namespace]
    BY <1>0, <1>8 DEF Invalidate, BoundsInv
  <2> QED BY <1>8, <2>2, <2>3 DEF Invalidate, BoundsInv, files, world
<1> QED BY <1>1, <1>2, <1>3, <1>4, <1>5, <1>6, <1>7, <1>8 DEF Step

\* TypeOK: whatever is added, used, evicted, invalidated, expired and reloaded,
\* the LRU holds at most MaxEntries entries, each once in its order.
THEOREM TypeCorrect == Spec => []TypeOK
<1> DEFINE Inv == BoundsInv /\ Listed
<1>1. Init => Inv
  <2> SUFFICES ASSUME Init PROVE Inv
    OBVIOUS
  <2>1. NoEntry \in Entry /\ now \in 0..MaxTime
    <3>1. now = 0 /\ now \in 0..MaxTime
      BY ReferenceCacheAssumption DEF Init
    <3>2. [desc |-> NoDesc, saved |-> 0, born |-> 0, expires |-> now + TTL].expires = now + TTL
      OBVIOUS
    <3> QED BY <3>1, <3>2, EntryTypes
  <2>2. BoundsInv
    BY <2>1, ReferenceCacheAssumption DEF Init, BoundsInv
  <2>3. order = <<>> /\ order \in Seq(Ref) /\ Len(order) = 0 /\ {r \in Ref : mem[r] # NoEntry} = {}
    BY DEF Init
  <2>4. ToSet(order) = {} /\ IsInjective(order)
    <3>1. /\ ToSet(order) = {order[i] : i \in 1..Len(order)}
          /\ IsInjective(order) <=> \A i, j \in 1..Len(order) : order[i] = order[j] => i = j
      BY <2>3, Elements
    <3>2. 1..Len(order) = {}
      BY <2>3
    <3> QED BY <3>1, <3>2
  <2> QED BY <2>2, <2>3, <2>4, ReferenceCacheAssumption DEF Listed
<1>2. Shape /\ Inv /\ [Next]_vars => Inv'
  <2> SUFFICES ASSUME Shape, Inv, [Next]_vars PROVE Inv'
    OBVIOUS
  <2>1. ASSUME NEW p \in Proc, Step(p) PROVE Inv'
    BY <2>1, StepListed
  <2>2. ASSUME NEW p \in Proc, NEW r \in Ref, BeginResolve(p, r) \/ BeginTag(p, r) \/ BeginUntag(p, r) PROVE Inv'
    BY <2>2 DEF BeginResolve, BeginTag, BeginUntag, Begin, BoundsInv, Listed, lru, files, world
  <2>3. CASE RemoteMoves
    BY <2>3 DEF RemoteMoves, RemoteSet, BoundsInv, Listed, lru, files
  <2>4. CASE Tick
    <3>1. now' \in 0..MaxTime
      BY <2>4, ReferenceCacheAssumption DEF Tick, BoundsInv
    <3> QED BY <2>4, <3>1 DEF Tick, BoundsInv, Listed, lru, files, calls
  <2>5. CASE Restart
    BY <2>5, RestartListed
  <2>6. ASSUME NEW r \in Ref, Expire(r) PROVE Inv'
    <3>1. Listed' /\ mem' \in [Ref -> Entry] /\ evicted' \subseteq Namespace
      BY <2>6, RemoveListed DEF Expire
    <3> QED BY <2>6, <3>1 DEF Expire, BoundsInv, files, world, calls
  <2>7. CASE UNCHANGED vars
    BY <2>7 DEF vars, BoundsInv, Listed, lru, files, world, calls
  <2> QED BY <2>1, <2>2, <2>3, <2>4, <2>5, <2>6, <2>7 DEF Next
<1>3. Shape /\ Inv => TypeOK
  BY DEF Shape, BoundsInv, Listed, TypeOK, NoWrite, Places, Answers
<1> QED BY <1>1, <1>2, <1>3, ShapeInv, PTL DEF Spec

-----------------------------------------------------------------------------
(***************************************************************************)
(* A digest is fetched by the leader of its flight alone, so between its   *)
(* second look into the LRU and its own Add nobody else adds it.           *)
(***************************************************************************)
Leads(p) == pc[p] \in {"recheck", "upstream", "add"} /\ Servable(ref[p]) => flight[ref[p]] = p
OnTag(p) == pc[p] \in {"tag", "untag", "invalidate"} => ref[p] \notin Digest
Missing(p) == pc[p] = "upstream" /\ Servable(ref[p]) => ~ Live(ref[p])

FlightInv == \A p \in Proc : Leads(p) /\ OnTag(p) /\ Missing(p)

\* An entry comes to life by the Add of its own reference only.
LEMMA AddLives ==
  ASSUME Shape, NEW p \in Proc, Add(p), NEW r \in Ref, r # ref[p], Live(r)'
  PROVE  Live(r)
BY DEF Add, LruAdd, Live, Shape, world

\* No step of a call breaks the invariant of the flights.
LEMMA StepFlight ==
  ASSUME Shape, FlightInv, NEW p \in Proc, Step(p)
  PROVE  FlightInv'
<1> USE DEF Goto, lru, files, world, calls, FlightInv, Leads, OnTag, Missing, Servable
<1>0. /\ NoProc \notin Proc /\ pc \in [Proc -> Places] /\ ref \in [Proc -> Ref \cup {NoRef}]
      /\ flight \in [Ref -> Proc \cup {NoProc}] /\ \A q \in Proc : pc[q] # "idle" => ref[q] \in Ref
  BY ReferenceCacheAssumption DEF Shape
<1>1. CASE LookupHit(p)
  BY <1>0, <1>1 DEF LookupHit, Finish, Live
<1>2. CASE LookupMiss(p) \/ Join(p) \/ RecheckMiss(p) \/ RemoteFails(p) \/ Written(p)
  BY <1>0, <1>2 DEF LookupMiss, Join, RecheckMiss, RemoteFails, Written, Live
<1>3. CASE Lead(p)
  BY <1>0, <1>3 DEF Lead, Live
<1>4. CASE RecheckHit(p) \/ Upstream(p)
  BY <1>0, <1>4 DEF RecheckHit, Upstream, Live
<1>5. CASE Add(p)
  <2>1. \A q \in Proc : Leads(q)' /\ OnTag(q)'
    BY <1>0, <1>5 DEF Add
  <2>2. ASSUME NEW q \in Proc, NEW r \in Ref, pc'[q] = "upstream", ref[q] = r, Servable(r)
        PROVE  ~ Live(r)'
    <3>1. q # p /\ pc[q] = "upstream" /\ pc[p] = "add" /\ ~ Live(r)
      BY <1>0, <1>5, <2>2 DEF Add
    <3>2. r # ref[p]
      BY <3>1, <2>2
    <3> QED BY <1>5, <3>1, <3>2, AddLives
  <2>3. ref' = ref /\ policy' = policy /\ \A q \in Proc : pc'[q] = "upstream" => ref[q] \in Ref
    BY <1>0, <1>5 DEF Add
  <2>4. \A q \in Proc : Missing(q)'
    BY <2>2, <2>3 DEF Live
  <2> QED BY <2>1, <2>4
<1>6. CASE Drain(p) \/ TakeKeys(p) \/ Rewrite(p) \/ RewriteFails(p)
  BY <1>0, <1>6 DEF Drain, TakeKeys, Rewrite, RewriteFails, Live
<1>7. CASE Land(p)
  BY <1>0, <1>7 DEF Land, Finish, Live
<1>8. CASE TagRemote(p) \/ UntagRemote(p)
  BY <1>0, <1>8 DEF TagRemote, UntagRemote, RemoteSet, Live
<1>9. CASE Invalidate(p)
  BY <1>0, <1>9 DEF Invalidate, LruRemove, Live, Shape
<1> QED BY <1>1, <1>2, <1>3, <1>4, <1>5, <1>6, <1>7, <1>8, <1>9 DEF Step

\* A call starts outside every flight; a Tag or an Untag takes no digest.
LEMMA BeginFlight ==
  ASSUME Shape, FlightInv, NEW p \in Proc, NEW r \in Ref,
         BeginResolve(p, r) \/ BeginTag(p, r) \/ BeginUntag(p, r)
  PROVE  FlightInv'
BY DEF BeginResolve, BeginTag, BeginUntag, Begin, Goto, Shape, FlightInv, Leads, OnTag, Missing,
       Servable, Live, lru, files, world

\* A call goes to the registry for a digest only if memory does not hold it:
\* the second look inside the flight (reference_cache.go, Resolve) is enough,
\* with any number of goroutines and at any pace of expiry and eviction.
THEOREM NoRoundTripWasted == Spec => []NoNeedlessRoundTrip
<1>1. Init => FlightInv
  BY DEF Init, FlightInv, Leads, OnTag, Missing
<1>2. ASSUME Shape, FlightInv, [Next]_vars PROVE FlightInv'
  <2> USE DEF FlightInv, Leads, OnTag, Missing, Servable, lru, files, world, calls
  <2>1. CASE \E p \in Proc : Step(p)
    BY <1>2, <2>1, StepFlight
  <2>2. CASE \E p \in Proc, r \in Ref : BeginResolve(p, r) \/ BeginTag(p, r) \/ BeginUntag(p, r)
    BY <1>2, <2>2, BeginFlight
  <2>3. CASE RemoteMoves
    BY <1>2, <2>3 DEF RemoteMoves, RemoteSet, Live
  <2>4. CASE Tick
    <3>1. \A r \in Ref : Live(r)' => Live(r)
      BY <1>2, <2>4 DEF Tick, Live, Shape, Timed
    <3> QED BY <1>2, <2>4, <3>1 DEF Tick, Shape
  <2>5. CASE Restart
    BY <2>5 DEF Restart
  <2>6. CASE \E r \in Ref : Expire(r)
    BY <1>2, <2>6 DEF Expire, LruRemove, Live, Shape
  <2>7. CASE UNCHANGED vars
    BY <1>2, <2>7 DEF vars, Live
  <2> QED BY <1>2, <2>1, <2>2, <2>3, <2>4, <2>5, <2>6, <2>7 DEF Next
<1>3. FlightInv => NoNeedlessRoundTrip
  BY DEF FlightInv, Missing, NoNeedlessRoundTrip
<1> QED BY <1>1, <1>2, <1>3, ShapeInv, PTL DEF Spec

-----------------------------------------------------------------------------
(***************************************************************************)
(* Under the policy "Always" no call enters a flight, so each is answered  *)
(* with its own question.                                                  *)
(***************************************************************************)
Apart(p) == pc[p] \notin {"lookup", "flight", "joined", "recheck"}
Own(p) == IF pc[p] = "idle" THEN got[p] = NoDesc
          ELSE remote[ref[p]] \in seen[p] /\ got[p] \in seen[p] \cup {NoDesc}

AlwaysInv ==
  policy = "Always" =>
    /\ \A r \in Ref : flight[r] = NoProc
    /\ \A p \in Proc : Apart(p) /\ Own(p)
    /\ answer.desc # NoDesc => answer.desc \in answer.seen

\* No step of a call breaks it.
LEMMA StepAlways ==
  ASSUME Shape, AlwaysInv, policy = "Always", NEW p \in Proc, Step(p)
  PROVE  AlwaysInv'
<1> USE DEF Goto, lru, files, world, calls, AlwaysInv, Apart, Own
<1>0. /\ NoProc \notin Proc /\ pc \in [Proc -> Places] /\ ref \in [Proc -> Ref \cup {NoRef}]
      /\ got \in [Proc -> Answers] /\ seen \in [Proc -> SUBSET Answers] /\ remote \in [Ref -> Answers]
      /\ \A q \in Proc : pc[q] # "idle" => ref[q] \in Ref
  BY ReferenceCacheAssumption DEF Shape
<1>1. CASE LookupHit(p) \/ LookupMiss(p) \/ Lead(p) \/ Join(p) \/ RecheckHit(p) \/ RecheckMiss(p)
  BY <1>1 DEF LookupHit, LookupMiss, Lead, Join, RecheckHit, RecheckMiss
<1>2. CASE Upstream(p)
  BY <1>0, <1>2 DEF Upstream
<1>3. CASE Add(p) \/ Drain(p) \/ Written(p) \/ Invalidate(p) \/ RemoteFails(p)
  BY <1>0, <1>3 DEF Add, Drain, Written, Invalidate, RemoteFails
<1>4. CASE TakeKeys(p) \/ Rewrite(p) \/ RewriteFails(p)
  BY <1>0, <1>4 DEF TakeKeys, Rewrite, RewriteFails
<1>5. CASE Land(p)
  <2>1. Joined(p) = {} /\ {p} \cup Joined(p) = {p}
    BY <1>0, <1>5 DEF Land, Joined
  <2>2. Finish({p}, got[p], seen[p])
    BY <1>5, <2>1 DEF Land
  <2> QED BY <1>0, <1>5, <2>2 DEF Land, Finish
<1>6. CASE TagRemote(p)
  BY <1>0, <1>6 DEF TagRemote, RemoteSet
<1>7. CASE UntagRemote(p)
  BY <1>0, <1>7 DEF UntagRemote, RemoteSet
<1> QED BY <1>1, <1>2, <1>3, <1>4, <1>5, <1>6, <1>7 DEF Step

\* Under "Always" a caller gets what the registry held during its own call:
\* Resolve bypasses the flight (reference_cache.go, RemotePolicyAlways).
THEOREM AlwaysIsCurrent == Spec => []AnswersCurrent
<1>1. Init => AlwaysInv
  BY DEF Init, AlwaysInv, Apart, Own, NoAnswer
<1>2. ASSUME Shape, AlwaysInv, [Next]_vars PROVE AlwaysInv'
  <2> USE DEF AlwaysInv, Apart, Own, NoAnswer, lru, files, world, calls
  <2>0. policy' = policy
    BY <1>2 DEF Next, Step, vars, LookupHit, LookupMiss, Lead, Join, RecheckHit, RecheckMiss, Upstream, Add,
      Drain, TakeKeys, Rewrite, RewriteFails, Written, Land, TagRemote, UntagRemote, RemoteFails, Invalidate,
      BeginResolve, BeginTag, BeginUntag, Begin, RemoteMoves, RemoteSet, Tick, Restart, Expire
  <2> SUFFICES ASSUME policy = "Always" PROVE AlwaysInv'
    BY <2>0
  <2>1. CASE \E p \in Proc : Step(p)
    BY <1>2, <2>1, StepAlways
  <2>2. CASE \E p \in Proc, r \in Ref : BeginResolve(p, r) \/ BeginTag(p, r) \/ BeginUntag(p, r)
    BY <1>2, <2>2 DEF BeginResolve, BeginTag, BeginUntag, Begin, Goto, Servable, Shape
  <2>3. CASE RemoteMoves
    BY <1>2, <2>3 DEF RemoteMoves, RemoteSet, Shape
  <2>4. CASE Tick \/ UNCHANGED vars
    BY <1>2, <2>4 DEF Tick, vars
  <2>5. CASE Restart
    BY <1>2, <2>5 DEF Restart
  <2>6. CASE \E r \in Ref : Expire(r)
    BY <1>2, <2>6 DEF Expire
  <2> QED BY <1>2, <2>1, <2>2, <2>3, <2>4, <2>5, <2>6 DEF Next
<1>3. AlwaysInv => AnswersCurrent
  BY DEF AlwaysInv, AnswersCurrent
<1> QED BY <1>1, <1>2, <1>3, ShapeInv, PTL DEF Spec

-----------------------------------------------------------------------------
(***************************************************************************)
(* The call that gets an answer for a tag has its leader's, and the leader *)
(* has asked the registry.                                                 *)
(***************************************************************************)
Asks(p) == ref[p] \in Ref \ Digest =>
  pc[p] \notin {"lookup", "recheck"} /\ remote[ref[p]] \in seen[p] /\ got[p] \in seen[p] \cup {NoDesc}

TagInv ==
  /\ \A p \in Proc : (pc[p] = "idle" => ref[p] = NoRef /\ got[p] = NoDesc) /\ Asks(p)
  /\ TagsComeFromRegistry

\* No step of a call breaks it.
LEMMA StepTags ==
  ASSUME Shape, TagInv, NEW p \in Proc, Step(p)
  PROVE  TagInv'
<1> USE DEF Goto, lru, files, world, calls, TagInv, Asks, TagsComeFromRegistry
<1>0. /\ NoProc \notin Proc /\ NoRef \notin Ref /\ pc \in [Proc -> Places] /\ ref \in [Proc -> Ref \cup {NoRef}]
      /\ got \in [Proc -> Answers] /\ seen \in [Proc -> SUBSET Answers] /\ remote \in [Ref -> Answers]
      /\ \A q \in Proc : pc[q] # "idle" => ref[q] \in Ref
  BY ReferenceCacheAssumption DEF Shape
<1>1. CASE LookupHit(p)
  BY <1>0, <1>1 DEF LookupHit, Finish
<1>2. CASE LookupMiss(p) \/ Join(p) \/ RecheckHit(p) \/ RecheckMiss(p)
  BY <1>0, <1>2 DEF LookupMiss, Join, RecheckHit, RecheckMiss
<1>3. CASE Lead(p)
  BY <1>0, <1>3 DEF Lead, Servable
<1>4. CASE Upstream(p)
  BY <1>0, <1>4 DEF Upstream
<1>5. CASE Add(p) \/ Drain(p) \/ Written(p) \/ Invalidate(p) \/ RemoteFails(p)
  BY <1>0, <1>5 DEF Add, Drain, Written, Invalidate, RemoteFails
<1>6. CASE TakeKeys(p) \/ Rewrite(p) \/ RewriteFails(p)
  BY <1>0, <1>6 DEF TakeKeys, Rewrite, RewriteFails
<1>7. CASE Land(p)
  <2>1. \A q \in {p} \cup Joined(p) : q \in Proc /\ ref[q] = ref[p]
    BY DEF Joined
  <2>2. Finish({p} \cup Joined(p), got[p], seen[p])
    BY <1>7 DEF Land
  <2>3. answer'.ref = ref[p] /\ answer'.desc = got[p] /\ answer'.flew = seen[p]
    BY <2>1, <2>2 DEF Finish
  <2>4. UNCHANGED remote
    BY <1>7 DEF Land
  <2>5. \A q \in Proc : (pc'[q] = "idle" /\ ref'[q] = NoRef /\ got'[q] = NoDesc)
                        \/ (pc'[q] = pc[q] /\ ref'[q] = ref[q] /\ got'[q] = got[q] /\ seen'[q] = seen[q])
    BY <2>2 DEF Finish
  <2> QED BY <1>0, <2>3, <2>4, <2>5
<1>8. CASE TagRemote(p)
  BY <1>0, <1>8 DEF TagRemote, RemoteSet
<1>9. CASE UntagRemote(p)
  BY <1>0, <1>9 DEF UntagRemote, RemoteSet
<1> QED BY <1>1, <1>2, <1>3, <1>4, <1>5, <1>6, <1>7, <1>8, <1>9 DEF Step

\* A tag is never answered from memory, whatever flights it is part of.
THEOREM TagsAreAsked == Spec => []TagsComeFromRegistry
<1>1. Init => TagInv
  BY ReferenceCacheAssumption DEF Init, TagInv, Asks, TagsComeFromRegistry, NoAnswer
<1>2. ASSUME Shape, TagInv, [Next]_vars PROVE TagInv'
  <2> USE DEF TagInv, Asks, TagsComeFromRegistry, NoAnswer, lru, files, world, calls
  <2>0. NoRef \notin Ref
    BY ReferenceCacheAssumption
  <2>1. CASE \E p \in Proc : Step(p)
    BY <1>2, <2>1, StepTags
  <2>2. CASE \E p \in Proc, r \in Ref : BeginResolve(p, r) \/ BeginTag(p, r) \/ BeginUntag(p, r)
    BY <1>2, <2>0, <2>2 DEF BeginResolve, BeginTag, BeginUntag, Begin, Goto, Servable, Shape
  <2>3. CASE RemoteMoves
    BY <1>2, <2>3 DEF RemoteMoves, RemoteSet, Shape
  <2>4. CASE Tick \/ UNCHANGED vars
    BY <1>2, <2>0, <2>4 DEF Tick, vars
  <2>5. CASE Restart
    BY <1>2, <2>0, <2>5 DEF Restart
  <2>6. CASE \E r \in Ref : Expire(r)
    BY <1>2, <2>0, <2>6 DEF Expire
  <2> QED BY <1>2, <2>1, <2>2, <2>3, <2>4, <2>5, <2>6 DEF Next
<1>3. TagInv => TagsComeFromRegistry
  BY DEF TagInv
<1> QED BY <1>1, <1>2, <1>3, ShapeInv, PTL DEF Spec

-----------------------------------------------------------------------------
(***************************************************************************)
(* What a program finds in its files when it starts, and how old it is.    *)
(***************************************************************************)

\* A restart keeps some of what is fresh on disk, in any order, and takes the
\* rest out of the files, if they can be written.
LEMMA RestartKeeps ==
  ASSUME Restart
  PROVE  \E K \in SUBSET Fresh :
           /\ mem' = [r \in Ref |-> IF r \in K THEN Reload(r) ELSE NoEntry]
           /\ \A r \in Ref : NS[r] \notin unsaved' /\ r \in Fresh \ K => disk'[r] = NoEntry
           /\ disk' \in [Ref -> {disk[r] : r \in Ref} \cup {NoEntry}]
           /\ \A r \in Ref : disk'[r] = disk[r] \/ (disk'[r] = NoEntry /\ r \notin K)
<1>1. PICK s \in LoadOrders :
        LET kept  == SubSeq(s, IF Len(s) > MaxEntries THEN Len(s) - MaxEntries + 1 ELSE 1, Len(s))
            flush == {NS[r] : r \in Fresh \ ToSet(kept)}
        IN  /\ mem' = [r \in Ref |-> IF r \in ToSet(kept) THEN Reload(r) ELSE NoEntry]
            /\ unsaved' \in SUBSET flush
            /\ disk' = [r \in Ref |-> IF NS[r] \in flush \ unsaved' /\ r \notin ToSet(kept)
                                      THEN NoEntry ELSE disk[r]]
  BY DEF Restart
<1> DEFINE m    == IF Len(s) > MaxEntries THEN Len(s) - MaxEntries + 1 ELSE 1
           kept == SubSeq(s, m, Len(s))
           K    == ToSet(kept)
<1>2. s \in Seq(Fresh)
  <2>1. PICK T \in SUBSET Fresh : s \in [1..Cardinality(T) -> T]
    BY DEF LoadOrders, SetToAllKPermutations, SetToSeqs
  <2>2. Cardinality(T) \in Nat
    <3>1. T \in SUBSET Ref
      BY DEF Fresh
    <3> QED BY <3>1, ReferenceCacheAssumption, FS_Subset, FS_CardinalityType
  <2> QED BY <2>1, <2>2
<1>3. K \in SUBSET Fresh
  <2>1. Len(s) \in Nat /\ m \in Nat \ {0}
    BY <1>2, ReferenceCacheAssumption
  <2>2. kept \in Seq(Fresh)
    BY <1>2, <2>1
  <2> QED BY <2>2 DEF ToSet
<1> HIDE DEF K
<1>4. /\ mem' = [r \in Ref |-> IF r \in K THEN Reload(r) ELSE NoEntry]
      /\ disk' = [r \in Ref |-> IF NS[r] \in {NS[x] : x \in Fresh \ K} \ unsaved' /\ r \notin K
                                THEN NoEntry ELSE disk[r]]
  BY <1>1 DEF K
<1> QED BY <1>3, <1>4

\* An entry has the time it was resolved from its Add to its last copy, and in
\* memory expires at most two TTLs later.
AgeInv ==
  \A r \in Ref :
    /\ mem[r].saved = mem[r].born /\ mem[r].expires <= mem[r].born + 2 * TTL
    /\ disk[r].saved = disk[r].born /\ disk[r].expires = 0

\* No step makes an entry younger.
LEMMA NextAges ==
  ASSUME Shape, AgeInv, [Next]_vars
  PROVE  AgeInv'
<1> USE DEF AgeInv, lru, files, world, calls
<1>1. TTL \in Nat /\ now \in Nat /\ mem \in [Ref -> Timed] /\ disk \in [Ref -> Timed]
  BY TTLType DEF Shape
<1>2. NoEntry.saved = 0 /\ NoEntry.born = 0 /\ NoEntry.expires = 0
  BY DEF NoEntry
<1>3. ASSUME NEW p \in Proc, Add(p)
      PROVE  AgeInv'
  BY <1>1, <1>2, <1>3 DEF Add, LruAdd
<1>4. ASSUME NEW p \in Proc, Rewrite(p)
      PROVE  AgeInv'
  <2>1. \A r \in Ref : Recorded(r).saved = mem[r].saved /\ Recorded(r).born = mem[r].born /\ Recorded(r).expires = 0
    BY <1>1 DEF Recorded, Timed
  <2> QED BY <1>1, <1>2, <1>4, <2>1 DEF Rewrite
<1>5. ASSUME NEW r, LruRemove(r), UNCHANGED disk
      PROVE  AgeInv'
  BY <1>1, <1>2, <1>5 DEF LruRemove
<1>6. CASE Restart
  <2>1. PICK K \in SUBSET Fresh :
          /\ mem' = [r \in Ref |-> IF r \in K THEN Reload(r) ELSE NoEntry]
          /\ \A r \in Ref : disk'[r] = disk[r] \/ disk'[r] = NoEntry
    BY <1>6, RestartKeeps
  <2>2. \A r \in Ref : Reload(r).saved = disk[r].saved /\ Reload(r).born = disk[r].born /\ Reload(r).expires = now + TTL
    BY <1>1 DEF Reload, Timed
  <2>3. \A r \in K : r \in Ref /\ now - disk[r].saved <= TTL
    BY DEF Fresh
  <2>4. \A r \in Ref : disk[r].saved \in Nat /\ disk[r].born \in Nat
    BY <1>1 DEF Timed
  <2>5. \A r \in Ref : mem'[r].saved = mem'[r].born /\ mem'[r].expires <= mem'[r].born + 2 * TTL
    BY <1>1, <1>2, <2>1, <2>2, <2>3, <2>4
  <2> QED BY <1>2, <2>1, <2>5
<1>7. CASE UNCHANGED <<mem, disk>>
  BY <1>7
<1> QED BY <1>3, <1>4, <1>5, <1>6, <1>7
           DEF Next, Step, vars, LookupHit, LookupMiss, Lead, Join, RecheckHit, RecheckMiss,
      Upstream, Drain, TakeKeys, RewriteFails, Written, Land, TagRemote, UntagRemote, RemoteFails, Invalidate,
      BeginResolve, BeginTag, BeginUntag, Begin, RemoteMoves, Tick, Expire

\* Nothing is served more than two TTLs after it was resolved, over any number
\* of restarts: load drops what is older than one TTL before it starts another.
THEOREM AgeIsBounded == Spec => []AgeBounded
<1>1. Init => AgeInv
  <2>1. TTL \in Nat
    BY TTLType
  <2> QED BY <2>1 DEF Init, AgeInv, NoEntry
<1>2. Shape /\ AgeInv => AgeBounded
  BY TTLType DEF Shape, AgeInv, AgeBounded, Live, Timed
<1> QED BY <1>1, <1>2, NextAges, ShapeInv, PTL DEF Spec
-----------------------------------------------------------------------------
(***************************************************************************)
(* Each change of the memory is owed to a file until a rewrite has copied  *)
(* it: by the call that made it, or by the one that took over its mark.    *)
(***************************************************************************)
FileShape ==
  /\ todo = [p \in Proc |-> todo[p]]
  /\ writing = NoWrite \/ (writing.by \in Proc /\ pc[writing.by] = "write")

Owes(p, ns) == (pc[p] = "drain" /\ NS[ref[p]] = ns) \/ (pc[p] = "write" /\ ns \in todo[p])
Owed(ns)    == \E p \in Proc : Owes(p, ns)

InFile(r) ==
  /\ Live(r) => disk[r] = Recorded(r)
  /\ disk[r] # NoEntry /\ NS[r] \notin evicted =>
       (mem[r] # NoEntry /\ disk[r] = Recorded(r)) \/ now - disk[r].saved > TTL

FileInv ==
  /\ FileShape
  /\ \A r \in Ref :
       /\ writing.ns = NS[r] /\ Live(r) => r \in writing.keys \/ Owed(NS[r])
       /\ NS[r] \in unsaved \/ Owed(NS[r]) \/ writing.ns = NS[r] \/ InFile(r)

\* A step that leaves memory, files and debts alone keeps this.
LEMMA FilesStay ==
  ASSUME FileInv, UNCHANGED <<mem, evicted, disk, writing, unsaved, todo>>,
         \A p \in Proc : pc[p] \in {"drain", "write"} => pc'[p] = pc[p] /\ ref'[p] = ref[p],
         \A r \in Ref : Live(r)' => Live(r),
         \A r \in Ref : now - disk[r].saved > TTL => now' - disk[r].saved > TTL
  PROVE  FileInv'
<1>1. FileShape'
  BY DEF FileInv, FileShape
<1>2. ASSUME NEW r \in Ref, Owed(NS[r]) PROVE Owed(NS[r])'
  BY <1>2 DEF Owed, Owes
<1>3. ASSUME NEW r \in Ref, InFile(r) PROVE InFile(r)'
  <2>1. Recorded(r)' = Recorded(r) /\ TTL' = TTL
    BY DEF Recorded, TTL
  <2> QED BY <1>3, <2>1 DEF InFile
<1> QED BY <1>1, <1>2, <1>3 DEF FileInv

\* A call that changes the memory has a debt for the file of its reference; the
\* other entries of the memory stay or are evicted and marked.
LEMMA ChangeOwes ==
  ASSUME Shape, FileInv, NEW p \in Proc, UNCHANGED <<now, disk, writing, unsaved, ref>>,
         pc[p] \notin {"drain", "write"}, FileShape',
         pc'[p] = "drain" \/ (pc'[p] = "write" /\ NS[ref[p]] \in todo'[p]),
         \A q \in Proc \ {p} : pc'[q] = pc[q] /\ todo'[q] = todo[q],
         evicted \subseteq evicted',
         \A r \in Ref \ {ref[p]} : mem'[r] = mem[r] \/ (mem'[r] = NoEntry /\ NS[r] \in evicted')
  PROVE  FileInv'
<1>1. ASSUME NEW r \in Ref, NS[r] = NS[ref[p]] \/ Owed(NS[r]) PROVE Owed(NS[r])'
  <2>1. CASE NS[r] = NS[ref[p]]
    <3>1. ref'[p] = ref[p] /\ (pc'[p] = "drain" \/ (pc'[p] = "write" /\ NS[r] \in todo'[p]))
      BY <2>1
    <3>2. NS[ref'[p]] = NS[r]
      BY <2>1, <3>1
    <3> QED BY <3>1, <3>2 DEF Owed, Owes
  <2>2. CASE Owed(NS[r])
    <3>1. PICK q \in Proc : Owes(q, NS[r])
      BY <2>2 DEF Owed
    <3>2. q # p
      BY <3>1 DEF Owes
    <3>3. pc'[q] = pc[q] /\ todo'[q] = todo[q] /\ ref' = ref
      BY <3>2
    <3> QED BY <3>1, <3>3 DEF Owed, Owes
  <2> QED BY <1>1, <2>1, <2>2
<1>2. ASSUME NEW r \in Ref, NS[r] # NS[ref[p]] PROVE (Live(r)' => Live(r)) /\ (InFile(r) => InFile(r)')
  <2>1. mem'[r] = mem[r] \/ (mem'[r] = NoEntry /\ NS[r] \in evicted')
    BY <1>2
  <2>2. mem'[r] = mem[r] => Recorded(r)' = Recorded(r)
    BY DEF Recorded
  <2> QED BY <2>1, <2>2 DEF InFile, Live, TTL
<1> QED BY <1>1, <1>2 DEF FileInv

\* The steps of an Add and an Invalidate, and those of a rewrite, pass the
\* debts on.
LEMMA DebtsKept ==
  ASSUME Shape, FileInv, NEW p \in Proc,
         \/ Add(p) \/ Drain(p) \/ Invalidate(p) \/ Written(p)
         \/ TakeKeys(p) \/ Rewrite(p) \/ RewriteFails(p)
  PROVE  FileInv'
<1> USE DEF Goto, lru, files, world, calls
<1>0. /\ NoProc \notin Proc /\ NoRef \notin Namespace /\ NS \in [Ref -> Namespace]
      /\ pc \in [Proc -> Places] /\ ref \in [Proc -> Ref \cup {NoRef}]
      /\ mem \in [Ref -> Timed] /\ disk \in [Ref -> Timed] /\ \A q \in Proc : pc[q] # "idle" => ref[q] \in Ref
  BY ReferenceCacheAssumption DEF Shape
<1>1. /\ todo = [q \in Proc |-> todo[q]]
      /\ writing = NoWrite \/ (writing.by \in Proc /\ pc[writing.by] = "write")
  BY DEF FileInv, FileShape
<1>2. NoWrite.ns = NoRef /\ NoWrite.by = NoProc
  BY DEF NoWrite
<1>3. CASE Add(p)
  <2>1. /\ pc' = [pc EXCEPT ![p] = "drain"] /\ pc[p] = "add"
        /\ UNCHANGED <<disk, writing, unsaved, now, ref, todo>>
    BY <1>3 DEF Add
  <2>2. /\ \A r \in Ref \ {ref[p]} : mem'[r] = mem[r] \/ (mem'[r] = NoEntry /\ NS[r] \in evicted')
        /\ evicted \subseteq evicted'
    BY <1>3 DEF Add, LruAdd
  <2>3. pc'[p] = "drain" /\ \A q \in Proc \ {p} : pc'[q] = pc[q]
    BY <1>0, <2>1
  <2>4. FileShape'
    <3>1. writing' = NoWrite \/ (writing'.by \in Proc /\ pc'[writing'.by] = "write")
      BY <1>1, <2>1, <2>3
    <3> QED BY <1>1, <2>1, <3>1 DEF FileShape
  <2> QED BY <2>1, <2>2, <2>3, <2>4, ChangeOwes
<1>4. CASE Invalidate(p)
  <2>1. /\ pc' = [pc EXCEPT ![p] = "write"] /\ pc[p] = "invalidate"
        /\ todo' = [todo EXCEPT ![p] = {NS[ref[p]]}]
        /\ UNCHANGED <<disk, writing, unsaved, now, ref>>
    BY <1>4 DEF Invalidate
  <2>2. /\ \A r \in Ref \ {ref[p]} : mem'[r] = mem[r]
        /\ evicted \subseteq evicted'
    BY <1>4, <1>0 DEF Invalidate, LruRemove
  <2>3. /\ FileShape' /\ pc'[p] = "write" /\ NS[ref[p]] \in todo'[p]
        /\ \A q \in Proc \ {p} : pc'[q] = pc[q] /\ todo'[q] = todo[q]
    BY <1>0, <1>1, <2>1 DEF FileShape
  <2> QED BY <2>1, <2>2, <2>3, ChangeOwes
<1>5. CASE Drain(p)
  <2>1. /\ pc' = [pc EXCEPT ![p] = "write"] /\ pc[p] = "drain" /\ evicted' = {}
        /\ todo' = [todo EXCEPT ![p] = evicted \cup {NS[ref[p]]}]
        /\ UNCHANGED <<mem, disk, writing, unsaved, now, ref>>
    BY <1>5 DEF Drain
  <2>2. FileShape'
    BY <1>0, <1>1, <2>1 DEF FileShape
  <2>3. ASSUME NEW r \in Ref, Owed(NS[r]) \/ NS[r] \in evicted PROVE Owed(NS[r])'
    BY <1>0, <1>1, <2>1, <2>3 DEF Owed, Owes
  <2>4. ASSUME NEW r \in Ref PROVE (Live(r)' => Live(r)) /\ (InFile(r) /\ NS[r] \notin evicted => InFile(r)')
    BY <2>1 DEF InFile, Live, Recorded, TTL
  <2> QED BY <2>1, <2>2, <2>3, <2>4 DEF FileInv
<1>6. CASE TakeKeys(p)
  <2>1. PICK ns \in todo[p] :
           /\ writing' = [by |-> p, ns |-> ns, keys |-> {r \in Ref : NS[r] = ns /\ Live(r)}]
           /\ todo' = [todo EXCEPT ![p] = @ \ {ns}]
    BY <1>6 DEF TakeKeys
  <2>2. pc[p] = "write" /\ writing = NoWrite /\ UNCHANGED <<mem, evicted, disk, unsaved, now, pc, ref>>
    BY <1>6 DEF TakeKeys
  <2>3. FileShape'
    BY <1>1, <2>1, <2>2 DEF FileShape
  <2>4. ASSUME NEW r \in Ref, NS[r] # ns, Owed(NS[r]) PROVE Owed(NS[r])'
    BY <1>1, <2>1, <2>2, <2>4 DEF Owed, Owes
  <2>5. ASSUME NEW r \in Ref PROVE (Live(r)' => Live(r)) /\ (InFile(r) => InFile(r)')
    BY <2>2 DEF InFile, Live, Recorded, TTL
  <2>6. \A r \in Ref : writing.ns # NS[r]
    BY <1>0, <1>2, <2>2
  <2>7. writing'.ns = ns /\ \A r \in Ref : NS[r] = ns /\ Live(r) => r \in writing'.keys
    BY <2>1
  <2>8. ASSUME NEW r \in Ref
        PROVE  /\ writing'.ns = NS[r] /\ Live(r)' => r \in writing'.keys \/ Owed(NS[r])'
               /\ NS[r] \in unsaved' \/ Owed(NS[r])' \/ writing'.ns = NS[r] \/ InFile(r)'
    <3>1. CASE NS[r] = ns
      BY <2>5, <2>7, <3>1
    <3>2. CASE NS[r] # ns
      BY <2>2, <2>4, <2>5, <2>6, <2>7, <3>2 DEF FileInv
    <3> QED BY <3>1, <3>2
  <2> QED BY <2>3, <2>8 DEF FileInv
<1>7. CASE Rewrite(p)
  <2>1. /\ writing.by = p /\ writing' = NoWrite /\ unsaved' = unsaved \ {writing.ns}
        /\ disk' = [r \in Ref |-> IF NS[r] # writing.ns THEN disk[r]
                                  ELSE IF r \in writing.keys /\ Live(r) THEN Recorded(r) ELSE NoEntry]
        /\ UNCHANGED <<mem, evicted, now, pc, ref, todo>>
    BY <1>7 DEF Rewrite
  <2>2. FileShape' /\ \A r \in Ref : writing'.ns # NS[r]
    BY <1>0, <1>1, <1>2, <2>1 DEF FileShape
  <2>3. ASSUME NEW r \in Ref, Owed(NS[r]) PROVE Owed(NS[r])'
    BY <2>1, <2>3 DEF Owed, Owes
  <2>4. ASSUME NEW r \in Ref, NS[r] # writing.ns, InFile(r) PROVE InFile(r)'
    BY <2>1, <2>4 DEF InFile, Live, Recorded, TTL
  <2>5. ASSUME NEW r \in Ref, NS[r] = writing.ns, ~ Owed(NS[r]) PROVE InFile(r)'
    <3>1. Live(r) => r \in writing.keys
      BY <2>5 DEF FileInv
    <3>2. (Live(r)' <=> Live(r)) /\ Recorded(r)' = Recorded(r)
      BY <2>1 DEF Live, Recorded
    <3>3. disk'[r] = IF Live(r) THEN Recorded(r) ELSE NoEntry
      BY <2>1, <2>5, <3>1
    <3> QED BY <2>1, <3>2, <3>3 DEF InFile, Live
  <2> QED BY <2>1, <2>2, <2>3, <2>4, <2>5 DEF FileInv
<1>8. CASE RewriteFails(p)
  <2>1. /\ writing' = NoWrite /\ unsaved' = unsaved \cup {writing.ns}
        /\ UNCHANGED <<mem, evicted, disk, now, pc, ref, todo>>
    BY <1>8 DEF RewriteFails
  <2>2. FileShape' /\ \A r \in Ref : writing'.ns # NS[r]
    BY <1>0, <1>1, <1>2, <2>1 DEF FileShape
  <2>3. ASSUME NEW r \in Ref, Owed(NS[r]) PROVE Owed(NS[r])'
    BY <2>1, <2>3 DEF Owed, Owes
  <2>4. ASSUME NEW r \in Ref, InFile(r) PROVE InFile(r)'
    BY <2>1, <2>4 DEF InFile, Live, Recorded, TTL
  <2> QED BY <2>1, <2>2, <2>3, <2>4 DEF FileInv
<1>9. CASE Written(p)
  <2>1. /\ pc' = [pc EXCEPT ![p] = "land"] /\ pc[p] = "write" /\ todo[p] = {} /\ writing.by # p
        /\ UNCHANGED <<mem, evicted, disk, writing, unsaved, now, ref, todo>>
    BY <1>9 DEF Written
  <2>2. FileShape'
    BY <1>0, <1>1, <2>1 DEF FileShape
  <2>3. ASSUME NEW r \in Ref, Owed(NS[r]) PROVE Owed(NS[r])'
    BY <1>0, <2>1, <2>3 DEF Owed, Owes
  <2>4. ASSUME NEW r \in Ref PROVE (Live(r)' => Live(r)) /\ (InFile(r) => InFile(r)')
    BY <2>1 DEF InFile, Live, Recorded, TTL
  <2> QED BY <2>1, <2>2, <2>3, <2>4 DEF FileInv
<1> QED BY <1>3, <1>4, <1>5, <1>6, <1>7, <1>8, <1>9

\* A restart finds in memory what it has read from the files, and has no debts.
LEMMA RestartFiles ==
  ASSUME Shape, AgeInv, FileInv, Restart
  PROVE  FileInv'
<1>1. PICK K \in SUBSET Fresh :
           /\ mem' = [r \in Ref |-> IF r \in K THEN Reload(r) ELSE NoEntry]
           /\ \A r \in Ref : NS[r] \notin unsaved' /\ r \in Fresh \ K => disk'[r] = NoEntry
           /\ \A r \in Ref : disk'[r] = disk[r] \/ (disk'[r] = NoEntry /\ r \notin K)
  BY RestartKeeps
<1>2. /\ evicted' = {} /\ writing' = NoWrite /\ now' = now
      /\ todo' = [p \in Proc |-> {}] /\ \A p \in Proc : pc'[p] = "idle"
  BY DEF Restart
<1>3. FileShape'
  BY <1>2 DEF FileShape
<1>4. \A r \in Ref : writing'.ns # NS[r]
  BY <1>2, ReferenceCacheAssumption DEF NoWrite
<1>5. ASSUME NEW r \in Ref, NS[r] \notin unsaved' PROVE InFile(r)'
  <2>1. disk[r] \in Timed /\ disk[r].expires = 0 /\ TTL \in Nat /\ now \in Nat /\ TTL' = TTL
    BY TTLType DEF Shape, AgeInv, TTL
  <2>2. CASE r \in K
    <3>1. disk[r] # NoEntry /\ disk'[r] = disk[r] /\ mem'[r] = Reload(r)
      BY <1>1, <2>2 DEF Fresh
    <3>2. [Reload(r) EXCEPT !.expires = 0] = disk[r]
      BY <2>1 DEF Reload, Timed
    <3>3. Recorded(r)' = disk'[r]
      BY <3>1, <3>2 DEF Recorded
    <3>4. mem'[r] # NoEntry
      <4>1. [NoEntry EXCEPT !.expires = 0] = NoEntry
        BY DEF NoEntry
      <4> QED BY <3>1, <3>2, <4>1
    <3> QED BY <3>3, <3>4 DEF InFile
  <2>3. CASE r \notin K
    <3>1. mem'[r] = NoEntry
      BY <1>1, <2>3
    <3>2. disk'[r] # NoEntry => disk'[r] = disk[r] /\ r \notin Fresh
      BY <1>1, <1>5, <2>3
    <3>3. disk'[r] # NoEntry => now' - disk'[r].saved > TTL
      BY <1>2, <2>1, <3>2 DEF Fresh, Timed
    <3> QED BY <2>1, <3>1, <3>3 DEF InFile, Live
  <2> QED BY <2>2, <2>3
<1> QED BY <1>2, <1>3, <1>4, <1>5 DEF FileInv

\* No step leaves a change of the memory without somebody who owes it.
LEMMA NextFiles ==
  ASSUME Shape, AgeInv, FileInv, [Next]_vars
  PROVE  FileInv'
<1> USE DEF Goto, lru, files, world, calls
<1>0. /\ pc \in [Proc -> Places] /\ ref \in [Proc -> Ref \cup {NoRef}] /\ now \in Nat /\ TTL \in Nat
      /\ mem \in [Ref -> Timed] /\ disk \in [Ref -> Timed]
  BY TTLType DEF Shape
<1>1. ASSUME UNCHANGED <<mem, evicted, disk, writing, unsaved, todo, now>>,
             \A p \in Proc : pc[p] \in {"drain", "write"} => pc'[p] = pc[p] /\ ref'[p] = ref[p]
      PROVE  FileInv'
  BY <1>1, FilesStay DEF Live
<1>2. ASSUME NEW p \in Proc, Step(p)
      PROVE  FileInv'
  <2>1. CASE LookupHit(p)
    BY <1>0, <1>1, <2>1 DEF LookupHit, Finish
  <2>2. CASE Land(p)
    <3>1. Joined(p) \subseteq Proc /\ \A q \in {p} \cup Joined(p) : pc[q] \notin {"drain", "write"}
      BY <2>2 DEF Land, Joined
    <3> QED BY <1>0, <1>1, <2>2, <3>1 DEF Land, Finish
  <2>3. CASE \/ LookupMiss(p) \/ Lead(p) \/ Join(p) \/ RecheckHit(p) \/ RecheckMiss(p)
             \/ Upstream(p) \/ RemoteFails(p) \/ TagRemote(p) \/ UntagRemote(p)
    BY <1>0, <1>1, <2>3 DEF LookupMiss, Lead, Join, RecheckHit, RecheckMiss, Upstream, RemoteFails,
                        TagRemote, UntagRemote, RemoteSet
  <2> QED BY <1>2, <2>1, <2>2, <2>3, DebtsKept DEF Step
<1>3. ASSUME NEW p \in Proc, NEW r \in Ref, BeginResolve(p, r) \/ BeginTag(p, r) \/ BeginUntag(p, r)
      PROVE  FileInv'
  BY <1>0, <1>1, <1>3 DEF BeginResolve, BeginTag, BeginUntag, Begin
<1>4. CASE Tick
  <2>1. \A r \in Ref : (Live(r)' => Live(r)) /\ (now - disk[r].saved > TTL => now' - disk[r].saved > TTL)
    BY <1>0, <1>4 DEF Tick, Live, Timed
  <2> QED BY <1>4, <2>1, FilesStay DEF Tick
<1>5. ASSUME NEW r \in Ref, Expire(r)
      PROVE  FileInv'
  <2>1. /\ mem' = [mem EXCEPT ![r] = NoEntry] /\ evicted' = evicted \cup {NS[r]}
        /\ UNCHANGED <<disk, writing, unsaved, todo, now, pc, ref>>
    BY <1>5 DEF Expire, LruRemove
  <2>2. FileShape'
    BY <2>1 DEF FileInv, FileShape
  <2>3. ASSUME NEW x \in Ref, Owed(NS[x]) PROVE Owed(NS[x])'
    BY <2>1, <2>3 DEF Owed, Owes
  <2>4. ASSUME NEW x \in Ref PROVE (Live(x)' => Live(x)) /\ (InFile(x) => InFile(x)')
    BY <1>0, <2>1 DEF InFile, Live, Recorded, TTL
  <2> QED BY <2>1, <2>2, <2>3, <2>4 DEF FileInv
<1>6. CASE RemoteMoves
  BY <1>0, <1>1, <1>6 DEF RemoteMoves, RemoteSet
<1>7. CASE UNCHANGED vars
  BY <1>1, <1>7 DEF vars
<1> QED BY <1>2, <1>3, <1>4, <1>5, <1>6, <1>7, RestartFiles DEF Next

\* A rewrite never clobbers a newer one: when nobody owes anything each file
\* that could be written is what the memory holds, as far as it is not marked.
THEOREM SnapshotsCurrent == Spec => []SnapshotCurrent
<1>1. Init => AgeInv /\ FileInv
  <2> SUFFICES ASSUME Init PROVE AgeInv /\ FileInv
    OBVIOUS
  <2>1. AgeInv
    <3>1. TTL \in Nat
      BY TTLType
    <3> QED BY <3>1 DEF Init, AgeInv, NoEntry
  <2>2. FileShape
    BY DEF Init, FileShape
  <2>3. \A r \in Ref : InFile(r) /\ ~ Live(r)
    BY DEF Init, InFile, Live
  <2> QED BY <2>1, <2>2, <2>3 DEF FileInv
<1>2. Shape /\ FileInv => SnapshotCurrent
  <2> SUFFICES ASSUME Shape, FileInv, Quiet, NEW r \in Ref, NS[r] \notin unsaved PROVE InFile(r)
    BY DEF SnapshotCurrent, InFile
  <2>1. ~ Owed(NS[r])
    BY DEF Quiet, Owed, Owes
  <2>2. writing.ns # NS[r]
    BY ReferenceCacheAssumption DEF Quiet, FileInv, FileShape, NoWrite
  <2> QED BY <2>1, <2>2 DEF FileInv
<1> QED BY <1>1, <1>2, NextAges, NextFiles, ShapeInv, PTL DEF Spec

-----------------------------------------------------------------------------
(***************************************************************************)
(* The call that has untagged a reference is the only one that knows it,   *)
(* and goes on to take it out of the memory and out of the file.           *)
(***************************************************************************)
Rewrites(p, r) == ref[p] = r /\ pc[p] = "write" /\ (NS[r] \in todo[p] \/ (writing.by = p /\ writing.ns = NS[r]))

Forgotten(r) ==
  /\ remote[r] = NoDesc /\ \A p \in Proc : ref[p] = r => pc[p] # "add"
  /\ \/ \E p \in Proc : pc[p] = "invalidate" /\ ref[p] = r
     \/ /\ mem[r] = NoEntry
        /\ disk[r] = NoEntry \/ NS[r] \in unsaved \/ \E p \in Proc : Rewrites(p, r)

GoneInv == FileShape /\ gone \subseteq Ref /\ \A r \in gone : Forgotten(r)

\* A reference stays forgotten in a step that leaves memory, files and debts
\* alone, as long as nobody sets out to add it.
LEMMA GoneStays ==
  ASSUME GoneInv, UNCHANGED <<mem, disk, writing, unsaved, todo>>, FileShape', gone' \subseteq gone,
         \A p \in Proc : pc[p] \in {"invalidate", "write"} => pc'[p] = pc[p] /\ ref'[p] = ref[p],
         \A r \in gone' : remote'[r] = NoDesc /\ \A p \in Proc : ref'[p] = r => pc'[p] # "add"
  PROVE  GoneInv'
<1>1. ASSUME NEW r \in gone', NEW p \in Proc, Rewrites(p, r) PROVE Rewrites(p, r)'
  BY <1>1 DEF Rewrites
<1>2. ASSUME NEW r \in gone' PROVE Forgotten(r)'
  <2>1. Forgotten(r)
    BY DEF GoneInv
  <2>2. (\E p \in Proc : Rewrites(p, r)) => \E p \in Proc : Rewrites(p, r)'
    BY <1>1
  <2>3. (\E p \in Proc : pc[p] = "invalidate" /\ ref[p] = r) => \E p \in Proc : pc'[p] = "invalidate" /\ ref'[p] = r
    OBVIOUS
  <2> QED BY <2>1, <2>2, <2>3 DEF Forgotten
<1> QED BY <1>2 DEF GoneInv

\* The steps that change memory or files keep it forgotten.
LEMMA GoneRewritten ==
  ASSUME Shape, GoneInv, NEW p \in Proc,
         \/ Add(p) \/ Drain(p) \/ Invalidate(p) \/ Written(p)
         \/ TakeKeys(p) \/ Rewrite(p) \/ RewriteFails(p)
  PROVE  GoneInv'
<1> USE DEF Goto, lru, files, world, calls
<1>0. /\ NoProc \notin Proc /\ NoRef \notin Namespace /\ NS \in [Ref -> Namespace]
      /\ pc \in [Proc -> Places] /\ ref \in [Proc -> Ref \cup {NoRef}] /\ mem \in [Ref -> Timed] /\ disk \in [Ref -> Timed]
  BY ReferenceCacheAssumption DEF Shape
<1>1. /\ todo = [q \in Proc |-> todo[q]]
      /\ writing = NoWrite \/ (writing.by \in Proc /\ pc[writing.by] = "write")
      /\ gone \subseteq Ref /\ \A r \in gone : Forgotten(r)
  BY DEF GoneInv, FileShape
<1>2. NoWrite.ns = NoRef /\ NoWrite.by = NoProc
  BY DEF NoWrite
<1>3. UNCHANGED <<gone, remote, ref>> /\ \A q \in Proc \ {p} : pc'[q] = pc[q] /\ todo'[q] = todo[q]
  BY <1>0, <1>1 DEF Add, Drain, Invalidate, Written, TakeKeys, Rewrite, RewriteFails
<1>4. pc'[p] # "add" /\ (pc[p] = "invalidate" => Invalidate(p))
  BY <1>0, <1>1, <1>2 DEF Add, Drain, Invalidate, Written, TakeKeys, Rewrite, RewriteFails
<1>5. FileShape'
  <2>1. todo' = [q \in Proc |-> todo'[q]]
    BY <1>1 DEF Add, Drain, Invalidate, Written, TakeKeys, Rewrite, RewriteFails
  <2>2. writing' = NoWrite \/ (writing'.by \in Proc /\ pc'[writing'.by] = "write")
    BY <1>0, <1>1, <1>3 DEF Add, Drain, Invalidate, Written, TakeKeys, Rewrite, RewriteFails
  <2> QED BY <2>1, <2>2 DEF FileShape
<1>6. ASSUME NEW r \in gone PROVE Forgotten(r)'
  <2>0. Forgotten(r) /\ r \in Ref /\ ref' = ref /\ remote' = remote
    BY <1>1, <1>3
  <2>1. remote'[r] = NoDesc /\ \A q \in Proc : ref'[q] = r => pc'[q] # "add"
    BY <1>3, <1>4, <2>0 DEF Forgotten
  <2>2. CASE \E q \in Proc \ {p} : pc[q] = "invalidate" /\ ref[q] = r
    BY <1>3, <2>1, <2>2 DEF Forgotten
  <2>3. CASE Invalidate(p) /\ ref[p] = r
    <3>1. mem'[r] = NoEntry /\ pc'[p] = "write" /\ NS[r] \in todo'[p] /\ ref'[p] = r
      BY <1>0, <1>1, <2>0, <2>3 DEF Invalidate, LruRemove
    <3>2. Rewrites(p, r)'
      BY <3>1 DEF Rewrites
    <3> QED BY <2>1, <3>1, <3>2 DEF Forgotten
  <2>4. CASE ~ (\E q \in Proc \ {p} : pc[q] = "invalidate" /\ ref[q] = r) /\ ~ (Invalidate(p) /\ ref[p] = r)
    <3>1. mem[r] = NoEntry /\ (disk[r] = NoEntry \/ NS[r] \in unsaved \/ \E q \in Proc : Rewrites(q, r))
      BY <1>4, <2>0, <2>4 DEF Forgotten
    <3>2. mem'[r] = NoEntry
      <4>1. CASE Add(p)
        <5>1. ref[p] # r
          BY <2>0, <4>1 DEF Forgotten, Add
        <5> QED BY <2>0, <3>1, <4>1, <5>1 DEF Add, LruAdd
      <4>2. CASE Invalidate(p)
        BY <1>0, <2>0, <3>1, <4>2 DEF Invalidate, LruRemove
      <4> QED BY <3>1, <4>1, <4>2 DEF Drain, Written, TakeKeys, Rewrite, RewriteFails
    <3>3. CASE Rewrite(p)
      <4>1. disk'[r] = NoEntry \/ (NS[r] # writing.ns /\ disk'[r] = disk[r])
        BY <2>0, <3>1, <3>3 DEF Rewrite, Live
      <4>2. ASSUME NS[r] # writing.ns, NEW q \in Proc, Rewrites(q, r) PROVE Rewrites(q, r)'
        BY <3>3, <4>2, <1>3 DEF Rewrites, Rewrite
      <4>3. NS[r] # writing.ns /\ NS[r] \in unsaved => NS[r] \in unsaved'
        BY <3>3 DEF Rewrite
      <4> QED BY <2>1, <3>1, <3>2, <4>1, <4>2, <4>3 DEF Forgotten
    <3>4. CASE RewriteFails(p)
      <4>1. ASSUME NS[r] # writing.ns, NEW q \in Proc, Rewrites(q, r) PROVE Rewrites(q, r)'
        BY <3>4, <4>1, <1>3 DEF Rewrites, RewriteFails
      <4>2. disk' = disk /\ unsaved' = unsaved \cup {writing.ns}
        BY <3>4 DEF RewriteFails
      <4> QED BY <2>1, <3>1, <3>2, <4>1, <4>2 DEF Forgotten
    <3>5. CASE Add(p) \/ Drain(p) \/ Invalidate(p) \/ Written(p) \/ TakeKeys(p)
      <4>1. disk' = disk /\ unsaved' = unsaved
        BY <3>5 DEF Add, Drain, Invalidate, Written, TakeKeys
      <4>2. ASSUME NEW q \in Proc, Rewrites(q, r) PROVE Rewrites(q, r)'
        <5>1. CASE q # p
          <6>1. writing.by = q => writing' = writing
            BY <1>0, <1>2, <3>5 DEF Add, Drain, Invalidate, Written, TakeKeys
          <6> QED BY <1>3, <4>2, <5>1, <6>1 DEF Rewrites
        <5>2. CASE q = p
          <6>1. TakeKeys(p)
            BY <3>5, <4>2, <5>2 DEF Rewrites, Add, Drain, Invalidate, Written
          <6>2. PICK ns \in todo[p] : writing'.by = p /\ writing'.ns = ns /\ todo'[p] = todo[p] \ {ns}
            BY <1>1, <6>1 DEF TakeKeys
          <6>3. pc' = pc /\ writing = NoWrite
            BY <6>1 DEF TakeKeys
          <6> QED BY <1>0, <1>2, <2>0, <4>2, <5>2, <6>2, <6>3 DEF Rewrites
        <5> QED BY <5>1, <5>2
      <4> QED BY <2>1, <3>1, <3>2, <4>1, <4>2 DEF Forgotten
    <3> QED BY <3>3, <3>4, <3>5
  <2> QED BY <2>2, <2>3, <2>4
<1> QED BY <1>3, <1>5, <1>6 DEF GoneInv

\* A restart brings no forgotten reference back.
LEMMA GoneRestarts ==
  ASSUME Shape, GoneInv, Restart
  PROVE  GoneInv'
<1>1. PICK K \in SUBSET Fresh :
           /\ mem' = [r \in Ref |-> IF r \in K THEN Reload(r) ELSE NoEntry]
           /\ \A r \in Ref : disk'[r] = disk[r] \/ disk'[r] = NoEntry
  BY RestartKeeps
<1>2. /\ writing' = NoWrite /\ remote' = remote
      /\ todo' = [p \in Proc |-> {}] /\ \A p \in Proc : pc'[p] = "idle"
      /\ gone' = {r \in gone : NS[r] \notin unsaved /\ \A p \in Proc : ref[p] # r}
  BY DEF Restart
<1>3. FileShape'
  BY <1>2 DEF FileShape
<1>4. ASSUME NEW r \in gone' PROVE Forgotten(r)'
  <2>1. /\ r \in gone /\ r \in Ref /\ Forgotten(r) /\ NS[r] \notin unsaved /\ \A p \in Proc : ref[p] # r
    BY <1>2 DEF GoneInv
  <2>2. disk[r] = NoEntry
    BY <2>1 DEF Forgotten, Rewrites
  <2>3. mem'[r] = NoEntry /\ disk'[r] = NoEntry
    BY <1>1, <2>1, <2>2 DEF Fresh
  <2> QED BY <1>2, <2>1, <2>3 DEF Forgotten
<1> QED BY <1>2, <1>3, <1>4 DEF GoneInv

\* No step gives a forgotten reference back.
LEMMA NextGone ==
  ASSUME Shape, GoneInv, [Next]_vars
  PROVE  GoneInv'
<1> USE DEF Goto, lru, files, world, calls
<1>0. /\ pc \in [Proc -> Places] /\ ref \in [Proc -> Ref \cup {NoRef}] /\ NoRef \notin Ref /\ remote \in [Ref -> Answers]
      /\ mem \in [Ref -> Timed] /\ disk \in [Ref -> Timed] /\ \A q \in Proc : pc[q] # "idle" => ref[q] \in Ref
  BY ReferenceCacheAssumption DEF Shape
<1>1. /\ FileShape /\ gone \subseteq Ref
      /\ \A r \in gone : remote[r] = NoDesc /\ \A p \in Proc : ref[p] = r => pc[p] # "add"
  BY DEF GoneInv, Forgotten
<1>2. ASSUME UNCHANGED <<mem, disk, writing, unsaved, todo, remote>>, gone' = gone,
             \A p \in Proc : pc[p] \in {"invalidate", "write"} => pc'[p] = pc[p] /\ ref'[p] = ref[p],
             \A p \in Proc : pc'[p] = "add" => ref'[p] \notin gone
      PROVE  GoneInv'
  BY <1>1, <1>2, GoneStays DEF FileShape
<1>3. ASSUME NEW p \in Proc, Step(p)
      PROVE  GoneInv'
  <2>1. CASE LookupHit(p)
    BY <1>0, <1>1, <1>2, <2>1 DEF LookupHit, Finish
  <2>2. CASE Land(p)
    <3>1. Joined(p) \subseteq Proc /\ \A q \in {p} \cup Joined(p) : pc[q] \notin {"invalidate", "write"}
      BY <2>2 DEF Land, Joined
    <3>2. \A q \in Proc : pc'[q] = "add" => pc[q] = "add" /\ ref'[q] = ref[q]
      BY <2>2 DEF Land, Finish
    <3> QED BY <1>0, <1>1, <1>2, <2>2, <3>1, <3>2 DEF Land, Finish
  <2>3. CASE \/ LookupMiss(p) \/ Lead(p) \/ Join(p) \/ RecheckHit(p) \/ RecheckMiss(p) \/ RemoteFails(p)
    BY <1>0, <1>1, <1>2, <2>3 DEF LookupMiss, Lead, Join, RecheckHit, RecheckMiss, RemoteFails
  <2>4. CASE Upstream(p)
    BY <1>0, <1>1, <1>2, <2>4 DEF Upstream
  <2>5. CASE TagRemote(p)
    <3>1. /\ pc' = [pc EXCEPT ![p] = "add"] /\ pc[p] = "tag" /\ gone' = gone \ {ref[p]} /\ ref' = ref
          /\ UNCHANGED <<mem, disk, writing, unsaved, todo>>
          /\ \A r \in gone' : remote'[r] = remote[r]
      BY <1>0, <2>5 DEF TagRemote, RemoteSet
    <3>2. FileShape'
      BY <1>0, <1>1, <3>1 DEF FileShape
    <3> QED BY <1>0, <1>1, <3>1, <3>2, GoneStays
  <2>6. CASE UntagRemote(p)
    <3>0. /\ pc' = [pc EXCEPT ![p] = "invalidate"] /\ pc[p] = "untag" /\ remote[ref[p]] # NoDesc
          /\ gone' = IF Alone(p) THEN gone \cup {ref[p]} ELSE gone \ {ref[p]}
          /\ remote' = [remote EXCEPT ![ref[p]] = NoDesc] /\ ref' = ref
          /\ UNCHANGED <<mem, disk, writing, unsaved, todo>>
      BY <2>6 DEF UntagRemote, RemoteSet
    <3>1. FileShape' /\ gone' \subseteq Ref
      BY <1>0, <1>1, <3>0 DEF FileShape
    <3>2. ASSUME NEW r \in gone', r # ref[p] PROVE Forgotten(r)'
      <4>1. r \in gone /\ Forgotten(r) /\ r \in Ref
        BY <3>0, <3>2 DEF GoneInv
      <4>2. \A q \in Proc : Rewrites(q, r) => Rewrites(q, r)'
        BY <1>0, <3>0 DEF Rewrites
      <4>3. remote'[r] = NoDesc /\ \A q \in Proc : ref'[q] = r => pc'[q] # "add"
        BY <1>0, <3>0, <3>2, <4>1 DEF Forgotten
      <4>4. (\E q \in Proc : pc[q] = "invalidate" /\ ref[q] = r) => \E q \in Proc : pc'[q] = "invalidate" /\ ref'[q] = r
        BY <1>0, <3>0
      <4> QED BY <3>0, <4>1, <4>2, <4>3, <4>4 DEF Forgotten
    <3>3. ASSUME NEW r \in gone', r = ref[p] PROVE Forgotten(r)'
      <4>1. Alone(p) /\ r \in Ref
        BY <1>0, <3>0, <3>3
      <4>2. \A q \in Proc : ref[q] = r => q = p
        BY <3>3, <4>1 DEF Alone
      <4>3. pc'[p] = "invalidate" /\ remote'[r] = NoDesc
        BY <1>0, <3>0, <3>3, <4>1
      <4> QED BY <3>0, <3>3, <4>2, <4>3 DEF Forgotten
    <3> QED BY <3>1, <3>2, <3>3 DEF GoneInv
  <2> QED BY <1>3, <2>1, <2>2, <2>3, <2>4, <2>5, <2>6, GoneRewritten DEF Step
<1>4. ASSUME NEW p \in Proc, NEW r \in Ref, BeginResolve(p, r) \/ BeginTag(p, r) \/ BeginUntag(p, r)
      PROVE  GoneInv'
  BY <1>0, <1>1, <1>2, <1>4 DEF BeginResolve, BeginTag, BeginUntag, Begin
<1>5. CASE RemoteMoves
  <2>1. PICK r \in Ref : gone' = gone \ {r} /\ \A x \in Ref \ {r} : remote'[x] = remote[x]
    BY <1>0, <1>5 DEF RemoteMoves, RemoteSet
  <2>2. UNCHANGED <<mem, disk, writing, unsaved, todo, pc, ref>> /\ FileShape'
    BY <1>1, <1>5 DEF RemoteMoves, FileShape
  <2> QED BY <1>1, <2>1, <2>2, GoneStays
<1>6. CASE Tick \/ UNCHANGED vars
  BY <1>1, <1>2, <1>6 DEF Tick, vars
<1>7. ASSUME NEW x \in Ref, Expire(x)
      PROVE  GoneInv'
  <2>1. /\ mem' = [mem EXCEPT ![x] = NoEntry]
        /\ UNCHANGED <<disk, writing, unsaved, todo, now, pc, ref, gone, remote>>
    BY <1>7 DEF Expire, LruRemove
  <2>2. \A r \in gone : mem[r] = NoEntry => mem'[r] = NoEntry
    BY <1>0, <1>1, <2>1
  <2>3. ASSUME NEW r \in gone PROVE Forgotten(r)'
    <3>1. \A q \in Proc : Rewrites(q, r) => Rewrites(q, r)'
      BY <2>1 DEF Rewrites
    <3> QED BY <2>1, <2>2, <3>1 DEF GoneInv, Forgotten
  <2> QED BY <1>1, <2>1, <2>3 DEF GoneInv, FileShape
<1> QED BY <1>3, <1>4, <1>5, <1>6, <1>7, GoneRestarts DEF Next

\* After an Untag nobody overlapped, neither memory nor file gives the
\* reference back, over restarts too, until somebody tags it again.
THEOREM UntaggedStaysGone == Spec => []UntagForgets
<1>1. Init => GoneInv
  BY DEF Init, GoneInv, FileShape
<1>2. GoneInv => UntagForgets
  BY DEF GoneInv, Forgotten, Rewrites, UntagForgets, Quiet
<1> QED BY <1>1, <1>2, NextGone, ShapeInv, PTL DEF Spec
=============================================================================
