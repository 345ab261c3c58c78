--------------------------- MODULE CTFStore_proofs ---------------------------
(***************************************************************************)
(* An archive, for any repositories, manifests, processes, calls and       *)
(* faults.  First what adding an artifact and removing a tag do to the     *)
(* tags of an index; that what is tagged is complete, from what the        *)
(* entries of the index and the calls still to be made promise (StoreInv); *)
(* that referrers are kept (KeptInv); that listings are complete           *)
(* (ListingInv); at the end, that the archive is a registry of names, as   *)
(* TagRegistry describes it.                                               *)
(***************************************************************************)
EXTENDS CTFStore, SequenceTheorems, FiniteSetTheorems, WellFoundedInduction, TLAPS

\* An index is a sequence of entries.
IsEntry(e)  == e = Entry(e.repo, e.tag, e.digest)
Rows(idx)   == {idx[i] : i \in DOMAIN idx}
IsIndex(idx) == idx \in Seq(Rows(idx)) /\ \A i \in DOMAIN idx : IsEntry(idx[i])

\* Two entries of a repository with the same tag have the same digest.
OneDigest(idx) ==
  \A i, j \in DOMAIN idx :
    idx[i].repo = idx[j].repo /\ idx[i].tag = idx[j].tag /\ idx[i].tag # Untagged
      => idx[i].digest = idx[j].digest

\* A set of indices has a first one.
LEMMA FirstIsLeast ==
  ASSUME NEW S \in SUBSET Nat, S # {}
  PROVE  First(S) \in S /\ \A j \in S : First(S) <= j
<1> DEFINE R == OpToRel(<, Nat)
<1>1. IsWellFoundedOn(R, Nat)
  BY NatLessThanWellFounded
<1>2. \A x, y \in Nat : y < x => <<y, x>> \in R
  BY DEF OpToRel
<1> HIDE DEF R
<1>3. PICK x \in S : \A y \in S : ~ (<<y, x>> \in R)
  BY <1>1, WFMin
<1>4. \A y \in S : x <= y
  <2> TAKE y \in S
  <2>1. x \in Nat /\ y \in Nat
    OBVIOUS
  <2>2. ~ (y < x)
    BY <1>2, <1>3, <2>1
  <2> QED BY <2>1, <2>2
<1> QED BY <1>4 DEF First

\* An interval from 1 tells its length.
LEMMA SameInterval ==
  ASSUME NEW m \in Nat, NEW n \in Nat, 1 .. m = 1 .. n
  PROVE  m = n
<1>1. m = 0 \/ m \in 1 .. n
  OBVIOUS
<1>2. n = 0 \/ n \in 1 .. m
  OBVIOUS
<1> QED BY <1>1, <1>2

\* AddArtifact changes nothing but tags of the entries there are.
LEMMA RetagRows ==
  ASSUME NEW idx, IsIndex(idx), NEW a
  PROVE  /\ DOMAIN Retag(idx, a) = DOMAIN idx
         /\ \A i \in DOMAIN idx : Retag(idx, a)[i] =
              Entry(idx[i].repo,
                    IF i \in Outdated(idx, a) THEN Untagged
                    ELSE IF i \in Waiting(idx, a) THEN a.tag ELSE idx[i].tag,
                    idx[i].digest)
<1>1. DOMAIN Retag(idx, a) = DOMAIN idx
  BY DEF Retag
<1>2. ASSUME NEW i \in DOMAIN idx
      PROVE  Retag(idx, a)[i] =
               [idx[i] EXCEPT !.tag = IF i \in Outdated(idx, a) THEN Untagged
                                      ELSE IF i \in Waiting(idx, a) THEN a.tag ELSE idx[i].tag]
  BY DEF Retag
<1>3. ASSUME NEW i \in DOMAIN idx, NEW t
      PROVE  [idx[i] EXCEPT !.tag = t] = Entry(idx[i].repo, t, idx[i].digest)
  BY DEF IsIndex, IsEntry, Entry
<1> QED BY <1>1, <1>2, <1>3

\* It adds at most the new entry, at the end.
LEMMA AddRows ==
  ASSUME NEW idx, IsIndex(idx), NEW a, IsEntry(a)
  PROVE  LET new == AddArtifact(idx, a)
         IN /\ IsIndex(new) /\ DOMAIN idx \subseteq DOMAIN new
            /\ \A i \in DOMAIN idx : new[i] = Retag(idx, a)[i]
            /\ \A i \in DOMAIN new \ DOMAIN idx : new[i] = a
            /\ Duplicates(idx, a) = {} /\ Waiting(idx, a) = {} => \E i \in DOMAIN new : new[i] = a
<1> DEFINE re  == Retag(idx, a)
           new == AddArtifact(idx, a)
           n   == Len(idx)
<1>1. n \in Nat /\ DOMAIN idx = 1 .. n
  BY LenProperties DEF IsIndex
<1>2. re = [i \in 1 .. n |-> re[i]] /\ \A i \in 1 .. n : IsEntry(re[i])
  <2>1. DOMAIN re = 1 .. n /\ \A i \in 1 .. n : \E t : re[i] = Entry(idx[i].repo, t, idx[i].digest)
    <3> HIDE DEF re
    <3>1. DOMAIN re = DOMAIN idx
      BY RetagRows DEF re
    <3>2. ASSUME NEW i \in DOMAIN idx PROVE \E t : re[i] = Entry(idx[i].repo, t, idx[i].digest)
      <4>1. re[i] = Entry(idx[i].repo,
                          IF i \in Outdated(idx, a) THEN Untagged
                          ELSE IF i \in Waiting(idx, a) THEN a.tag ELSE idx[i].tag,
                          idx[i].digest)
        BY RetagRows DEF re
      <4> QED BY <4>1
    <3> QED BY <1>1, <3>1, <3>2
  <2>2. \A i \in 1 .. n : IsEntry(re[i])
    BY <2>1 DEF IsEntry, Entry
  <2>3. re = [i \in DOMAIN idx |-> re[i]]
    BY DEF Retag
  <2> QED BY <2>2, <2>3, <1>1
<1>3. re \in [1 .. n -> Rows(re)] /\ DOMAIN re = 1 .. n
  BY <1>1, <1>2 DEF Rows
<1>4. re \in Seq(Rows(re)) /\ Len(re) = n
  <2>1. re \in Seq(Rows(re))
    BY <1>1, <1>3, SeqDef
  <2>2. Len(re) \in Nat /\ DOMAIN re = 1 .. Len(re)
    BY <2>1, LenProperties
  <2>3. 1 .. n = 1 .. Len(re)
    BY <2>2, <1>3
  <2> QED BY <2>1, <2>2, <2>3, <1>1, SameInterval
<1> DEFINE known == Duplicates(idx, a) # {} \/ Waiting(idx, a) # {}
<1>5. CASE known
  <2>0. new = re
    BY <1>5 DEF AddArtifact
  <2>1. IsIndex(new)
    BY <1>2, <1>3, <1>4, <2>0 DEF IsIndex
  <2> QED BY <2>0, <2>1, <1>1, <1>3, <1>4, <1>5
<1>6. CASE ~ known
  <2>0. new = Append(re, a)
    BY <1>6 DEF AddArtifact
  <2> DEFINE S == Rows(re) \cup {a}
  <2>1. re \in Seq(S) /\ a \in S
    BY <1>4, SeqMonotonic
  <2>2. /\ new \in Seq(S) /\ Len(new) = n + 1
        /\ \A i \in 1 .. n : new[i] = re[i]
        /\ new[n + 1] = a
    BY <2>0, <2>1, <1>4, AppendProperties
  <2>3. DOMAIN new = 1 .. n + 1
    BY <2>2, LenProperties
  <2>4. \A i \in DOMAIN new : IsEntry(new[i])
    BY <2>2, <2>3, <1>1, <1>2
  <2>5. new \in Seq(Rows(new))
    <3>1. new \in [1 .. n + 1 -> S]
      BY <2>2, LenProperties
    <3>2. new \in [1 .. n + 1 -> Rows(new)]
      BY <3>1, <2>3 DEF Rows
    <3> QED BY <3>2, <1>1, SeqDef
  <2>6. \A i \in DOMAIN new \ DOMAIN idx : i = n + 1
    BY <2>3, <1>1
  <2>7. DOMAIN idx \subseteq DOMAIN new /\ n + 1 \in DOMAIN new
    BY <2>3, <1>1
  <2> QED BY <2>2, <2>4, <2>5, <2>6, <2>7, <1>1 DEF IsIndex
<1> QED BY <1>5, <1>6

\* What the rows of the new index come from: a tag of the repository stays with
\* the entry that had it, unless it is the tag of the new entry.
LEMMA AddedRow ==
  ASSUME NEW idx, IsIndex(idx), OneDigest(idx), NEW a, IsEntry(a),
         NEW i \in DOMAIN AddArtifact(idx, a)
  PROVE  LET e == AddArtifact(idx, a)[i]
             mine == e.repo = a.repo /\ e.tag = a.tag
         IN e.tag # Untagged =>
              IF mine THEN e.digest = a.digest
              ELSE i \in DOMAIN idx /\ e = idx[i]
<1> DEFINE e == AddArtifact(idx, a)[i]
<1> SUFFICES ASSUME e.tag # Untagged
             PROVE  IF e.repo = a.repo /\ e.tag = a.tag THEN e.digest = a.digest
                    ELSE i \in DOMAIN idx /\ e = idx[i]
  OBVIOUS
<1>1. CASE i \notin DOMAIN idx
  BY <1>1, AddRows
<1>2. CASE i \in DOMAIN idx
  <2>1. e = Retag(idx, a)[i]
    BY <1>2, AddRows
  <2>2. e = Entry(idx[i].repo,
                  IF i \in Outdated(idx, a) THEN Untagged
                  ELSE IF i \in Waiting(idx, a) THEN a.tag ELSE idx[i].tag,
                  idx[i].digest)
    BY <1>2, <2>1, RetagRows
  <2>3. i \notin Outdated(idx, a)
    BY <2>2 DEF Entry
  <2>4. CASE i \in Waiting(idx, a)
    BY <2>2, <2>3, <2>4 DEF Entry, Waiting, Visited
  <2>5. CASE i \notin Waiting(idx, a)
    <3>1. e = idx[i]
      BY <1>2, <2>2, <2>3, <2>5 DEF Entry, IsIndex, IsEntry
    <3>2. ASSUME e.repo = a.repo, e.tag = a.tag
          PROVE  e.digest = a.digest
      <4>1. i \notin Visited(idx, a)
        BY <2>3, <3>1, <3>2 DEF Outdated
      <4>2. PICK k \in Duplicates(idx, a) : TRUE
        BY <1>2, <3>1, <3>2, <4>1 DEF Visited
      <4>3. k \in DOMAIN idx /\ idx[k] = a
        BY <4>2 DEF Duplicates
      <4> QED BY <1>2, <3>1, <3>2, <4>3 DEF OneDigest
    <3> QED BY <1>2, <3>1, <3>2
  <2> QED BY <2>4, <2>5
<1> QED BY <1>1, <1>2

\* AddArtifact keeps it that a tag has one digest.
LEMMA AddKeepsOneDigest ==
  ASSUME NEW idx, IsIndex(idx), OneDigest(idx), NEW a, IsEntry(a)
  PROVE  OneDigest(AddArtifact(idx, a))
<1> DEFINE new == AddArtifact(idx, a)
<1> HIDE DEF new
<1>1. \A i \in DOMAIN new : new[i].tag # Untagged =>
        IF new[i].repo = a.repo /\ new[i].tag = a.tag THEN new[i].digest = a.digest
        ELSE i \in DOMAIN idx /\ new[i] = idx[i]
  BY AddedRow DEF new
<1>2. OneDigest(new)
  BY <1>1 DEF OneDigest
<1> QED BY <1>2 DEF new

\* After AddArtifact the tag of the new entry stands for its digest, and every
\* other tag for what it stood for.
LEMMA AddTagOf ==
  ASSUME NEW idx, IsIndex(idx), OneDigest(idx), NEW a, IsEntry(a),
         NEW r, NEW t, t # Untagged
  PROVE  TagOf(AddArtifact(idx, a), r, t) =
           IF r = a.repo /\ t = a.tag THEN {a.digest} ELSE TagOf(idx, r, t)
<1> DEFINE new == AddArtifact(idx, a)
<1>1. \A i \in DOMAIN new : new[i].tag # Untagged =>
        IF new[i].repo = a.repo /\ new[i].tag = a.tag THEN new[i].digest = a.digest
        ELSE i \in DOMAIN idx /\ new[i] = idx[i]
  BY AddedRow
<1>2. DOMAIN idx \subseteq DOMAIN new /\ \A i \in DOMAIN idx : new[i] =
        Entry(idx[i].repo,
              IF i \in Outdated(idx, a) THEN Untagged
              ELSE IF i \in Waiting(idx, a) THEN a.tag ELSE idx[i].tag,
              idx[i].digest)
  <2>1. DOMAIN idx \subseteq DOMAIN new /\ \A i \in DOMAIN idx : new[i] = Retag(idx, a)[i]
    BY AddRows
  <2> HIDE DEF new
  <2> QED BY <2>1, RetagRows
<1>0. Duplicates(idx, a) = {} /\ Waiting(idx, a) = {} => \E i \in DOMAIN new : new[i] = a
  BY AddRows
<1> SUFFICES TagOf(new, r, t) = IF r = a.repo /\ t = a.tag THEN {a.digest} ELSE TagOf(idx, r, t)
  OBVIOUS
<1> HIDE DEF new
<1>5. DOMAIN idx \subseteq DOMAIN new
  BY <1>2
<1>3. CASE r = a.repo /\ t = a.tag
  <2>1. \E i \in DOMAIN new : new[i].repo = r /\ new[i].tag = t
    <3>1. CASE Duplicates(idx, a) = {} /\ Waiting(idx, a) = {}
      BY <1>3, <1>0, <3>1
    <3>2. CASE \E k \in Waiting(idx, a) : TRUE
      <4>1. PICK k \in Waiting(idx, a) : TRUE
        BY <3>2
      <4>2. k \in DOMAIN idx /\ k \notin Outdated(idx, a) /\ idx[k].repo = a.repo
        BY <4>1, <1>3 DEF Waiting, Outdated, Visited
      <4>3. new[k] = Entry(idx[k].repo, a.tag, idx[k].digest)
        BY <1>2, <4>1, <4>2
      <4>4. k \in DOMAIN new /\ new[k].repo = r /\ new[k].tag = t
        BY <1>5, <1>3, <4>2, <4>3 DEF Entry
      <4> QED BY <4>4
    <3>3. CASE \E k \in Duplicates(idx, a) : TRUE
      <4>1. PICK k \in Duplicates(idx, a) : TRUE
        BY <3>3
      <4>2. k \in DOMAIN idx /\ idx[k] = a /\ k \in Nat
        BY <4>1, LenProperties DEF Duplicates, IsIndex
      <4>3. k \notin Visited(idx, a)
        BY <4>1, <4>2 DEF Visited
      <4>4. new[k] = Entry(a.repo, a.tag, a.digest)
        BY <1>2, <4>2, <4>3 DEF Outdated, Waiting
      <4>5. k \in DOMAIN new /\ new[k].repo = r /\ new[k].tag = t
        BY <1>5, <1>3, <4>2, <4>4 DEF Entry
      <4> QED BY <4>5
    <3> QED BY <3>1, <3>2, <3>3
  <2> QED BY <1>1, <1>3, <2>1 DEF TagOf, Holders
<1>4. CASE ~ (r = a.repo /\ t = a.tag)
  <2>1. \A i \in Holders(new, r, t) : i \in Holders(idx, r, t) /\ new[i].digest = idx[i].digest
    BY <1>1, <1>4 DEF Holders
  <2>2. ASSUME NEW i \in Holders(idx, r, t)
        PROVE  i \in Holders(new, r, t)
    <3>1. i \in DOMAIN idx /\ idx[i].repo = r /\ idx[i].tag = t
      BY DEF Holders
    <3>2. i \notin Outdated(idx, a) /\ i \notin Waiting(idx, a)
      BY <1>4, <3>1 DEF Outdated, Waiting, Visited
    <3>3. new[i] = Entry(idx[i].repo, idx[i].tag, idx[i].digest) /\ i \in DOMAIN new
      BY <1>2, <3>1, <3>2
    <3> QED BY <3>1, <3>3 DEF Holders, Entry
  <2> QED BY <1>4, <2>1, <2>2 DEF TagOf
<1> QED BY <1>3, <1>4

\* RemoveTag removes the first entry of the tag and keeps the order of the rest.
LEMMA RemovedRows ==
  ASSUME NEW idx, IsIndex(idx), NEW r, NEW t, Holders(idx, r, t) # {}
  PROVE  LET new == RemoveTag(idx, r, t)
             k   == First(Holders(idx, r, t))
         IN /\ IsIndex(new) /\ k \in Holders(idx, r, t)
            /\ DOMAIN idx = 1 .. Len(idx) /\ Len(idx) \in Nat
            /\ DOMAIN new = 1 .. Len(idx) - 1
            /\ \A i \in DOMAIN new : new[i] = IF i < k THEN idx[i] ELSE idx[i + 1]
<1> DEFINE new == RemoveTag(idx, r, t)
           k   == First(Holders(idx, r, t))
           n   == Len(idx)
<1>1. n \in Nat /\ DOMAIN idx = 1 .. n
  BY LenProperties DEF IsIndex
<1>2. k \in Holders(idx, r, t) /\ n - 1 \in Nat
  <2>1. Holders(idx, r, t) \in SUBSET Nat /\ Holders(idx, r, t) \subseteq 1 .. n
    BY <1>1 DEF Holders
  <2>2. k \in Holders(idx, r, t)
    BY <2>1, FirstIsLeast
  <2> QED BY <1>1, <2>1, <2>2
<1>3. new = [i \in 1 .. n - 1 |-> IF i < k THEN idx[i] ELSE idx[i + 1]]
  BY DEF RemoveTag
<1>4. \A i \in 1 .. n - 1 : i \in DOMAIN idx /\ i + 1 \in DOMAIN idx
  BY <1>1
<1>5. \A i \in 1 .. n - 1 : IsEntry(new[i])
  BY <1>3, <1>4 DEF IsIndex
<1>6. new \in [1 .. n - 1 -> Rows(new)]
  BY <1>3 DEF Rows
<1>7. IsIndex(new)
  <2>1. new \in Seq(Rows(new))
    BY <1>2, <1>6, SeqDef
  <2>2. DOMAIN new = 1 .. n - 1
    BY <1>3
  <2> QED BY <1>5, <2>1, <2>2 DEF IsIndex
<1> QED BY <1>1, <1>2, <1>3, <1>7

\* Nothing but the removed tag can change what it stands for.
LEMMA RemoveTagOf ==
  ASSUME NEW idx, IsIndex(idx), OneDigest(idx), NEW r, NEW t, NEW q, NEW u
  PROVE  /\ IsIndex(RemoveTag(idx, r, t)) /\ OneDigest(RemoveTag(idx, r, t))
         /\ TagOf(RemoveTag(idx, r, t), q, u) \subseteq TagOf(idx, q, u)
         /\ ~ (q = r /\ u = t) => TagOf(RemoveTag(idx, r, t), q, u) = TagOf(idx, q, u)
<1> DEFINE new == RemoveTag(idx, r, t)
           k   == First(Holders(idx, r, t))
           n   == Len(idx)
<1>1. CASE Holders(idx, r, t) = {}
  BY <1>1 DEF RemoveTag
<1>2. CASE Holders(idx, r, t) # {}
  <2>1. /\ IsIndex(new) /\ k \in Holders(idx, r, t) /\ DOMAIN idx = 1 .. n /\ n \in Nat
        /\ DOMAIN new = 1 .. n - 1
        /\ \A i \in 1 .. n - 1 : new[i] = IF i < k THEN idx[i] ELSE idx[i + 1]
    BY <1>2, RemovedRows
  <2>2. k \in 1 .. n /\ idx[k].repo = r /\ idx[k].tag = t
    BY <2>1 DEF Holders
  <2> HIDE DEF new, k, n
  <2>3. \A i \in DOMAIN new : \E j \in DOMAIN idx : new[i] = idx[j]
    <3>1. \A i \in 1 .. n - 1 : i \in 1 .. n /\ i + 1 \in 1 .. n
      BY <2>1
    <3> QED BY <2>1, <3>1
  <2>4. OneDigest(new)
    BY <2>3 DEF OneDigest
  <2>5. ASSUME NEW j \in DOMAIN idx, j # k
        PROVE  \E i \in DOMAIN new : new[i] = idx[j]
    <3>1. CASE j < k
      <4>1. j \in 1 .. n - 1
        BY <2>1, <2>2, <3>1
      <4> QED BY <2>1, <3>1, <4>1
    <3>2. CASE ~ (j < k)
      <4>1. j - 1 \in 1 .. n - 1 /\ ~ (j - 1 < k) /\ j - 1 + 1 = j
        BY <2>1, <2>2, <2>5, <3>2
      <4>2. new[j - 1] = idx[j]
        BY <2>1, <4>1
      <4> QED BY <2>1, <4>1, <4>2
    <3> QED BY <3>1, <3>2
  <2>6. ASSUME ~ (q = r /\ u = t)
        PROVE  TagOf(new, q, u) = TagOf(idx, q, u)
    <3>1. k \notin Holders(idx, q, u)
      BY <2>2, <2>6 DEF Holders
    <3>2. \A d : (\E i \in Holders(new, q, u) : new[i].digest = d)
                    <=> \E j \in Holders(idx, q, u) : idx[j].digest = d
      BY <2>3, <2>5, <3>1 DEF Holders
    <3> QED BY <3>2 DEF TagOf
  <2>7. TagOf(new, q, u) \subseteq TagOf(idx, q, u)
    BY <2>3 DEF TagOf, Holders
  <2> QED BY <2>1, <2>4, <2>6, <2>7 DEF new
<1> QED BY <1>1, <1>2

-----------------------------------------------------------------------------
\* What every step keeps.
IndexInv == IsIndex(index) /\ OneDigest(index)

\* The tag of a version or an alias is neither empty nor that of a referrers list.
LEMMA NamesApart ==
  ASSUME NEW r, NEW t \in Names(r)
  PROVE  t # Untagged /\ \A s : t # ReferrersTag(s)
BY DEF Names, VersionTag, AliasTag, ReferrersTag, Untagged

\* What a push writes moves no name.
LEMMA PushMovesNoName ==
  ASSUME IndexInv, NEW r, NEW m, NEW k \in DOMAIN PushWrites(r, m)
  PROVE  LET new == PushWrites(r, m)[k][2]
         IN /\ IsIndex(new) /\ OneDigest(new)
            /\ \A q, x : \A t \in Names(x) : TagOf(new, q, t) = TagOf(index, q, t)
<1> DEFINE s        == Subject[m]
           list     == Listed(Referrers(r, s), m)
           indexed  == AddArtifact(index, Entry(r, Untagged, m))
           removed  == RemoveTag(indexed, r, ReferrersTag(s))
           untagged == IF Referrers(r, s) = << >> THEN indexed ELSE removed
           tagged   == AddArtifact(untagged, Entry(r, ReferrersTag(s), list))
           Kept(new) == /\ IsIndex(new) /\ OneDigest(new)
                        /\ \A q, x : \A t \in Names(x) : TagOf(new, q, t) = TagOf(index, q, t)
<1>1. PushWrites(r, m)[k][2] \in {index, indexed, tagged}
  BY DEF PushWrites
<1>2. Kept(index)
  BY DEF IndexInv
<1>3. ASSUME NEW idx, Kept(idx), NEW u, u = Untagged \/ u = ReferrersTag(s), NEW d
      PROVE  Kept(AddArtifact(idx, Entry(r, u, d)))
  <2>1. IsEntry(Entry(r, u, d)) /\ Entry(r, u, d).tag = u
    BY DEF IsEntry, Entry
  <2>2. IsIndex(AddArtifact(idx, Entry(r, u, d))) /\ OneDigest(AddArtifact(idx, Entry(r, u, d)))
    BY <1>3, <2>1, AddRows, AddKeepsOneDigest
  <2>3. ASSUME NEW q, NEW x, NEW t \in Names(x)
        PROVE  TagOf(AddArtifact(idx, Entry(r, u, d)), q, t) = TagOf(idx, q, t)
    BY <1>3, <2>1, <2>3, AddTagOf, NamesApart
  <2> QED BY <1>3, <2>2, <2>3
<1>4. Kept(indexed)
  BY <1>2, <1>3
<1> HIDE DEF indexed
<1>5. Kept(removed)
  <2>1. IsIndex(removed) /\ OneDigest(removed)
    BY <1>4, RemoveTagOf
  <2>2. ASSUME NEW q, NEW x, NEW t \in Names(x)
        PROVE  TagOf(removed, q, t) = TagOf(indexed, q, t)
    BY <1>4, RemoveTagOf, NamesApart
  <2> QED BY <1>4, <2>1, <2>2
<1> HIDE DEF removed
<1>6. Kept(untagged)
  BY <1>4, <1>5
<1> HIDE DEF untagged
<1>7. Kept(tagged)
  BY <1>3, <1>6
<1> QED BY <1>1, <1>2, <1>4, <1>7

\* The writes of a push are a sequence of one, two or four.
LEMMA WritesNumbered ==
  ASSUME NEW r, NEW m
  PROVE  LET w == PushWrites(r, m) IN Len(w) \in DOMAIN w /\ DOMAIN w = 1 .. Len(w) /\ Len(w) \in Nat
<1>1. ASSUME NEW a PROVE Len(<<a>>) = 1 /\ DOMAIN <<a>> = 1 .. 1
  OBVIOUS
<1>2. ASSUME NEW a, NEW b PROVE Len(<<a, b>>) = 2 /\ DOMAIN <<a, b>> = 1 .. 2
  OBVIOUS
<1>3. ASSUME NEW a, NEW b, NEW c, NEW d PROVE Len(<<a, b, c, d>>) = 4 /\ DOMAIN <<a, b, c, d>> = 1 .. 4
  OBVIOUS
<1>4. \/ \E a : PushWrites(r, m) = <<a>>
      \/ \E a, b : PushWrites(r, m) = <<a, b>>
      \/ \E a, b, c, d : PushWrites(r, m) = <<a, b, c, d>>
  BY DEF PushWrites
<1> QED BY <1>1, <1>2, <1>3, <1>4

\* Next without the steps that leave the index alone.
LEMMA IndexSteps ==
  ASSUME Next, index' # index
  PROVE  \/ \E r, m : \E k \in DOMAIN PushWrites(r, m) : index' = PushWrites(r, m)[k][2]
         \/ \E p \in Process : TagStep(p) \/ UntagStep(p)
<1>1. ASSUME NEW p \in Process, PushStep(p)
      PROVE  \E r, m : \E k \in DOMAIN PushWrites(r, m) : index' = PushWrites(r, m)[k][2]
  <2> DEFINE w == PushWrites(job[p].repo, Head(job[p].todo).of)
  <2>1. index' = w[Len(w)][2]
    BY <1>1 DEF PushStep, Write
  <2>2. Len(w) \in DOMAIN w
    BY WritesNumbered
  <2> QED BY <2>1, <2>2
<1>2. ASSUME Stop
      PROVE  \E r, m : \E k \in DOMAIN PushWrites(r, m) : index' = PushWrites(r, m)[k][2]
  <2>1. PICK p \in Process :
          LET w == IF At(p, "push") THEN PushWrites(job[p].repo, Head(job[p].todo).of) ELSE << >>
          IN \E k \in 0 .. Len(w) : /\ k < Len(w) \/ k = 0
                                    /\ IF k = 0 THEN UNCHANGED disk
                                       ELSE blobs' = w[k][1] /\ index' = w[k][2]
    BY <1>2 DEF Stop
  <2> DEFINE w == PushWrites(job[p].repo, Head(job[p].todo).of)
  <2>2. Len(w) \in Nat /\ DOMAIN w = 1 .. Len(w)
    BY WritesNumbered
  <2>3. Len(<< >>) = 0
    OBVIOUS
  <2>4. At(p, "push")
    BY <2>1, <2>3 DEF disk
  <2>5. PICK k \in 0 .. Len(w) : k # 0 /\ index' = w[k][2]
    BY <2>1, <2>4 DEF disk
  <2>6. k \in DOMAIN w
    BY <2>2, <2>5
  <2> QED BY <2>5, <2>6
<1>3. ASSUME NEW p \in Process, Call(p)
      PROVE  FALSE
  BY <1>3 DEF Call, AddComponentVersion, AddDescriptor, AddLocalResource, ListViaReferrers,
     ListViaTags, AddAlias, RemoveAlias, ListComponentVersions,
              Begin, disk
<1>4. ASSUME NEW p \in Process, CopyStep(p) \/ AddOwnership(p) \/ ResolveStep(p)
      PROVE  FALSE
  BY <1>4 DEF CopyStep, AddOwnership, ResolveStep, disk
<1> QED BY <1>1, <1>2, <1>3, <1>4 DEF Next, Step

\* The index is a list of entries in which a tag has one digest.
LEMMA IndexAlways == Spec => []IndexInv
<1>1. Init => IndexInv
  <2> SUFFICES ASSUME index = << >> PROVE IndexInv
    BY DEF Init
  <2>1. << >> \in Seq(Rows(<< >>)) /\ DOMAIN << >> = {}
    BY EmptySeq
  <2> QED BY <2>1 DEF IndexInv, IsIndex, OneDigest
<1>2. IndexInv /\ [Next]_vars => IndexInv'
  <2> SUFFICES ASSUME IndexInv, Next, index' # index PROVE IndexInv'
    BY DEF vars, disk, IndexInv
  <2>1. CASE \E r, m : \E k \in DOMAIN PushWrites(r, m) : index' = PushWrites(r, m)[k][2]
    BY <2>1, PushMovesNoName DEF IndexInv
  <2>2. ASSUME NEW p \in Process, TagStep(p)
        PROVE  IndexInv'
    <3>1. PICK r, t, d : index' = AddArtifact(index, Entry(r, t, d))
      BY <2>2 DEF TagStep, Write, disk
    <3>2. IsEntry(Entry(r, t, d))
      BY DEF IsEntry, Entry
    <3> QED BY <3>1, <3>2, AddRows, AddKeepsOneDigest DEF IndexInv
  <2>3. ASSUME NEW p \in Process, UntagStep(p)
        PROVE  IndexInv'
    <3>1. PICK r, t : index' = RemoveTag(index, r, t)
      BY <2>3 DEF UntagStep, Write, disk
    <3> QED BY <3>1, RemoveTagOf DEF IndexInv
  <2> QED BY <2>1, <2>2, <2>3, IndexSteps
<1> QED BY <1>1, <1>2, PTL DEF Spec

\* A tag of a repository stands for one digest (AddArtifact in index.go).
THEOREM TagsAreUnique == Spec => []OneDigestPerTag
<1>1. IndexInv => OneDigestPerTag
  <2> SUFFICES ASSUME IndexInv, NEW r \in Repo, NEW t \in Tags(r)
               PROVE  \E d \in {e.digest : e \in Elements(index)} : TagOf(index, r, t) = {d}
    BY DEF OneDigestPerTag
  <2>1. PICK i \in DOMAIN index : index[i].repo = r /\ index[i].tag = t /\ t # Untagged
    BY DEF Tags
  <2>2. \A j \in Holders(index, r, t) : index[j].digest = index[i].digest
    BY <2>1 DEF IndexInv, OneDigest, Holders
  <2>3. TagOf(index, r, t) = {index[i].digest}
    BY <2>1, <2>2 DEF TagOf, Holders
  <2> QED BY <2>1, <2>3 DEF Elements
<1> QED BY <1>1, IndexAlways, PTL

-----------------------------------------------------------------------------
(* What the entries of the index and the calls still to be made promise. *)

\* The blobs a component version consists of.
Needs(m) == {m} \cup Layers[m] \cup Locals[m]

\* A list of referrers is of one subject and not empty.
Lists(s) == Seq({m \in Manifest : Subject[m] = s}) \ {<< >>}

\* A component version may be tagged: it is all in B, and in H that it was pushed
\* as a referrer, if it is one.
Ready(r, m, B, H) ==
  /\ m \in Versions[r] /\ Needs(m) \subseteq B
  /\ Subject[m] # NoSubject => <<r, Subject[m], m>> \in H

Fits(e, B, H) ==
  /\ e.repo \in Repo /\ e.digest \in Content \cup Seq(Manifest)
  /\ e.tag \in {Untagged} \cup Names(e.repo) \cup {ReferrersTag(s) : s \in Subjects}
  /\ \A s : e.tag = ReferrersTag(s) => e.digest \in Lists(s)
  /\ e.tag \in Names(e.repo) => Ready(e.repo, e.digest, B, H)
  /\ \A v : e.tag = VersionTag(v) => VersionOf[e.digest] = v

RowsInv  == \A i \in DOMAIN index : Fits(index[i], blobs, attached)
BlobsInv == blobs \subseteq Content \cup Seq(Manifest)

\* The calls of the store a process may be about to make.
Calls(r) ==
  {Push(x) : x \in Content} \cup {Copy(x) : x \in Content} \cup {Own(i) : i \in Images}
    \cup {Untag(AliasTag(a)) : a \in Alias}
    \cup {Lookup(t) : t \in Names(r) \cup {ReferrersTag(s) : s \in Subjects}}
    \cup {Tag(m, t) : m \in Versions[r], t \in Names(r)}

Before(todo, i, c) == \E k \in DOMAIN todo : k < i /\ todo[k] = c

\* A name is given or taken away last.
Ends(todo) == \A i \in DOMAIN todo : todo[i].do \in {"tag", "untag"} => i = Len(todo)

\* What a call to tag needs is there or pushed before.
Prepared(r, todo, B, H) ==
  /\ Ends(todo)
  /\ \A i \in DOMAIN todo : todo[i].do = "tag" =>
       /\ \A v : todo[i].tag = VersionTag(v) => VersionOf[todo[i].of] = v
       /\ \A x \in Needs(todo[i].of) : x \in B \/ Before(todo, i, Push(x))
       /\ Subject[todo[i].of] # NoSubject =>
            <<r, Subject[todo[i].of], todo[i].of>> \in H \/ Before(todo, i, Push(todo[i].of))

Runs(j, B, H) ==
  j.repo \in Repo /\ j.todo \in Seq(Calls(j.repo)) /\ Prepared(j.repo, j.todo, B, H)

IsJob(j) == j = [kind |-> j.kind, repo |-> j.repo, todo |-> j.todo, expect |-> j.expect, answer |-> j.answer]
JobsInv ==
  /\ job = [p \in Process |-> job[p]]
  /\ \A p \in Process : IsJob(job[p]) /\ (job[p].todo = << >> \/ Runs(job[p], blobs, attached))

StoreInv == IndexInv /\ RowsInv /\ BlobsInv /\ JobsInv

\* A component version and its parts are content, and no list is.
LEMMA NeedsAreContent ==
  ASSUME NEW r \in Repo, NEW m \in Versions[r]
  PROVE  m \in Manifest /\ Needs(m) \subseteq Content
BY ManifestsAssumption DEF Needs, Content

\* Tags are neither content nor lists.
LEMMA TagsApart ==
  /\ Untagged \notin Content \cup Seq(Manifest)
  /\ \A s \in Subjects : ReferrersTag(s) \notin Content \cup Seq(Manifest)
  /\ \A r \in Repo : \A t \in Names(r) : t \notin Content \cup Seq(Manifest)
<1>1. ASSUME NEW x \in Seq(Manifest), NEW a, NEW b, x = <<a>> \/ x = <<a, b>>
      PROVE  a \in Manifest
  <2>1. Len(x) \in {1, 2} /\ x[1] = a
    BY <1>1
  <2>2. 1 \in 1 .. Len(x)
    BY <2>1
  <2> QED BY <2>1, <2>2, ElementOfSeq
<1>2. Untagged \notin Seq(Manifest)
  BY <1>1, DigestsAssumption DEF Untagged
<1>3. \A s : ReferrersTag(s) \notin Seq(Manifest)
  BY <1>1, DigestsAssumption DEF ReferrersTag
<1>4. \A r : \A t \in Names(r) : t \notin Seq(Manifest)
  BY <1>1, DigestsAssumption DEF Names, VersionTag, AliasTag
<1>5. \A r \in Repo : \A t \in Names(r) : t \notin Content
  BY DigestsAssumption DEF Names
<1> QED BY <1>2, <1>3, <1>4, <1>5, DigestsAssumption

\* Lists are sequences of manifests, and no content; those of two subjects differ.
LEMMA ListsApart ==
  ASSUME NEW s, NEW l \in Lists(s)
  PROVE  l \in Seq(Manifest) /\ l \notin Content /\ l # << >> /\ \A u : l \in Lists(u) => u = s
<1> DEFINE S == {m \in Manifest : Subject[m] = s}
<1>1. l \in Seq(S) /\ l # << >> /\ S \subseteq Manifest
  BY DEF Lists
<1>2. l \in Seq(Manifest)
  BY <1>1, SeqMonotonic
<1>3. Len(l) \in Nat /\ 1 \in 1 .. Len(l)
  BY <1>1, EmptySeq
<1>4. l[1] \in S
  BY <1>1, <1>3, ElementOfSeq
<1>5. ASSUME NEW u, l \in Lists(u)
      PROVE  u = s
  <2>1. l \in Seq({m \in Manifest : Subject[m] = u})
    BY <1>5 DEF Lists
  <2>2. l[1] \in {m \in Manifest : Subject[m] = u}
    BY <2>1, <1>3, ElementOfSeq
  <2> QED BY <1>4, <2>2
<1> QED BY <1>1, <1>2, <1>5, DigestsAssumption

\* A finite set is put into a sequence with all its elements.
LEMMA OrderCovers ==
  ASSUME NEW S, IsFiniteSet(S)
  PROVE  /\ Cardinality(S) \in Nat /\ Order(S) \in [1 .. Cardinality(S) -> S]
         /\ \A x \in S : \E i \in 1 .. Cardinality(S) : Order(S)[i] = x
<1>1. Cardinality(S) \in Nat /\ ExistsBijection(1 .. Cardinality(S), S)
  BY FS_CardinalityType
<1>2. \E f \in [1 .. Cardinality(S) -> S] : \A x \in S : \E i \in DOMAIN f : f[i] = x
  BY <1>1 DEF ExistsBijection, Bijection, Surjection, Injection
<1>3. Order(S) \in [1 .. Cardinality(S) -> S] /\ \A x \in S : \E i \in DOMAIN Order(S) : Order(S)[i] = x
  BY <1>2 DEF Order
<1> QED BY <1>1, <1>3

\* So are the calls for them.
LEMMA EachCovers ==
  ASSUME NEW S, IsFiniteSet(S)
  PROVE  /\ Each(Push, S) \in Seq({Push(x) : x \in S}) /\ \A x \in S : \E i \in DOMAIN Each(Push, S) : Each(Push, S)[i] = Push(x)
         /\ Each(Copy, S) \in Seq({Copy(x) : x \in S})
         /\ Each(Lookup, S) \in Seq({Lookup(x) : x \in S})
         /\ \A x \in S : \E i \in DOMAIN Each(Lookup, S) : Each(Lookup, S)[i] = Lookup(x)
<1> DEFINE n == Cardinality(S)
<1>1. n \in Nat /\ Order(S) \in [1 .. n -> S] /\ \A x \in S : \E i \in 1 .. n : Order(S)[i] = x
  BY OrderCovers
<1> HIDE DEF n
<1>2. /\ Each(Push, S) = [i \in 1 .. n |-> Push(Order(S)[i])]
      /\ Each(Copy, S) = [i \in 1 .. n |-> Copy(Order(S)[i])]
      /\ Each(Lookup, S) = [i \in 1 .. n |-> Lookup(Order(S)[i])]
  BY DEF Each, n
<1>3. /\ Each(Push, S) \in [1 .. n -> {Push(x) : x \in S}]
      /\ Each(Copy, S) \in [1 .. n -> {Copy(x) : x \in S}]
      /\ Each(Lookup, S) \in [1 .. n -> {Lookup(x) : x \in S}]
  BY <1>1, <1>2
<1>4. \A T, f : f \in [1 .. n -> T] => f \in Seq(T)
  BY <1>1, SeqDef
<1>5. /\ Each(Push, S) \in Seq({Push(x) : x \in S}) /\ Each(Copy, S) \in Seq({Copy(x) : x \in S})
      /\ Each(Lookup, S) \in Seq({Lookup(x) : x \in S})
  BY <1>3, <1>4
<1>6. \A x \in S : \E i \in DOMAIN Each(Push, S) : Each(Push, S)[i] = Push(x)
  BY <1>1, <1>2
<1>7. \A x \in S : \E i \in DOMAIN Each(Lookup, S) : Each(Lookup, S)[i] = Lookup(x)
  BY <1>1, <1>2
<1> QED BY <1>5, <1>6, <1>7

-----------------------------------------------------------------------------
(* The entries of the index. *)

\* Content stays and more is known, so what fitted still does.
LEMMA ReadyStays ==
  ASSUME NEW B, NEW H, NEW C, NEW K, B \cap Content \subseteq C, H \subseteq K
  PROVE  /\ \A r \in Repo : \A m : Ready(r, m, B, H) => Ready(r, m, C, K)
         /\ \A e : Fits(e, B, H) => Fits(e, C, K)
<1>1. ASSUME NEW r \in Repo, NEW m, Ready(r, m, B, H)
      PROVE  Ready(r, m, C, K)
  <2>1. m \in Versions[r] /\ Needs(m) \subseteq B
    BY <1>1 DEF Ready
  <2>2. Needs(m) \subseteq Content
    BY <2>1, NeedsAreContent
  <2> QED BY <1>1, <2>1, <2>2 DEF Ready
<1> QED BY <1>1 DEF Fits

\* An untagged entry fits whatever else it says.
LEMMA UntaggedFits ==
  ASSUME NEW r \in Repo, NEW d \in Content \cup Seq(Manifest), NEW B, NEW H
  PROVE  Fits(Entry(r, Untagged, d), B, H)
<1>1. /\ Entry(r, Untagged, d).repo = r /\ Entry(r, Untagged, d).tag = Untagged
      /\ Entry(r, Untagged, d).digest = d
  BY DEF Entry
<1>2. /\ \A s : Untagged # ReferrersTag(s)
      /\ \A v : Untagged # VersionTag(v)
      /\ Untagged \notin Names(r)
  BY NamesApart DEF Untagged, ReferrersTag, VersionTag
<1> QED BY <1>1, <1>2 DEF Fits

\* AddArtifact of an entry that fits to entries that fit.
LEMMA AddFits ==
  ASSUME NEW idx, IsIndex(idx), OneDigest(idx), NEW a, IsEntry(a), NEW B, NEW H,
         \A i \in DOMAIN idx : Fits(idx[i], B, H), Fits(a, B, H)
  PROVE  \A i \in DOMAIN AddArtifact(idx, a) : Fits(AddArtifact(idx, a)[i], B, H)
<1> DEFINE new == AddArtifact(idx, a)
<1> SUFFICES ASSUME NEW i \in DOMAIN new PROVE Fits(new[i], B, H)
  OBVIOUS
<1>1. /\ IsIndex(new) /\ \A k \in DOMAIN idx : new[k] = Retag(idx, a)[k]
      /\ \A k \in DOMAIN new \ DOMAIN idx : new[k] = a
  BY AddRows
<1>2. CASE i \notin DOMAIN idx
  BY <1>1, <1>2
<1>3. CASE i \in DOMAIN idx /\ new[i].tag = Untagged
  <2>1. \E t : new[i] = Entry(idx[i].repo, t, idx[i].digest)
    BY <1>1, <1>3, RetagRows
  <2>2. new[i] = Entry(idx[i].repo, Untagged, idx[i].digest)
    BY <1>3, <2>1 DEF Entry
  <2>3. idx[i].repo \in Repo /\ idx[i].digest \in Content \cup Seq(Manifest)
    BY <1>3 DEF Fits
  <2> QED BY <2>2, <2>3, UntaggedFits
<1>4. CASE i \in DOMAIN idx /\ new[i].tag # Untagged
  <2>1. IF new[i].repo = a.repo /\ new[i].tag = a.tag THEN new[i].digest = a.digest ELSE new[i] = idx[i]
    BY <1>4, AddedRow
  <2>2. IsEntry(new[i])
    BY <1>1 DEF IsIndex
  <2>3. new[i] = a \/ new[i] = idx[i]
    BY <2>1, <2>2 DEF IsEntry
  <2> QED BY <1>4, <2>3
<1> QED BY <1>2, <1>3, <1>4

\* RemoveTag leaves entries there were.
LEMMA RemoveFits ==
  ASSUME NEW idx, IsIndex(idx), NEW r, NEW t, NEW B, NEW H,
         \A i \in DOMAIN idx : Fits(idx[i], B, H)
  PROVE  \A i \in DOMAIN RemoveTag(idx, r, t) : Fits(RemoveTag(idx, r, t)[i], B, H)
<1> DEFINE new == RemoveTag(idx, r, t)
           k   == First(Holders(idx, r, t))
           n   == Len(idx)
<1>1. CASE Holders(idx, r, t) = {}
  BY <1>1 DEF RemoveTag
<1>2. CASE Holders(idx, r, t) # {}
  <2>1. /\ DOMAIN idx = 1 .. n /\ n \in Nat /\ DOMAIN new = 1 .. n - 1
        /\ \A i \in 1 .. n - 1 : new[i] = IF i < k THEN idx[i] ELSE idx[i + 1]
    BY <1>2, RemovedRows
  <2> HIDE DEF new, k, n
  <2>2. \A i \in 1 .. n - 1 : i \in 1 .. n /\ i + 1 \in 1 .. n
    BY <2>1
  <2>3. \A i \in DOMAIN new : Fits(new[i], B, H)
    BY <2>1, <2>2
  <2> QED BY <2>3 DEF new
<1> QED BY <1>1, <1>2

\* Which entries a reference means: a tag those that hold it, a digest those of it.
LEMMA MatchesAre ==
  IndexInv /\ RowsInv =>
    \A r \in Repo :
      /\ \A t \in Names(r) \cup {ReferrersTag(s) : s \in Subjects} :
           Matches(index, r, t) = Holders(index, r, t)
      /\ \A x \in Content : \A i \in Matches(index, r, x) : index[i].digest = x
<1> SUFFICES ASSUME IndexInv, RowsInv, NEW r \in Repo
             PROVE  /\ \A t \in Names(r) \cup {ReferrersTag(s) : s \in Subjects} :
                         Matches(index, r, t) = Holders(index, r, t)
                    /\ \A x \in Content : \A i \in Matches(index, r, x) : index[i].digest = x
  OBVIOUS
<1>1. ASSUME NEW t \in Names(r) \cup {ReferrersTag(s) : s \in Subjects}
      PROVE  Matches(index, r, t) = Holders(index, r, t)
  <2>1. t \notin Content \cup Seq(Manifest)
    BY TagsApart
  <2>2. \A i \in DOMAIN index : index[i].digest # t
    BY <2>1 DEF RowsInv, Fits
  <2> QED BY <2>2 DEF Matches, Holders
<1>2. ASSUME NEW x \in Content, NEW i \in Matches(index, r, x)
      PROVE  index[i].digest = x
  <2>1. i \in DOMAIN index /\ index[i].repo = r /\ (index[i].tag = x \/ index[i].digest = x)
    BY DEF Matches
  <2>2. index[i].tag \in {Untagged} \cup Names(r) \cup {ReferrersTag(s) : s \in Subjects}
    BY <2>1 DEF RowsInv, Fits
  <2>3. index[i].tag \notin Content
    BY <2>2, TagsApart
  <2> QED BY <2>1, <2>3
<1> QED BY <1>1, <1>2

\* resolve, as long as entries fit: a tag stands for the one digest it has, if that
\* is in the archive.
LEMMA ResolveIs ==
  IndexInv /\ RowsInv /\ BlobsInv =>
    \A r \in Repo :
      /\ \A t \in Names(r) \cup {ReferrersTag(s) : s \in Subjects} :
           /\ \A d \in TagOf(index, r, t) :
                Resolve(r, t) = IF d \in blobs THEN [digest |-> d, indexed |-> TRUE] ELSE Unresolved
           /\ TagOf(index, r, t) = {} => Resolve(r, t) = Unresolved
      /\ \A x \in Content : Resolve(r, x) # Unresolved => x \in blobs
<1> SUFFICES ASSUME IndexInv, RowsInv, BlobsInv, NEW r \in Repo
             PROVE  /\ \A t \in Names(r) \cup {ReferrersTag(s) : s \in Subjects} :
                         /\ \A d \in TagOf(index, r, t) :
                              Resolve(r, t) = IF d \in blobs THEN [digest |-> d, indexed |-> TRUE] ELSE Unresolved
                         /\ TagOf(index, r, t) = {} => Resolve(r, t) = Unresolved
                    /\ \A x \in Content : Resolve(r, x) # Unresolved => x \in blobs
  OBVIOUS
<1>1. ASSUME NEW ref, Matches(index, r, ref) # {}
      PROVE  First(Matches(index, r, ref)) \in Matches(index, r, ref)
  <2>1. Matches(index, r, ref) \in SUBSET Nat
    BY LenProperties DEF Matches, IndexInv, IsIndex
  <2> QED BY <1>1, <2>1, FirstIsLeast
<1>2. ASSUME NEW t \in Names(r) \cup {ReferrersTag(s) : s \in Subjects}
      PROVE  /\ \A d \in TagOf(index, r, t) :
                  Resolve(r, t) = IF d \in blobs THEN [digest |-> d, indexed |-> TRUE] ELSE Unresolved
             /\ TagOf(index, r, t) = {} => Resolve(r, t) = Unresolved
  <2>1. Matches(index, r, t) = Holders(index, r, t) /\ t \notin blobs /\ t # Untagged
    BY MatchesAre, TagsApart, NamesApart DEF BlobsInv, ReferrersTag, Untagged
  <2>2. ASSUME NEW d \in TagOf(index, r, t)
        PROVE  Resolve(r, t) = IF d \in blobs THEN [digest |-> d, indexed |-> TRUE] ELSE Unresolved
    <3>1. Holders(index, r, t) # {}
      BY DEF TagOf
    <3>2. First(Holders(index, r, t)) \in Holders(index, r, t)
      BY <1>1, <2>1, <3>1
    <3>3. index[First(Holders(index, r, t))].digest = d
      BY <2>1, <3>2 DEF TagOf, Holders, IndexInv, OneDigest
    <3> QED BY <2>1, <3>1, <3>3 DEF Resolve
  <2>3. TagOf(index, r, t) = {} => Resolve(r, t) = Unresolved
    BY <2>1 DEF TagOf, Resolve
  <2> QED BY <2>2, <2>3
<1>3. ASSUME NEW x \in Content, Resolve(r, x) # Unresolved
      PROVE  x \in blobs
  <2>1. CASE Matches(index, r, x) = {}
    BY <1>3, <2>1 DEF Resolve
  <2>2. CASE Matches(index, r, x) # {}
    <3>1. index[First(Matches(index, r, x))].digest = x
      BY <1>1, <2>2, MatchesAre
    <3> QED BY <1>3, <2>2, <3>1 DEF Resolve
  <2> QED BY <2>1, <2>2
<1> QED BY <1>2, <1>3

\* So a version or an alias that resolves is ready and stands for what it says, and
\* one that is tagged resolves.
LEMMA NamesResolve ==
  IndexInv /\ RowsInv /\ BlobsInv =>
    \A r \in Repo : \A t \in Names(r) :
      LET d == Resolve(r, t).digest
      IN /\ Resolve(r, t) # Unresolved => Ready(r, d, blobs, attached) /\ \A v : t = VersionTag(v) => VersionOf[d] = v
         /\ TagOf(index, r, t) # {} => Resolve(r, t) # Unresolved
<1> SUFFICES ASSUME IndexInv, RowsInv, BlobsInv, NEW r \in Repo, NEW t \in Names(r)
             PROVE  /\ Resolve(r, t) # Unresolved =>
                         /\ Ready(r, Resolve(r, t).digest, blobs, attached)
                         /\ \A v : t = VersionTag(v) => VersionOf[Resolve(r, t).digest] = v
                    /\ TagOf(index, r, t) # {} => Resolve(r, t) # Unresolved
  OBVIOUS
<1>1. /\ \A d \in TagOf(index, r, t) :
           Resolve(r, t) = IF d \in blobs THEN [digest |-> d, indexed |-> TRUE] ELSE Unresolved
      /\ TagOf(index, r, t) = {} => Resolve(r, t) = Unresolved
  BY ResolveIs
<1>2. ASSUME NEW d \in TagOf(index, r, t)
      PROVE  Ready(r, d, blobs, attached) /\ (\A v : t = VersionTag(v) => VersionOf[d] = v) /\ d \in blobs
  <2>1. PICK i \in DOMAIN index : index[i].repo = r /\ index[i].tag = t /\ index[i].digest = d
    BY DEF TagOf, Holders
  <2>2. Ready(r, d, blobs, attached) /\ \A v : t = VersionTag(v) => VersionOf[d] = v
    BY <2>1 DEF RowsInv, Fits
  <2> QED BY <2>2 DEF Ready, Needs
<1>3. \A d : [digest |-> d, indexed |-> TRUE] # Unresolved /\ [digest |-> d, indexed |-> TRUE].digest = d
  BY DEF Unresolved
<1> QED BY <1>1, <1>2, <1>3

\* The list of referrers of a subject is the one its tag stands for, or empty.
ListsInv ==
  \A r \in Repo : \A s \in Subjects :
    /\ Referrers(r, s) # << >> => /\ TagOf(index, r, ReferrersTag(s)) = {Referrers(r, s)}
                                  /\ Referrers(r, s) \in blobs \cap Lists(s)
    /\ \A l \in TagOf(index, r, ReferrersTag(s)) : l \in blobs => Referrers(r, s) = l

\* It is, by what the entries promise.
LEMMA ReferrersAre == IndexInv /\ RowsInv /\ BlobsInv => ListsInv
<1> SUFFICES ASSUME IndexInv, RowsInv, BlobsInv, NEW r \in Repo, NEW s \in Subjects
             PROVE  /\ Referrers(r, s) # << >> => /\ TagOf(index, r, ReferrersTag(s)) = {Referrers(r, s)}
                                                  /\ Referrers(r, s) \in blobs \cap Lists(s)
                    /\ \A l \in TagOf(index, r, ReferrersTag(s)) : l \in blobs => Referrers(r, s) = l
  BY DEF ListsInv
<1> DEFINE t == ReferrersTag(s)
<1>1. /\ \A d \in TagOf(index, r, t) :
           Resolve(r, t) = IF d \in blobs THEN [digest |-> d, indexed |-> TRUE] ELSE Unresolved
      /\ TagOf(index, r, t) = {} => Resolve(r, t) = Unresolved
  BY ResolveIs
<1>2. \A d, e \in TagOf(index, r, t) : d = e
  BY DEF TagOf, Holders, IndexInv, OneDigest, ReferrersTag, Untagged
<1>3. \A d \in TagOf(index, r, t) : d \in Lists(s)
  BY DEF TagOf, Holders, RowsInv, Fits
<1>4. \A d : [digest |-> d, indexed |-> TRUE] # Unresolved /\ [digest |-> d, indexed |-> TRUE].digest = d
  BY DEF Unresolved
<1>5. Referrers(r, s) = IF Resolve(r, t) = Unresolved THEN << >> ELSE Resolve(r, t).digest
  BY DEF Referrers
<1> HIDE DEF t
<1>6. ASSUME NEW d \in TagOf(index, r, t), d \in blobs
      PROVE  Referrers(r, s) = d
  BY <1>1, <1>4, <1>5, <1>6
<1>7. ASSUME Referrers(r, s) # << >>
      PROVE  TagOf(index, r, t) = {Referrers(r, s)} /\ Referrers(r, s) \in blobs \cap Lists(s)
  <2>1. PICK d \in TagOf(index, r, t) : d \in blobs
    BY <1>1, <1>5, <1>7
  <2>2. TagOf(index, r, t) = {d}
    BY <1>2, <2>1
  <2> QED BY <1>3, <1>6, <2>1, <2>2
<1> QED BY <1>6, <1>7 DEF t

-----------------------------------------------------------------------------
(* What a push writes. *)

OldList(r, m) == Referrers(r, Subject[m])
NewList(r, m) == Listed(OldList(r, m), m)
Relists(r, m) == m \in Manifest /\ Subject[m] # NoSubject /\ NewList(r, m) # OldList(r, m)
Cleaned(r, m) == ((blobs \cup {m}) \cup {NewList(r, m)}) \ {OldList(r, m)}
Entered(r, m) == AddArtifact(index, Entry(r, Untagged, m))
Relisted(r, m) ==
  AddArtifact(IF OldList(r, m) = << >> THEN Entered(r, m)
              ELSE RemoveTag(Entered(r, m), r, ReferrersTag(Subject[m])),
              Entry(r, ReferrersTag(Subject[m]), NewList(r, m)))

\* The index is written last; before, blobs come and the old list goes.
LEMMA PushIs ==
  ASSUME NEW r, NEW m
  PROVE  LET w == PushWrites(r, m)
         IN /\ \A k \in DOMAIN w : /\ k # Len(w) => w[k][2] = index
                                   /\ \/ w[k][1] = blobs \cup {m}
                                      \/ /\ Relists(r, m)
                                         /\ w[k][1] \in {(blobs \cup {m}) \cup {NewList(r, m)}, Cleaned(r, m)}
            /\ w[Len(w)] = IF m \notin Manifest THEN <<blobs \cup {m}, index>>
                           ELSE IF Relists(r, m) THEN <<Cleaned(r, m), Relisted(r, m)>>
                           ELSE <<blobs \cup {m}, Entered(r, m)>>
<1> DEFINE w == PushWrites(r, m)
           S == blobs \cup {m}
           T == S \cup {NewList(r, m)}
<1>1. CASE m \notin Manifest
  <2>1. w = << <<S, index>> >>
    BY <1>1 DEF PushWrites
  <2> QED BY <1>1, <2>1
<1>2. CASE m \in Manifest /\ ~ Relists(r, m)
  <2>1. w = << <<S, index>>, <<S, Entered(r, m)>> >>
    BY <1>2 DEF PushWrites, Relists, NewList, OldList, Entered
  <2> QED BY <1>2, <2>1
<1>3. CASE Relists(r, m)
  <2>1. w = << <<S, index>>, <<T, index>>, <<Cleaned(r, m), index>>, <<Cleaned(r, m), Relisted(r, m)>> >>
    BY <1>3 DEF PushWrites, Relists, NewList, OldList, Entered, Cleaned, Relisted
  <2>2. m \in Manifest
    BY <1>3 DEF Relists
  <2> HIDE DEF w
  <2> QED BY <1>3, <2>1, <2>2 DEF w
<1> QED BY <1>1, <1>2, <1>3

\* The new list has the referrers of the old one and the new one, all of one subject.
LEMMA NewListIs ==
  ASSUME IndexInv, RowsInv, BlobsInv, NEW r \in Repo, NEW m \in Manifest, Subject[m] # NoSubject
  PROVE  /\ Subject[m] \in Subjects
         /\ OldList(r, m) \in Seq(Manifest) /\ OldList(r, m) \notin Content
         /\ NewList(r, m) \in Lists(Subject[m])
         /\ Elements(NewList(r, m)) = Elements(OldList(r, m)) \cup {m}
         /\ NewList(r, m) # OldList(r, m) => m \notin Elements(OldList(r, m))
<1> DEFINE s == Subject[m]
           old == OldList(r, m)
           S == {n \in Manifest : Subject[n] = s}
<1>1. s \in Subjects
  BY DEF Subjects
<1>2. old = << >> \/ old \in Lists(s)
  BY <1>1, ReferrersAre DEF OldList, ListsInv
<1>3. old \in Seq(S)
  BY <1>2, EmptySeq DEF Lists
<1>4. old \in Seq(Manifest) /\ old \notin Content
  <2>1. old \in Seq(Manifest)
    BY <1>3, SeqMonotonic
  <2> QED BY <2>1, DigestsAssumption
<1>5. CASE m \in Elements(old)
  <2>1. NewList(r, m) = old
    BY <1>5 DEF NewList, Listed
  <2>2. old # << >>
    BY <1>5 DEF Elements
  <2> QED BY <1>1, <1>2, <1>4, <1>5, <2>1, <2>2
<1>6. CASE m \notin Elements(old)
  <2> DEFINE new == Append(old, m)
  <2>1. NewList(r, m) = new
    BY <1>6 DEF NewList, Listed
  <2>2. m \in S
    OBVIOUS
  <2> HIDE DEF S, old
  <2>3. /\ new \in Seq(S) /\ new # << >> /\ Len(new) = Len(old) + 1
        /\ \A i \in 1 .. Len(old) : new[i] = old[i]
        /\ new[Len(old) + 1] = m
    BY <1>3, <2>2, AppendProperties
  <2>4. /\ Len(old) \in Nat /\ DOMAIN old = 1 .. Len(old) /\ DOMAIN new = 1 .. Len(new)
    BY <1>3, <2>3, LenProperties
  <2> HIDE DEF new
  <2>5. Elements(new) = Elements(old) \cup {m}
    <3>1. DOMAIN new = DOMAIN old \cup {Len(old) + 1}
      BY <2>3, <2>4
    <3> QED BY <2>3, <2>4, <3>1 DEF Elements
  <2>6. new \in Lists(s)
    BY <2>3 DEF Lists, S
  <2> QED BY <1>1, <1>4, <1>6, <2>1, <2>5, <2>6 DEF old
<1> QED BY <1>5, <1>6

\* Pushing content loses no content, and leaves nothing but content and lists.
LEMMA PushKeepsContent ==
  ASSUME IndexInv, RowsInv, BlobsInv, NEW r \in Repo, NEW m \in Content, NEW k \in DOMAIN PushWrites(r, m)
  PROVE  LET B == PushWrites(r, m)[k][1]
         IN (blobs \cap Content) \cup {m} \subseteq B /\ B \subseteq Content \cup Seq(Manifest)
<1>1. CASE PushWrites(r, m)[k][1] = blobs \cup {m}
  BY <1>1 DEF BlobsInv
<1>2. CASE /\ Relists(r, m)
           /\ PushWrites(r, m)[k][1] \in {(blobs \cup {m}) \cup {NewList(r, m)}, Cleaned(r, m)}
  <2>1. OldList(r, m) \notin Content /\ NewList(r, m) \in Lists(Subject[m])
    BY <1>2, NewListIs DEF Relists
  <2>2. NewList(r, m) \in Seq(Manifest)
    BY <2>1, ListsApart
  <2> QED BY <1>2, <2>1, <2>2 DEF BlobsInv, Cleaned
<1> QED BY <1>1, <1>2, PushIs

\* The entries a push leaves fit.
LEMMA PushKeepsRows ==
  ASSUME IndexInv, RowsInv, BlobsInv, NEW r \in Repo, NEW m \in Content
  PROVE  LET new == PushWrites(r, m)[Len(PushWrites(r, m))][2]
         IN \A i \in DOMAIN new : Fits(new[i], blobs, attached)
<1> DEFINE Good(idx) == IsIndex(idx) /\ OneDigest(idx) /\ \A i \in DOMAIN idx : Fits(idx[i], blobs, attached)
<1>1. Good(index)
  BY DEF IndexInv, RowsInv
<1>2. ASSUME NEW idx, Good(idx), NEW t, NEW d, Fits(Entry(r, t, d), blobs, attached)
      PROVE  Good(AddArtifact(idx, Entry(r, t, d)))
  <2>1. IsEntry(Entry(r, t, d))
    BY DEF IsEntry, Entry
  <2> QED BY <1>2, <2>1, AddRows, AddKeepsOneDigest, AddFits
<1>3. Good(Entered(r, m))
  <2>1. Fits(Entry(r, Untagged, m), blobs, attached)
    BY UntaggedFits
  <2> QED BY <1>1, <1>2, <2>1 DEF Entered
<1>4. ASSUME Relists(r, m)
      PROVE  Good(Relisted(r, m))
  <2> DEFINE s == Subject[m]
             a == Entry(r, ReferrersTag(s), NewList(r, m))
  <2>1. s \in Subjects /\ NewList(r, m) \in Lists(s)
    BY <1>4, NewListIs DEF Relists
  <2>2. NewList(r, m) \in Seq(Manifest)
    BY <2>1, ListsApart
  <2>3. Fits(a, blobs, attached)
    <3>1. a.repo = r /\ a.tag = ReferrersTag(s) /\ a.digest = NewList(r, m)
      BY DEF Entry
    <3>2. ReferrersTag(s) \notin Names(r)
      BY NamesApart
    <3>3. /\ \A u : ReferrersTag(s) = ReferrersTag(u) => u = s
          /\ \A v : ReferrersTag(s) # VersionTag(v)
      BY DEF ReferrersTag, VersionTag
    <3> QED BY <2>1, <2>2, <3>1, <3>2, <3>3 DEF Fits
  <2>4. Good(RemoveTag(Entered(r, m), r, ReferrersTag(s)))
    BY <1>3, RemoveTagOf, RemoveFits
  <2> DEFINE un == IF OldList(r, m) = << >> THEN Entered(r, m) ELSE RemoveTag(Entered(r, m), r, ReferrersTag(s))
  <2>5. Good(un)
    BY <1>3, <2>4
  <2>6. Relisted(r, m) = AddArtifact(un, a)
    BY DEF Relisted
  <2> QED BY <1>2, <2>3, <2>5, <2>6
<1>5. PushWrites(r, m)[Len(PushWrites(r, m))][2] \in {index, Entered(r, m)}
        \/ (Relists(r, m) /\ PushWrites(r, m)[Len(PushWrites(r, m))][2] = Relisted(r, m))
  <2> DEFINE l == PushWrites(r, m)[Len(PushWrites(r, m))]
  <2>1. \/ l = <<blobs \cup {m}, index>>
        \/ Relists(r, m) /\ l = <<Cleaned(r, m), Relisted(r, m)>>
        \/ l = <<blobs \cup {m}, Entered(r, m)>>
    <3> HIDE DEF Good
    <3> QED BY PushIs
  <2> HIDE DEF l, Good
  <2>2. \A a, b : l = <<a, b>> => l[2] = b
    OBVIOUS
  <2>3. l[2] = index \/ l[2] = Entered(r, m) \/ (Relists(r, m) /\ l[2] = Relisted(r, m))
    BY <2>1, <2>2, Zenon
  <2> QED BY <2>3 DEF l
<1> DEFINE new == PushWrites(r, m)[Len(PushWrites(r, m))][2]
<1>6. Good(new)
  <2> HIDE DEF Good
  <2> QED BY <1>1, <1>3, <1>4, <1>5
<1> HIDE DEF new
<1>7. \A i \in DOMAIN new : Fits(new[i], blobs, attached)
  BY <1>6
<1> QED BY <1>7 DEF new

-----------------------------------------------------------------------------
(* The calls still to be made. *)

\* What each kind of call is about.
LEMMA CallsAre ==
  ASSUME NEW r \in Repo, NEW c \in Calls(r)
  PROVE  /\ c.do = "push" => c.of \in Content /\ c = Push(c.of)
         /\ c.do = "copy" => c.of \in Content
         /\ c.do = "own" => c.of \in Images
         /\ c.do = "resolve" => c.tag \in Names(r) \cup {ReferrersTag(s) : s \in Subjects} /\ c = Lookup(c.tag)
         /\ c.do = "tag" => c.of \in Versions[r] /\ c.tag \in Names(r)
         /\ c.do = "untag" => c.of = NoSubject /\ \E a \in Alias : c.tag = AliasTag(a)
BY DEF Calls, Push, Copy, Own, Untag, Lookup, Tag

\* The calls that neither give a name nor take one away.
Plain(r) == {c \in Calls(r) : c.do \notin {"tag", "untag"}}

\* The head and the tail of what is left to do.
LEMMA TailIs ==
  ASSUME NEW S, NEW todo \in Seq(S), todo # << >>
  PROVE  /\ Head(todo) = todo[1] /\ Head(todo) \in S /\ Tail(todo) \in Seq(S)
         /\ DOMAIN todo = 1 .. Len(todo) /\ Len(todo) \in Nat /\ 1 \in DOMAIN todo
         /\ DOMAIN Tail(todo) = 1 .. Len(todo) - 1
         /\ \A i \in 1 .. Len(todo) - 1 : Tail(todo)[i] = todo[i + 1]
<1>1. Len(todo) \in Nat /\ Len(todo) # 0
  BY EmptySeq
<1>2. Tail(todo) \in Seq(S) /\ Len(Tail(todo)) = Len(todo) - 1 /\ \A i \in 1 .. Len(Tail(todo)) : Tail(todo)[i] = todo[i + 1]
  BY HeadTailProperties
<1>3. Head(todo) = todo[1] /\ Head(todo) \in S
  BY HeadTailProperties
<1>4. DOMAIN todo = 1 .. Len(todo) /\ DOMAIN Tail(todo) = 1 .. Len(Tail(todo))
  BY <1>2, LenProperties
<1> QED BY <1>1, <1>2, <1>3, <1>4

\* What is prepared stays so when content stays and the first call is made.
LEMMA PreparedStays ==
  ASSUME NEW r \in Repo, NEW todo \in Seq(Calls(r)), NEW B, NEW H, NEW C, NEW K,
         Prepared(r, todo, B, H), B \cap Content \subseteq C, H \subseteq K
  PROVE  Prepared(r, todo, C, K)
<1>0. Ends(todo)
  BY DEF Prepared
<1> SUFFICES ASSUME NEW i \in DOMAIN todo, todo[i].do = "tag"
             PROVE  /\ \A v : todo[i].tag = VersionTag(v) => VersionOf[todo[i].of] = v
                    /\ \A x \in Needs(todo[i].of) : x \in C \/ Before(todo, i, Push(x))
                    /\ Subject[todo[i].of] # NoSubject =>
                         <<r, Subject[todo[i].of], todo[i].of>> \in K \/ Before(todo, i, Push(todo[i].of))
  BY DEF Prepared
<1>1. todo[i] \in Calls(r)
  BY LenProperties, ElementOfSeq
<1>2. Needs(todo[i].of) \subseteq Content
  BY <1>1, CallsAre, NeedsAreContent
<1> QED BY <1>2 DEF Prepared

\* What is left is prepared when the first call is made, if what it pushes is there.
LEMMA TailPrepared ==
  ASSUME NEW r \in Repo, NEW todo \in Seq(Calls(r)), todo # << >>, NEW B, NEW H, Prepared(r, todo, B, H),
         Head(todo).do = "push" =>
           /\ Head(todo).of \in B
           /\ Head(todo).of \in Manifest /\ Subject[Head(todo).of] # NoSubject =>
                <<r, Subject[Head(todo).of], Head(todo).of>> \in H
  PROVE  Tail(todo) \in Seq(Calls(r)) /\ Prepared(r, Tail(todo), B, H)
<1> DEFINE n == Len(todo)
           t == Tail(todo)
<1>1. /\ Head(todo) = todo[1] /\ t \in Seq(Calls(r)) /\ DOMAIN todo = 1 .. n /\ n \in Nat
      /\ DOMAIN t = 1 .. n - 1 /\ \A i \in 1 .. n - 1 : t[i] = todo[i + 1]
  BY TailIs
<1> HIDE DEF n, t
<1>2. ASSUME NEW i \in DOMAIN t, NEW x, Before(todo, i + 1, Push(x))
      PROVE  Before(t, i, Push(x)) \/ Head(todo) = Push(x)
  <2>1. PICK k \in DOMAIN todo : k < i + 1 /\ todo[k] = Push(x)
    BY <1>2 DEF Before
  <2>2. CASE k = 1
    BY <1>1, <2>1, <2>2
  <2>3. CASE k # 1
    <3>1. k - 1 \in 1 .. n - 1 /\ k - 1 < i /\ (k - 1) + 1 = k
      BY <1>1, <2>1, <2>3
    <3>2. t[k - 1] = Push(x)
      BY <1>1, <2>1, <3>1
    <3> QED BY <1>1, <3>1, <3>2 DEF Before
  <2> QED BY <2>2, <2>3
<1>3. \A x : Push(x).do = "push" /\ Push(x).of = x
  BY DEF Push
<1>4. ASSUME NEW i \in DOMAIN t, t[i].do = "tag"
      PROVE  /\ \A v : t[i].tag = VersionTag(v) => VersionOf[t[i].of] = v
             /\ \A x \in Needs(t[i].of) : x \in B \/ Before(t, i, Push(x))
             /\ Subject[t[i].of] # NoSubject =>
                  <<r, Subject[t[i].of], t[i].of>> \in H \/ Before(t, i, Push(t[i].of))
  <2>1. i + 1 \in DOMAIN todo /\ t[i] = todo[i + 1]
    BY <1>1
  <2>2. todo[i + 1] \in Calls(r)
    BY <1>1, <2>1, ElementOfSeq DEF n
  <2>3. t[i].of \in Manifest
    BY <1>4, <2>1, <2>2, CallsAre, NeedsAreContent
  <2>4. /\ \A v : t[i].tag = VersionTag(v) => VersionOf[t[i].of] = v
        /\ \A x \in Needs(t[i].of) : x \in B \/ Before(todo, i + 1, Push(x))
        /\ Subject[t[i].of] # NoSubject =>
             <<r, Subject[t[i].of], t[i].of>> \in H \/ Before(todo, i + 1, Push(t[i].of))
    BY <1>4, <2>1 DEF Prepared
  <2>5. \A x : Before(todo, i + 1, Push(x)) => \/ Before(t, i, Push(x))
                                               \/ Head(todo).do = "push" /\ Head(todo).of = x
    BY <1>2, <1>3
  <2> QED BY <2>3, <2>4, <2>5
<1>5. Ends(t)
  <2>1. ASSUME NEW i \in DOMAIN t, t[i].do \in {"tag", "untag"} PROVE i = n - 1
    <3>1. i + 1 \in DOMAIN todo /\ todo[i + 1].do \in {"tag", "untag"}
      BY <1>1, <2>1
    <3>2. i + 1 = n
      BY <3>1 DEF Prepared, Ends, n
    <3> QED BY <1>1, <2>1, <3>2
  <2>2. Len(t) = n - 1
    BY <1>1, HeadTailProperties DEF t, n
  <2> QED BY <2>1, <2>2 DEF Ends
<1> QED BY <1>1, <1>4, <1>5 DEF Prepared, t

\* Calls that tag nothing may be put first; what they push is then there.
LEMMA ConcatPrepared ==
  ASSUME NEW r \in Repo, NEW f \in Seq(Plain(r)), NEW g \in Seq(Calls(r)), NEW B, NEW H, NEW C,
         \A x \in C : \E k \in DOMAIN f : f[k] = Push(x), Prepared(r, g, B \cup C, H)
  PROVE  f \o g \in Seq(Calls(r)) /\ Prepared(r, f \o g, B, H)
<1> DEFINE n == Len(f)
           l == Len(g)
           h == f \o g
<1>0. Seq(Plain(r)) \subseteq Seq(Calls(r))
  BY SeqMonotonic DEF Plain
<1>1. /\ h \in Seq(Calls(r)) /\ n \in Nat /\ l \in Nat /\ DOMAIN f = 1 .. n /\ DOMAIN g = 1 .. l /\ Len(h) = n + l
      /\ \A i \in 1 .. n + l : h[i] = IF i <= n THEN f[i] ELSE g[i - n]
  BY <1>0, ConcatProperties, LenProperties
<1>2. DOMAIN h = 1 .. n + l
  BY <1>1, LenProperties
<1> HIDE DEF n, l, h
<1>3. ASSUME NEW i \in DOMAIN h, h[i].do = "tag"
      PROVE  /\ \A v : h[i].tag = VersionTag(v) => VersionOf[h[i].of] = v
             /\ \A x \in Needs(h[i].of) : x \in B \/ Before(h, i, Push(x))
             /\ Subject[h[i].of] # NoSubject =>
                  <<r, Subject[h[i].of], h[i].of>> \in H \/ Before(h, i, Push(h[i].of))
  <2>1. ~ (i <= n)
    <3>1. ASSUME i <= n PROVE FALSE
      <4>1. i \in 1 .. n /\ h[i] = f[i]
        BY <1>1, <1>2, <3>1
      <4>2. f[i] \in Plain(r)
        BY <4>1, ElementOfSeq DEF n
      <4> QED BY <1>3, <4>1, <4>2 DEF Plain
    <3> QED BY <3>1
  <2>2. i - n \in 1 .. l /\ h[i] = g[i - n] /\ i > n
    BY <1>1, <1>2, <2>1
  <2>3. \A x : Before(g, i - n, Push(x)) => Before(h, i, Push(x))
    <3> SUFFICES ASSUME NEW x, NEW k \in 1 .. l, k < i - n, g[k] = Push(x)
                 PROVE  \E e \in DOMAIN h : e < i /\ h[e] = Push(x)
      BY <1>1 DEF Before
    <3>1. k + n \in 1 .. n + l /\ k + n < i /\ ~ (k + n <= n) /\ (k + n) - n = k
      BY <1>1, <1>2
    <3>2. h[k + n] = g[k]
      BY <1>1, <3>1
    <3> QED BY <1>2, <3>1, <3>2
  <2>4. \A x \in C : Before(h, i, Push(x))
    <3> SUFFICES ASSUME NEW x \in C PROVE \E e \in DOMAIN h : e < i /\ h[e] = Push(x)
      BY DEF Before
    <3>1. PICK k \in 1 .. n : f[k] = Push(x)
      BY <1>1
    <3>2. k \in 1 .. n + l /\ k <= n /\ k < i
      BY <1>1, <1>2, <2>2
    <3>3. h[k] = f[k]
      BY <1>1, <3>2
    <3> QED BY <1>2, <3>1, <3>2, <3>3
  <2>5. /\ \A v : h[i].tag = VersionTag(v) => VersionOf[h[i].of] = v
        /\ \A x \in Needs(h[i].of) : x \in B \cup C \/ Before(g, i - n, Push(x))
        /\ Subject[h[i].of] # NoSubject =>
             <<r, Subject[h[i].of], h[i].of>> \in H \/ Before(g, i - n, Push(h[i].of))
    BY <1>1, <1>3, <2>2 DEF Prepared
  <2> QED BY <2>3, <2>4, <2>5
<1>4. Ends(h)
  <2> SUFFICES ASSUME NEW i \in DOMAIN h, h[i].do \in {"tag", "untag"} PROVE i = n + l
    BY <1>1 DEF Ends
  <2>1. ~ (i <= n)
    <3>1. ASSUME i <= n PROVE FALSE
      <4>1. i \in 1 .. n /\ h[i] = f[i]
        BY <1>1, <1>2, <3>1
      <4>2. f[i] \in Plain(r)
        BY <4>1, ElementOfSeq DEF n
      <4> QED BY <4>1, <4>2 DEF Plain
    <3> QED BY <3>1
  <2>2. i - n \in 1 .. l /\ h[i] = g[i - n] /\ i > n
    BY <1>1, <1>2, <2>1
  <2>3. i - n = l
    BY <1>1, <2>2 DEF Prepared, Ends, l
  <2> QED BY <1>1, <1>2, <2>3
<1> QED BY <1>1, <1>3, <1>4 DEF Prepared, h

\* Calls that tag nothing need nothing.
LEMMA PlainPrepared ==
  ASSUME NEW r \in Repo, NEW todo \in Seq(Plain(r)), NEW B, NEW H
  PROVE  todo \in Seq(Calls(r)) /\ Prepared(r, todo, B, H)
<1>1. Seq(Plain(r)) \subseteq Seq(Calls(r))
  BY SeqMonotonic DEF Plain
<1>2. \A i \in DOMAIN todo : todo[i] \in Plain(r)
  BY LenProperties, ElementOfSeq
<1> QED BY <1>1, <1>2 DEF Plain, Prepared, Ends

-----------------------------------------------------------------------------
(* The steps. *)

\* A process that has something left to do.
LEMMA HeadIs ==
  ASSUME StoreInv, NEW p \in Process, job[p].todo # << >>
  PROVE  LET r == job[p].repo
             c == Head(job[p].todo)
         IN /\ r \in Repo /\ c \in Calls(r) /\ job[p].todo \in Seq(Calls(r))
            /\ Prepared(r, job[p].todo, blobs, attached)
            /\ c.do = "tag" => Ready(r, c.of, blobs, attached) /\ \A v : c.tag = VersionTag(v) => VersionOf[c.of] = v
<1> DEFINE r == job[p].repo
           todo == job[p].todo
<1>1. r \in Repo /\ todo \in Seq(Calls(r)) /\ Prepared(r, todo, blobs, attached)
  BY DEF StoreInv, JobsInv, Runs
<1> HIDE DEF r, todo
<1>2. Head(todo) = todo[1] /\ Head(todo) \in Calls(r) /\ 1 \in DOMAIN todo /\ DOMAIN todo = 1 .. Len(todo)
  BY <1>1, TailIs DEF todo
<1>3. \A x : ~ Before(todo, 1, x)
  BY <1>2 DEF Before
<1>4. ASSUME Head(todo).do = "tag"
      PROVE  Ready(r, Head(todo).of, blobs, attached) /\ \A v : Head(todo).tag = VersionTag(v) => VersionOf[Head(todo).of] = v
  <2>1. Head(todo).of \in Versions[r]
    BY <1>1, <1>2, <1>4, CallsAre
  <2> QED BY <1>1, <1>2, <1>3, <1>4, <2>1 DEF Prepared, Ready
<1> QED BY <1>1, <1>2, <1>4 DEF r, todo

\* Whichever of its writes a push has done, content and only that is there, and a
\* push that is stopped has not written the index.
LEMMA StopWrites ==
  ASSUME StoreInv, Stop
  PROVE  /\ index' = index /\ attached' = attached
         /\ blobs \cap Content \subseteq blobs' /\ BlobsInv'
<1>1. PICK p \in Process :
        LET w == IF At(p, "push") THEN PushWrites(job[p].repo, Head(job[p].todo).of) ELSE << >>
        IN \E k \in 0 .. Len(w) : /\ k < Len(w) \/ k = 0
                                  /\ IF k = 0 THEN UNCHANGED disk
                                     ELSE blobs' = w[k][1] /\ index' = w[k][2]
  BY DEF Stop
<1> DEFINE r == job[p].repo
           m == Head(job[p].todo).of
           w == PushWrites(r, m)
<1>2. CASE UNCHANGED disk
  BY <1>2 DEF disk, Stop, StoreInv, BlobsInv
<1>3. CASE ~ UNCHANGED disk
  <2>1. Len(w) \in Nat /\ DOMAIN w = 1 .. Len(w)
    BY WritesNumbered
  <2>2. Len(<< >>) = 0
    OBVIOUS
  <2>3. At(p, "push")
    BY <1>1, <1>3, <2>2
  <2>4. PICK k \in 0 .. Len(w) : k # 0 /\ k < Len(w) /\ blobs' = w[k][1] /\ index' = w[k][2]
    BY <1>1, <1>3, <2>3
  <2>5. k \in DOMAIN w /\ k # Len(w)
    BY <2>1, <2>4
  <2>6. r \in Repo /\ m \in Content
    BY <2>3, HeadIs, CallsAre DEF At
  <2>7. w[k][2] = index
    <3> HIDE DEF r, m
    <3>1. \A j \in DOMAIN w : j # Len(w) => w[j][2] = index
      <4>1. \A j \in DOMAIN PushWrites(r, m) :
               /\ j # Len(PushWrites(r, m)) => PushWrites(r, m)[j][2] = index
               /\ \/ PushWrites(r, m)[j][1] = blobs \cup {m}
                  \/ /\ Relists(r, m)
                     /\ PushWrites(r, m)[j][1] \in {(blobs \cup {m}) \cup {NewList(r, m)}, Cleaned(r, m)}
        BY PushIs, Zenon
      <4> QED BY <4>1
    <3> HIDE DEF w
    <3> QED BY <2>5, <3>1
  <2>8. (blobs \cap Content) \cup {m} \subseteq w[k][1] /\ w[k][1] \subseteq Content \cup Seq(Manifest)
    BY <2>5, <2>6, PushKeepsContent DEF StoreInv
  <2> QED BY <2>4, <2>7, <2>8 DEF Stop, BlobsInv
<1> QED BY <1>2, <1>3

\* What is pushed is there, and known to be pushed.
LEMMA PushStepWrites ==
  ASSUME StoreInv, NEW p \in Process, PushStep(p)
  PROVE  LET r == job[p].repo
             m == Head(job[p].todo).of
         IN /\ r \in Repo /\ m \in Content
            /\ (blobs \cap Content) \cup {m} \subseteq blobs' /\ BlobsInv'
            /\ attached \subseteq attached'
            /\ m \in Manifest /\ Subject[m] # NoSubject => <<r, Subject[m], m>> \in attached'
            /\ \A i \in DOMAIN index' : Fits(index'[i], blobs, attached)
<1> DEFINE r == job[p].repo
           m == Head(job[p].todo).of
           w == PushWrites(r, m)
<1>1. r \in Repo /\ m \in Content
  BY HeadIs, CallsAre DEF PushStep, At
<1>2. blobs' = w[Len(w)][1] /\ index' = w[Len(w)][2]
  BY DEF PushStep, Write
<1>3. Len(w) \in DOMAIN w
  BY WritesNumbered
<1>4. (blobs \cap Content) \cup {m} \subseteq blobs' /\ BlobsInv'
  BY <1>1, <1>2, <1>3, PushKeepsContent DEF StoreInv, BlobsInv
<1>5. \A i \in DOMAIN index' : Fits(index'[i], blobs, attached)
  BY <1>1, <1>2, PushKeepsRows DEF StoreInv
<1>6. attached \subseteq attached' /\ (m \in Manifest /\ Subject[m] # NoSubject => <<r, Subject[m], m>> \in attached')
  BY DEF PushStep, history
<1> QED BY <1>1, <1>4, <1>5, <1>6

\* No step loses content or what is known.
LEMMA ContentStays ==
  ASSUME StoreInv, [Next]_vars
  PROVE  blobs \cap Content \subseteq blobs' /\ attached \subseteq attached' /\ BlobsInv'
<1>1. CASE UNCHANGED <<blobs, attached>>
  BY <1>1 DEF StoreInv, BlobsInv
<1>2. CASE Stop
  BY <1>2, StopWrites
<1>3. ASSUME NEW p \in Process, PushStep(p)
      PROVE  blobs \cap Content \subseteq blobs' /\ attached \subseteq attached' /\ BlobsInv'
  BY <1>3, PushStepWrites
<1>4. ASSUME NEW p \in Process, Step(p), ~ PushStep(p)
      PROVE  UNCHANGED <<blobs, attached>>
  BY <1>4 DEF Step, CopyStep, AddOwnership, TagStep, UntagStep, ResolveStep, Write, disk, history
<1>5. ASSUME NEW p \in Process, Call(p)
      PROVE  UNCHANGED <<blobs, attached>>
  BY <1>5 DEF Call, AddComponentVersion, AddDescriptor, AddLocalResource, AddAlias, RemoveAlias,
              ListComponentVersions, ListViaReferrers, ListViaTags, Begin, disk, history
<1> QED BY <1>1, <1>2, <1>3, <1>4, <1>5 DEF Next, vars, disk, history

\* The entries fit after each step.
LEMMA RowsStep ==
  ASSUME StoreInv, [Next]_vars
  PROVE  RowsInv'
<1> DEFINE Good == \A i \in DOMAIN index' : Fits(index'[i], blobs, attached)
<1>1. SUFFICES Good
  BY <1>1, ContentStays, ReadyStays DEF RowsInv
<1>2. CASE index' = index
  BY <1>2 DEF StoreInv, RowsInv
<1>3. CASE Stop
  BY <1>2, <1>3, StopWrites
<1>4. ASSUME NEW p \in Process, PushStep(p)
      PROVE  Good
  BY <1>4, PushStepWrites
<1>5. ASSUME NEW p \in Process, TagStep(p), index' # index
      PROVE  Good
  <2> DEFINE r == job[p].repo
             c == Head(job[p].todo)
             a == Entry(r, c.tag, c.of)
  <2>1. r \in Repo /\ c \in Calls(r) /\ Ready(r, c.of, blobs, attached) /\ (\A v : c.tag = VersionTag(v) => VersionOf[c.of] = v)
    BY <1>5, HeadIs DEF TagStep, At
  <2>2. c.of \in Versions[r] /\ c.tag \in Names(r)
    BY <1>5, <2>1, CallsAre DEF TagStep, At
  <2>3. c.of \in Content
    BY <2>1, <2>2, NeedsAreContent DEF Needs
  <2>4. a.repo = r /\ a.tag = c.tag /\ a.digest = c.of
    BY DEF Entry
  <2>5. \A s : c.tag # ReferrersTag(s)
    BY <2>2, NamesApart
  <2>6. Fits(a, blobs, attached)
    <3> HIDE DEF a, c, r
    <3> QED BY <2>1, <2>2, <2>3, <2>4, <2>5 DEF Fits
  <2>7. IsEntry(a)
    BY DEF IsEntry, Entry
  <2>8. index' = AddArtifact(index, a)
    BY <1>5 DEF TagStep, Write, disk
  <2> QED BY <2>6, <2>7, <2>8, AddFits DEF StoreInv, IndexInv, RowsInv
<1>6. ASSUME NEW p \in Process, UntagStep(p), index' # index
      PROVE  Good
  <2>1. index' = RemoveTag(index, job[p].repo, Head(job[p].todo).tag)
    BY <1>6 DEF UntagStep, Write, disk
  <2> QED BY <2>1, RemoveFits DEF StoreInv, IndexInv, RowsInv
<1>7. ASSUME NEW p \in Process, CopyStep(p) \/ AddOwnership(p) \/ ResolveStep(p)
      PROVE  index' = index
  BY <1>7 DEF CopyStep, AddOwnership, ResolveStep, disk
<1>8. ASSUME NEW p \in Process, Call(p)
      PROVE  index' = index
  BY <1>8 DEF Call, AddComponentVersion, AddDescriptor, AddLocalResource, AddAlias, RemoveAlias,
              ListComponentVersions, ListViaReferrers, ListViaTags, Begin, disk
<1>9. UNCHANGED vars => index' = index
  BY DEF vars, disk
<1> QED BY <1>2, <1>3, <1>4, <1>5, <1>6, <1>7, <1>8, <1>9 DEF Next, Step

\* A job that is well formed and has nothing left to do or runs.
Fine(j, B, H) == IsJob(j) /\ (j.todo = << >> \/ Runs(j, B, H))

\* A job stays fine when content stays and more is known.
LEMMA FineStays ==
  ASSUME NEW j, NEW B, NEW H, NEW C, NEW K, Fine(j, B, H), B \cap Content \subseteq C, H \subseteq K
  PROVE  Fine(j, C, K)
BY PreparedStays DEF Fine, Runs

\* The job of one process may be set to one that is fine.
LEMMA JobSet ==
  ASSUME StoreInv, NEW p \in Process, NEW j, Fine(j, blobs', attached'), job' = [job EXCEPT ![p] = j],
         blobs \cap Content \subseteq blobs', attached \subseteq attached'
  PROVE  JobsInv'
<1>1. job' = [q \in Process |-> job'[q]]
  BY DEF StoreInv, JobsInv
<1>2. \A q \in Process : job'[q] = IF q = p THEN j ELSE job[q]
  BY DEF StoreInv, JobsInv
<1>3. \A q \in Process : Fine(job[q], blobs', attached')
  BY FineStays DEF StoreInv, JobsInv, Fine
<1> QED BY <1>1, <1>2, <1>3 DEF JobsInv, Fine

\* A job that goes on with its next calls.
LEMMA NextIsFine ==
  ASSUME StoreInv, [Next]_vars, NEW p \in Process, job[p].todo # << >>, Head(job[p].todo).do = "push" => PushStep(p)
  PROVE  /\ Fine([job[p] EXCEPT !.todo = Tail(@)], blobs', attached')
         /\ \A X : Fine([[job[p] EXCEPT !.todo = Tail(@)] EXCEPT !.answer = X], blobs', attached')
         /\ \A f \in Seq(Plain(job[p].repo)) : Head(job[p].todo).do # "push" =>
              Fine([job[p] EXCEPT !.todo = f \o Tail(@)], blobs', attached')
<1> DEFINE r == job[p].repo
           todo == job[p].todo
           c == Head(todo)
<1>1. r \in Repo /\ c \in Calls(r) /\ todo \in Seq(Calls(r)) /\ Prepared(r, todo, blobs, attached)
  BY HeadIs
<1>2. blobs \cap Content \subseteq blobs' /\ attached \subseteq attached'
  BY ContentStays
<1>3. c.do = "push" => /\ c.of \in blobs'
                       /\ c.of \in Manifest /\ Subject[c.of] # NoSubject => <<r, Subject[c.of], c.of>> \in attached'
  BY PushStepWrites
<1> HIDE DEF r, c, todo
<1>4. Prepared(r, todo, blobs', attached')
  BY <1>1, <1>2, PreparedStays
<1>5. Tail(todo) \in Seq(Calls(r)) /\ Prepared(r, Tail(todo), blobs', attached')
  BY <1>1, <1>3, <1>4, TailPrepared DEF c, todo
<1>6. IsJob(job[p])
  BY DEF StoreInv, JobsInv
<1>7. ASSUME NEW X, X \in Seq(Calls(r)), Prepared(r, X, blobs', attached')
      PROVE  /\ Fine([job[p] EXCEPT !.todo = X], blobs', attached')
             /\ \A Y : Fine([[job[p] EXCEPT !.todo = X] EXCEPT !.answer = Y], blobs', attached')
  <2> DEFINE j == [job[p] EXCEPT !.todo = X]
  <2>1. j = [kind |-> job[p].kind, repo |-> r, todo |-> X, expect |-> job[p].expect, answer |-> job[p].answer]
    BY <1>6 DEF IsJob, r
  <2> HIDE DEF j
  <2>2. \A Y : [j EXCEPT !.answer = Y] = [kind |-> job[p].kind, repo |-> r, todo |-> X, expect |-> job[p].expect, answer |-> Y]
    BY <2>1
  <2>3. \A Y : [j EXCEPT !.answer = Y].repo = r /\ [j EXCEPT !.answer = Y].todo = X /\ IsJob([j EXCEPT !.answer = Y])
    BY <2>2 DEF IsJob
  <2>4. j.repo = r /\ j.todo = X /\ IsJob(j)
    BY <2>1 DEF IsJob
  <2>5. Fine(j, blobs', attached') /\ \A Y : Fine([j EXCEPT !.answer = Y], blobs', attached')
    BY <1>1, <1>7, <2>3, <2>4 DEF Fine, Runs
  <2> QED BY <2>5 DEF j
<1>8. ASSUME NEW f \in Seq(Plain(r))
      PROVE  f \o Tail(todo) \in Seq(Calls(r)) /\ Prepared(r, f \o Tail(todo), blobs', attached')
  <2> DEFINE none == {}
             g    == Tail(todo)
             B    == blobs'
             H    == attached'
  <2>1. B \cup none = B /\ \A x \in none : \E k \in DOMAIN f : f[k] = Push(x)
    OBVIOUS
  <2>2. Prepared(r, g, B \cup none, H) /\ g \in Seq(Calls(r))
    BY <1>5, <2>1
  <2> HIDE DEF none, g, B, H
  <2>3. f \o g \in Seq(Calls(r)) /\ Prepared(r, f \o g, B, H)
    BY <1>1, <2>1, <2>2, ConcatPrepared
  <2> QED BY <2>3 DEF g, B, H
<1> QED BY <1>5, <1>7, <1>8 DEF r, todo

\* An idle job is fine.
LEMMA IdleIsFine == \A B, H : Fine(Idle, B, H)
BY DEF Fine, IsJob, Idle

\* Next1 sets the job to one that is fine.
LEMMA Next1IsFine ==
  ASSUME StoreInv, [Next]_vars, NEW p \in Process, job[p].todo # << >>, Head(job[p].todo).do = "push" => PushStep(p)
  PROVE  \E j : Next1(p) = [job EXCEPT ![p] = j] /\ Fine(j, blobs', attached')
<1> DEFINE t == [job[p] EXCEPT !.todo = Tail(@)]
           j == IF Len(job[p].todo) = 1 /\ job[p].kind \notin {"list", "own"} THEN Idle ELSE t
<1>1. Next1(p) = [job EXCEPT ![p] = j]
  BY DEF Next1
<1>2. Fine(t, blobs', attached')
  BY NextIsFine
<1> HIDE DEF t
<1>3. Fine(j, blobs', attached')
  BY <1>2, IdleIsFine
<1> QED BY <1>1, <1>3

\* A copied manifest and its successors are content.
LEMMA DownIsContent ==
  ASSUME NEW m \in Content
  PROVE  LET down == IF m \in Manifest THEN Layers[m] \cup ({Subject[m]} \ {NoSubject}) ELSE {}
         IN down \subseteq Content /\ IsFiniteSet(down)
<1>1. CASE m \notin Manifest
  BY <1>1, FS_EmptySet
<1>2. CASE m \in Manifest
  <2>1. Layers[m] \subseteq Content /\ IsFiniteSet(Layers[m]) /\ ({Subject[m]} \ {NoSubject}) \subseteq Content
    BY <1>2, ManifestsAssumption DEF Content
  <2>2. IsFiniteSet({Subject[m]} \ {NoSubject})
    BY FS_Singleton, FS_Subset
  <2> QED BY <1>2, <2>1, <2>2, FS_Union
<1> QED BY <1>1, <1>2

\* Sequences of calls that tag nothing.
LEMMA PlainSeqs ==
  ASSUME NEW r \in Repo
  PROVE  /\ \A S : S \subseteq Content /\ IsFiniteSet(S) => Each(Push, S) \in Seq(Plain(r)) /\ Each(Copy, S) \in Seq(Plain(r))
         /\ \A S : S \subseteq Names(r) \cup {ReferrersTag(s) : s \in Subjects} /\ IsFiniteSet(S) => Each(Lookup, S) \in Seq(Plain(r))
         /\ \A x \in Content : <<Push(x)>> \in Seq(Plain(r)) /\ <<Copy(x)>> \in Seq(Plain(r))
         /\ \A i \in Images : <<Own(i)>> \in Seq(Plain(r))
         /\ << >> \in Seq(Plain(r))
         /\ \A f, g \in Seq(Plain(r)) : f \o g \in Seq(Plain(r))
<1>1. /\ \A x \in Content : Push(x) \in Plain(r) /\ Copy(x) \in Plain(r)
      /\ \A t \in Names(r) \cup {ReferrersTag(s) : s \in Subjects} : Lookup(t) \in Plain(r)
      /\ \A i \in Images : Own(i) \in Plain(r)
  <2>1. \A x : Push(x).do = "push" /\ Copy(x).do = "copy" /\ Lookup(x).do = "resolve" /\ Own(x).do = "own"
    BY DEF Push, Copy, Lookup, Own
  <2> QED BY <2>1 DEF Plain, Calls
<1>2. ASSUME NEW S, S \subseteq Content, IsFiniteSet(S)
      PROVE  Each(Push, S) \in Seq(Plain(r)) /\ Each(Copy, S) \in Seq(Plain(r))
  <2>1. {Push(x) : x \in S} \subseteq Plain(r) /\ {Copy(x) : x \in S} \subseteq Plain(r)
    BY <1>1, <1>2
  <2>2. Seq({Push(x) : x \in S}) \subseteq Seq(Plain(r)) /\ Seq({Copy(x) : x \in S}) \subseteq Seq(Plain(r))
    BY <2>1, SeqMonotonic
  <2>3. Each(Push, S) \in Seq({Push(x) : x \in S}) /\ Each(Copy, S) \in Seq({Copy(x) : x \in S})
    BY <1>2, EachCovers
  <2> QED BY <2>2, <2>3
<1>3. ASSUME NEW S, S \subseteq Names(r) \cup {ReferrersTag(s) : s \in Subjects}, IsFiniteSet(S)
      PROVE  Each(Lookup, S) \in Seq(Plain(r))
  <2>1. {Lookup(x) : x \in S} \subseteq Plain(r)
    BY <1>1, <1>3
  <2>2. Seq({Lookup(x) : x \in S}) \subseteq Seq(Plain(r))
    BY <2>1, SeqMonotonic
  <2>3. Each(Lookup, S) \in Seq({Lookup(x) : x \in S})
    BY <1>3, EachCovers
  <2> QED BY <2>2, <2>3
<1>4. \A c \in Plain(r) : <<c>> \in Seq(Plain(r))
  OBVIOUS
<1>5. << >> \in Seq(Plain(r)) /\ \A f, g \in Seq(Plain(r)) : f \o g \in Seq(Plain(r))
  BY EmptySeq, ConcatProperties
<1> QED BY <1>1, <1>2, <1>3, <1>4, <1>5

\* What a repository has tags for is finite and of one of the kinds there are.
LEMMA TagsAre ==
  ASSUME StoreInv, NEW r \in Repo
  PROVE  IsFiniteSet(Tags(r)) /\ Tags(r) \subseteq Names(r) \cup {ReferrersTag(s) : s \in Subjects}
<1> DEFINE n == Len(index)
           f == [i \in 1 .. n |-> index[i].tag]
           S == {index[i].tag : i \in 1 .. n}
<1>1. n \in Nat /\ DOMAIN index = 1 .. n
  BY LenProperties DEF StoreInv, IndexInv, IsIndex
<1> HIDE DEF n
<1>2. IsFiniteSet(1 .. n)
  BY <1>1, FS_Interval
<1>3. f \in Surjection(1 .. n, S)
  BY DEF Surjection
<1> HIDE DEF f
<1>4. IsFiniteSet(S)
  BY <1>2, <1>3, FS_Surjection
<1>5. Tags(r) \subseteq S
  BY <1>1 DEF Tags
<1>6. Tags(r) \subseteq Names(r) \cup {ReferrersTag(s) : s \in Subjects}
  BY DEF Tags, StoreInv, RowsInv, Fits
<1> QED BY <1>4, <1>5, <1>6, FS_Subset

\* A call that begins with a series of calls it is prepared for.
LEMMA BeginIsFine ==
  ASSUME StoreInv, [Next]_vars, NEW p \in Process, NEW r \in Repo, NEW k, NEW todo, NEW expect,
         todo \in Seq(Calls(r)), Prepared(r, todo, blobs, attached), Begin(p, k, r, todo, expect)
  PROVE  JobsInv'
<1> DEFINE j == [kind |-> k, repo |-> r, todo |-> todo, expect |-> expect, answer |-> {}]
<1>1. IsJob(j) /\ j.repo = r /\ j.todo = todo
  BY DEF IsJob
<1>2. job' = [job EXCEPT ![p] = j]
  BY DEF Begin
<1> HIDE DEF j
<1>3. Fine(j, blobs, attached)
  BY <1>1 DEF Fine, Runs
<1> QED BY <1>2, <1>3, ContentStays, FineStays, JobSet

\* A component version is prepared by pushing its layers and then itself.
LEMMA VersionIsPrepared ==
  ASSUME StoreInv, NEW r \in Repo, NEW m \in Versions[r], LocalBlobsFound(r, m)
  PROVE  LET todo == (IF Subject[m] = Index THEN <<Copy(Index)>> ELSE << >>) \o Each(Push, Layers[m])
                       \o <<Push(m), Tag(m, VersionTag(VersionOf[m]))>>
         IN todo \in Seq(Calls(r)) /\ Prepared(r, todo, blobs, attached)
<1> DEFINE pre == IF Subject[m] = Index THEN <<Copy(Index)>> ELSE << >>
           f   == pre \o Each(Push, Layers[m])
           t   == VersionTag(VersionOf[m])
           g   == <<Push(m), Tag(m, t)>>
           C   == Layers[m]
<1>1. m \in Content /\ C \subseteq Content /\ Locals[m] \subseteq Content /\ Index \in Content /\ IsFiniteSet(C)
  BY NeedsAreContent, ManifestsAssumption DEF Needs, Content
<1>2. pre \in Seq(Plain(r)) /\ Each(Push, C) \in Seq(Plain(r))
  BY <1>1, PlainSeqs
<1>3. f \in Seq(Plain(r))
  BY <1>2, PlainSeqs
<1>4. \A x \in C : \E k \in DOMAIN f : f[k] = Push(x)
  <2> SUFFICES ASSUME NEW x \in C PROVE \E k \in DOMAIN f : f[k] = Push(x)
    OBVIOUS
  <2> DEFINE e == Each(Push, C)
  <2>1. PICK i \in DOMAIN e : e[i] = Push(x)
    BY <1>1, EachCovers
  <2> HIDE DEF pre, e
  <2>2. /\ Len(pre) \in Nat /\ DOMAIN e = 1 .. Len(e) /\ Len(e) \in Nat /\ pre \in Seq(Plain(r)) /\ e \in Seq(Plain(r))
    BY <1>2, LenProperties DEF e
  <2>3. DOMAIN f = 1 .. Len(pre) + Len(e) /\ \A k \in 1 .. Len(pre) + Len(e) : f[k] = IF k <= Len(pre) THEN pre[k] ELSE e[k - Len(pre)]
    BY <2>2, ConcatProperties, LenProperties DEF e
  <2>4. i + Len(pre) \in 1 .. Len(pre) + Len(e) /\ ~ (i + Len(pre) <= Len(pre)) /\ (i + Len(pre)) - Len(pre) = i
    BY <2>1, <2>2
  <2>5. f[i + Len(pre)] = e[i]
    BY <2>3, <2>4
  <2> QED BY <2>1, <2>3, <2>4, <2>5
<1>5. Locals[m] \subseteq blobs
  BY <1>1, ResolveIs DEF LocalBlobsFound, StoreInv
<1>6. t \in Names(r)
  BY DEF Names
<1>7. Push(m) \in Calls(r) /\ Tag(m, t) \in Calls(r)
  BY <1>1, <1>6 DEF Calls
<1>8. g \in Seq(Calls(r)) /\ DOMAIN g = {1, 2} /\ g[1] = Push(m) /\ g[2] = Tag(m, t)
  BY <1>7
<1>9. Push(m).do = "push" /\ Tag(m, t).do = "tag" /\ Tag(m, t).of = m /\ Tag(m, t).tag = t
  BY DEF Push, Tag
<1>10. \A v : t = VersionTag(v) => VersionOf[m] = v
  BY DEF VersionTag
<1> HIDE DEF f, g, C, t
<1>11. Before(g, 2, Push(m))
  BY <1>8 DEF Before
<1>12. \A x \in Needs(m) : x \in blobs \cup C \/ Before(g, 2, Push(x))
  BY <1>5, <1>11 DEF Needs, C
<1>13. Prepared(r, g, blobs \cup C, attached)
  <2>1. Len(g) = 2
    BY <1>8 DEF g
  <2>2. Ends(g)
    BY <1>8, <1>9, <2>1 DEF Ends
  <2> QED BY <1>8, <1>9, <1>10, <1>11, <1>12, <2>2 DEF Prepared
<1>14. f \o g \in Seq(Calls(r)) /\ Prepared(r, f \o g, blobs, attached)
  BY <1>3, <1>4, <1>8, <1>13, ConcatPrepared
<1> QED BY <1>14 DEF f, g, t, C

\* The jobs after a call begins.
LEMMA CallsAreFine ==
  ASSUME StoreInv, [Next]_vars, NEW p \in Process, Call(p)
  PROVE  JobsInv'
<1>1. PICK r \in Repo : \/ AddComponentVersion(p, r) \/ AddLocalResource(p, r)
                        \/ AddAlias(p, r) \/ RemoveAlias(p, r) \/ ListComponentVersions(p, r)
  BY DEF Call
<1>2. CASE AddComponentVersion(p, r)
  <2>1. PICK m \in Versions[r] : LocalBlobsFound(r, m) /\ AddDescriptor(p, r, m)
    BY <1>2 DEF AddComponentVersion
  <2> QED BY <2>1, VersionIsPrepared, BeginIsFine DEF AddDescriptor
<1>3. CASE AddLocalResource(p, r)
  <2>1. PICK i \in Images, own \in BOOLEAN :
          Begin(p, IF own THEN "own" ELSE "upload", r,
                CopyLayout(i) \o (IF own THEN <<Own(i)>> ELSE << >>), IF own THEN {i} ELSE {})
    BY <1>3 DEF AddLocalResource
  <2> DEFINE f == CopyLayout(i)
             g == IF own THEN <<Own(i)>> ELSE << >>
  <2>2. i \in Content /\ Attached[i] \subseteq Content /\ IsFiniteSet(Attached[i])
    BY ManifestsAssumption DEF Content
  <2>3. f \in Seq(Plain(r))
    BY <2>2, PlainSeqs DEF CopyLayout
  <2>4. g \in Seq(Plain(r))
    BY PlainSeqs
  <2> HIDE DEF f, g
  <2>5. f \o g \in Seq(Calls(r)) /\ Prepared(r, f \o g, blobs, attached)
    BY <2>3, <2>4, PlainSeqs, PlainPrepared
  <2> QED BY <2>1, <2>5, BeginIsFine DEF f, g
<1>4. CASE AddAlias(p, r)
  <2>1. PICK m \in Versions[r], a \in Alias :
          LET t == VersionTag(VersionOf[m])
          IN IsVersion(r, t) /\ Begin(p, "alias", r, <<Tag(Resolve(r, t).digest, AliasTag(a))>>, {})
    BY <1>4 DEF AddAlias
  <2> DEFINE t == VersionTag(VersionOf[m])
             d == Resolve(r, t).digest
             g == <<Tag(d, AliasTag(a))>>
  <2>2. t \in Names(r) /\ AliasTag(a) \in Names(r) /\ d \in Versions[r]
    BY <2>1 DEF Names, IsVersion
  <2>3. Resolve(r, t) # Unresolved
    <3>1. NoSubject \notin Versions[r]
      BY ManifestsAssumption
    <3> QED BY <2>2, <3>1 DEF Unresolved
  <2>4. Ready(r, d, blobs, attached)
    BY <2>2, <2>3, NamesResolve DEF StoreInv
  <2> HIDE DEF d, t
  <2>5. Tag(d, AliasTag(a)) \in Calls(r)
    BY <2>2 DEF Calls
  <2>6. g \in Seq(Calls(r)) /\ DOMAIN g = {1} /\ Len(g) = 1 /\ g[1] = Tag(d, AliasTag(a))
    BY <2>5
  <2>7. Tag(d, AliasTag(a)).of = d /\ Tag(d, AliasTag(a)).tag = AliasTag(a) /\ \A v : AliasTag(a) # VersionTag(v)
    BY DEF Tag, AliasTag, VersionTag
  <2>8. Prepared(r, g, blobs, attached)
    <3> HIDE DEF g
    <3> QED BY <2>4, <2>6, <2>7 DEF Prepared, Ends, Ready
  <2>9. Begin(p, "alias", r, g, {})
    BY <2>1 DEF d, t
  <2> HIDE DEF g
  <2> QED BY <2>6, <2>8, <2>9, BeginIsFine
<1>5. CASE RemoveAlias(p, r)
  <2>1. PICK a \in Alias : Begin(p, "unalias", r, <<Untag(AliasTag(a))>>, {})
    BY <1>5 DEF RemoveAlias
  <2> DEFINE g == <<Untag(AliasTag(a))>>
  <2>2. Untag(AliasTag(a)) \in Calls(r) /\ Untag(AliasTag(a)).do = "untag"
    BY DEF Calls, Untag
  <2>3. g \in Seq(Calls(r)) /\ DOMAIN g = {1} /\ Len(g) = 1 /\ g[1] = Untag(AliasTag(a))
    BY <2>2
  <2> HIDE DEF g
  <2>4. Prepared(r, g, blobs, attached)
    BY <2>2, <2>3 DEF Prepared, Ends
  <2> QED BY <2>1, <2>3, <2>4, BeginIsFine DEF g
<1>6. CASE ListViaTags(p, r)
  <2>1. Each(Lookup, Tags(r)) \in Seq(Plain(r))
    BY TagsAre, PlainSeqs
  <2> QED BY <1>6, <2>1, PlainPrepared, BeginIsFine DEF ListViaTags
<1>7. CASE ListViaReferrers(p, r)
  <2> DEFINE j == [kind |-> "list", repo |-> r, todo |-> << >>, expect |-> TaggedVersions(r),
                   answer |-> VersionsAmong(r, Elements(Referrers(r, Index)))]
  <2>1. job' = [job EXCEPT ![p] = j]
    BY <1>7 DEF ListViaReferrers
  <2>2. IsJob(j) /\ j.todo = << >>
    BY DEF IsJob
  <2> HIDE DEF j
  <2> QED BY <2>1, <2>2, ContentStays, JobSet DEF Fine
<1> QED BY <1>1, <1>2, <1>3, <1>4, <1>5, <1>6, <1>7 DEF ListComponentVersions

\* The jobs after each step.
LEMMA JobsStep ==
  ASSUME StoreInv, [Next]_vars
  PROVE  JobsInv'
<1>0. blobs \cap Content \subseteq blobs' /\ attached \subseteq attached'
  BY ContentStays
<1>1. CASE UNCHANGED vars
  <2>1. job' = job
    BY <1>1 DEF vars
  <2>2. \A q \in Process : Fine(job[q], blobs', attached')
    BY <1>0, FineStays DEF StoreInv, JobsInv, Fine
  <2> QED BY <2>1, <2>2 DEF StoreInv, JobsInv, Fine
<1>2. CASE Stop
  <2>1. PICK ended : job' = [q \in Process |-> IF q \in ended THEN Idle ELSE job[q]]
    BY <1>2 DEF Stop
  <2>2. \A q \in Process : Fine(job[q], blobs', attached')
    BY <1>0, FineStays DEF StoreInv, JobsInv, Fine
  <2>3. \A q \in Process : Fine(job'[q], blobs', attached')
    BY <2>1, <2>2, IdleIsFine
  <2>4. job' = [q \in Process |-> job'[q]]
    BY <2>1
  <2> QED BY <2>3, <2>4 DEF JobsInv, Fine
<1>3. ASSUME NEW p \in Process, Step(p)
      PROVE  JobsInv'
  <2> DEFINE r == job[p].repo
             c == Head(job[p].todo)
  <2>1. job[p].todo # << >> /\ (c.do = "push" => PushStep(p))
    BY <1>3 DEF Step, PushStep, CopyStep, AddOwnership, TagStep, UntagStep, ResolveStep, At
  <2>2. r \in Repo /\ c \in Calls(r)
    BY <2>1, HeadIs
  <2>3. job' = Next1(p) => JobsInv'
    <3>1. PICK j : Next1(p) = [job EXCEPT ![p] = j] /\ Fine(j, blobs', attached')
      BY <2>1, Next1IsFine
    <3> QED BY <1>0, <3>1, JobSet
  <2>4. job' = Failed(p) => JobsInv'
    BY <1>0, JobSet, IdleIsFine DEF Failed
  <2>5. ASSUME NEW f \in Seq(Plain(r)), c.do # "push", job' = [job EXCEPT ![p].todo = f \o Tail(@)]
        PROVE  JobsInv'
    <3> DEFINE j == [job[p] EXCEPT !.todo = f \o Tail(@)]
    <3>1. job' = [job EXCEPT ![p] = j]
      BY <2>5
    <3>2. Fine(j, blobs', attached')
      BY <2>1, <2>5, NextIsFine
    <3> HIDE DEF j
    <3> QED BY <1>0, <3>1, <3>2, JobSet
  <2>6. CASE PushStep(p)
    BY <2>3, <2>6 DEF PushStep, Write
  <2>7. CASE CopyStep(p)
    <3> DEFINE down == IF c.of \in Manifest THEN Layers[c.of] \cup ({Subject[c.of]} \ {NoSubject}) ELSE {}
               f    == Each(Copy, down) \o <<Push(c.of)>>
    <3>1. c.do = "copy" /\ c.of \in Content
      BY <2>2, <2>7, CallsAre DEF CopyStep, At
    <3>2. down \subseteq Content /\ IsFiniteSet(down)
      BY <3>1, DownIsContent
    <3>3. job' = Next1(p) \/ job' = [job EXCEPT ![p].todo = f \o Tail(@)]
      BY <2>7 DEF CopyStep
    <3> HIDE DEF down
    <3>4. f \in Seq(Plain(r))
      BY <2>2, <3>1, <3>2, PlainSeqs
    <3> HIDE DEF f
    <3> QED BY <2>3, <2>5, <3>1, <3>3, <3>4
  <2>8. CASE AddOwnership(p)
    <3> DEFINE m == Ownership[r][c.of]
               f == <<Push(m)>>
    <3>1. c.do = "own" /\ m \in Content
      BY <2>2, <2>8, CallsAre, ManifestsAssumption DEF AddOwnership, At, Content
    <3>2. job' = Failed(p) \/ job' = Next1(p) \/ job' = [job EXCEPT ![p].todo = f \o Tail(@)]
      BY <2>8 DEF AddOwnership
    <3>3. f \in Seq(Plain(r))
      BY <2>2, <3>1, PlainSeqs
    <3> HIDE DEF f
    <3> QED BY <2>3, <2>4, <2>5, <3>1, <3>2, <3>3
  <2>9. CASE TagStep(p)
    BY <2>3, <2>4, <2>9 DEF TagStep, Write
  <2>10. CASE UntagStep(p)
    BY <2>3, <2>4, <2>10 DEF UntagStep, Write
  <2>11. CASE ResolveStep(p)
    <3>1. \/ job' = Failed(p)
          \/ \E X : job' = [Next1(p) EXCEPT ![p].answer = X]
      BY <2>11 DEF ResolveStep
    <3>2. ASSUME NEW X, job' = [Next1(p) EXCEPT ![p].answer = X]
          PROVE  JobsInv'
      <4> DEFINE t == [job[p] EXCEPT !.todo = Tail(@)]
      <4>1. \/ Next1(p) = [job EXCEPT ![p] = Idle]
            \/ Next1(p) = [job EXCEPT ![p] = t]
        BY DEF Next1
      <4>2. \A Y : Fine([t EXCEPT !.answer = Y], blobs', attached')
        BY <2>1, NextIsFine
      <4>3. \A Y : Fine([Idle EXCEPT !.answer = Y], blobs', attached')
        <5>1. \A Y : [Idle EXCEPT !.answer = Y] = [kind |-> "idle", repo |-> NoSubject, todo |-> << >>, expect |-> {}, answer |-> Y]
          BY DEF Idle
        <5>2. \A Y : IsJob([Idle EXCEPT !.answer = Y]) /\ [Idle EXCEPT !.answer = Y].todo = << >>
          BY <5>1 DEF IsJob
        <5> QED BY <5>2 DEF Fine
      <4> HIDE DEF t
      <4>4. \A j : Next1(p) = [job EXCEPT ![p] = j] => job' = [job EXCEPT ![p] = [j EXCEPT !.answer = X]]
        <5> SUFFICES ASSUME NEW j, Next1(p) = [job EXCEPT ![p] = j]
                     PROVE  job' = [job EXCEPT ![p] = [j EXCEPT !.answer = X]]
          OBVIOUS
        <5>1. job = [q \in Process |-> job[q]]
          BY DEF StoreInv, JobsInv
        <5> QED BY <3>2, <5>1
      <4> QED BY <1>0, <4>1, <4>2, <4>3, <4>4, JobSet
    <3> QED BY <2>4, <3>1, <3>2
  <2> QED BY <1>3, <2>6, <2>7, <2>8, <2>9, <2>10, <2>11 DEF Step
<1> QED BY <1>1, <1>2, <1>3, CallsAreFine DEF Next

\* All of it holds in every state.
LEMMA StoreAlways == Spec => []StoreInv
<1>1. Init /\ IndexInv => StoreInv
  <2> SUFFICES ASSUME Init, IndexInv PROVE StoreInv
    OBVIOUS
  <2>1. RowsInv
    BY DEF Init, RowsInv
  <2>2. BlobsInv
    BY DEF Init, BlobsInv
  <2>3. JobsInv
    BY IdleIsFine DEF Init, JobsInv, Fine
  <2> QED BY <2>1, <2>2, <2>3 DEF StoreInv
<1>2. StoreInv /\ [Next]_vars /\ IndexInv' => StoreInv'
  BY ContentStays, RowsStep, JobsStep DEF StoreInv
<1> QED BY <1>1, <1>2, IndexAlways, PTL DEF Spec

\* A tag names one artifact, and a version or an alias one that is all in the archive
\* with its layers and local blobs, whatever calls run and wherever they stop.
THEOREM ArtifactsAreComplete == Spec => []TagsNameArtifacts
<1>1. StoreInv => TaggedIsComplete
  <2> SUFFICES ASSUME StoreInv, NEW i \in DOMAIN index, index[i].tag # Untagged, index[i].digest \in Manifest
               PROVE  {index[i].digest} \cup Layers[index[i].digest] \cup Locals[index[i].digest] \subseteq blobs
    BY DEF TaggedIsComplete, Elements
  <2>1. Fits(index[i], blobs, attached)
    BY DEF StoreInv, RowsInv
  <2>2. index[i].digest \in Content
    BY DEF Content
  <2>3. \A s : index[i].tag # ReferrersTag(s)
    BY <2>1, <2>2, ListsApart DEF Fits
  <2>4. index[i].tag \in Names(index[i].repo)
    BY <2>1, <2>3 DEF Fits
  <2> QED BY <2>1, <2>4 DEF Fits, Ready, Needs
<1> QED BY <1>1, StoreAlways, TagsAreUnique, PTL DEF TagsNameArtifacts

-----------------------------------------------------------------------------
(* Referrers and their lists. *)

\* A push moves no list but that of its subject.
LEMMA PushMovesLists ==
  ASSUME IndexInv, NEW r, NEW m, NEW q, NEW u
  PROVE  LET t == ReferrersTag(u)
         IN /\ TagOf(Entered(r, m), q, t) = TagOf(index, q, t)
            /\ TagOf(Relisted(r, m), q, t) =
                 IF q = r /\ u = Subject[m] THEN {NewList(r, m)} ELSE TagOf(index, q, t)
<1> DEFINE t == ReferrersTag(u)
           s == ReferrersTag(Subject[m])
           a == Entry(r, Untagged, m)
           b == Entry(r, s, NewList(r, m))
           un == IF OldList(r, m) = << >> THEN Entered(r, m) ELSE RemoveTag(Entered(r, m), r, s)
<1>1. t # Untagged /\ s # Untagged /\ (t = s <=> u = Subject[m])
  BY DEF ReferrersTag, Untagged
<1>2. /\ IsEntry(a) /\ a.repo = r /\ a.tag = Untagged
      /\ IsEntry(b) /\ b.repo = r /\ b.tag = s /\ b.digest = NewList(r, m)
  BY DEF IsEntry, Entry
<1> HIDE DEF t, s, a, b
<1>3. IsIndex(Entered(r, m)) /\ OneDigest(Entered(r, m)) /\ TagOf(Entered(r, m), q, t) = TagOf(index, q, t)
  BY <1>1, <1>2, AddRows, AddKeepsOneDigest, AddTagOf DEF IndexInv, Entered, a
<1>4. /\ IsIndex(RemoveTag(Entered(r, m), r, s)) /\ OneDigest(RemoveTag(Entered(r, m), r, s))
      /\ ~ (q = r /\ t = s) => TagOf(RemoveTag(Entered(r, m), r, s), q, t) = TagOf(Entered(r, m), q, t)
  BY <1>3, RemoveTagOf
<1>5. IsIndex(un) /\ OneDigest(un) /\ (~ (q = r /\ t = s) => TagOf(un, q, t) = TagOf(index, q, t))
  BY <1>3, <1>4
<1>6. Relisted(r, m) = AddArtifact(un, b)
  BY DEF Relisted, b, s
<1> HIDE DEF un
<1>7. TagOf(AddArtifact(un, b), q, t) = IF q = b.repo /\ t = b.tag THEN {b.digest} ELSE TagOf(un, q, t)
  BY <1>1, <1>2, <1>5, AddTagOf
<1> QED BY <1>1, <1>2, <1>3, <1>5, <1>6, <1>7 DEF t

\* A list that its tag stands for is dangling when its blob is gone.
LEMMA DanglingIs ==
  Dangling = {l \in Repo \X Subjects : \E d \in TagOf(index, l[1], ReferrersTag(l[2])) : d \notin blobs}
BY DEF Dangling, TagOf

\* When no tag of a list moves and only content comes, the lists are what they were.
ListsStay ==
  /\ blobs \subseteq blobs' /\ blobs' \subseteq blobs \cup Content
  /\ \A q \in Repo : \A u \in Subjects :
       TagOf(index', q, ReferrersTag(u)) = TagOf(index, q, ReferrersTag(u))

\* Then the referrers are the same, and no list comes to dangle or to be shared.
LEMMA SameLists ==
  ASSUME ListsInv, ListsInv', ListsStay
  PROVE  /\ \A q \in Repo : \A u \in Subjects : Referrers(q, u)' = Referrers(q, u)
         /\ Dangling' \subseteq Dangling /\ Shared' \subseteq Shared
<1>1. ASSUME NEW q \in Repo, NEW u \in Subjects
      PROVE  Referrers(q, u)' = Referrers(q, u)
  <2> DEFINE T == TagOf(index, q, ReferrersTag(u))
             l == Referrers(q, u)
             k == Referrers(q, u)'
  <2>1. /\ l # << >> => T = {l} /\ l \in blobs \cap Lists(u)
        /\ \A d \in T : d \in blobs => l = d
    BY DEF ListsInv
  <2>2. /\ k # << >> => T = {k} /\ k \in blobs' \cap Lists(u)
        /\ \A d \in T : d \in blobs' => k = d
    BY DEF ListsInv, ListsStay
  <2> HIDE DEF T, l, k
  <2>3. k # << >> => k \in blobs
    BY <2>2, ListsApart DEF ListsStay
  <2>4. l # << >> => l \in blobs'
    BY <2>1 DEF ListsStay
  <2>5. k = l
    BY <2>1, <2>2, <2>3, <2>4
  <2> QED BY <2>5 DEF l, k
<1>2. Dangling' = {l \in Repo \X Subjects : \E d \in TagOf(index', l[1], ReferrersTag(l[2])) : d \notin blobs'}
  BY DEF Dangling, TagOf
<1>3. Dangling' \subseteq Dangling
  BY <1>2, DanglingIs DEF ListsStay
<1>4. Shared' \subseteq Shared
  BY <1>1 DEF Shared
<1> QED BY <1>1, <1>3, <1>4

\* Referrers are kept, and the lists that are lost or shared are known.
KeptInv ==
  /\ \A x \in attached : x[1] \in Repo /\ x[2] \in Subjects
  /\ Dangling \subseteq lost /\ Shared \subseteq shared /\ faults \in Nat
  /\ ReferrersKept

\* Most steps neither move a list nor lose one.
LEMMA StepsKeepLists ==
  ASSUME StoreInv, NEW p \in Process,
         \/ CopyStep(p) \/ AddOwnership(p) \/ ResolveStep(p) \/ Call(p) \/ TagStep(p) \/ UntagStep(p)
  PROVE  ListsStay /\ UNCHANGED <<history, faults>>
<1> DEFINE Same == \A q \in Repo : \A u \in Subjects :
                     TagOf(index', q, ReferrersTag(u)) = TagOf(index, q, ReferrersTag(u))
<1>1. CASE UNCHANGED disk /\ UNCHANGED <<history, faults>>
  BY <1>1 DEF disk, ListsStay
<1>2. CASE CopyStep(p) \/ AddOwnership(p) \/ ResolveStep(p)
  BY <1>1, <1>2 DEF CopyStep, AddOwnership, ResolveStep
<1>3. CASE Call(p)
  BY <1>1, <1>3 DEF Call, AddComponentVersion, AddDescriptor, AddLocalResource, AddAlias, RemoveAlias,
                    ListComponentVersions, ListViaReferrers, ListViaTags, Begin
<1>4. CASE TagStep(p)
  <2> DEFINE r == job[p].repo
             c == Head(job[p].todo)
             a == Entry(r, c.tag, c.of)
  <2>1. UNCHANGED <<history, faults>> /\ (UNCHANGED disk \/ (blobs' = blobs /\ index' = AddArtifact(index, a)))
    BY <1>4 DEF TagStep, Write
  <2>2. c.tag \in Names(r)
    BY <1>4, HeadIs, CallsAre DEF TagStep, At
  <2>3. IsEntry(a) /\ a.tag = c.tag
    BY DEF IsEntry, Entry
  <2> HIDE DEF a
  <2>4. \A q, u : TagOf(AddArtifact(index, a), q, ReferrersTag(u)) = TagOf(index, q, ReferrersTag(u))
    <3> SUFFICES ASSUME NEW q, NEW u
                 PROVE  TagOf(AddArtifact(index, a), q, ReferrersTag(u)) = TagOf(index, q, ReferrersTag(u))
      OBVIOUS
    <3>1. ReferrersTag(u) # Untagged /\ ReferrersTag(u) # a.tag
      BY <2>2, <2>3, NamesApart DEF ReferrersTag, Untagged
    <3> QED BY <2>3, <3>1, AddTagOf DEF StoreInv, IndexInv
  <2> QED BY <1>1, <2>1, <2>4 DEF ListsStay
<1>5. CASE UntagStep(p)
  <2> DEFINE r == job[p].repo
             t == Head(job[p].todo).tag
  <2>1. UNCHANGED <<history, faults>> /\ (UNCHANGED disk \/ (blobs' = blobs /\ index' = RemoveTag(index, r, t)))
    BY <1>5 DEF UntagStep, Write
  <2>2. \A u : t # ReferrersTag(u)
    BY <1>5, HeadIs, CallsAre DEF UntagStep, At, AliasTag, ReferrersTag
  <2> HIDE DEF r, t
  <2>3. \A q, u : TagOf(RemoveTag(index, r, t), q, ReferrersTag(u)) = TagOf(index, q, ReferrersTag(u))
    BY <2>2, RemoveTagOf DEF StoreInv, IndexInv
  <2> QED BY <1>1, <2>1, <2>3 DEF ListsStay
<1> QED BY <1>2, <1>3, <1>4, <1>5

\* What a push leaves: no list moves, or that of its subject gains it.
LEMMA PushLists ==
  ASSUME StoreInv, NEW p \in Process, PushStep(p)
  PROVE  LET r == job[p].repo
             m == Head(job[p].todo).of
         IN \/ ~ Relists(r, m) /\ ListsStay
            \/ /\ Relists(r, m)
               /\ blobs' = Cleaned(r, m)
               /\ \A q, u : TagOf(index', q, ReferrersTag(u)) =
                    IF q = r /\ u = Subject[m] THEN {NewList(r, m)} ELSE TagOf(index, q, ReferrersTag(u))
<1> DEFINE r == job[p].repo
           m == Head(job[p].todo).of
           w == PushWrites(r, m)
           l == w[Len(w)]
<1>1. blobs' = l[1] /\ index' = l[2]
  BY DEF PushStep, Write
<1>2. m \in Content
  BY HeadIs, CallsAre DEF PushStep, At
<1> HIDE DEF r, m
<1>3. l = IF m \notin Manifest THEN <<blobs \cup {m}, index>>
          ELSE IF Relists(r, m) THEN <<Cleaned(r, m), Relisted(r, m)>>
          ELSE <<blobs \cup {m}, Entered(r, m)>>
  BY PushIs
<1>4. Relists(r, m) => m \in Manifest
  BY DEF Relists
<1> HIDE DEF l
<1>5. CASE Relists(r, m)
  <2>1. blobs' = Cleaned(r, m) /\ index' = Relisted(r, m)
    BY <1>1, <1>3, <1>4, <1>5
  <2> QED BY <1>5, <2>1, PushMovesLists DEF StoreInv, r, m
<1>6. CASE ~ Relists(r, m)
  <2>1. blobs' = blobs \cup {m} /\ index' \in {index, Entered(r, m)}
    BY <1>1, <1>3, <1>6
  <2>2. \A q, u : TagOf(index', q, ReferrersTag(u)) = TagOf(index, q, ReferrersTag(u))
    BY <2>1, PushMovesLists DEF StoreInv
  <2> QED BY <1>2, <1>6, <2>1, <2>2 DEF ListsStay, r, m
<1> QED BY <1>5, <1>6

\* Where lists stay and nothing is pushed for a subject, nothing changes.
LEMMA SameKept ==
  ASSUME KeptInv, ListsInv, ListsInv', ListsStay, UNCHANGED <<history, faults>>
  PROVE  KeptInv'
<1>1. attached' = attached /\ lost' = lost /\ shared' = shared /\ faults' = faults
  BY DEF history
<1>2. \A x \in attached : Referrers(x[1], x[2])' = Referrers(x[1], x[2])
  BY SameLists DEF KeptInv
<1>3. ReferrersKept'
  BY <1>1, <1>2 DEF ReferrersKept, KeptInv
<1> QED BY <1>1, <1>3, SameLists DEF KeptInv

\* A push of a referrer whose list has it already, or that brings a new list.
LEMMA PushKept ==
  ASSUME StoreInv, ListsInv, ListsInv', KeptInv, NEW p \in Process, PushStep(p)
  PROVE  KeptInv'
<1>0. PICK r, m : r = job[p].repo /\ m = Head(job[p].todo).of
  OBVIOUS
<1> DEFINE s == Subject[m]
           old == OldList(r, m)
           new == NewList(r, m)
<1>1. r \in Repo /\ m \in Content
  BY <1>0, HeadIs, CallsAre DEF PushStep, At
<1>2. \/ ~ Relists(r, m) /\ ListsStay
      \/ /\ Relists(r, m)
         /\ blobs' = Cleaned(r, m)
         /\ \A q, u : TagOf(index', q, ReferrersTag(u)) =
              IF q = r /\ u = s THEN {new} ELSE TagOf(index, q, ReferrersTag(u))
  BY <1>0, PushLists
<1>3. faults' = faults
  BY DEF PushStep
<1>4. CASE ~ (m \in Manifest /\ s # NoSubject)
  <2>1. ~ Relists(r, m)
    BY <1>4 DEF Relists
  <2>2. UNCHANGED history
    BY <1>0, <1>4 DEF PushStep
  <2> QED BY <1>2, <1>3, <2>1, <2>2, SameKept
<1>5. CASE m \in Manifest /\ s # NoSubject
  <2>1. attached' = attached \cup {<<r, s, m>>} /\ lost' = lost \cup Dangling' /\ shared' = shared \cup Shared'
    BY <1>0, <1>5 DEF PushStep, Remember
  <2>2. /\ s \in Subjects /\ old \notin Content /\ new \in Lists(s) /\ Elements(new) = Elements(old) \cup {m}
        /\ new # old => m \notin Elements(old)
    BY <1>1, <1>5, NewListIs DEF StoreInv
  <2>3. Referrers(r, s) = old
    BY DEF OldList
  <2> HIDE DEF s, old, new
  <2>4. \A x \in attached' : x[1] \in Repo /\ x[2] \in Subjects
    BY <1>1, <2>1, <2>2 DEF KeptInv
  <2>5. CASE ~ Relists(r, m)
    <3>1. new = old
      BY <1>5, <2>5 DEF Relists, new, old, s
    <3>2. /\ \A q \in Repo : \A u \in Subjects : Referrers(q, u)' = Referrers(q, u)
          /\ Dangling' \subseteq Dangling /\ Shared' \subseteq Shared
      BY <1>2, <2>5, SameLists
    <3>3. \A x \in attached' : x[3] \in Elements(Referrers(x[1], x[2])') \/ <<x[1], x[2]>> \in lost'
      <4>1. m \in Elements(Referrers(r, s)')
        BY <1>1, <2>2, <2>3, <3>1, <3>2
      <4>2. \A x \in attached : x[3] \in Elements(Referrers(x[1], x[2])') \/ <<x[1], x[2]>> \in lost'
        BY <2>1, <3>2 DEF KeptInv, ReferrersKept
      <4>3. ASSUME NEW x, x = <<r, s, m>>
            PROVE  x[3] \in Elements(Referrers(x[1], x[2])')
        <5>1. x[1] = r /\ x[2] = s /\ x[3] = m
          BY <4>3
        <5> QED BY <4>1, <5>1
      <4> QED BY <2>1, <4>2, <4>3
    <3>4. \A l \in lost' : faults' > 0 \/ l[2] \in shared'
      BY <1>3, <2>1, <3>2 DEF KeptInv, ReferrersKept
    <3>5. ReferrersKept'
      BY <3>3, <3>4 DEF ReferrersKept
    <3> QED BY <1>3, <2>1, <2>4, <3>5 DEF KeptInv
  <2>6. CASE Relists(r, m)
    <3>1. /\ blobs' = ((blobs \cup {m}) \cup {new}) \ {old} /\ new # old
          /\ \A q, u : TagOf(index', q, ReferrersTag(u)) =
               IF q = r /\ u = s THEN {new} ELSE TagOf(index, q, ReferrersTag(u))
      BY <1>2, <2>6 DEF Cleaned, Relists, new, old
    <3>2. Referrers(r, s)' = new
      BY <1>1, <2>2, <3>1 DEF ListsInv
    <3>3. ASSUME NEW q \in Repo, NEW u \in Subjects, ~ (q = r /\ u = s), <<q, u>> \notin Dangling'
          PROVE  Referrers(q, u) # << >> => Referrers(q, u)' = Referrers(q, u)
      <4> DEFINE l == Referrers(q, u)
      <4> SUFFICES ASSUME l # << >> PROVE Referrers(q, u)' = l
        OBVIOUS
      <4>1. TagOf(index, q, ReferrersTag(u)) = {l}
        BY DEF ListsInv
      <4>2. TagOf(index', q, ReferrersTag(u)) = {l}
        BY <3>1, <3>3, <4>1
      <4>3. <<q, u>> \in Repo \X Subjects /\ <<q, u>>[1] = q /\ <<q, u>>[2] = u
        OBVIOUS
      <4>4. ~ \E d \in TagOf(index', q, ReferrersTag(u)) : d \notin blobs'
        BY <3>3, <4>3 DEF Dangling, TagOf
      <4> HIDE DEF l
      <4>5. l \in blobs'
        BY <4>2, <4>4
      <4> QED BY <4>2, <4>5 DEF ListsInv
    <3>4. \A x \in attached' : x[3] \in Elements(Referrers(x[1], x[2])') \/ <<x[1], x[2]>> \in lost'
      <4>1. m \in Elements(Referrers(r, s)')
        BY <2>2, <3>2
      <4>2. ASSUME NEW x \in attached, <<x[1], x[2]>> \notin lost'
            PROVE  x[3] \in Elements(Referrers(x[1], x[2])')
        <5>1. x[1] \in Repo /\ x[2] \in Subjects
          BY DEF KeptInv
        <5>2. x[3] \in Elements(Referrers(x[1], x[2]))
          BY <2>1, <4>2 DEF KeptInv, ReferrersKept
        <5>3. CASE x[1] = r /\ x[2] = s
          BY <2>2, <2>3, <3>2, <5>2, <5>3
        <5>4. CASE ~ (x[1] = r /\ x[2] = s)
          <6>1. <<x[1], x[2]>> \notin Dangling'
            BY <2>1, <4>2
          <6>2. Referrers(x[1], x[2]) # << >>
            BY <5>2 DEF Elements
          <6> QED BY <3>3, <5>1, <5>2, <5>4, <6>1, <6>2
        <5> QED BY <5>3, <5>4
      <4>3. ASSUME NEW x, x = <<r, s, m>>
            PROVE  x[3] \in Elements(Referrers(x[1], x[2])')
        <5>1. x[1] = r /\ x[2] = s /\ x[3] = m
          BY <4>3
        <5> QED BY <4>1, <5>1
      <4> QED BY <2>1, <4>2, <4>3
    <3>5. ASSUME NEW l \in Dangling', l \notin lost
          PROVE  l[2] \in shared
      <4>1. PICK d \in TagOf(index', l[1], ReferrersTag(l[2])) : d \notin blobs'
        BY DEF Dangling, TagOf
      <4>2. l[1] \in Repo /\ l[2] \in Subjects /\ l \in Repo \X Subjects
        BY DEF Dangling
      <4>3. new \in blobs'
        BY <3>1
      <4>4. ~ (l[1] = r /\ l[2] = s) /\ d \in TagOf(index, l[1], ReferrersTag(l[2]))
        BY <3>1, <4>1, <4>3
      <4>5. d \in blobs
        BY <3>5, <4>2, <4>4, DanglingIs DEF KeptInv
      <4>6. d = old /\ Referrers(l[1], l[2]) = old
        BY <3>1, <4>1, <4>2, <4>4, <4>5 DEF ListsInv
      <4>7. old # << >>
        <5>1. old \in Lists(l[2])
          BY <4>2, <4>4, <4>6, StoreInv DEF StoreInv, RowsInv, Fits, TagOf, Holders
        <5> QED BY <5>1, ListsApart
      <4>8. l[2] = s
        BY <1>1, <2>2, <2>3, <4>2, <4>6, <4>7, ListsApart DEF ListsInv
      <4>9. s \in Shared
        BY <1>1, <2>2, <2>3, <4>2, <4>4, <4>6, <4>7, <4>8 DEF Shared
      <4> QED BY <4>8, <4>9 DEF KeptInv
    <3>6. \A l \in lost' : faults' > 0 \/ l[2] \in shared'
      BY <1>3, <2>1, <3>5 DEF KeptInv, ReferrersKept
    <3>7. ReferrersKept'
      BY <3>4, <3>6 DEF ReferrersKept
    <3> QED BY <1>3, <2>1, <2>4, <3>7 DEF KeptInv
  <2> QED BY <2>5, <2>6
<1> QED BY <1>4, <1>5

\* A call that is stopped leaves the index as it is; it may have taken the list away.
LEMMA StopKept ==
  ASSUME StoreInv, ListsInv, ListsInv', KeptInv, Stop
  PROVE  KeptInv'
<1>1. index' = index /\ attached' = attached
  BY StopWrites
<1>2. faults' = faults + 1 /\ lost' = lost \cup Dangling' /\ shared' = shared \cup Shared'
  BY DEF Stop, Remember
<1>3. faults' \in Nat /\ faults' > 0
  BY <1>2 DEF KeptInv
<1>4. ASSUME NEW x \in attached, <<x[1], x[2]>> \notin lost'
      PROVE  x[3] \in Elements(Referrers(x[1], x[2])')
  <2> DEFINE q == x[1]
             u == x[2]
             l == Referrers(q, u)
  <2>1. q \in Repo /\ u \in Subjects
    BY DEF KeptInv
  <2>2. x[3] \in Elements(l)
    BY <1>2, <1>4 DEF KeptInv, ReferrersKept
  <2>3. l # << >>
    BY <2>2 DEF Elements
  <2>4. TagOf(index, q, ReferrersTag(u)) = {l}
    BY <2>1, <2>3 DEF ListsInv
  <2> HIDE DEF l, q, u
  <2>5. <<q, u>> \notin Dangling' /\ <<q, u>> \in Repo \X Subjects /\ <<q, u>>[1] = q /\ <<q, u>>[2] = u
    BY <1>2, <1>4, <2>1 DEF q, u
  <2>6. ~ \E d \in TagOf(index', q, ReferrersTag(u)) : d \notin blobs'
    BY <2>5 DEF Dangling, TagOf
  <2>7. l \in blobs' /\ TagOf(index', q, ReferrersTag(u)) = {l}
    BY <1>1, <2>4, <2>6
  <2>8. Referrers(q, u)' = l
    BY <2>1, <2>7 DEF ListsInv
  <2> QED BY <2>2, <2>8 DEF q, u
<1>5. ReferrersKept'
  BY <1>1, <1>3, <1>4 DEF ReferrersKept
<1> QED BY <1>1, <1>2, <1>3, <1>5 DEF KeptInv

\* All of it in every state.
LEMMA KeptAlways == Spec => []KeptInv
<1>1. Init /\ ListsInv => KeptInv
  <2> SUFFICES ASSUME Init, ListsInv PROVE KeptInv
    OBVIOUS
  <2>1. \A q \in Repo : \A u \in Subjects : TagOf(index, q, ReferrersTag(u)) = {} /\ Referrers(q, u) = << >>
    BY DEF Init, ListsInv, TagOf, Holders
  <2>2. Dangling = {} /\ Shared = {}
    BY <2>1, DanglingIs DEF Shared
  <2> QED BY <2>2 DEF Init, KeptInv, ReferrersKept
<1>2. StoreInv => ListsInv
  BY ReferrersAre DEF StoreInv
<1>3. StoreInv /\ ListsInv /\ ListsInv' /\ KeptInv /\ [Next]_vars => KeptInv'
  <2> SUFFICES ASSUME StoreInv, ListsInv, ListsInv', KeptInv, [Next]_vars PROVE KeptInv'
    OBVIOUS
  <2>1. CASE UNCHANGED vars
    <3>1. ListsStay /\ UNCHANGED <<history, faults>>
      BY <2>1 DEF vars, disk, history, ListsStay
    <3> QED BY <3>1, SameKept
  <2>2. CASE Stop
    BY <2>2, StopKept
  <2>3. ASSUME NEW p \in Process, PushStep(p)
        PROVE  KeptInv'
    BY <2>3, PushKept
  <2>4. ASSUME NEW p \in Process,
               \/ CopyStep(p) \/ AddOwnership(p) \/ ResolveStep(p) \/ Call(p) \/ TagStep(p) \/ UntagStep(p)
        PROVE  KeptInv'
    BY <2>4, StepsKeepLists, SameKept
  <2> QED BY <2>1, <2>2, <2>3, <2>4 DEF Next, Step
<1> QED BY <1>1, <1>2, <1>3, StoreAlways, PTL DEF Spec

\* A referrer that was pushed is listed unless its list was lost, and a list is lost
\* only where a call was stopped or two repositories had the same one.
THEOREM ReferrersAreKept == Spec => []ReferrersKept
BY KeptAlways, PTL DEF KeptInv

-----------------------------------------------------------------------------
(* Listings. *)

\* Each version a listing is to have is found, still to be looked up, or the list of
\* referrers was lost; and a listing makes no calls but look-ups.
Listing(j, L) ==
  j.kind = "list" =>
    /\ \A k \in DOMAIN j.todo : j.todo[k].do = "resolve"
    /\ \A v \in j.expect : /\ VersionTag(v) \in Names(j.repo)
                           /\ \/ v \in j.answer
                              \/ <<j.repo, Index>> \in L
                              \/ \E k \in DOMAIN j.todo : j.todo[k] = Lookup(VersionTag(v))

ListingInv == \A p \in Process : Listing(job[p], lost)

\* A list that was lost once stays known as lost.
LEMMA LossStays == [Next]_vars => lost \subseteq lost'
<1>1. \A p : Step(p) => lost \subseteq lost'
  BY DEF Step, PushStep, CopyStep, AddOwnership, TagStep, UntagStep, ResolveStep, Remember, history
<1>2. \A p : Call(p) => lost \subseteq lost'
  <2>1. \A p, k, r, todo, e : Begin(p, k, r, todo, e) => lost' = lost
    BY DEF Begin, history
  <2>2. \A p, r : AddComponentVersion(p, r) => lost' = lost
    BY <2>1 DEF AddComponentVersion, AddDescriptor
  <2>3. \A p, r : AddLocalResource(p, r) => lost' = lost
    BY <2>1 DEF AddLocalResource
  <2>4. \A p, r : AddAlias(p, r) \/ RemoveAlias(p, r) => lost' = lost
    BY <2>1 DEF AddAlias, RemoveAlias
  <2>5. \A p, r : ListComponentVersions(p, r) => lost' = lost
    <3>1. \A p, r : ListViaReferrers(p, r) => lost' = lost
      BY DEF ListViaReferrers, history
    <3>2. \A p, r : ListViaTags(p, r) => lost' = lost
      BY <2>1 DEF ListViaTags
    <3> QED BY <3>1, <3>2 DEF ListComponentVersions
  <2> QED BY <2>2, <2>3, <2>4, <2>5 DEF Call
<1> QED BY <1>1, <1>2 DEF Next, Stop, Remember, vars, history

\* The job of one process may be set to one that keeps the promise.
LEMMA ListingSet ==
  ASSUME JobsInv, ListingInv, [Next]_vars, NEW p \in Process, NEW j, job' = [job EXCEPT ![p] = j], Listing(j, lost')
  PROVE  ListingInv'
<1>1. \A q \in Process : job'[q] = IF q = p THEN j ELSE job[q]
  BY DEF JobsInv
<1>2. \A q \in Process : Listing(job[q], lost')
  BY LossStays DEF ListingInv, Listing
<1> QED BY <1>1, <1>2 DEF ListingInv

\* What is tagged as a version is a component version of it, pushed before, as a
\* referrer if it is one.
LEMMA TaggedIsReady ==
  ASSUME StoreInv, NEW r \in Repo, NEW v \in TaggedVersions(r)
  PROVE  /\ VersionTag(v) \in Names(r) /\ VersionTag(v) \in Tags(r)
         /\ \E d : Ready(r, d, blobs, attached) /\ VersionOf[d] = v
<1>1. VersionTag(v) \in Names(r) /\ VersionTag(v) \in Tags(r)
  BY DEF TaggedVersions, Names
<1>2. PICK i \in DOMAIN index : index[i].repo = r /\ index[i].tag = VersionTag(v)
  BY <1>1 DEF Tags
<1>3. Fits(index[i], blobs, attached)
  BY DEF StoreInv, RowsInv
<1> QED BY <1>1, <1>2, <1>3 DEF Fits

\* By the referrers, a listing is complete at once.
LEMMA ListedByReferrers ==
  ASSUME StoreInv, KeptInv, NEW p \in Process, NEW r \in Repo, ListComponentVersions(p, r), ListViaReferrers(p, r),
         \E m \in Versions[r] : Subject[m] = Index
  PROVE  TaggedVersions(r) \subseteq VersionsAmong(r, Elements(Referrers(r, Index))) \/ <<r, Index>> \in lost
<1> SUFFICES ASSUME NEW v \in TaggedVersions(r), <<r, Index>> \notin lost
             PROVE  v \in VersionsAmong(r, Elements(Referrers(r, Index)))
  OBVIOUS
<1>1. PICK d : Ready(r, d, blobs, attached) /\ VersionOf[d] = v
  BY TaggedIsReady
<1>2. d \in Versions[r] /\ Subject[d] = Index /\ Index # NoSubject
  BY <1>1, PolicyAssumption, ManifestsAssumption DEF Ready
<1>3. <<r, Index, d>> \in attached
  BY <1>1, <1>2 DEF Ready
<1>4. d \in Elements(Referrers(r, Index))
  BY <1>3 DEF KeptInv, ReferrersKept
<1> QED BY <1>1, <1>2, <1>4 DEF VersionsAmong

\* By the tags, it is to look up all of them.
LEMMA ListedByTags ==
  ASSUME StoreInv, NEW r \in Repo
  PROVE  LET todo == Each(Lookup, Tags(r))
         IN /\ \A k \in DOMAIN todo : todo[k].do = "resolve"
            /\ \A v \in TaggedVersions(r) : \E k \in DOMAIN todo : todo[k] = Lookup(VersionTag(v))
<1> DEFINE T == Tags(r)
           todo == Each(Lookup, T)
<1>1. IsFiniteSet(T)
  BY TagsAre
<1>2. todo \in Seq({Lookup(x) : x \in T}) /\ \A x \in T : \E k \in DOMAIN todo : todo[k] = Lookup(x)
  BY <1>1, EachCovers
<1>3. \A v \in TaggedVersions(r) : VersionTag(v) \in T
  BY TaggedIsReady
<1> HIDE DEF todo, T
<1>4. \A k \in DOMAIN todo : todo[k] \in {Lookup(x) : x \in T}
  BY <1>2, LenProperties, ElementOfSeq
<1>5. \A k \in DOMAIN todo : todo[k].do = "resolve"
  BY <1>4 DEF Lookup
<1> QED BY <1>2, <1>3, <1>5 DEF todo, T

\* A call that begins keeps it.
LEMMA CallsList ==
  ASSUME StoreInv, KeptInv, ListingInv, [Next]_vars, NEW p \in Process, Call(p)
  PROVE  ListingInv'
<1>1. PICK r \in Repo : \/ AddComponentVersion(p, r) \/ AddLocalResource(p, r)
                        \/ AddAlias(p, r) \/ RemoveAlias(p, r) \/ ListComponentVersions(p, r)
  BY DEF Call
<1>2. ASSUME NEW k, NEW todo, NEW expect, k # "list", Begin(p, k, r, todo, expect)
      PROVE  ListingInv'
  <2> DEFINE j == [kind |-> k, repo |-> r, todo |-> todo, expect |-> expect, answer |-> {}]
  <2>1. job' = [job EXCEPT ![p] = j] /\ j.kind # "list"
    BY <1>2 DEF Begin
  <2> HIDE DEF j
  <2> QED BY <2>1, ListingSet DEF Listing, StoreInv
<1>3. CASE AddComponentVersion(p, r) \/ AddLocalResource(p, r) \/ AddAlias(p, r) \/ RemoveAlias(p, r)
  BY <1>2, <1>3 DEF AddComponentVersion, AddDescriptor, AddLocalResource, AddAlias, RemoveAlias
<1>4. CASE ListComponentVersions(p, r)
  <2>1. CASE ListViaTags(p, r)
    <3> DEFINE todo == Each(Lookup, Tags(r))
               j == [kind |-> "list", repo |-> r, todo |-> todo, expect |-> TaggedVersions(r), answer |-> {}]
    <3>1. job' = [job EXCEPT ![p] = j]
      BY <2>1 DEF ListViaTags, Begin
    <3>2. /\ \A k \in DOMAIN todo : todo[k].do = "resolve"
          /\ \A v \in TaggedVersions(r) : VersionTag(v) \in Names(r) /\ \E k \in DOMAIN todo : todo[k] = Lookup(VersionTag(v))
      BY ListedByTags, TaggedIsReady
    <3> HIDE DEF todo
    <3>3. j.repo = r /\ j.todo = todo /\ j.expect = TaggedVersions(r)
      OBVIOUS
    <3> HIDE DEF j
    <3> QED BY <3>1, <3>2, <3>3, ListingSet DEF Listing, StoreInv
  <2>2. CASE ListViaReferrers(p, r) /\ \E m \in Versions[r] : Subject[m] = Index
    <3> DEFINE A == VersionsAmong(r, Elements(Referrers(r, Index)))
               j == [kind |-> "list", repo |-> r, todo |-> << >>, expect |-> TaggedVersions(r), answer |-> A]
    <3>1. job' = [job EXCEPT ![p] = j]
      BY <2>2 DEF ListViaReferrers
    <3>2. TaggedVersions(r) \subseteq A \/ <<r, Index>> \in lost
      BY <1>4, <2>2, ListedByReferrers
    <3> HIDE DEF A
    <3>3. j.repo = r /\ j.todo = << >> /\ j.expect = TaggedVersions(r) /\ j.answer = A
      OBVIOUS
    <3> HIDE DEF j
    <3>4. \A v \in TaggedVersions(r) : VersionTag(v) \in Names(r)
      BY TaggedIsReady
    <3>5. Listing(j, lost')
      BY <3>2, <3>3, <3>4, LossStays DEF Listing
    <3> QED BY <3>1, <3>5, ListingSet DEF StoreInv
  <2> QED BY <1>4, <2>1, <2>2 DEF ListComponentVersions
<1> QED BY <1>1, <1>3, <1>4

\* A look-up finds its version, or the listing fails.
LEMMA LookupFinds ==
  ASSUME StoreInv, ListingInv, [Next]_vars, NEW p \in Process, ResolveStep(p)
  PROVE  ListingInv'
<1> DEFINE r == job[p].repo
           todo == job[p].todo
           c == Head(todo)
           found == Resolve(r, c.tag)
           A == VersionsAmong(r, {found.digest})
           t == [job[p] EXCEPT !.todo = Tail(@)]
<1>1. job' = Failed(p) \/ (found # Unresolved /\ job' = [Next1(p) EXCEPT ![p].answer = @ \cup A])
  BY DEF ResolveStep
<1>2. /\ r \in Repo /\ todo \in Seq(Calls(r)) /\ todo # << >>
      /\ IsJob(job[p]) /\ job = [q \in Process |-> job[q]]
  BY HeadIs DEF ResolveStep, At, StoreInv, JobsInv
<1>3. CASE job' = Failed(p)
  <2>1. Listing(Idle, lost')
    BY DEF Listing, Idle
  <2> QED BY <1>3, <2>1, ListingSet DEF Failed, StoreInv
<1>4. t = [kind |-> job[p].kind, repo |-> r, todo |-> Tail(todo), expect |-> job[p].expect, answer |-> job[p].answer]
  <2>1. IsJob(job[p])
    BY <1>2
  <2>2. \A X : [job[p] EXCEPT !.todo = X] =
                 [kind |-> job[p].kind, repo |-> r, todo |-> X, expect |-> job[p].expect, answer |-> job[p].answer]
    BY <2>1 DEF IsJob
  <2> QED BY <2>2
<1>5. CASE job' = [Next1(p) EXCEPT ![p].answer = @ \cup A] /\ Next1(p) = [job EXCEPT ![p] = Idle]
  <2> DEFINE j == [Idle EXCEPT !.answer = @ \cup A]
  <2>1. job' = [job EXCEPT ![p] = j]
    BY <1>2, <1>5
  <2>2. j.kind = "idle"
    BY DEF Idle
  <2> HIDE DEF j
  <2> QED BY <2>1, <2>2, ListingSet DEF Listing, StoreInv
<1>6. CASE found # Unresolved /\ job' = [Next1(p) EXCEPT ![p].answer = @ \cup A] /\ Next1(p) = [job EXCEPT ![p] = t]
  <2> DEFINE j == [t EXCEPT !.answer = @ \cup A]
  <2> HIDE DEF t, A
  <2>1. job' = [job EXCEPT ![p] = j]
    BY <1>2, <1>6
  <2>2. j = [kind |-> job[p].kind, repo |-> r, todo |-> Tail(todo), expect |-> job[p].expect, answer |-> job[p].answer \cup A]
    <3>1. \A k, q, d, e, a : t = [kind |-> k, repo |-> q, todo |-> d, expect |-> e, answer |-> a] =>
            j = [kind |-> k, repo |-> q, todo |-> d, expect |-> e, answer |-> a \cup A]
      OBVIOUS
    <3> HIDE DEF j
    <3> QED BY <1>4, <3>1
  <2> HIDE DEF j
  <2>3. /\ j.kind = job[p].kind /\ j.repo = r /\ j.todo = Tail(todo)
        /\ j.expect = job[p].expect /\ j.answer = job[p].answer \cup A
    BY <2>2
  <2>4. /\ Head(todo) = todo[1] /\ DOMAIN todo = 1 .. Len(todo) /\ Len(todo) \in Nat
        /\ DOMAIN Tail(todo) = 1 .. Len(todo) - 1
        /\ \A k \in 1 .. Len(todo) - 1 : Tail(todo)[k] = todo[k + 1]
    BY <1>2, TailIs
  <2>5. \A v : VersionTag(v) \in Names(r) /\ c = Lookup(VersionTag(v)) => v \in A
    <3> SUFFICES ASSUME NEW v, VersionTag(v) \in Names(r), c = Lookup(VersionTag(v)) PROVE v \in A
      OBVIOUS
    <3>1. c.tag = VersionTag(v)
      BY DEF Lookup
    <3>2. Ready(r, found.digest, blobs, attached) /\ VersionOf[found.digest] = v
      BY <1>2, <1>6, <3>1, NamesResolve DEF StoreInv
    <3> QED BY <3>2 DEF Ready, A, VersionsAmong
  <2> HIDE DEF r, c
  <2>6. ASSUME job[p].kind = "list"
        PROVE  /\ \A k \in DOMAIN Tail(todo) : Tail(todo)[k].do = "resolve"
               /\ \A v \in job[p].expect : /\ VersionTag(v) \in Names(r)
                                           /\ \/ v \in job[p].answer \cup A
                                              \/ <<r, Index>> \in lost
                                              \/ \E k \in DOMAIN Tail(todo) : Tail(todo)[k] = Lookup(VersionTag(v))
    <3>1. /\ \A k \in DOMAIN todo : todo[k].do = "resolve"
          /\ \A v \in job[p].expect : /\ VersionTag(v) \in Names(r)
                                      /\ \/ v \in job[p].answer
                                         \/ <<r, Index>> \in lost
                                         \/ \E k \in DOMAIN todo : todo[k] = Lookup(VersionTag(v))
      BY <2>6 DEF ListingInv, Listing, r
    <3> HIDE DEF todo
    <3>2. \A k \in DOMAIN todo : k = 1 \/ (k - 1 \in DOMAIN Tail(todo) /\ Tail(todo)[k - 1] = todo[k])
      <4> SUFFICES ASSUME NEW k \in DOMAIN todo, k # 1
                   PROVE  k - 1 \in DOMAIN Tail(todo) /\ Tail(todo)[k - 1] = todo[k]
        OBVIOUS
      <4>1. k - 1 \in 1 .. Len(todo) - 1 /\ (k - 1) + 1 = k
        BY <2>4
      <4> QED BY <2>4, <4>1
    <3>3. c = todo[1]
      BY <2>4 DEF c
    <3>4. \A k \in DOMAIN Tail(todo) : Tail(todo)[k].do = "resolve"
      <4> SUFFICES ASSUME NEW k \in DOMAIN Tail(todo) PROVE Tail(todo)[k].do = "resolve"
        OBVIOUS
      <4>1. k \in 1 .. Len(todo) - 1 /\ k + 1 \in DOMAIN todo
        BY <2>4
      <4> QED BY <2>4, <3>1, <4>1
    <3>5. \A v \in job[p].expect :
            (\E k \in DOMAIN todo : todo[k] = Lookup(VersionTag(v))) =>
              v \in A \/ \E k \in DOMAIN Tail(todo) : Tail(todo)[k] = Lookup(VersionTag(v))
      BY <2>5, <3>1, <3>2, <3>3
    <3> QED BY <3>1, <3>4, <3>5
  <2> HIDE DEF todo
  <2>7. Listing(j, lost')
    BY <2>3, <2>6, LossStays DEF Listing
  <2> QED BY <2>1, <2>7, ListingSet DEF StoreInv
<1>7. Next1(p) = [job EXCEPT ![p] = Idle] \/ Next1(p) = [job EXCEPT ![p] = t]
  BY DEF Next1
<1> QED BY <1>1, <1>3, <1>5, <1>6, <1>7

\* The other calls of the store are not made by listings.
LEMMA OthersList ==
  ASSUME StoreInv, ListingInv, [Next]_vars, NEW p \in Process, Step(p), ~ ResolveStep(p)
  PROVE  ListingInv'
<1> DEFINE todo == job[p].todo
           t    == [job[p] EXCEPT !.todo = Tail(@)]
<1>1. todo # << >> /\ Head(todo).do # "resolve" /\ job[p].repo \in Repo /\ todo \in Seq(Calls(job[p].repo))
  <2>1. todo # << >> /\ Head(todo).do # "resolve"
    BY DEF Step, PushStep, CopyStep, AddOwnership, TagStep, UntagStep, At
  <2> QED BY <2>1, HeadIs
<1>2. job[p].kind # "list"
  <2>1. 1 \in DOMAIN todo /\ Head(todo) = todo[1]
    BY <1>1, TailIs
  <2> QED BY <1>1, <2>1 DEF ListingInv, Listing
<1>3. IsJob(job[p])
  BY DEF StoreInv, JobsInv
<1>4. \A X : [job[p] EXCEPT !.todo = X].kind # "list"
  BY <1>2, <1>3 DEF IsJob
<1>5. Idle.kind # "list"
  BY DEF Idle
<1>6. \A j : j.kind # "list" /\ job' = [job EXCEPT ![p] = j] => ListingInv'
  BY ListingSet DEF Listing, StoreInv
<1>7. job' = Next1(p) => ListingInv'
  <2>1. Next1(p) = [job EXCEPT ![p] = Idle] \/ Next1(p) = [job EXCEPT ![p] = t]
    BY DEF Next1
  <2> QED BY <1>4, <1>5, <1>6, <2>1
<1>8. job' = Failed(p) => ListingInv'
  BY <1>5, <1>6 DEF Failed
<1>9. \A f : job' = [job EXCEPT ![p].todo = f \o Tail(@)] => ListingInv'
  BY <1>4, <1>6
<1> QED BY <1>7, <1>8, <1>9 DEF Step, PushStep, CopyStep, AddOwnership, TagStep, UntagStep, Write

\* The promise of listings in every state.
LEMMA ListingAlways == Spec => []ListingInv
<1>1. Init => ListingInv
  BY DEF Init, ListingInv, Listing, Idle
<1>2. StoreInv /\ KeptInv /\ ListingInv /\ [Next]_vars => ListingInv'
  <2> SUFFICES ASSUME StoreInv, KeptInv, ListingInv, [Next]_vars PROVE ListingInv'
    OBVIOUS
  <2>1. CASE UNCHANGED vars
    BY <2>1 DEF vars, history, ListingInv
  <2>2. CASE Stop
    <3>1. PICK ended : job' = [q \in Process |-> IF q \in ended THEN Idle ELSE job[q]]
      BY <2>2 DEF Stop
    <3>2. \A q \in Process : Listing(job[q], lost') /\ Listing(Idle, lost')
      BY LossStays DEF ListingInv, Listing, Idle
    <3> QED BY <3>1, <3>2 DEF ListingInv
  <2> QED BY <2>1, <2>2, CallsList, LookupFinds, OthersList DEF Next
<1> QED BY <1>1, <1>2, StoreAlways, KeptAlways, PTL DEF Spec

\* A listing that succeeds has every version tagged when it began, unless the list
\* of referrers was lost.
THEOREM ListingsAreComplete == Spec => []ListingIsComplete
<1>1. ListingInv => ListingIsComplete
  BY DEF ListingInv, Listing, ListingIsComplete
<1> QED BY <1>1, ListingAlways, PTL
-----------------------------------------------------------------------------
(* The archive as a registry of names. *)

\* Where a name stands for nothing or for one artifact, that is what it names.
LEMMA TheOnly == The({}) = NoSubject /\ \A d : The({d}) = d
BY DEF The

\* A step that leaves what the names stand for leaves the registry's names.
LEMMA NamedStays ==
  ASSUME \A r : \A n \in Name : TagOf(index', r, n) = TagOf(index, r, n)
  PROVE  Named' = Named
BY DEF Named

\* One that moves one name moves it alone.
LEMMA NamedMoves ==
  ASSUME NEW q \in Repo, NEW t \in Name, NEW d, The(TagOf(index', q, t)) = d,
         \A r : \A n \in Name : ~ (r = q /\ n = t) => TagOf(index', r, n) = TagOf(index, r, n)
  PROVE  Named' = [Named EXCEPT ![q][t] = d]
<1>1. \A r : \A n \in Name :
        The(TagOf(index', r, n)) = IF r = q /\ n = t THEN d ELSE The(TagOf(index, r, n))
  OBVIOUS
<1>2. Named' = [r \in Repo |-> [n \in Name |-> IF r = q /\ n = t THEN d ELSE The(TagOf(index, r, n))]]
  BY <1>1 DEF Named
<1>3. [Named EXCEPT ![q][t] = d]
        = [r \in Repo |-> [n \in Name |-> IF r = q /\ n = t THEN d ELSE The(TagOf(index, r, n))]]
  BY DEF Named
<1> QED BY <1>2, <1>3

\* What is still to be done first does not matter for what is asked.
LEMMA AsksLast ==
  ASSUME NEW r \in Repo
  PROVE  /\ \A f \in Seq(Plain(r)) : Asks(r, f) = Registry!Nothing
         /\ \A f \in Seq(Plain(r)), g \in Seq(Calls(r)) : Asks(r, f \o g) = Asks(r, g)
         /\ \A g \in Seq(Calls(r)) : g # << >> /\ Head(g) \in Plain(r) => Asks(r, Tail(g)) = Asks(r, g)
<1>1. ASSUME NEW f \in Seq(Plain(r))
      PROVE  Asks(r, f) = Registry!Nothing
  <2>1. f # << >> => f[Len(f)] \in Plain(r)
    <3>1. f # << >> => Len(f) \in 1 .. Len(f)
      BY EmptySeq, LenProperties
    <3> QED BY <3>1, ElementOfSeq
  <2> QED BY <2>1 DEF Asks, Plain, Registry!Nothing
<1>2. ASSUME NEW f \in Seq(Plain(r)), NEW g \in Seq(Calls(r))
      PROVE  Asks(r, f \o g) = Asks(r, g)
  <2>1. CASE g = << >>
    <3>1. f \o g = f
      BY <2>1, ConcatEmptySeq
    <3>2. Asks(r, g) = Registry!Nothing
      BY <2>1 DEF Asks, Registry!Nothing
    <3> QED BY <1>1, <3>1, <3>2
  <2>2. CASE g # << >>
    <3> DEFINE h == f \o g
    <3>1. /\ Len(f) \in Nat /\ Len(g) \in Nat /\ Len(g) # 0 /\ Len(h) = Len(f) + Len(g)
          /\ \A i \in 1 .. Len(f) + Len(g) : h[i] = IF i <= Len(f) THEN f[i] ELSE g[i - Len(f)]
      <4>1. f \in Seq(Calls(r))
        BY SeqMonotonic DEF Plain
      <4> QED BY <2>2, <4>1, ConcatProperties, LenProperties, EmptySeq
    <3> HIDE DEF h
    <3>2. /\ Len(f) + Len(g) \in 1 .. Len(f) + Len(g) /\ ~ (Len(f) + Len(g) <= Len(f))
          /\ (Len(f) + Len(g)) - Len(f) = Len(g)
      BY <3>1
    <3>3. h[Len(h)] = g[Len(g)]
      BY <3>1, <3>2
    <3>4. h # << >>
      BY <3>1, EmptySeq
    <3>5. Asks(r, h) = Asks(r, g)
      BY <2>2, <3>3, <3>4 DEF Asks
    <3> QED BY <3>5 DEF h
  <2> QED BY <2>1, <2>2
<1>3. ASSUME NEW g \in Seq(Calls(r)), g # << >>, Head(g) \in Plain(r)
      PROVE  Asks(r, Tail(g)) = Asks(r, g)
  <2> DEFINE f == <<Head(g)>>
             t == Tail(g)
  <2>1. f \in Seq(Plain(r)) /\ t \in Seq(Calls(r))
    BY <1>3, HeadTailProperties
  <2>2. g = f \o t
    BY <1>3, HeadTailProperties
  <2> HIDE DEF f, t
  <2>3. Asks(r, f \o t) = Asks(r, t)
    BY <1>2, <2>1
  <2> QED BY <2>2, <2>3 DEF t
<1> QED BY <1>1, <1>2, <1>3

\* A process asks for one name, of its own repository, or for nothing.
AskedInv == \A p \in Process : Asked[p] \in Registry!Request \cup {Registry!Nothing}

\* What its last call is about says so.
LEMMA AskedType == StoreInv => AskedInv
<1> SUFFICES ASSUME StoreInv, NEW p \in Process
             PROVE  Asked[p] \in Registry!Request \cup {Registry!Nothing}
  BY DEF AskedInv
<1> DEFINE r == job[p].repo
           todo == job[p].todo
           c == todo[Len(todo)]
<1>1. Asked[p] = Asks(r, todo)
  BY DEF Asked
<1>2. CASE todo = << >> \/ c.do \notin {"tag", "untag"}
  BY <1>1, <1>2 DEF Asks, Registry!Nothing
<1>3. CASE todo # << >> /\ c.do \in {"tag", "untag"}
  <2>1. r \in Repo /\ todo \in Seq(Calls(r))
    BY <1>3, HeadIs
  <2>2. Len(todo) \in 1 .. Len(todo)
    BY <1>3, <2>1, EmptySeq, LenProperties
  <2>3. c \in Calls(r)
    BY <2>1, <2>2, ElementOfSeq
  <2>4. c.tag \in Names(r) /\ c.of \in Versions[r] \cup {NoSubject}
    BY <1>3, <2>1, <2>3, CallsAre DEF Names
  <2>5. Asked[p] = [repo |-> r, name |-> c.tag, artifact |-> c.of]
    BY <1>1, <1>3 DEF Asks
  <2>6. c.tag \in Name /\ c.of \in Registry!Artifact \cup {NoSubject}
    BY <2>1, <2>4 DEF Name, Registry!Artifact, Parts
  <2> QED BY <2>1, <2>5, <2>6 DEF Registry!Request
<1> QED BY <1>2, <1>3

\* What is stored only grows, and is content.
LEMMA StoredGrows == StoreInv /\ [Next]_vars => Registry!Grows
BY ContentStays DEF Registry!Grows, Stored

\* Changing what one process does changes what it asks for.
LEMMA AskedSets ==
  ASSUME NEW p \in Process, NEW j, job' = [job EXCEPT ![p] = j], JobsInv
  PROVE  Asked' = [Asked EXCEPT ![p] = Asks(j.repo, j.todo)]
<1>1. job = [q \in Process |-> job[q]]
  BY DEF JobsInv
<1>2. \A q \in Process : job'[q] = IF q = p THEN j ELSE job[q]
  BY <1>1
<1>3. \A q \in Process : Asks(job'[q].repo, job'[q].todo)
                        = IF q = p THEN Asks(j.repo, j.todo) ELSE Asks(job[q].repo, job[q].todo)
  BY <1>2
<1> QED BY <1>3 DEF Asked

\* A process that has nothing to do any more asks for nothing.
LEMMA IdleAsksNothing == \A r : Asks(r, << >>) = Registry!Nothing /\ Asks(Idle.repo, Idle.todo) = Registry!Nothing
BY DEF Asks, Idle, Registry!Nothing

\* A step in which nothing but content changes, and a process may fail, is one
\* of the registry.
LEMMA QuietStep ==
  ASSUME StoreInv, [Next]_vars, NEW p \in Process, Named' = Named,
         Asked' = Asked \/ Asked' = [Asked EXCEPT ![p] = Registry!Nothing]
  PROVE  Registry!Next
<1>1. Registry!Grows
  BY StoredGrows
<1>2. CASE Asked' = Asked
  BY <1>1, <1>2 DEF Registry!Next, Registry!Store
<1>3. CASE Asked' = [Asked EXCEPT ![p] = Registry!Nothing]
  <2>1. Asked' = [q \in Process |-> IF q \in {p} THEN Registry!Nothing ELSE Asked[q]]
    BY <1>3 DEF Asked
  <2>2. Registry!Abandon({p})
    BY <1>1, <2>1 DEF Registry!Abandon
  <2> QED BY <2>2 DEF Registry!Next
<1> QED BY <1>2, <1>3

\* The next call is made: the same is still asked for, if it was not that one.
LEMMA NextAsks ==
  ASSUME StoreInv, NEW p \in Process, job[p].todo # << >>
  PROVE  LET r == job[p].repo
             c == Head(job[p].todo)
         IN /\ c \in Plain(r) => \E j : Next1(p) = [job EXCEPT ![p] = j] /\ Asks(j.repo, j.todo) = Asked[p] /\ IsJob(j)
            /\ c \in Plain(r) => \A f \in Seq(Plain(r)) :
                 \E j : [job EXCEPT ![p].todo = f \o Tail(@)] = [job EXCEPT ![p] = j] /\ Asks(j.repo, j.todo) = Asked[p]
            /\ c \notin Plain(r) =>
                 /\ \E j : Next1(p) = [job EXCEPT ![p] = j] /\ Asks(j.repo, j.todo) = Registry!Nothing
                 /\ Asked[p] = [repo |-> r, name |-> c.tag, artifact |-> c.of]
<1> DEFINE r == job[p].repo
           todo == job[p].todo
           c == Head(todo)
           t == [job[p] EXCEPT !.todo = Tail(@)]
           j == IF Len(todo) = 1 /\ job[p].kind \notin {"list", "own"} THEN Idle ELSE t
<1>1. r \in Repo /\ c \in Calls(r) /\ todo \in Seq(Calls(r)) /\ Ends(todo) /\ Asked[p] = Asks(r, todo)
  BY HeadIs DEF Prepared, Asked
<1>2. Next1(p) = [job EXCEPT ![p] = j]
  BY DEF Next1
<1>3. ASSUME NEW X PROVE [job[p] EXCEPT !.todo = X].repo = r /\ [job[p] EXCEPT !.todo = X].todo = X
  <2>1. job[p] = [kind |-> job[p].kind, repo |-> job[p].repo, todo |-> job[p].todo, expect |-> job[p].expect,
                  answer |-> job[p].answer]
    BY DEF StoreInv, JobsInv, IsJob
  <2>2. [job[p] EXCEPT !.todo = X] = [kind |-> job[p].kind, repo |-> job[p].repo, todo |-> X, expect |-> job[p].expect,
                                     answer |-> job[p].answer]
    BY <2>1
  <2> QED BY <2>2
<1>4. t.repo = r /\ t.todo = Tail(todo) /\ IsJob(j)
  <2>1. job[p] = [kind |-> job[p].kind, repo |-> job[p].repo, todo |-> job[p].todo, expect |-> job[p].expect,
                  answer |-> job[p].answer]
    BY DEF StoreInv, JobsInv, IsJob
  <2>2. t = [kind |-> job[p].kind, repo |-> job[p].repo, todo |-> Tail(todo), expect |-> job[p].expect,
             answer |-> job[p].answer]
    BY <2>1
  <2>3. IsJob(t)
    BY <2>2 DEF IsJob
  <2>4. IsJob(Idle)
    BY IdleIsFine DEF Fine
  <2> QED BY <1>3, <2>3, <2>4
<1> HIDE DEF r, c, t, j, todo
<1>5. /\ Len(todo) \in Nat /\ Len(todo) # 0 /\ DOMAIN todo = 1 .. Len(todo) /\ c = todo[1]
      /\ Tail(todo) \in Seq(Calls(r)) /\ Len(Tail(todo)) = Len(todo) - 1
  <2>1. todo # << >>
    BY DEF todo
  <2> QED BY <1>1, <2>1, EmptySeq, LenProperties, HeadTailProperties DEF c
<1>6. Len(todo) = 1 => Tail(todo) = << >>
  <2>1. Len(todo) = 1 => Len(Tail(todo)) = 0
    BY <1>5
  <2> QED BY <1>5, <2>1, EmptySeq
<1>7. ASSUME c \in Plain(r)
      PROVE  /\ Asks(j.repo, j.todo) = Asked[p]
             /\ Asks(r, Tail(todo)) = Asked[p]
  <2>1. Asks(r, Tail(todo)) = Asks(r, todo)
    BY <1>1, <1>7, AsksLast DEF c, todo
  <2>2. CASE j = t
    BY <1>1, <1>4, <2>1, <2>2
  <2>3. CASE j = Idle /\ Len(todo) = 1
    BY <1>1, <1>6, <2>1, <2>3, IdleAsksNothing
  <2> QED BY <1>1, <2>1, <2>2, <2>3 DEF j
<1>8. ASSUME c \in Plain(r), NEW f \in Seq(Plain(r))
      PROVE  \E k : [job EXCEPT ![p].todo = f \o Tail(@)] = [job EXCEPT ![p] = k] /\ Asks(k.repo, k.todo) = Asked[p]
  <2> DEFINE k == [job[p] EXCEPT !.todo = f \o Tail(@)]
  <2>1. [job EXCEPT ![p].todo = f \o Tail(@)] = [job EXCEPT ![p] = k]
    OBVIOUS
  <2>2. k.repo = r /\ k.todo = f \o Tail(todo)
    BY <1>3 DEF todo
  <2>3. Asks(r, f \o Tail(todo)) = Asks(r, Tail(todo))
    BY <1>1, <1>5, AsksLast
  <2> HIDE DEF k
  <2> QED BY <1>7, <1>8, <2>1, <2>2, <2>3
<1>9. ASSUME c \notin Plain(r)
      PROVE  /\ Asks(j.repo, j.todo) = Registry!Nothing
             /\ Asked[p] = [repo |-> r, name |-> c.tag, artifact |-> c.of]
  <2>1. c.do \in {"tag", "untag"}
    BY <1>1, <1>9 DEF Plain
  <2>2. Len(todo) = 1
    <3>1. 1 \in DOMAIN todo
      BY <1>5
    <3> QED BY <1>1, <1>5, <2>1, <3>1 DEF Ends
  <2>3. Asks(j.repo, j.todo) = Registry!Nothing
    BY <1>4, <1>6, <2>2, IdleAsksNothing DEF j
  <2>4. todo[Len(todo)] = c
    BY <1>5, <2>2
  <2>5. Asked[p] = [repo |-> r, name |-> c.tag, artifact |-> c.of]
    BY <1>1, <2>1, <2>4 DEF Asks, todo
  <2> QED BY <2>3, <2>5
<1> QED BY <1>2, <1>4, <1>7, <1>8, <1>9 DEF r, c, todo
\* The step of a process that moves no name and is not about one.
LEMMA PlainRefines ==
  ASSUME StoreInv, [Next]_vars, NEW p \in Process, PushStep(p) \/ CopyStep(p) \/ AddOwnership(p) \/ ResolveStep(p)
  PROVE  Registry!Next
<1> DEFINE r == job[p].repo
           c == Head(job[p].todo)
<1>1. job[p].todo # << >> /\ c.do \in {"push", "copy", "own", "resolve"}
  BY DEF PushStep, CopyStep, AddOwnership, ResolveStep, At
<1>2. r \in Repo /\ c \in Calls(r) /\ c \in Plain(r)
  BY <1>1, HeadIs DEF Plain
<1>3. Named' = Named
  <2>1. CASE PushStep(p)
    <3> DEFINE w == PushWrites(r, c.of)
    <3>1. index' = w[Len(w)][2] /\ Len(w) \in DOMAIN w
      BY <2>1, WritesNumbered DEF PushStep, Write
    <3>2. \A q, x : \A n \in Names(x) : TagOf(index', q, n) = TagOf(index, q, n)
      BY <3>1, PushMovesNoName DEF StoreInv
    <3> QED BY <3>2, NamedStays DEF Name
  <2>2. CASE index' = index
    BY <2>2, NamedStays
  <2> QED BY <2>1, <2>2 DEF CopyStep, AddOwnership, ResolveStep, disk
<1>4. ASSUME NEW j, job' = [job EXCEPT ![p] = j], Asks(j.repo, j.todo) = Asked[p]
      PROVE  Asked' = Asked
  <2>1. Asked' = [Asked EXCEPT ![p] = Asked[p]]
    BY <1>4, AskedSets DEF StoreInv
  <2> QED BY <2>1 DEF Asked
<1>5. ASSUME NEW j, job' = [job EXCEPT ![p] = j], Asks(j.repo, j.todo) = Registry!Nothing
      PROVE  Asked' = [Asked EXCEPT ![p] = Registry!Nothing]
  BY <1>5, AskedSets DEF StoreInv
<1>6. job' = Next1(p) => Asked' = Asked
  <2>1. PICK j : Next1(p) = [job EXCEPT ![p] = j] /\ Asks(j.repo, j.todo) = Asked[p]
    BY <1>1, <1>2, NextAsks
  <2> QED BY <1>4, <2>1
<1>7. job' = Failed(p) => Asked' = [Asked EXCEPT ![p] = Registry!Nothing]
  BY <1>5, IdleAsksNothing DEF Failed
<1>8. ASSUME NEW f \in Seq(Plain(r)), job' = [job EXCEPT ![p].todo = f \o Tail(@)]
      PROVE  Asked' = Asked
  <2>1. PICK j : [job EXCEPT ![p].todo = f \o Tail(@)] = [job EXCEPT ![p] = j] /\ Asks(j.repo, j.todo) = Asked[p]
    BY <1>1, <1>2, NextAsks
  <2> QED BY <1>4, <1>8, <2>1
<1>9. CASE PushStep(p)
  BY <1>3, <1>6, <1>9, QuietStep DEF PushStep, Write
<1>10. CASE CopyStep(p)
  <2> DEFINE down == IF c.of \in Manifest THEN Layers[c.of] \cup ({Subject[c.of]} \ {NoSubject}) ELSE {}
             f    == Each(Copy, down) \o <<Push(c.of)>>
  <2>1. c.of \in Content
    BY <1>2, <1>10, CallsAre DEF CopyStep, At
  <2>2. down \subseteq Content /\ IsFiniteSet(down)
    BY <2>1, DownIsContent
  <2>3. job' = Next1(p) \/ job' = [job EXCEPT ![p].todo = f \o Tail(@)]
    BY <1>10 DEF CopyStep
  <2> HIDE DEF down
  <2>4. f \in Seq(Plain(r))
    BY <1>2, <2>1, <2>2, PlainSeqs
  <2> HIDE DEF f
  <2> QED BY <1>3, <1>6, <1>8, <2>3, <2>4, QuietStep
<1>11. CASE AddOwnership(p)
  <2> DEFINE f == <<Push(Ownership[r][c.of])>>
  <2>1. Ownership[r][c.of] \in Content
    BY <1>2, <1>11, CallsAre, ManifestsAssumption DEF AddOwnership, At, Content
  <2>2. job' = Failed(p) \/ job' = Next1(p) \/ job' = [job EXCEPT ![p].todo = f \o Tail(@)]
    BY <1>11 DEF AddOwnership
  <2>3. f \in Seq(Plain(r))
    BY <1>2, <2>1, PlainSeqs
  <2> HIDE DEF f
  <2> QED BY <1>3, <1>6, <1>7, <1>8, <2>2, <2>3, QuietStep
<1>12. CASE ResolveStep(p)
  <2>1. \/ job' = Failed(p)
        \/ \E X : job' = [Next1(p) EXCEPT ![p].answer = X]
    BY <1>12 DEF ResolveStep
  <2>2. ASSUME NEW X, job' = [Next1(p) EXCEPT ![p].answer = X]
        PROVE  Asked' = Asked
    <3>1. PICK j : Next1(p) = [job EXCEPT ![p] = j] /\ Asks(j.repo, j.todo) = Asked[p] /\ IsJob(j)
      BY <1>1, <1>2, NextAsks
    <3> DEFINE k == [j EXCEPT !.answer = X]
    <3>2. k = [kind |-> j.kind, repo |-> j.repo, todo |-> j.todo, expect |-> j.expect, answer |-> X]
      BY <3>1 DEF IsJob
    <3>3. k.repo = j.repo /\ k.todo = j.todo
      BY <3>2
    <3>4. job = [q \in Process |-> job[q]]
      BY DEF StoreInv, JobsInv
    <3>5. job' = [job EXCEPT ![p] = k]
      BY <2>2, <3>1, <3>4
    <3> HIDE DEF k
    <3> QED BY <1>4, <3>1, <3>3, <3>5
  <2> QED BY <1>3, <1>7, <2>1, <2>2, QuietStep
<1> QED BY <1>9, <1>10, <1>11, <1>12

\* A name and the repository in which a process gives it or takes it away.
LEMMA NamingIs ==
  ASSUME StoreInv, NEW p \in Process, At(p, "tag") \/ At(p, "untag")
  PROVE  LET r == job[p].repo
             c == Head(job[p].todo)
         IN /\ r \in Repo /\ c \in Calls(r) /\ c \notin Plain(r) /\ c.tag \in Names(r) /\ c.tag \in Name
            /\ Asked[p] = [repo |-> r, name |-> c.tag, artifact |-> c.of] /\ Asked[p] \in Registry!Request
            /\ \/ job' = Next1(p)
               \/ job' = Failed(p)
               => Asked' = [Asked EXCEPT ![p] = Registry!Nothing]
<1> DEFINE r == job[p].repo
           c == Head(job[p].todo)
<1>1. job[p].todo # << >> /\ c.do \in {"tag", "untag"}
  BY DEF At
<1>2. r \in Repo /\ c \in Calls(r) /\ c \notin Plain(r)
  BY <1>1, HeadIs DEF Plain
<1>3. c.tag \in Names(r) /\ c.tag \in Name /\ c.of \in Versions[r] \cup {NoSubject}
  BY <1>1, <1>2, CallsAre DEF Names, Name
<1>4. Asked[p] = [repo |-> r, name |-> c.tag, artifact |-> c.of]
  BY <1>1, <1>2, NextAsks
<1>5. Asked[p] \in Registry!Request
  BY <1>2, <1>3, <1>4 DEF Registry!Request, Registry!Artifact, Parts
<1>6. job' = Next1(p) => Asked' = [Asked EXCEPT ![p] = Registry!Nothing]
  <2>1. PICK j : Next1(p) = [job EXCEPT ![p] = j] /\ Asks(j.repo, j.todo) = Registry!Nothing
    BY <1>1, <1>2, NextAsks
  <2> QED BY <2>1, AskedSets DEF StoreInv
<1>7. job' = Failed(p) => Asked' = [Asked EXCEPT ![p] = Registry!Nothing]
  BY IdleAsksNothing, AskedSets DEF Failed, StoreInv
<1> QED BY <1>2, <1>3, <1>4, <1>5, <1>6, <1>7

\* To tag gives the name, at once and to what is all there.
LEMMA TagRefines ==
  ASSUME StoreInv, [Next]_vars, NEW p \in Process, TagStep(p)
  PROVE  Registry!Next
<1> DEFINE r == job[p].repo
           c == Head(job[p].todo)
           a == Entry(r, c.tag, c.of)
<1>1. /\ r \in Repo /\ c.tag \in Names(r) /\ c.tag \in Name
      /\ Asked[p] = [repo |-> r, name |-> c.tag, artifact |-> c.of] /\ Asked[p] \in Registry!Request
      /\ job' = Next1(p) \/ job' = Failed(p) => Asked' = [Asked EXCEPT ![p] = Registry!Nothing]
  BY NamingIs DEF TagStep
<1>2. CASE index' = index
  <2>1. Named' = Named /\ (job' = Next1(p) \/ job' = Failed(p))
    BY <1>2, NamedStays DEF TagStep, Write
  <2> QED BY <1>1, <2>1, QuietStep
<1>3. CASE index' = AddArtifact(index, a) /\ blobs' = blobs /\ job' = Next1(p)
  <2>1. Ready(r, c.of, blobs, attached)
    BY HeadIs DEF TagStep, At
  <2>2. c.of \in Versions[r] /\ Needs(c.of) \subseteq Stored
    BY <1>1, <2>1, NeedsAreContent DEF Ready, Stored
  <2>3. c.of \in DOMAIN Parts /\ Parts[c.of] \subseteq Stored /\ c.of # NoSubject
    <3>1. c.of \in UNION {Versions[q] : q \in Repo} /\ c.of \in Manifest
      BY <1>1, <2>2, ManifestsAssumption
    <3>2. c.of \in DOMAIN Parts /\ Parts[c.of] = Needs(c.of)
      BY <3>1 DEF Parts, Needs
    <3> QED BY <2>2, <3>1, <3>2, ManifestsAssumption
  <2>4. IsEntry(a) /\ a.repo = r /\ a.tag = c.tag /\ a.digest = c.of
    BY DEF IsEntry, Entry
  <2> HIDE DEF a, r, c
  <2>5. \A q : \A n \in Name : TagOf(index', q, n) = IF q = r /\ n = c.tag THEN {c.of} ELSE TagOf(index, q, n)
    BY <1>3, <2>4, AddTagOf, NamesApart DEF StoreInv, IndexInv, Name
  <2>6. The(TagOf(index', r, c.tag)) = c.of
    BY <1>1, <2>5, TheOnly
  <2>7. Named' = [Named EXCEPT ![r][c.tag] = c.of]
    BY <1>1, <2>5, <2>6, NamedMoves
  <2>8. Stored' = Stored
    BY <1>3 DEF Stored
  <2>9. Registry!Give(p)
    BY <1>1, <1>3, <2>3, <2>7, <2>8 DEF Registry!Give, Registry!Done
  <2> QED BY <2>9 DEF Registry!Next
<1> QED BY <1>2, <1>3 DEF TagStep, Write, disk

\* To untag takes the name away, unless it is there twice.
LEMMA UntagRefines ==
  ASSUME StoreInv, [Next]_vars, NEW p \in Process, UntagStep(p)
  PROVE  Registry!Next
<1> DEFINE r == job[p].repo
           c == Head(job[p].todo)
           t == c.tag
<1>1. /\ r \in Repo /\ t \in Names(r) /\ t \in Name
      /\ Asked[p] = [repo |-> r, name |-> t, artifact |-> c.of] /\ Asked[p] \in Registry!Request
      /\ job' = Next1(p) \/ job' = Failed(p) => Asked' = [Asked EXCEPT ![p] = Registry!Nothing]
  BY NamingIs DEF UntagStep
<1>2. Asked' = [Asked EXCEPT ![p] = Registry!Nothing]
  BY <1>1 DEF UntagStep, Write
<1>3. CASE index' = index
  BY <1>2, <1>3, NamedStays, QuietStep
<1>4. CASE index' = RemoveTag(index, r, t) /\ blobs' = blobs
  <2> HIDE DEF r, t
  <2>1. \A q : \A n \in Name : ~ (q = r /\ n = t) => TagOf(index', q, n) = TagOf(index, q, n)
    BY <1>4, RemoveTagOf DEF StoreInv, IndexInv
  <2>2. TagOf(index', r, t) \subseteq TagOf(index, r, t)
    BY <1>4, RemoveTagOf DEF StoreInv, IndexInv
  <2>3. \A d, e \in TagOf(index, r, t) : d = e
    BY <1>1, NamesApart DEF StoreInv, IndexInv, OneDigest, TagOf, Holders
  <2>4. TagOf(index', r, t) = {} \/ TagOf(index', r, t) = TagOf(index, r, t)
    BY <2>2, <2>3
  <2>5. CASE TagOf(index', r, t) = {}
    <3>1. The(TagOf(index', r, t)) = NoSubject
      BY <2>5, TheOnly
    <3>2. Named' = [Named EXCEPT ![r][t] = NoSubject]
      BY <1>1, <2>1, <3>1, NamedMoves
    <3>3. Stored' = Stored
      BY <1>4 DEF Stored
    <3>4. c.of = NoSubject
      <4>1. c.do = "untag" /\ c \in Calls(r)
        BY NamingIs DEF UntagStep, At, r
      <4> QED BY <1>1, <4>1, CallsAre
    <3>5. Registry!TakeAway(p)
      BY <1>1, <1>2, <3>2, <3>3, <3>4 DEF Registry!TakeAway, Registry!Done
    <3> QED BY <3>5 DEF Registry!Next
  <2>6. CASE TagOf(index', r, t) = TagOf(index, r, t)
    BY <1>2, <2>1, <2>6, NamedStays, QuietStep
  <2> QED BY <2>4, <2>5, <2>6
<1> QED BY <1>3, <1>4 DEF UntagStep, Write, disk

\* A call that begins asks for a name or for nothing.
LEMMA CallRefines ==
  ASSUME StoreInv, AskedInv', [Next]_vars, NEW p \in Process, Call(p)
  PROVE  Registry!Next
<1>1. UNCHANGED disk /\ job[p].todo = << >> /\ \E j : job' = [job EXCEPT ![p] = j]
  BY DEF Call, AddComponentVersion, AddDescriptor, AddLocalResource, AddAlias, RemoveAlias,
         ListComponentVersions, ListViaReferrers, ListViaTags, Begin
<1>2. Named' = Named /\ Stored' = Stored
  BY <1>1, NamedStays DEF disk, Stored
<1>3. Asked[p] = Registry!Nothing
  BY <1>1, IdleAsksNothing DEF Asked
<1>4. PICK q : Asked' = [Asked EXCEPT ![p] = q] /\ q = Asked'[p]
  <2>1. PICK j : job' = [job EXCEPT ![p] = j]
    BY <1>1
  <2>2. Asked' = [Asked EXCEPT ![p] = Asks(j.repo, j.todo)]
    BY <2>1, AskedSets DEF StoreInv
  <2> QED BY <2>2 DEF Asked
<1>5. CASE q \in Registry!Request
  <2>1. Registry!Ask(p)
    BY <1>2, <1>3, <1>4, <1>5 DEF Registry!Ask
  <2> QED BY <2>1 DEF Registry!Next
<1>6. CASE q = Registry!Nothing
  BY <1>2, <1>4, <1>6, QuietStep
<1>7. Asked'[p] \in Registry!Request' \cup {Registry!Nothing'}
  BY DEF AskedInv
<1>8. Registry!Request' = Registry!Request /\ Registry!Nothing' = Registry!Nothing
  BY DEF Registry!Request, Registry!Nothing, Registry!Artifact, Parts, Name, Names
<1> QED BY <1>4, <1>5, <1>6, <1>7, <1>8

\* What is stopped is abandoned.
LEMMA StopRefines ==
  ASSUME StoreInv, [Next]_vars, Stop
  PROVE  Registry!Next
<1>1. PICK ended \in SUBSET Process : job' = [q \in Process |-> IF q \in ended THEN Idle ELSE job[q]]
  BY DEF Stop
<1>2. Named' = Named
  BY StopWrites, NamedStays
<1>3. \A q \in Process : Asks(job'[q].repo, job'[q].todo)
        = IF q \in ended THEN Registry!Nothing ELSE Asks(job[q].repo, job[q].todo)
  BY <1>1, IdleAsksNothing
<1>4. Asked' = [q \in Process |-> IF q \in ended THEN Registry!Nothing ELSE Asked[q]]
  BY <1>3 DEF Asked
<1>5. Registry!Abandon(ended)
  BY <1>2, <1>4, StoredGrows DEF Registry!Abandon
<1> QED BY <1>5 DEF Registry!Next

\* An archive gives and takes away the names of versions and aliases as a
\* registry does: each at one moment, on request, and only to what is all there,
\* whatever files its calls write and wherever they stop.
THEOREM ArchiveImplementsRegistry == Spec => Implements
<1>1. Init => Registry!Init
  <2> SUFFICES ASSUME Init PROVE Registry!Init
    OBVIOUS
  <2>1. \A r, n : The(TagOf(index, r, n)) = NoSubject
    <3>1. \A r, n : TagOf(index, r, n) = {}
      BY DEF Init, TagOf, Holders
    <3> QED BY <3>1, TheOnly
  <2>2. Named = [r \in Repo |-> [n \in Name |-> NoSubject]] /\ Stored = {}
    BY <2>1 DEF Named, Stored, Init
  <2>3. \A p \in Process : Asks(job[p].repo, job[p].todo) = Registry!Nothing
    BY IdleAsksNothing DEF Init
  <2> QED BY <2>2, <2>3 DEF Asked, Registry!Init
<1>2. StoreInv /\ AskedInv' /\ [Next]_vars => [Registry!Next]_Registry!vars
  <2> SUFFICES ASSUME StoreInv, AskedInv', [Next]_vars
               PROVE  Registry!Next \/ UNCHANGED Registry!vars
    OBVIOUS
  <2>1. CASE UNCHANGED vars
    BY <2>1 DEF vars, disk, Registry!vars, Named, Stored, Asked
  <2>2. ASSUME NEW p \in Process, Step(p) PROVE Registry!Next
    BY <2>2, PlainRefines, TagRefines, UntagRefines DEF Step
  <2> QED BY <2>1, <2>2, CallRefines, StopRefines DEF Next
<1> QED BY <1>1, <1>2, StoreAlways, AskedType, PTL DEF Spec, Implements, Registry!Spec
=============================================================================
