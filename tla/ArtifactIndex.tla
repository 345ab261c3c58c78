--------------------------- MODULE ArtifactIndex ---------------------------
(***************************************************************************)
(* The artifact index of a CTF archive (ctf/index/v1/index.go): the list   *)
(* of its artifacts, each of a repository, with a tag or without, known by *)
(* its digest.  What a reference names is decided by the first entry that  *)
(* matches, so the order of the list and its duplicates matter.            *)
(***************************************************************************)
EXTENDS Integers, Sequences

Untagged == <<"none">>

Entry(r, t, d) == [repo |-> r, tag |-> t, digest |-> d]

First(S) == CHOOSE i \in S : \A j \in S : i <= j

Duplicates(idx, a) == {i \in DOMAIN idx : idx[i] = a}

\* mutant of Visited: entries of other repositories are looked at too
VisitedAnyRepo(idx, a) == {i \in DOMAIN idx : \A j \in Duplicates(idx, a) : i < j}

\* The loop of AddArtifact looks at the entries of a's repository and ends at
\* the first duplicate of a.
Visited(idx, a) == {i \in DOMAIN idx : /\ idx[i].repo = a.repo
                                       /\ \A j \in Duplicates(idx, a) : i < j}

\* mutant of Outdated: a tag is not taken from what held it
KeepsOldTag(idx, a) == {}

\* The visited entries that hold a's tag for another digest, and the untagged
\* ones of a's digest.
Outdated(idx, a) == {i \in Visited(idx, a) : a.tag # Untagged /\ idx[i].tag = a.tag}
Waiting(idx, a)  == {i \in Visited(idx, a) : /\ a.tag # Untagged /\ idx[i].tag = Untagged
                                             /\ idx[i].digest = a.digest}

Retag(idx, a) == [i \in DOMAIN idx |-> [idx[i] EXCEPT !.tag =
                    IF i \in Outdated(idx, a) THEN Untagged
                    ELSE IF i \in Waiting(idx, a) THEN a.tag ELSE @]]

AddArtifact(idx, a) ==
  IF Duplicates(idx, a) = {} /\ Waiting(idx, a) = {}
  THEN Append(Retag(idx, a), a)
  ELSE Retag(idx, a)

Holders(idx, r, t) == {i \in DOMAIN idx : idx[i].repo = r /\ idx[i].tag = t}

\* RemoveTag deletes the first entry that holds the tag.
RemoveTag(idx, r, t) ==
  IF Holders(idx, r, t) = {} THEN idx
  ELSE LET k == First(Holders(idx, r, t))
       IN [i \in 1 .. Len(idx) - 1 |-> IF i < k THEN idx[i] ELSE idx[i + 1]]

\* The entries a reference may mean: resolve in oci/ctf/store.go takes the first.
Matches(idx, r, ref) == {i \in DOMAIN idx : idx[i].repo = r /\ (idx[i].tag = ref \/ idx[i].digest = ref)}

\* What a tag of a repository stands for.
TagOf(idx, r, t) == {idx[i].digest : i \in Holders(idx, r, t)}
=============================================================================
