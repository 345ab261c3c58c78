---------------------------- MODULE TagRegistry ----------------------------
(***************************************************************************)
(* What an archive promises to those who keep component versions in it:    *)
(* content stays, and in each repository a name stands for one artifact,   *)
(* all of which is there.  A call that gives a name or takes one away      *)
(* does so at one moment, only for what it was asked, or not at all,       *)
(* however many files it writes and wherever it is stopped.                *)
(***************************************************************************)
CONSTANTS
  Repo, Process, Name,
  Content,            \* what is stored
  Parts,              \* of each artifact that may have a name, what it consists of
  None

VARIABLES
  tags,               \* of each repository and name: its artifact, or None
  content,            \* what is there
  asked               \* of each process: the name it is to give or to take away

vars == <<tags, content, asked>>

Artifact == DOMAIN Parts
Request  == [repo : Repo, name : Name, artifact : Artifact \cup {None}]
Nothing  == [repo |-> None, name |-> None, artifact |-> None]

Init ==
  /\ tags = [r \in Repo |-> [n \in Name |-> None]]
  /\ content = {} /\ asked = [p \in Process |-> Nothing]

\* A call begins that is to give the name to an artifact, or to take it away.
Ask(p) ==
  /\ asked[p] = Nothing
  /\ \E q \in Request : asked' = [asked EXCEPT ![p] = q]
  /\ UNCHANGED <<tags, content>>

\* Anything may be stored at any time, and is there from then on.
Grows == content \subseteq content' /\ content' \subseteq Content
Store == Grows /\ UNCHANGED <<tags, asked>>

Done(p) == asked' = [asked EXCEPT ![p] = Nothing] /\ UNCHANGED content

Give(p) ==
  /\ asked[p] \in Request /\ asked[p].artifact # None
  /\ Parts[asked[p].artifact] \subseteq content
  /\ tags' = [tags EXCEPT ![asked[p].repo][asked[p].name] = asked[p].artifact]
  /\ Done(p)

TakeAway(p) ==
  /\ asked[p] \in Request /\ asked[p].artifact = None
  /\ tags' = [tags EXCEPT ![asked[p].repo][asked[p].name] = None]
  /\ Done(p)

\* Calls end without effect on any name: they fail or are stopped.  So does one
\* that was to take a name away which the archive lists twice.
Abandon(P) ==
  /\ asked' = [p \in Process |-> IF p \in P THEN Nothing ELSE asked[p]]
  /\ Grows /\ UNCHANGED tags

Next ==
  \/ \E p \in Process : Ask(p) \/ Give(p) \/ TakeAway(p)
  \/ Store
  \/ \E P \in SUBSET Process : Abandon(P)

Spec == Init /\ [][Next]_vars
=============================================================================
