--------------------------- MODULE MCConstructor ---------------------------
(***************************************************************************)
(* Components p, q and r to construct, x and y published; p refers to q    *)
(* and x, q and r to x, and x to y.  q and x hold local resources.  Other  *)
(* clients write q and x; x is also specified, against what is published.  *)
(***************************************************************************)
EXTENDS Constructor, TLC

CONSTANTS p, q, r, x, y

Y == [content |-> "1", refs |-> << >>]
X == [content |-> "1", refs |-> y :> Y]
Outside == x :> X @@ y :> Y

Q(v) == [content |-> v, refs |-> x :> None]
P(pin) == [content |-> "1", refs |-> q :> pin @@ x :> None]

\* q alone, then changed, with r, and with p, which gives the digest of the
\* first q or none; p alone takes q from the target.
Specifications ==
  {q :> Q("1"), q :> Q("2") @@ p :> P(None),
   q :> Q("2") @@ p :> P([content |-> "1", refs |-> x :> X]), p :> P(None),
   x :> [content |-> "2", refs |-> << >>] @@ q :> Q("2") @@ r :> Q("1")}

Foreign == q :> {Q("3")} @@ x :> {[content |-> "3", refs |-> << >>]} @@ [c \in Component |-> {}]

Resources == [c \in Component |-> IF c \in {q, x} THEN {1} ELSE {}]
=============================================================================
