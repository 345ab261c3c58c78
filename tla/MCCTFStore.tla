----------------------------- MODULE MCCTFStore -----------------------------
(* An archive with two components that have one signed image, each in two     *)
(* versions, one of which is published with two contents; the versions of A    *)
(* refer to the well-known manifest, those of B do not.                        *)
EXTENDS CTFStore, TLC

CONSTANTS A, B, p1, p2, img, sig, ownA, ownB, a1, a2, a3, b1, b2, ix, la, lb, latest

MCManifest == {img, sig, ownA, ownB, a1, a2, a3, b1, b2, ix}
MCSubject  == (sig :> img) @@ (ownA :> img) @@ (ownB :> img) @@ (a1 :> ix) @@ (a2 :> ix) @@ (a3 :> ix)
              @@ [m \in MCManifest |-> NoSubject]
MCLayers   == (a1 :> {la}) @@ (b1 :> {lb}) @@ [m \in MCManifest |-> {}]
MCVersions == (A :> {a1, a2, a3}) @@ (B :> {b1, b2})
MCVersionOf == [m \in {a3, b2} |-> "v2"] @@ [m \in {a1, a2, b1} |-> "v1"]
MCLocals   == (a2 :> {img}) @@ [m \in MCManifest |-> {}]
MCAttached == img :> {sig}
MCOwnership == (A :> (img :> ownA)) @@ (B :> (img :> ownB))
Processes  == Permutations(Process)
=============================================================================
