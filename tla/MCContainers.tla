----------------------------- MODULE MCContainers -----------------------------
(* Small instances of Containers: two recipients of one size of ML-KEM slot,  *)
(* so that a key may be tried on what was encapsulated to the other, and one  *)
(* of the other size; texts of up to three chunks and every declared size     *)
(* around their length.                                                       *)
EXTENDS Containers

CONSTANTS k1, k2, k3
ThreeKeys == {k1, k2, k3}
Variants  == k1 :> "768" @@ k2 :> "1024" @@ k3 :> "768"
Symmetry  == Permutations({k1, k3})
=============================================================================
