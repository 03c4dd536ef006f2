----------------------------- MODULE MCWorklist -----------------------------
(* Instances of Worklist for TLC. *)
EXTENDS Worklist, TLC

CONSTANTS v1, v2, k1, k2, k3

TwoVMs == k1 :> v1 @@ k2 :> v1 @@ k3 :> v2
OneKeyEach == k1 :> v1 @@ k3 :> v2

Symmetry == Permutations({k1, k2})
=============================================================================
