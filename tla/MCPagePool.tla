----------------------------- MODULE MCPagePool -----------------------------
(* Instances of PagePool for TLC. *)
EXTENDS PagePool, TLC

CONSTANTS v1, v2, f1, f2, e1, e2

(* Two templates that share one hash; page 1 of v1's repeats it. *)
Shared == v1 :> (0 :> 1 @@ 1 :> 1) @@ v2 :> (0 :> 1 @@ 1 :> 2)

Symmetry == Permutations({f1, f2}) \cup Permutations({e1, e2})
=============================================================================
