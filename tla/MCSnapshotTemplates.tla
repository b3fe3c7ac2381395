------------------------- MODULE MCSnapshotTemplates -------------------------
(* Instances of SnapshotTemplates for TLC. *)
EXTENDS SnapshotTemplates, TLC

CONSTANTS p1, p2, p3, o1, o2, o3, v1, v2

Symmetry ==
  Permutations({p1, p2, p3}) \cup Permutations({o1, o2, o3}) \cup Permutations({v1, v2})
=============================================================================
