----------------------------- MODULE MCTombstones -----------------------------
(* Small instances of Tombstones. *)
EXTENDS Tombstones, TLC

CONSTANTS c1, c2, c3, i1, i2, o1, o2, o3, o4

Symmetric == Permutations(Obj) \cup Permutations(Cluster)
=============================================================================
