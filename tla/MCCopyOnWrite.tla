---------------------------- MODULE MCCopyOnWrite ----------------------------
(* Small instances of CopyOnWrite. *)
EXTENDS CopyOnWrite, TLC

CONSTANTS c1, c2, n1, n2, o1, o2, o3, o4, o5, p1, r1, empty, written

Symmetric == Permutations(Obj) \cup Permutations(Cluster)
=============================================================================
