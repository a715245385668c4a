--------------------------- MODULE MCScrollContexts ---------------------------
(* Small instances of ScrollContexts. *)
EXTENDS ScrollContexts, TLC

CONSTANTS c1, c2, n1, o1, o2, o3, o4, o5, p1, r1, s1, s2, empty, written

Symmetric == Permutations(Obj) \cup Permutations(Cluster) \cup Permutations(Scroll)
=============================================================================
