----------------------------- MODULE MCDocWrites -----------------------------
(* Instance of DocWrites for TLC. *)
EXTENDS DocWrites, TLC

\* Documents, shards and clients are interchangeable.
Symmetry == Permutations(Id) \cup Permutations(Shard)
=============================================================================
