--------------------------- MODULE MCManagedClones ---------------------------
(* Small instances of ManagedClones. *)
EXTENDS ManagedClones, TLC

CONSTANTS r1, r2, k1, k2, k3

Symmetric == Permutations(Request) \cup Permutations(Clone)

Search == [method |-> "POST", path |-> <<"items", "_search">>, api |-> 2, writes |-> FALSE]
PutDoc == [method |-> "PUT", path |-> <<"items", "_doc", "one">>, api |-> 2, writes |-> TRUE]

\* an alias and a document with the names of reading APIs: the first is known
\* to be a write, the second is not
PutAlias == [method |-> "PUT", path |-> <<"items", "_alias", "_count">>, api |-> 2, writes |-> TRUE]
PutOddDoc == [method |-> "PUT", path |-> <<"items", "_doc", "_refresh">>, api |-> 2, writes |-> TRUE]

Routes == {Search, PutDoc, PutAlias, PutOddDoc}
=============================================================================
