------------------------------ MODULE MCPaging ------------------------------
(* Small instances of the two models of reading page by page: the contexts  *)
(* that requests keep (Cursors) and the pages a client is given             *)
(* (SearchPages).  They share no variable, and one run checks both: in each *)
(* behaviour only one of them moves.                                        *)
EXTENDS Cursors, SearchPages, TLC

CONSTANTS r1, r2, i, j

MCKeepAlives == {-1, 1, 2}
Symmetric == Permutations(Request)

MCId == 1..3
MCValue == 0..2
MCIndexOrder == (i :> 1) @@ (j :> 2)

\* the values 1 and 2 are one float64
MCCoarse(v) == (v + 1) \div 2

MCShardHash == <<1, 6, 15>>
MCSliceHash == <<0, 3, 2>>

D(id, value) == [id |-> id, value |-> value]
MCLoads == {<<>>, <<D(3, 0), D(1, 2), D(2, 0)>>, <<D(1, 1), D(2, 0), D(3, Missing)>>}

S(field, desc, missing) == [field |-> field, desc |-> desc, missing |-> missing]
R(how, pit, size, max, collapse, sort) ==
    [how |-> how, pit |-> pit, size |-> size, max |-> max, collapse |-> collapse, sort |-> sort]

Up == S("value", FALSE, "default")
Down == S("value", TRUE, "_first")
Tied == <<Up, S("_id", FALSE, "default")>>

MCRequests ==
    {R("from", TRUE, 2, 0, FALSE, <<Down>>), R("from", TRUE, 1, 0, TRUE, <<S("_id", TRUE, "default")>>),
     R("from", TRUE, 3, 3, FALSE, <<>>),
     R("after", TRUE, 2, 0, FALSE, <<S("_shard_doc", FALSE, "default")>>), R("after", TRUE, 1, 0, TRUE, <<Down>>),
     R("after", TRUE, 2, 4, FALSE, <<S("_id", FALSE, "default")>>), R("after", FALSE, 2, 0, FALSE, Tied)}
    \union {R("scroll", FALSE, 2, max, FALSE, <<Up>>) : max \in {0, 2, 5}}
    \union {R("composite", pit, 1, 0, FALSE, <<s>>) : pit \in BOOLEAN, s \in {Up, Down, S("value", TRUE, "default")}}

\* no client reads pages, and the indices are empty
NoReader == request = NoTuple /\ numShards = 1 /\ \A x \in Index : docs[x] = <<>>

\* no context was opened, and the clock has not moved
NoContext == now = 0 /\ counter = 0 /\ \A r \in Request : pending[r] = None

PagingNext ==
    \/ NoReader /\ Next /\ UNCHANGED pageVars
    \/ NoContext /\ PagesNext /\ UNCHANGED vars

PagingInit == Init /\ PagesInit

PagingSpec == PagingInit /\ [][PagingNext]_<<vars, pageVars>>
=============================================================================
