----------------------------- MODULE SearchPages -----------------------------
(***************************************************************************)
(* A client reads all hits of a search page by page while documents are    *)
(* written (src/internal/engine/searchexec.go, sort.go, search.go): by     *)
(* from and size, by search_after, by a scroll, over the live indices or a *)
(* point in time, whole or slice by slice; and it reads the buckets of a   *)
(* composite aggregation by their after key (aggs_composite.go).           *)
(*                                                                         *)
(* A search is one action, since it holds c.mu; writes come between. The   *)
(* query matches every document and no shard fails. A document is its sort *)
(* value and its sequence number; leases and mutexes are in Cursors and    *)
(* CopyOnWrite.                                                            *)
(***************************************************************************)
EXTENDS Integers, Sequences, FiniteSets, SequencesExt, Functions

CONSTANTS
    Index, IndexOrder,    \* names and their place in the alphabet
    Id, Value,            \* of documents; both \subseteq Nat
    Missing,              \* a document without a value
    NoTuple,              \* no search_after
    Requests,             \* what the client may ask for: see SearchRequest
    ShardCounts,
    ShardHash,            \* [Id -> Nat]: murmur3 of the routing
    RoutingFactor,        \* routing shards of a shard
    SliceHash,            \* [Id -> Nat]: murmur3 of the slice's field
    Coarse(_),            \* the float64 of a value; search_after compares these
    Loads,                \* the documents an index may start with: sequences of [id, value]
    MaxWrites             \* bound on the writes after that

VARIABLES
    numShards,            \* of every index
    docs,                 \* [Index -> partial function Id -> [value, seqNo]]
    seqNo,                \* [Index -> the next sequence number]
    writes,               \* how many there were
    request,              \* what the client asks for, or NoTuple before it starts
    view,                 \* the documents of the point in time
    slice,                \* the slice it reads
    place,                \* where it is: an offset, a tuple or the scroll's remaining hits
    got,                  \* the pages it got, joined
    written               \* the documents written since it started

pageVars == <<numShards, docs, seqNo, writes, request, view, slice, place, got, written>>

\* how: "from", "after", "scroll" or "composite"; max: slices, 0 for none
SearchRequest ==
    [how : {"from", "after", "scroll", "composite"}, pit : BOOLEAN, size : Nat \ {0}, max : Nat,
     collapse : BOOLEAN, sort : Seq([field : {"value", "_shard_doc", "_id"}, desc : BOOLEAN,
                                     missing : {"_first", "_last", "default"}])]

\* the requests that searchRequestChecks and checkShard let through, but no
\* composite aggregation over slices
Valid(r) ==
    /\ \A n \in DOMAIN r.sort : r.sort[n].field = "_shard_doc" => r.pit
    /\ r.how = "scroll" => ~r.pit /\ ~r.collapse
    /\ r.max > 0 => (r.pit \/ r.how = "scroll") /\ r.max # 1
    /\ r.how = "after" /\ r.collapse => Len(r.sort) = 1 /\ r.sort[1].field = "value"
    /\ r.how = "composite" => Len(r.sort) = 1 /\ r.sort[1].field = "value" /\ ~r.collapse /\ r.max = 0

Key == Int \union {Missing}

Hit == [index : Index, id : Id, value : Value \union {Missing}, seqNo : Nat, shard : Nat]

ASSUME SearchAssumption ==
    /\ \A r \in Requests : r \in SearchRequest /\ Valid(r)
    /\ ShardCounts \subseteq Nat \ {0} /\ RoutingFactor \in Nat \ {0}
    /\ Id \subseteq Nat /\ Value \subseteq Nat /\ IsFiniteSet(Id) /\ IsFiniteSet(Index)
    /\ ShardHash \in [Id -> Nat] /\ SliceHash \in [Id -> Nat]
    /\ IndexOrder \in [Index -> Nat] /\ IsInjective(IndexOrder)
    /\ Loads \subseteq Seq([id : Id, value : Value \union {Missing}])
    /\ Missing \notin Int
    /\ NoTuple \notin Int \union {Missing} \union Requests \union Seq(Key) \union Seq(Hit)
    /\ \A v \in Value : Coarse(v) \in Int
    /\ \A v, w \in Value : v <= w => Coarse(v) <= Coarse(w)

----------------------------------------------------------------------------
(* Hits and their order *)

\* the members of S in the order of R, each after as many as are less
InOrder(S, R) ==
    [n \in 1..Cardinality(S) |-> CHOOSE x \in S : Cardinality({y \in S : <<y, x>> \in R}) = n - 1]

\* the entries of s at the positions in I
Picked(s, I) ==
    LET at == InOrder(I, {x \in I \X I : x[1] < x[2]})
    IN [n \in DOMAIN at |-> s[at[n]]]

shardOf(id, shards) == (ShardHash[id] % (shards * RoutingFactor)) \div RoutingFactor

Hits(d, shards) ==
    UNION {{[index |-> i, id |-> id, value |-> d[i][id].value, seqNo |-> d[i][id].seqNo,
             shard |-> shardOf(id, shards)] : id \in DOMAIN d[i]} : i \in Index}

\* a document's shard, and its place among the shard's documents by sequence
\* number: the same numbers in every index
shardDocOrdinal(h, all) ==
    LET before == {o \in all : o.index = h.index /\ o.shard = h.shard /\ o.seqNo < h.seqNo}
    IN h.shard * (Cardinality(Id) + 1) + Cardinality(before)

SortKey(h, s, all) ==
    CASE s.field = "value" -> h.value
      [] s.field = "_shard_doc" -> shardDocOrdinal(h, all)
      [] s.field = "_id" -> h.id

Tuple(h, sort, all) == [k \in DOMAIN sort |-> SortKey(h, sort[k], all)]

\* a missing value goes last unless the sort says otherwise
keyLess(a, b, s, missingFirst) ==
    IF a = Missing \/ b = Missing THEN a # b /\ (a = Missing <=> missingFirst)
    ELSE IF s.desc THEN b < a ELSE a < b

compareKeysLess(a, b, s) == keyLess(a, b, s, s.missing = "_first")

TupleLess(t, u, sort) ==
    \E k \in DOMAIN sort : /\ compareKeysLess(t[k], u[k], sort[k])
                           /\ \A j \in 1..(k - 1) : t[j] = u[j]

CollectedLess(g, h) ==
    \/ IndexOrder[g.index] < IndexOrder[h.index]
    \/ g.index = h.index /\ g.seqNo < h.seqNo

\* ties go by index and sequence number
compareHitsLess(g, h, sort, all) ==
    \/ TupleLess(Tuple(g, sort, all), Tuple(h, sort, all), sort)
    \/ Tuple(g, sort, all) = Tuple(h, sort, all) /\ CollectedLess(g, h)

\* sortHits
Sorted(hits, sort, all) == InOrder(hits, {x \in hits \X hits : compareHitsLess(x[1], x[2], sort, all)})

----------------------------------------------------------------------------
(* The first hits by a heap *)

Swap(s, i, j) == [s EXCEPT ![i] = s[j], ![j] = s[i]]

\* a hit that is worse than its parent goes up
Raised(s, sort, all) ==
    IF s.at = 1 \/ ~compareHitsLess(s.heap[s.at \div 2], s.heap[s.at], sort, all) THEN s
    ELSE [heap |-> Swap(s.heap, s.at, s.at \div 2), at |-> s.at \div 2]

SiftUp(heap, i, sort, all) ==
    LET sifted[n \in 0..i] == IF n = 0 THEN [heap |-> heap, at |-> i] ELSE Raised(sifted[n - 1], sort, all)
    IN sifted[i].heap

\* a hit that is better than a child changes places with the worse one
Lowered(s, sort, all) ==
    LET here == {s.at, 2 * s.at, 2 * s.at + 1} \intersect DOMAIN s.heap
        worst == CHOOSE m \in here : \A n \in here :
                    n = m \/ compareHitsLess(s.heap[n], s.heap[m], sort, all)
    IN [heap |-> Swap(s.heap, s.at, worst), at |-> worst]

SiftDown(heap, sort, all) ==
    LET sifted[n \in 0..Len(heap)] == IF n = 0 THEN [heap |-> heap, at |-> 1] ELSE Lowered(sifted[n - 1], sort, all)
    IN sifted[Len(heap)].heap

\* mutant: a new hit stays at the root
HeapReplace(heap, h, k, sort, all) ==
    IF Len(heap) < k THEN SiftUp(Append(heap, h), Len(heap) + 1, sort, all)
    ELSE IF ~compareHitsLess(h, heap[1], sort, all) THEN heap
    ELSE [heap EXCEPT ![1] = h]

\* the k best hits seen so far, the worst of them at the root
HeapPut(heap, h, k, sort, all) ==
    IF Len(heap) < k THEN SiftUp(Append(heap, h), Len(heap) + 1, sort, all)
    ELSE IF ~compareHitsLess(h, heap[1], sort, all) THEN heap
    ELSE SiftDown([heap EXCEPT ![1] = h], sort, all)

topHits(hits, k, sort, all) ==
    LET heap[n \in 0..Len(hits)] == IF n = 0 THEN <<>> ELSE HeapPut(heap[n - 1], hits[n], k, sort, all)
    IN Sorted(Range(heap[Len(hits)]), sort, all)

\* matches are collected in index order
Collected(all) == InOrder(all, {x \in all \X all : CollectedLess(x[1], x[2])})

\* the prefix that a page needs, then the other hits in no particular order
sortHitsBounded(all, sort, limit) ==
    IF limit >= Cardinality(all) THEN Sorted(all, sort, all)
    ELSE LET top == topHits(Collected(all), limit, sort, all)
         IN top \o SetToSeq(all \ Range(top))

----------------------------------------------------------------------------
(* Slices *)

\* mutant: as if the slices were spread evenly over the shards
EvenSelection(id, max, shards, shard) ==
    IF shards = 1 THEN [in |-> TRUE, id |-> id, max |-> max]
    ELSE IF max >= shards
    THEN LET slices == max \div shards
         IN [in |-> id % shards = shard, id |-> id \div shards, max |-> IF slices = 1 THEN 0 ELSE slices]
    ELSE [in |-> shard % max = id, id |-> 0, max |-> 0]

\* whether a shard takes part, and the slice of its documents (max 0: all)
sliceSelection(id, max, shards, shard) ==
    IF shards = 1 THEN [in |-> TRUE, id |-> id, max |-> max]
    ELSE IF max >= shards
    THEN LET target == id % shards
             extra == IF max % shards > target THEN 1 ELSE 0
             slices == max \div shards + extra
         IN [in |-> target = shard, id |-> id \div shards, max |-> IF slices = 1 THEN 0 ELSE slices]
    ELSE [in |-> shard % max = id, id |-> 0, max |-> 0]

sliceContains(h, id, max, shards) ==
    LET sel == sliceSelection(id, max, shards, h.shard)
    IN sel.in /\ (sel.max = 0 \/ SliceHash[h.id] % sel.max = sel.id)

----------------------------------------------------------------------------
(* What a search returns *)

\* the first hit of each value
collapseHits(hits) ==
    Picked(hits, {n \in DOMAIN hits : \A m \in 1..(n - 1) : hits[m].value # hits[n].value})

\* the hits of a slice, in the order they have
Sliced(hits, r, id, shards) ==
    IF r.max = 0 THEN hits ELSE Picked(hits, {n \in DOMAIN hits : sliceContains(hits[n], id, r.max, shards)})

\* the hits that pages are cut from, of which a plain page needs the first
\* limit ones only
Found(r, id, shards, all, limit) ==
    IF r.collapse THEN collapseHits(Sliced(Sorted(all, r.sort, all), r, id, shards))
    ELSE IF r.max = 0 THEN sortHitsBounded(all, r.sort, limit)
    ELSE Sliced(Sorted(all, r.sort, all), r, id, shards)

\* search_after values go through a float64
Rounded(t, sort) ==
    [k \in DOMAIN sort |-> IF sort[k].field = "value" /\ t[k] # Missing THEN Coarse(t[k]) ELSE t[k]]

\* the hits after a tuple
FoundAfter(r, id, shards, all, after) ==
    IF after = NoTuple THEN Found(r, id, shards, all, r.size)
    ELSE LET hits == Found(r, id, shards, all, Cardinality(all))
         IN Picked(hits, {n \in DOMAIN hits : TupleLess(after, Rounded(Tuple(hits[n], r.sort, all), r.sort), r.sort)})

\* missing buckets come first in ascending order unless the source says otherwise
compositeLess(a, b, s) == keyLess(a, b, s, s.missing = "_first" \/ (s.missing = "default" /\ ~s.desc))

BucketsAfter(s, all, after) ==
    LET values == {v \in {h.value : h \in all} : after = NoTuple \/ compositeLess(after[1], v, s)}
        ordered == InOrder(values, {x \in values \X values : compositeLess(x[1], x[2], s)})
    IN [n \in DOMAIN ordered |-> [value |-> ordered[n], count |-> Cardinality({h \in all : h.value = ordered[n]})]]

Take(s, n) == SubSeq(s, 1, IF n < Len(s) THEN n ELSE Len(s))

Drop(s, n) == SubSeq(s, n + 1, Len(s))

----------------------------------------------------------------------------
(* The client and the writers *)

Loaded(load) ==
    [docs |-> [id \in {load[n].id : n \in DOMAIN load} |->
                 LET n == CHOOSE m \in DOMAIN load : load[m].id = id IN [value |-> load[n].value, seqNo |-> n - 1]],
     seqNo |-> Len(load)]

PagesInit ==
    /\ numShards \in ShardCounts
    /\ \E load \in [Index -> Loads] :
         /\ docs = [i \in Index |-> Loaded(load[i]).docs]
         /\ seqNo = [i \in Index |-> Loaded(load[i]).seqNo]
    /\ writes = 0
    /\ request = NoTuple
    /\ view = [i \in Index |-> <<>>]
    /\ slice = 0
    /\ place = NoTuple
    /\ got = <<>>
    /\ written = {}

\* a write, or a delete when the value is NoTuple; those before the client
\* starts are in Loads
Write(i, id, value) ==
    /\ request # NoTuple
    /\ writes < MaxWrites
    /\ value = NoTuple => id \in DOMAIN docs[i]
    /\ docs' = [docs EXCEPT ![i] =
                  [x \in IF value = NoTuple THEN DOMAIN docs[i] \ {id} ELSE DOMAIN docs[i] \union {id} |->
                    IF x = id THEN [value |-> value, seqNo |-> seqNo[i]] ELSE docs[i][x]]]
    /\ seqNo' = [seqNo EXCEPT ![i] = @ + 1]
    /\ writes' = writes + 1
    /\ written' = written \union {<<i, id>>}
    /\ UNCHANGED <<numShards, request, view, slice, place, got>>

Slices == IF request.max = 0 THEN 1 ELSE request.max

Reading(how) == request # NoTuple /\ request.how = how /\ slice < Slices

Searched == IF request.pit THEN view ELSE docs

All == Hits(Searched, numShards)

\* the point in time is opened with the first request
Start(r) ==
    /\ request = NoTuple
    /\ request' = r
    /\ view' = IF r.pit THEN docs ELSE view
    /\ written' = {}
    /\ UNCHANGED <<numShards, docs, seqNo, writes, slice, place, got>>

\* an empty page ends a slice
Got(page, next) ==
    /\ got' = got \o page
    /\ slice' = IF page = <<>> THEN slice + 1 ELSE slice
    /\ place' = IF page = <<>> THEN NoTuple ELSE next
    /\ UNCHANGED <<numShards, docs, seqNo, writes, request, view, written>>

PageFrom ==
    /\ Reading("from")
    /\ LET from == IF place = NoTuple THEN 0 ELSE place
           hits == Found(request, slice, numShards, All, from + request.size)
       IN Got(Take(Drop(hits, from), request.size), from + request.size)

PageAfter ==
    /\ Reading("after")
    /\ LET page == Take(FoundAfter(request, slice, numShards, All, place), request.size)
       IN Got(page, Rounded(Tuple(page[Len(page)], request.sort, All), request.sort))

\* the first page is the search's, the hits after it are kept
ScrollPage ==
    /\ Reading("scroll")
    /\ LET hits == IF place = NoTuple THEN Found(request, slice, numShards, All, Cardinality(All)) ELSE place
       IN Got(Take(hits, request.size), Drop(hits, request.size))

CompositePage ==
    /\ Reading("composite")
    /\ LET page == Take(BucketsAfter(request.sort[1], All, place), request.size)
       IN Got(page, <<page[Len(page)].value>>)

Finish ==
    /\ request # NoTuple
    /\ slice = Slices
    /\ request' = NoTuple
    /\ view' = [i \in Index |-> <<>>]
    /\ slice' = 0
    /\ got' = <<>>
    /\ UNCHANGED <<numShards, docs, seqNo, writes, place, written>>

PagesNext ==
    \/ \E i \in Index, id \in Id, value \in Value \union {Missing, NoTuple} : Write(i, id, value)
    \/ \E r \in Requests : Start(r)
    \/ PageFrom
    \/ PageAfter
    \/ ScrollPage
    \/ CompositePage
    \/ Finish

PagesSpec == PagesInit /\ [][PagesNext]_pageVars

----------------------------------------------------------------------------
(* Properties *)

Finished == request # NoTuple /\ slice = Slices

\* the hits that nobody wrote while the client read: those of a point in time,
\* and those of the live indices that stayed as they were
Steady == IF request.pit THEN All ELSE {h \in All : <<h.index, h.id>> \notin written}

\* pages by offset and collapsed hits are only asked of a point in time
Covered == request.how = "from" \/ request.collapse => request.pit

\* a float64 tells the values of two hits apart
FloatsDiffer(g, h, sort, all) ==
    LET t == Tuple(g, sort, all)
        u == Tuple(h, sort, all)
    IN \A k \in DOMAIN sort : Rounded(t, sort)[k] = Rounded(u, sort)[k] => t[k] = u[k]

\* search_after tells the values of this hit from those that were returned
Exact(h, r, all, returned) ==
    r.how = "after" => \A g \in Range(returned) : FloatsDiffer(g, h, r.sort, all)

\* and the sort tells the hits apart
ToldApart(h, r, all, returned) ==
    /\ Exact(h, r, all, returned)
    /\ r.how = "after" => \A g \in Range(returned) \ {h} : Tuple(g, r.sort, all) # Tuple(h, r.sort, all)

\* the hits that stand for their value when hits are collapsed
Heads(hits, r, all) ==
    IF ~r.collapse THEN hits
    ELSE {h \in hits : \A g \in hits : g.value = h.value => g = h \/ compareHitsLess(h, g, r.sort, all)}

Holds(r, h, x) == IF r.how = "composite" THEN x.value = h.value ELSE x = h

(* A client that reads until the pages end has every hit that stayed as it *)
(* was exactly once, or its bucket: by offsets, search_after or slices of  *)
(* a point in time whatever is written meanwhile, and by scrolls,          *)
(* search_after or after keys over the live indices. search_after needs a  *)
(* sort that tells the hits apart, which _shard_doc does in one index      *)
(* only, and values that a float64 tells apart, also when the sort breaks  *)
(* ties (runSearch, normalizeSearchAfter).                                 *)
ReadExactlyOnce ==
    Finished /\ Covered /\ (request.max = 0 \/ ~request.collapse) =>
        \A h \in Heads(Steady, request, All) :
            ToldApart(h, request, All, got) => Cardinality({n \in DOMAIN got : Holds(request, h, got[n])}) = 1

\* two entries of what the client got are not the wrong way round
InSequence(x, y, r, all, returned) ==
    IF r.how = "composite" THEN compositeLess(x.value, y.value, r.sort[1])
    ELSE Exact(x, r, all, returned) => ~TupleLess(Tuple(y, r.sort, all), Tuple(x, r.sort, all), r.sort)

(* Pages come in the order of the sort, also where only a heap of the      *)
(* first hits was sorted, and where hits are written between two pages     *)
(* (sortHitsBounded, topHits, compareTuples). With search_after a hit may  *)
(* come late when a float64 does not tell its values from those of another *)
(* one: what ties them apart is then compared first.                       *)
PagesInOrder ==
    request # NoTuple /\ request.max = 0 /\ Covered =>
        \A m, n \in DOMAIN got : m < n => InSequence(got[m], got[n], request, All, got)
=============================================================================
