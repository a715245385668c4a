------------------------------ MODULE ByQuery ------------------------------
(***************************************************************************)
(* Delete by query, update by query and reindex: a request finds its hits  *)
(* and applies itself to them in slices and batches, counting what         *)
(* happened; the outcome of a request that does not wait is stored as a    *)
(* task.  (engine/byquery.go)                                              *)
(*                                                                         *)
(* A request holds c.mu from its search to its end, so that requests do    *)
(* not interleave; its steps are separate actions because they may fail    *)
(* one by one.  What applying a request to one document does to the        *)
(* versions and the tombstones is in DocWrites.                            *)
(***************************************************************************)
EXTENDS Integers, Sequences, FiniteSets, SequencesExt, FiniteSetsExt

CONSTANTS
    Id,             \* document ids: integers, which stand for their signed hash
    Source,         \* the indices that are read
    Shards,         \* the smallest number_of_shards of the sources
    Kinds,          \* the kinds of requests that are tried
    MaxDocs,        \* the values of max_docs (-1: all)
    BatchSizes,     \* the values of scroll_size (0: the default)
    Slices,         \* the values of slices (0: auto)
    DefaultBatch,   \* 1000 in the code
    MaxTaskResults, \* maxBulkByScrollTaskResults, 1024 in the code
    MaxRequests,    \* bound: requests that are run
    MaxHits,        \* bound: hits of a request
    Own,            \* what the destination had before
    None

ASSUME ByQueryAssumption ==
    /\ Id \subseteq Int /\ IsFiniteSet(Id) /\ IsFiniteSet(Source)
    /\ Shards \in Nat \ {0}
    /\ DefaultBatch \in Nat \ {0}
    /\ BatchSizes \subseteq Nat
    /\ Slices \subseteq Nat
    /\ MaxDocs \subseteq Nat \union {-1}
    /\ MaxTaskResults \in Nat \ {0}

VARIABLES
                \* what a request reads and writes, from its search to its
                \* response; what other requests do before and after is not
                \* looked at
    docs,       \* docs[s]: the ids of source index s
    dest,       \* dest[i]: where document i of the destination comes from:
                \* a source index, Own if it was there before, or None
    request,    \* the request that runs, or None
    parts,      \* the hits of each slice, in the order of the search
    worker,     \* the slice that is worked on
    start,      \* runWorker's start: the first hit of the next batch
    batch,      \* the hits of the batch that are left
    status,     \* status[w]: the counters of slice w
    failures,   \* failures[w]: the hits of slice w that failed
    applied,    \* the hits that were tried, in order (history)
    found,      \* what the search of the request found (history)
    requests,   \* the number of requests that were run
    results,    \* the ids of the stored task results
    order       \* the same, oldest first

progress == <<parts, worker, start, batch, status, failures, applied>>
vars == <<docs, dest, request, progress, found, requests, results, order>>

Hits == [index : Source, id : Id]
Requests ==
    [kind : Kinds, maxDocs : MaxDocs, batchSize : BatchSizes, slices : Slices,
     slice : {None} \union {<<0, 2>>, <<1, 2>>}, proceed : BOOLEAN]

ASSUME NoneAssumption == None \notin Requests

NoCounters == [done |-> 0, noops |-> 0, conflicts |-> 0]

(* The requests that are accepted (setMaxDocs, commonOptions, validate):   *)
(* max_docs is not below slices, and a manual slice excludes slices.       *)
Accepted ==
    {r \in Requests :
        /\ r.maxDocs = -1 \/ r.maxDocs >= r.slices
        /\ r.slice # None => r.slices = 1}

(* The number of workers, and what one of them may process at most. *)
Workers(r) == IF r.slices = 0 THEN Shards ELSE r.slices

WorkerMax(r) == IF r.maxDocs >= 0 /\ Workers(r) > 1 THEN r.maxDocs \div Workers(r) ELSE r.maxDocs

BatchSizeZero(r) == r.batchSize                       \* mutant: no default
BatchSize(r) == IF r.batchSize = 0 THEN DefaultBatch ELSE r.batchSize

(* The slice of a hit (sliceOf).  The remainder of a negative hash is      *)
(* negative in Go.                                                         *)
Remainder(n, max) == IF n >= 0 THEN n % max ELSE -((-n) % max)

SliceSigned(h, max) == Remainder(h.id, max)           \* mutant: the remainder as it is
SliceOf(h, max) ==
    LET m == Remainder(h.id, max)
    IN IF m < 0 THEN m + max ELSE m

(* The hits of a request by slice (executeByScroll): those of the manual   *)
(* slice, or one part for each worker.                                     *)
Sliced(r, hits) ==
    IF r.slice # None THEN <<{h \in hits : SliceOf(h, r.slice[2]) = r.slice[1]}>>
    ELSE [w \in 1..Workers(r) |-> {h \in hits : SliceOf(h, Workers(r)) = w - 1}]

(* They come in the order of the search, which may be any.                 *)
Parts(r, hits) ==
    LET s == Sliced(r, hits)
        orders == [w \in DOMAIN s |-> SetToSeqs(s[w])]
    IN {p \in [DOMAIN s -> UNION {orders[w] : w \in DOMAIN s}] : \A w \in DOMAIN s : p[w] \in orders[w]}

----------------------------------------------------------------------------
Init ==
    /\ docs = [s \in Source |-> Id]
    /\ dest = [i \in Id |-> None]
    /\ request = None
    /\ parts = <<>>
    /\ worker = 1
    /\ start = 1
    /\ batch = <<>>
    /\ status = <<>>
    /\ failures = <<>>
    /\ applied = <<>>
    /\ found = {}
    /\ requests = 0
    /\ results = {}
    /\ order = <<>>

(* A request begins: its search finds some of the documents, and the       *)
(* destination, which only op_type=create looks at, has some of them.      *)
Start ==
    /\ request = None
    /\ requests < MaxRequests
    /\ \E r \in Accepted, hits \in SUBSET Hits :
          /\ Cardinality(hits) <= MaxHits
          /\ request' = r
          /\ found' = hits
          /\ parts' \in Parts(r, hits)
          /\ dest' \in [Id -> IF r.kind = "create" THEN {None, Own} ELSE {None}]
    /\ status' = [w \in DOMAIN parts' |-> NoCounters]
    /\ failures' = [w \in DOMAIN parts' |-> <<>>]
    /\ requests' = requests + 1
    /\ UNCHANGED <<docs, worker, start, batch, applied, results, order>>

Working == request # None /\ worker \in DOMAIN parts

(* Whether the worker goes on to another batch (runWorker): not after its  *)
(* last hit, not once it processed enough, and not after a failure.        *)
GoesOnUnlessFull ==                                   \* mutant: failures do not end a worker
    /\ start <= Len(parts[worker])
    /\ WorkerMax(request) >= 0 => status[worker].done < WorkerMax(request)

GoesOn ==
    /\ start <= Len(parts[worker])
    /\ WorkerMax(request) >= 0 => status[worker].done < WorkerMax(request)
    /\ failures[worker] = <<>>

(* The next batch; it is cut to what is left of max_docs, and its whole    *)
(* window is passed over all the same.                                     *)
WindowWhole(window) == window                         \* mutant: the batch is not cut

Window(window) ==
    LET left == WorkerMax(request) - status[worker].done
    IN IF WorkerMax(request) >= 0 /\ left < Len(window) THEN SubSeq(window, 1, left) ELSE window

NextStartInclusive == start + BatchSize(request) - 1   \* mutant: off by one
NextStart == start + BatchSize(request)

StartBatch ==
    /\ Working
    /\ batch = <<>>
    /\ GoesOn
    /\ LET last == Min({start + BatchSize(request) - 1, Len(parts[worker])})
       IN batch' = Window(SubSeq(parts[worker], start, last))
    /\ start' = NextStart
    /\ UNCHANGED <<docs, dest, request, parts, worker, status, failures, applied, found, requests, results, order>>

EndWorker ==
    /\ Working
    /\ batch = <<>>
    /\ ~GoesOn
    /\ worker' = worker + 1
    /\ start' = 1
    /\ UNCHANGED <<docs, dest, request, parts, batch, status, failures, applied, found, requests, results, order>>

(* One hit is done with. *)
Tried(h) ==
    /\ batch' = Tail(batch)
    /\ applied' = Append(applied, h)
    /\ UNCHANGED <<request, parts, worker, start, found, requests, results, order>>

Count(field) == status' = [status EXCEPT ![worker][field] = @ + 1]

(* What the request does to the document of a hit. *)
Delete(h) ==
    /\ request.kind = "delete"
    /\ docs' = [docs EXCEPT ![h.index] = @ \ {h.id}]
    /\ Count("done")
    /\ UNCHANGED <<dest, failures>>

Update(h) ==
    /\ request.kind = "update"
    /\ Count(IF h.id \in docs[h.index] THEN "done" ELSE "noops")
    /\ UNCHANGED <<docs, dest, failures>>

Copy(h) ==
    /\ dest' = [dest EXCEPT ![h.id] = h.index]
    /\ Count("done")
    /\ UNCHANGED <<docs, failures>>

(* A version conflict is counted; it ends the worker like another failure  *)
(* unless the request says to proceed.                                     *)
Conflict(h) ==
    /\ Count("conflicts")
    /\ failures' = IF request.proceed THEN failures ELSE [failures EXCEPT ![worker] = Append(@, h)]
    /\ UNCHANGED <<docs, dest>>

Create(h) ==
    /\ request.kind = "create"
    /\ IF dest[h.id] = None THEN Copy(h) ELSE Conflict(h)

Reindex(h) == request.kind = "reindex" /\ Copy(h)

Fail(h) ==
    /\ failures' = [failures EXCEPT ![worker] = Append(@, h)]
    /\ UNCHANGED <<docs, dest, status>>

(* A hit succeeds, conflicts or fails (a closed index, a block, a mapping, *)
(* a copy that fails).                                                     *)
Apply ==
    /\ Working
    /\ batch # <<>>
    /\ LET h == Head(batch)
       IN /\ Delete(h) \/ Update(h) \/ Create(h) \/ Reindex(h) \/ Fail(h)
          /\ Tried(h)

(* The response; with wait_for_completion=false it is stored as a task, and *)
(* the oldest result is forgotten beyond the limit (asTask).               *)
Store(id) ==
    LET all == Append(order, id)
        full == Len(all) > MaxTaskResults
    IN /\ order' = IF full THEN Tail(all) ELSE all
       /\ results' = (results \union {id}) \ IF full THEN {Head(all)} ELSE {}

Respond ==
    /\ request # None
    /\ worker \notin DOMAIN parts
    /\ request' = None
    /\ UNCHANGED <<results, order>> \/ Store(requests)
    /\ parts' = <<>> /\ status' = <<>> /\ failures' = <<>> /\ applied' = <<>>
    /\ worker' = 1 /\ start' = 1
    /\ found' = {}
    /\ docs' = [s \in Source |-> Id] /\ dest' = [i \in Id |-> None]
    /\ UNCHANGED <<batch, requests>>

Next == Start \/ StartBatch \/ EndWorker \/ Apply \/ Respond

Spec == Init /\ [][Next]_vars

(* A request that began runs to its end in the goroutine that serves it.   *)
FairSpec == Spec /\ WF_vars(StartBatch \/ EndWorker \/ Apply \/ Respond)

----------------------------------------------------------------------------
(* Properties *)

(* The successes of all slices, each known by its slice and its number there. *)
Successes == Cardinality(UNION {{w} \X (1..status[w].done) : w \in DOMAIN status})

(* The limit of max_docs holds for the whole request, over all its slices  *)
(* and batches, and whatever conflicts and noops, which do not count.      *)
MaxDocsRespected ==
    (request # None /\ request.maxDocs # -1) => Successes <= request.maxDocs

(* No document is tried twice: the windows of the batches, which a cut     *)
(* batch does not fill, and the slices never overlap.                      *)
EachHitOnce == IsInjective(applied)

(* How far a slice gets without max_docs: to its end, or to the end of the *)
(* batch in which the first of its hits failed.                            *)
Reach(w) ==
    LET failed == {p \in DOMAIN parts[w] : parts[w][p] \in ToSet(failures[w])}
        size == BatchSize(request)
    IN IF failed = {} THEN Len(parts[w])
       ELSE Min({Len(parts[w]), ((Min(failed) - 1) \div size + 1) * size})

(* When a request without max_docs responds, its slices hold every hit, or *)
(* every hit of its manual slice, and it has tried all of them but those   *)
(* that come after the batch of a failure in the same slice: also with     *)
(* more slices than hits, and whatever the other slices met.               *)
NothingMissed ==
    (request # None /\ worker \notin DOMAIN parts /\ request.maxDocs = -1)
    => /\ UNION {ToSet(parts[w]) : w \in DOMAIN parts}
            = IF request.slice = None THEN found
              ELSE {h \in found : SliceOf(h, request.slice[2]) = request.slice[1]}
       /\ ToSet(applied) = UNION {{parts[w][p] : p \in 1..Reach(w)} : w \in DOMAIN parts}

(* A request ends, whatever its batch size and limits.                     *)
RequestEnds == [](request # None => <>(request = None))
=============================================================================
