------------------------------- MODULE Segments -------------------------------
(***************************************************************************)
(* Segment runs of one index (segments.go).                                *)
(*                                                                         *)
(* Every committed batch adds a run: the root documents the batch indexed. *)
(* A run loses the documents that later batches replace or delete, and     *)
(* compactRuns merges runs by re-indexing the documents they still hold.   *)
(* All of it happens in write requests that hold c.mu.Lock; the steps of a *)
(* compaction are modelled one by one because any of them may fail and     *)
(* because the loop has to end.                                            *)
(*                                                                         *)
(* A run is known by its number: commits append to ix.runs, so the order   *)
(* of the numbers is the order of ix.runs.  Of the ids of a run the model  *)
(* keeps how often each document occurs, not their order.                  *)
(***************************************************************************)
EXTENDS Integers, FiniteSets

CONSTANTS
    Doc,            \* document ids
    Request,        \* batches a write request may queue: sequences of root operations
    MergeFactor,    \* runMergeFactor
    Classes,        \* runClasses
    BatchDocs,      \* reindexBatchDocs
    MaxWrites,      \* bound on write requests
    MaxGen          \* bound on mapping updates

RootOp == [id : Doc, deleted : BOOLEAN]

ASSUME DocAssumption == IsFiniteSet(Doc)
ASSUME RequestAssumption ==
    \A ops \in Request :
        /\ DOMAIN ops # {} /\ IsFiniteSet(DOMAIN ops) /\ DOMAIN ops \subseteq Nat
        /\ \A k \in DOMAIN ops : ops[k] \in RootOp
ASSUME SizeAssumption ==
    /\ MergeFactor \in Nat \ {0, 1} /\ Classes \in Nat \ {0} /\ BatchDocs \in Nat \ {0}
    /\ \A c \in 1..Classes : BatchDocs >= MergeFactor ^ c  \* or a merge would fill the
                                                        \* same class again
    /\ MaxWrites \in Nat /\ MaxGen \in Nat

VARIABLES
    stored,     \* ix.docs
    run,        \* ix.runs, by number
    runOf,      \* ix.runOf; 0: no run holds the document
    gen,        \* ix.mappingGen
    next,       \* number of the next run
    pc,         \* "idle", "compact" (compactRuns) or "merge" (mergeRuns)
    todo,       \* mergeRuns: occurrences of documents not visited yet
    batch,      \* mergeRuns: documents queued in the batch
    queued,     \* mergeRuns: queued
    writes      \* number of write requests so far

indexVars == <<stored, run, runOf, gen, next>>
mergeVars == <<todo, batch, queued>>
vars == <<indexVars, pc, mergeVars, writes>>

Occurrences == [Doc -> Nat]
Run == [times : Occurrences, ids : Nat, live : Nat, gen : Nat, pinned : BOOLEAN]
Held(r) == {d \in Doc : runOf[d] = r}

Init ==
    /\ stored = {}
    /\ run = [r \in {} |-> 0]
    /\ runOf = [d \in Doc |-> 0]
    /\ gen = 0
    /\ next = 1
    /\ pc = "idle"
    /\ todo = {} /\ batch = {} /\ queued = 0
    /\ writes = 0

-----------------------------------------------------------------------------
(* commit *)

\* What is left of run r when the documents in T leave it.
Left(r, T) == run[r].live - Cardinality(Held(r) \cap T)

\* The documents in T leave their runs, those in I enter the new one.
RunOfKeepingDeleted(T, I) ==                        \* mutant: no delete(ix.runOf, id)
    [d \in Doc |-> IF d \in I THEN next ELSE runOf[d]]
RunOfAfter(T, I) == [d \in Doc |-> IF d \in I THEN next ELSE IF d \in T THEN 0 ELSE runOf[d]]

\* The run of a batch that leaves the documents in I indexed.
NewRunCountingIds(I, times, ids) ==                 \* mutant: counts documents again
    [times |-> times, ids |-> ids, live |-> ids, gen |-> gen, pinned |-> FALSE]
NewRun(I, times, ids) ==
    [times |-> times, ids |-> ids, live |-> Cardinality(I), gen |-> gen, pinned |-> FALSE]

\* commit of a batch about the documents in T that leaves those in I indexed,
\* times[d] times among the ids of the new run, of which there are `ids`.  Runs left
\* without documents are forgotten; R are the runs with their pins.
Commit(R, T, I, times, ids) ==
    LET kept == {r \in DOMAIN R : Left(r, T) > 0}
    IN /\ runOf' = RunOfAfter(T, I)
       /\ run' = [r \in kept \cup (IF I = {} THEN {} ELSE {next}) |->
                     IF r = next THEN NewRun(I, times, ids)
                     ELSE [R[r] EXCEPT !.live = Left(r, T)]]
       /\ next' = next + 1

-----------------------------------------------------------------------------
(* Write requests. *)

About(ops, d) == {k \in DOMAIN ops : ops[k].id = d}
Touched(ops) == {d \in Doc : About(ops, d) # {}}

\* The last operation about d before the k-th indexes it.
IndexedBefore(ops, d, k) ==
    \E j \in About(ops, d) :
        /\ j < k /\ ~ops[j].deleted
        /\ \A i \in About(ops, d) : i < k => i <= j
Indexed(ops) ==
    {d \in Doc : \E j \in About(ops, d) : ~ops[j].deleted /\ \A i \in About(ops, d) : i <= j}

\* The loop of commit appends the id of the k-th operation to run.ids: not for a
\* document the batch has indexed already, but again after a deletion.
Appends(ops, k) == ~ops[k].deleted /\ ~IndexedBefore(ops, ops[k].id, k)
Times(ops, d) == Cardinality({k \in About(ops, d) : Appends(ops, k)})
Listed(ops) == Cardinality({k \in DOMAIN ops : Appends(ops, k)})

\* Only stored documents are deleted: deleteDoc queues nothing for a missing one.
Deletable(ops) ==
    \A k \in DOMAIN ops : ops[k].deleted =>
        \/ IndexedBefore(ops, ops[k].id, k)
        \/ ops[k].id \in stored /\ \A j \in About(ops, ops[k].id) : j >= k

\* putDoc, deleteDoc or a bulk request: stores, commits, and then compacts.
Write(ops) ==
    /\ pc = "idle" /\ writes < MaxWrites
    /\ Deletable(ops)
    /\ stored' = (stored \ Touched(ops)) \cup Indexed(ops)
    /\ Commit(run, Touched(ops), Indexed(ops), [d \in Doc |-> Times(ops, d)], Listed(ops))
    /\ pc' = "compact"
    /\ writes' = writes + 1
    /\ UNCHANGED <<gen, mergeVars>>

\* PutMapping: what is indexed keeps the mapping it was indexed with.
UpdateMapping ==
    /\ pc = "idle" /\ gen < MaxGen
    /\ gen' = gen + 1
    /\ UNCHANGED <<stored, run, runOf, next, pc, mergeVars, writes>>

\* Batches of a rebuild, numbered from next on: all are full but the last.
Batches(n) == (n + BatchDocs - 1) \div BatchDocs
Batching(f) ==
    LET last == next + Batches(Cardinality(stored)) - 1
    IN /\ \A d \in stored : f[d] \in next..last
       /\ \A r \in next..last - 1 : Cardinality({d \in stored : f[d] = r}) = BatchDocs

\* copyIndex: the index goes on as a new Index, rebuilt under the mapping of
\* the time.
Copy(f) ==
    /\ pc = "idle" /\ stored # {} /\ writes < MaxWrites
    /\ Batching(f)
    /\ runOf' = [d \in Doc |-> IF d \in stored THEN f[d] ELSE 0]
    /\ run' = [r \in {f[d] : d \in stored} |->
                  [times |-> [d \in Doc |-> IF d \in stored /\ f[d] = r THEN 1 ELSE 0],
                   ids |-> Cardinality({d \in stored : f[d] = r}),
                   live |-> Cardinality({d \in stored : f[d] = r}),
                   gen |-> 0, pinned |-> FALSE]]
    /\ gen' = 0
    /\ next' = next + Batches(Cardinality(stored))
    /\ writes' = writes + 1
    /\ UNCHANGED <<stored, pc, mergeVars>>

-----------------------------------------------------------------------------
(* compactRuns *)

Mergeable(r) == ~run[r].pinned /\ run[r].gen = gen

\* sizeClass; runClasses stands for every larger one as well.
SizeClass(n) == Cardinality({c \in 1..Classes : n >= MergeFactor ^ c})

Small(c) == {r \in DOMAIN run : Mergeable(r) /\ SizeClass(run[r].live) = c}
Obsolete ==
    {r \in DOMAIN run :
        Mergeable(r) /\ SizeClass(run[r].live) = Classes /\ 2 * run[r].live < run[r].ids}

\* The runs at which the scan of runsToMerge finds something to merge.
FillsClass(r, c) == r \in Small(c) /\ Cardinality({q \in Small(c) : q <= r}) = MergeFactor
Triggers == Obsolete \cup {r \in DOMAIN run : \E c \in 0..Classes - 1 : FillsClass(r, c)}
First == CHOOSE r \in Triggers : \A q \in Triggers : r <= q

\* runsToMerge
Group == IF First \in Obsolete THEN {First} ELSE Small(SizeClass(run[First].live))

StartMerge ==
    /\ pc = "compact" /\ Triggers # {}
    /\ todo' = UNION {{r} \X {d} \X (1..run[r].times[d]) : r \in Group, d \in Doc}
    /\ batch' = {} /\ queued' = 0
    /\ pc' = "merge"
    /\ UNCHANGED <<indexVars, writes>>

EndAfterOne ==                                      \* mutant: one group per request
    /\ pc = "compact"
    /\ pc' = "idle"
    /\ UNCHANGED <<indexVars, mergeVars, writes>>
EndCompaction ==
    /\ pc = "compact" /\ Triggers = {}
    /\ pc' = "idle"
    /\ UNCHANGED <<indexVars, mergeVars, writes>>

-----------------------------------------------------------------------------
(* mergeRuns: the runs of the group in order. *)

NextUp(e) == pc = "merge" /\ e \in todo /\ \A o \in todo : e[1] <= o[1]

\* Replaced or deleted since: by an earlier batch of the merge, too.
Gone(e) == e[2] \notin stored \/ runOf[e[2]] # e[1]

Skip(e) ==
    /\ NextUp(e) /\ Gone(e)
    /\ todo' = todo \ {e}
    /\ UNCHANGED <<indexVars, pc, batch, queued, writes>>

Once(S) == [d \in Doc |-> IF d \in S THEN 1 ELSE 0]
CommitBatch(R, S) ==
    IF S = {} THEN run' = R /\ UNCHANGED <<runOf, next>> ELSE Commit(R, S, S, Once(S), Cardinality(S))

Full == queued + 1 = BatchDocs

\* The document is queued; a full batch is committed.
Requeue(e) ==
    /\ NextUp(e) /\ ~Gone(e)
    /\ todo' = todo \ {e}
    /\ LET S == batch \cup {e[2]}
       IN IF Full
          THEN CommitBatch(run, S) /\ batch' = {} /\ queued' = 0
          ELSE UNCHANGED <<run, runOf, next>> /\ batch' = S /\ queued' = queued + 1
    /\ UNCHANGED <<stored, gen, pc, writes>>

\* mergeRuns returns: what is queued is committed.
Return(R) ==
    /\ CommitBatch(R, batch)
    /\ todo' = {} /\ batch' = {} /\ queued' = 0
    /\ pc' = "compact"
    /\ UNCHANGED <<stored, gen, writes>>

\* buildDocument fails: the run is pinned and keeps what is left of it.
PinForgotten(e) == NextUp(e) /\ ~Gone(e) /\ Return(run)       \* mutant
Pin(e) ==
    /\ NextUp(e) /\ ~Gone(e)
    /\ Return([r \in DOMAIN run |-> [run[r] EXCEPT !.pinned = @ \/ r = e[1]]])

EndMerge == pc = "merge" /\ todo = {} /\ Return(run)

-----------------------------------------------------------------------------

CompactStep ==
    \/ StartMerge \/ EndCompaction \/ EndMerge
    \/ \E e \in todo : Skip(e) \/ Requeue(e) \/ Pin(e)

Next ==
    \/ \E ops \in Request : Write(ops)
    \/ UpdateMapping
    \/ \E f \in [stored -> next..next + Batches(Cardinality(stored)) - 1] : Copy(f)
    \/ CompactStep

Spec == Init /\ [][Next]_vars

\* A write request runs on: nothing in a compaction waits for anybody.
FairSpec == Spec /\ WF_vars(CompactStep)

-----------------------------------------------------------------------------

\* The variables have their types; runs have their numbers below the next, and
\* a batch of a merge never grows beyond reindexBatchDocs.
TypeOK ==
    /\ stored \subseteq Doc
    /\ DOMAIN run \subseteq 1..next - 1
    /\ run \in [DOMAIN run -> Run]
    /\ runOf \in [Doc -> Nat]
    /\ gen \in Nat /\ next \in Nat \ {0} /\ writes \in Nat
    /\ pc \in {"idle", "compact", "merge"}
    /\ todo \subseteq Nat \X Doc \X Nat
    /\ batch \subseteq Doc /\ queued \in 0..BatchDocs - 1

\* No merge loses a document or brings one back: what is stored is what some
\* run holds, also between the batches of a merge, and the run lists it, so
\* that the next merge finds it.
StoredIsHeld ==
    \A d \in Doc :
        IF d \in stored
        THEN runOf[d] \in DOMAIN run /\ run[runOf[d]].times[d] > 0
        ELSE runOf[d] = 0

\* The counter that decides about merges is right, and no run is empty:
\* replacing, deleting, re-indexing and failing in between.
LiveCounts ==
    \A r \in DOMAIN run : run[r].live = Cardinality(Held(r)) /\ run[r].live > 0

\* "so a class holds fewer runs than that": when no request is running there
\* is nothing to merge, whatever was deleted, pinned or copied before.
NothingToMergeAtRest == pc = "idle" => Triggers = {}

\* Documents indexed before a mapping update, or in a run that could not be
\* re-indexed, are left in the run they are in by every merge.
MergesLeaveOthersAlone ==
    [][pc = "merge" =>
        \A d \in Doc : runOf'[d] # runOf[d] =>
            ~run[runOf[d]].pinned /\ run[runOf[d]].gen = gen /\ d \in stored]_vars

\* compactRuns ends: every merge makes progress, also one that fails, that
\* visits a document twice, or that leaves a batch half full.
CompactionEnds == pc = "compact" ~> pc = "idle"
=============================================================================
