------------------------------ MODULE DocWrites ------------------------------
(***************************************************************************)
(* Document writes of one index: the index, create, update and delete      *)
(* APIs and _bulk (docs.go, docupdate.go, bulk.go).                        *)
(*                                                                         *)
(* Every request holds c.mu.Lock.  It collects tombstones in a docTx that  *)
(* later operations of the request see before the registry does, and a     *)
(* bulk request collects what bleve has to index until its end; the clock  *)
(* runs on meanwhile.  A document lives on the shard its routing hashes    *)
(* to, and a request reaches one shard only; documents keep their shard    *)
(* here instead of the routing.  What a write stores is left out, but for  *)
(* whether an update changes it.                                           *)
(*                                                                         *)
(* The registry of tombstones, its sharing between copies of an index and  *)
(* its pruning are the subject of Tombstones; segment runs, of Segments.   *)
(***************************************************************************)
EXTENDS Integers, FiniteSets

CONSTANTS
    Id,                 \* document ids
    Shard,              \* shards of the index
    Client,             \* clients that use if_seq_no
    ExternalVersions,   \* versions clients send with external versioning
    GcDeletes,          \* index.gc_deletes
    Failures,           \* what bleve may fail at: a subset of {"commit", "flush"}
    MaxSeqNo,           \* bound on sequence numbers
    MaxVersion,         \* bound on versions
    MaxTime,            \* bound on the clock
    None, Same          \* no document, read or tombstone; docTx holds nothing

ASSUME WriteAssumption ==
    /\ ExternalVersions \subseteq 0..MaxVersion
    /\ GcDeletes \in Int /\ MaxSeqNo \in Nat /\ MaxVersion \in Nat /\ MaxTime \in Nat
    /\ Failures \subseteq {"commit", "flush"}

Doc == [version : 0..MaxVersion, seqNo : 1..MaxSeqNo, shard : Shard]
Tomb == [version : 0..MaxVersion, seqNo : 1..MaxSeqNo, at : 0..MaxTime]
Seen == [id : Id, seqNo : 1..MaxSeqNo, fresh : BOOLEAN]
Answer == [version : 0..MaxVersion, at : 0..MaxTime]

ASSUME NoneAssumption ==
    /\ None \notin Doc /\ None \notin Tomb /\ None \notin Seen /\ None \notin Answer
    /\ Same \notin Tomb /\ None # Same /\ None \notin Client

VARIABLES
    doc,        \* ix.docs
    seqNo,      \* ix.seqNo
    tomb,       \* the tombstones of the index in the registry
    over,       \* docTx: Same, None when cleared, or a pending tombstone
    now,        \* the clock
    txNow,      \* docTx.now
    pc,         \* the request under way: "idle", "single", "bulk" or "done"
    indexed,    \* sequence number of the version bleve finds; 0: none
    queued,     \* the same for the batch of a bulk request; -1: not in it
    read,       \* what a client read last, and whether it is still so
    peak,       \* last version answered, and when (no code behind it)
    adrift      \* ids whose last write bleve did not get (no code behind it)

docVars == <<doc, seqNo>>
txVars == <<tomb, over, txNow>>
bleveVars == <<indexed, queued, adrift>>
vars == <<docVars, txVars, now, pc, bleveVars, read, peak>>

\* docparams.go
MatchAny == -3
MatchDeleted == -4
NotFound == -1

\* What requests may ask for: validateCASParams refuses explicit internal
\* versions, and external versioning without a version.
Internal == [type |-> "internal", version |-> MatchAny]
Versioning ==
    {[type |-> "internal", version |-> v] : v \in {MatchAny, MatchDeleted}}
        \cup [type : {"external", "external_gte"}, version : ExternalVersions]

Init ==
    /\ doc = [i \in Id |-> None] /\ seqNo = 0
    /\ tomb = [i \in Id |-> None] /\ over = [i \in Id |-> Same]
    /\ now = 0 /\ txNow = 0 /\ pc = "idle"
    /\ indexed = [i \in Id |-> 0] /\ queued = [i \in Id |-> -1] /\ adrift = {}
    /\ read = [c \in Client |-> None]
    /\ peak = [i \in Id |-> None]

-----------------------------------------------------------------------------
(* Versions. *)

\* docTx.tombstone: what the request did comes before what the registry has.
OfRegistry(i) == tomb[i]                            \* mutant: as if committed at once
Tombstone(i) == IF over[i] = Same THEN tomb[i] ELSE over[i]

Lapsed(at) == txNow - at >= GcDeletes               \* mutant: off by one
Expired(at) == txNow - at > GcDeletes

\* currentVersion
Current(i) ==
    IF doc[i] # None THEN doc[i].version
    ELSE IF Tombstone(i) # None /\ ~Expired(Tombstone(i).at) THEN Tombstone(i).version
    ELSE NotFound

\* versionConflictForWrites
Conflict(w, current, deleted) ==
    \/ w.type = "external" /\ current # NotFound /\ current >= w.version
    \/ w.type = "external_gte" /\ current # NotFound /\ current > w.version
    \/ w.type = "internal" /\ w.version = MatchDeleted /\ ~deleted

\* updateVersion
NextVersion(w, current) ==
    IF w.type # "internal" THEN w.version
    ELSE IF current = NotFound THEN 1 ELSE current + 1

\* if_seq_no and if_primary_term as client c read them; c = None sends none.
StillThere(c, d) == c # None => d # None            \* mutant: only whether it exists
Unchanged(c, d) == c # None => d # None /\ d.seqNo = read[c].seqNo

\* checkWrite, of a write that sees document d at version current
Passes(d, current, w, c) ==
    /\ Unchanged(c, d)
    /\ ~Conflict(w, current, d = None)

\* Compare-and-set needs something read, and excludes versioning.
CanSend(i, w, c) ==
    c # None => read[c] # None /\ read[c].id = i /\ w = Internal

-----------------------------------------------------------------------------
(* Requests. *)

Begin(kind) ==
    /\ pc = "idle"
    /\ pc' = kind
    /\ txNow' = now
    /\ UNCHANGED <<docVars, tomb, over, now, bleveVars, read, peak>>

\* tx.commit, which is deferred: it happens whatever became of the request.
CommitTx ==
    /\ tomb' = [i \in Id |-> Tombstone(i)]
    /\ over' = [i \in Id |-> Same]

EndSingle ==
    /\ pc = "done" /\ pc' = "idle"
    /\ CommitTx
    /\ UNCHANGED <<docVars, txNow, now, bleveVars, read, peak>>

\* Bulk, after its operations: wb.flush, and then the deferred tx.commit.
QueuedToIndex == {i \in Id : queued[i] > 0}          \* mutant: without the removed
Queued == {i \in Id : queued[i] # -1}
EndBulk ==
    /\ pc = "bulk" /\ pc' = "idle"
    /\ CommitTx
    /\ queued' = [i \in Id |-> -1]
    /\ \/ /\ indexed' = [i \in Id |-> IF i \in Queued THEN queued[i] ELSE indexed[i]]
          /\ adrift' = adrift \ Queued
       \/ /\ "flush" \in Failures
          /\ adrift' = adrift \cup Queued
          /\ UNCHANGED indexed
    /\ UNCHANGED <<docVars, txNow, now, read, peak>>

Ended == pc' = IF pc = "single" THEN "done" ELSE pc
InRequest == pc \in {"single", "bulk"}

\* A single write goes to bleve at once, those of a bulk request at its end.
ToBleve(i, n) ==
    IF pc = "single"
    THEN indexed' = [indexed EXCEPT ![i] = n] /\ adrift' = adrift \ {i} /\ UNCHANGED queued
    ELSE queued' = [queued EXCEPT ![i] = n] /\ UNCHANGED <<indexed, adrift>>

\* What clients know: the request of c is answered, and others' knowledge of i
\* is out of date when the document changed.
Known(i, c, changed) ==
    read' = [k \in Client |->
                IF k = c THEN None
                ELSE IF changed /\ read[k] # None /\ read[k].id = i
                     THEN [read[k] EXCEPT !.fresh = FALSE]
                ELSE read[k]]

Answered(i, version) == peak' = [peak EXCEPT ![i] = [version |-> version, at |-> txNow]]

\* putDoc once it has passed; s is the shard of the routing it is stored with.
Store(i, s, version, c) ==
    /\ seqNo < MaxSeqNo /\ version <= MaxVersion
    /\ doc' = [doc EXCEPT ![i] = [version |-> version, seqNo |-> seqNo + 1, shard |-> s]]
    /\ seqNo' = seqNo + 1
    /\ over' = [over EXCEPT ![i] = None]
    /\ ToBleve(i, seqNo + 1)
    /\ Known(i, c, TRUE) /\ Answered(i, version)
    /\ Ended
    /\ UNCHANGED <<tomb, txNow, now>>

\* indexOne: PUT, POST and the index and create operations of _bulk.  Where a
\* document was before does not matter.
IndexDoc(i, s, w, c) ==
    /\ InRequest /\ CanSend(i, w, c)
    /\ Passes(doc[i], Current(i), w, c)
    /\ Store(i, s, NextVersion(w, Current(i)), c)

\* A generated id: new, and not checked.
IndexAuto(i, s) ==
    /\ InRequest
    /\ doc[i] = None /\ Tombstone(i) = None /\ peak[i] = None
    /\ Store(i, s, 1, None)

\* Requests that are refused, and single writes that bleve does not take,
\* change nothing.
Refused(i, c) ==
    /\ Known(i, c, FALSE)
    /\ Ended
    /\ UNCHANGED <<docVars, txVars, now, bleveVars, peak>>

RefuseIndex(i, w, c) ==
    /\ InRequest /\ CanSend(i, w, c)
    /\ \/ ~Passes(doc[i], Current(i), w, c)
       \/ "commit" \in Failures /\ pc = "single"
    /\ Refused(i, c)

\* consumeSeqNoOnFailure: a document refused by Lucene.
RefuseLate ==
    /\ InRequest /\ seqNo < MaxSeqNo
    /\ seqNo' = seqNo + 1
    /\ Ended
    /\ UNCHANGED <<doc, txVars, now, bleveVars, read, peak>>

\* docShardMismatch
OnShard(i, s) == doc[i] # None /\ doc[i].shard = s
SeenAs(i, s) == IF OnShard(i, s) THEN doc[i] ELSE None
Missed(i, s) == doc[i] # None /\ doc[i].shard # s
CurrentOn(i, s) == IF Missed(i, s) THEN NotFound ELSE Current(i)

\* deleteDoc: also what is not there leaves a tombstone.
Bury(i, version) ==
    over' = [over EXCEPT ![i] = [version |-> version, seqNo |-> seqNo + 1, at |-> txNow]]

Delete(i, s, w, c) ==
    /\ InRequest /\ CanSend(i, w, c) /\ seqNo < MaxSeqNo
    /\ Passes(SeenAs(i, s), CurrentOn(i, s), w, c)
    /\ LET version == NextVersion(w, CurrentOn(i, s))
       IN /\ version <= MaxVersion
          /\ Bury(i, version)
          /\ IF Missed(i, s) THEN UNCHANGED peak ELSE Answered(i, version)
    /\ IF OnShard(i, s)
       THEN doc' = [doc EXCEPT ![i] = None] /\ ToBleve(i, 0)
       ELSE UNCHANGED <<doc, bleveVars>>
    /\ seqNo' = seqNo + 1
    /\ Known(i, c, OnShard(i, s))
    /\ Ended
    /\ UNCHANGED <<tomb, txNow, now>>

RefuseDelete(i, s, w, c) ==
    /\ InRequest /\ CanSend(i, w, c)
    /\ \/ ~Passes(SeenAs(i, s), CurrentOn(i, s), w, c)
       \/ "commit" \in Failures /\ pc = "single" /\ OnShard(i, s)
    /\ Refused(i, c)

\* applyUpdate of a document that is there: merged and stored on its shard.
UpdateDoc(i, s, c) ==
    /\ InRequest /\ CanSend(i, Internal, c)
    /\ OnShard(i, s) /\ Unchanged(c, doc[i])
    /\ Store(i, s, doc[i].version + 1, c)

\* ... of one that is not: with an upsert, and never under compare-and-set.  A
\* document on another shard makes it fail, as create does.
Upsert(i, s) ==
    /\ InRequest /\ doc[i] = None
    /\ Store(i, s, NextVersion(Internal, Current(i)), None)

\* No change (detect_noop), a conflict, or nothing to update.
UpdateNothing(i, s, c) ==
    /\ InRequest /\ CanSend(i, Internal, c)
    /\ Refused(i, c)

\* GET, under c.mu.RLock.
Read(c, i, s) ==
    /\ pc = "idle" /\ OnShard(i, s)
    /\ read' = [read EXCEPT ![c] = [id |-> i, seqNo |-> doc[i].seqNo, fresh |-> TRUE]]
    /\ UNCHANGED <<docVars, txVars, now, pc, bleveVars, peak>>

Tick ==
    /\ now < MaxTime
    /\ now' = now + 1
    /\ UNCHANGED <<docVars, txVars, pc, bleveVars, read, peak>>

-----------------------------------------------------------------------------

Operation(i, s, c) ==
    \/ \E w \in Versioning :
           \/ IndexDoc(i, s, w, c) \/ RefuseIndex(i, w, c)
           \/ Delete(i, s, w, c) \/ RefuseDelete(i, s, w, c)
    \/ UpdateDoc(i, s, c) \/ UpdateNothing(i, s, c)

Next ==
    \/ \E kind \in {"single", "bulk"} : Begin(kind)
    \/ EndSingle \/ EndBulk \/ RefuseLate \/ Tick
    \/ \E i \in Id, s \in Shard :
           \/ IndexAuto(i, s) \/ Upsert(i, s)
           \/ \E c \in Client \cup {None} : Operation(i, s, c)
           \/ \E c \in Client : Read(c, i, s)

Spec == Init /\ [][Next]_vars

-----------------------------------------------------------------------------

\* No update is lost: a write under if_seq_no changes a document only if nobody
\* changed it since the client read it, also when it was deleted and indexed
\* again, in the same bulk request, or on another shard.
CompareAndSetIsSound ==
    [][\A c \in Client :
        read[c] # None /\ read'[c] = None /\ doc'[read[c].id] # doc[read[c].id]
        => read[c].fresh]_vars

\* "deletion tombstones for index.gc_deletes": while a document lives and for
\* that long after its deletion no write is answered with a lower version, so
\* a late external write can neither undo nor revive it.
VersionsNeverGoBack ==
    [][\A i \in Id :
        /\ peak[i] # None /\ peak'[i] # peak[i]
        /\ (doc[i] # None \/ txNow - peak[i].at <= GcDeletes)
        => peak'[i].version >= peak[i].version]_vars

\* Searches find what is stored, but for what a failed flush left behind.
StoredIsSearchable ==
    pc = "idle" => \A i \in Id \ adrift :
        indexed[i] = IF doc[i] = None THEN 0 ELSE doc[i].seqNo

\* A bulk request is its operations one after the other, a document hides a
\* tombstone that a delete on another shard left beside it, and refused writes
\* leave no trace: requests implement one register per document.
Register(i) ==
    IF doc[i] # None
    THEN [state |-> "live", version |-> doc[i].version, seqNo |-> doc[i].seqNo,
          shard |-> doc[i].shard]
    ELSE IF Tombstone(i) # None
    THEN [state |-> "deleted", version |-> Tombstone(i).version,
          seqNo |-> Tombstone(i).seqNo, at |-> Tombstone(i).at]
    ELSE [state |-> "absent", version |-> NotFound]

R == INSTANCE DocRegister WITH
         reg <- [i \in Id |-> Register(i)],
         clock <- IF pc = "idle" THEN now ELSE txNow
ImplementsRegister == R!Init /\ [][R!Next]_R!vars
=============================================================================
