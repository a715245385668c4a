--------------------------- MODULE DocWritesProofs ---------------------------
(***************************************************************************)
(* Documents behave as versioned registers, for every set of ids, shards   *)
(* and clients and every bound.  The invariant ties what the requests      *)
(* keep (documents, tombstones of the registry and of the request under    *)
(* way) to what clients were told; every operation either writes one       *)
(* register or leaves all of them as they are.                             *)
(***************************************************************************)
EXTENDS DocWrites, TLAPS

USE DEF MatchAny, MatchDeleted, NotFound

TypesOfDocs ==
    /\ doc \in [Id -> Doc \cup {None}]
    /\ tomb \in [Id -> Tomb \cup {None}]
    /\ over \in [Id -> Tomb \cup {None, Same}]
    /\ seqNo \in 0..MaxSeqNo
    /\ now \in 0..MaxTime /\ txNow \in 0..MaxTime
    /\ pc \in {"idle", "single", "bulk", "done"}

TypesOfClients ==
    /\ read \in [Client -> Seen \cup {None}]
    /\ peak \in [Id -> Answer \cup {None}]

\* a request read the clock when it began
ClockOrder == txNow <= now

\* numbers are drawn in order
NumbersDrawn == \A i \in Id : doc[i] # None => doc[i].seqNo <= seqNo

\* a client whose knowledge is out of date cannot have the current number
StaleReads ==
    \A c \in Client :
        read[c] # None =>
            /\ read[c].seqNo <= seqNo
            /\ ~read[c].fresh /\ doc[read[c].id] # None => doc[read[c].id].seqNo # read[c].seqNo

\* the last version answered is the document's, or its tombstone's
PeakIsCurrent ==
    \A i \in Id : peak[i] # None =>
        IF doc[i] # None THEN doc[i].version = peak[i].version
        ELSE /\ Tombstone(i) # None
             /\ Tombstone(i).version = peak[i].version /\ Tombstone(i).at = peak[i].at

DocInv == TypesOfDocs /\ TypesOfClients /\ ClockOrder /\ NumbersDrawn /\ StaleReads /\ PeakIsCurrent

-----------------------------------------------------------------------------
(* Versions *)

(* A tombstone is one of the registry's or of the request's. *)
LEMMA TombstoneType ==
    ASSUME TypesOfDocs, NEW i \in Id
    PROVE  Tombstone(i) \in Tomb \cup {None}
  BY NoneAssumption DEF TypesOfDocs, Tombstone

(* The current version is a number. *)
LEMMA CurrentType ==
    ASSUME TypesOfDocs, NEW i \in Id
    PROVE  Current(i) \in {NotFound} \cup 0..MaxVersion
  BY TombstoneType, NoneAssumption, WriteAssumption DEF TypesOfDocs, Current, Doc, Tomb

(* A write that passes does not lower the version. *)
LEMMA VersionsGrow ==
    \A w \in Versioning, current \in {NotFound} \cup 0..MaxVersion, deleted \in BOOLEAN :
        ~Conflict(w, current, deleted) =>
            /\ NextVersion(w, current) \in Nat
            /\ NextVersion(w, current) >= current
            /\ \/ NextVersion(w, current) = IF current = NotFound THEN 1 ELSE current + 1
               \/ NextVersion(w, current) \in ExternalVersions
  <1> SUFFICES ASSUME NEW w \in Versioning, NEW current \in {NotFound} \cup 0..MaxVersion,
                      NEW deleted \in BOOLEAN, ~Conflict(w, current, deleted)
               PROVE  /\ NextVersion(w, current) \in Nat
                      /\ NextVersion(w, current) >= current
                      /\ \/ NextVersion(w, current) = IF current = NotFound THEN 1 ELSE current + 1
                         \/ NextVersion(w, current) \in ExternalVersions
    OBVIOUS
  <1>1. CASE w \in {[type |-> "internal", version |-> v] : v \in {MatchAny, MatchDeleted}}
    BY <1>1, WriteAssumption DEF NextVersion
  <1>2. CASE w \in [type : {"external", "external_gte"}, version : ExternalVersions]
    <2>0. w.version \in ExternalVersions
      BY <1>2
    <2>1. \A v \in ExternalVersions : v \in Nat
      BY WriteAssumption
    <2>2. w.type \in {"external", "external_gte"}
      BY <1>2
    <2>3. NextVersion(w, current) = w.version
      BY <2>2 DEF NextVersion
    <2>4. w.version >= current
      BY <2>0, <2>1, <2>2 DEF Conflict
    <2> QED
      BY <2>0, <2>1, <2>3, <2>4
  <1> QED
    BY <1>1, <1>2 DEF Versioning

(* The version a delete works on is the document's, or nothing when the    *)
(* document is on another shard.                                           *)
LEMMA SeenVersion ==
    ASSUME TypesOfDocs, NEW i \in Id, NEW s \in Shard
    PROVE  /\ CurrentOn(i, s) \in {NotFound} \cup 0..MaxVersion
           /\ OnShard(i, s) => SeenAs(i, s) = doc[i] /\ CurrentOn(i, s) = Current(i)
           /\ doc[i] = None => ~OnShard(i, s) /\ SeenAs(i, s) = None /\ CurrentOn(i, s) = Current(i)
           /\ ~OnShard(i, s) => doc[i] = None \/ Missed(i, s)
           /\ OnShard(i, s) => doc[i] # None /\ ~Missed(i, s)
  BY CurrentType DEF CurrentOn, OnShard, SeenAs, Missed

-----------------------------------------------------------------------------
(* Types *)

LEMMA DocInvInit == Init => DocInv
  BY NoneAssumption, WriteAssumption
  DEF Init, DocInv, TypesOfDocs, TypesOfClients, ClockOrder, NumbersDrawn, StaleReads, PeakIsCurrent

(* What a write leaves of the request and of clients. *)
LEMMA StoreTypes ==
    ASSUME TypesOfDocs, TypesOfClients, InRequest, NEW i \in Id, NEW s \in Shard,
           NEW version, version \in Nat, NEW c \in Client \cup {None}, Store(i, s, version, c)
    PROVE  TypesOfDocs' /\ TypesOfClients'
  <1>1. [version |-> version, seqNo |-> seqNo + 1, shard |-> s] \in Doc
    BY WriteAssumption DEF Store, Doc, TypesOfDocs
  <1>2. TypesOfDocs'
    BY <1>1, WriteAssumption DEF Store, TypesOfDocs, Ended, InRequest
  <1>3. read' \in [Client -> Seen \cup {None}]
    BY NoneAssumption DEF Store, Known, Seen, TypesOfClients
  <1>4. [version |-> version, at |-> txNow] \in Answer
    BY WriteAssumption DEF Store, Answer, TypesOfDocs
  <1>5. peak' \in [Id -> Answer \cup {None}]
    BY <1>4 DEF Store, Answered, TypesOfClients
  <1> QED
    BY <1>2, <1>3, <1>5 DEF TypesOfClients

-----------------------------------------------------------------------------
(* The invariant, operation by operation *)

LEMMA StoreStep ==
    ASSUME DocInv, InRequest, NEW i \in Id, NEW s \in Shard,
           NEW version, version \in Nat, NEW c \in Client \cup {None}, Store(i, s, version, c)
    PROVE  DocInv'
  <1>1. TypesOfDocs' /\ TypesOfClients'
    BY StoreTypes DEF DocInv
  <1>2. ClockOrder'
    BY DEF DocInv, ClockOrder, Store
  <1>5. NumbersDrawn'
    <2>1. doc'[i].seqNo = seqNo + 1 /\ seqNo' = seqNo + 1 /\ seqNo \in Nat
      BY DEF Store, DocInv, TypesOfDocs
    <2>2. \A j \in Id \ {i} : doc'[j] = doc[j] /\ (doc[j] # None => doc[j].seqNo \in Nat)
      BY DEF Store, DocInv, TypesOfDocs, Doc
    <2> QED
      BY <2>1, <2>2 DEF DocInv, NumbersDrawn
  <1>3. StaleReads'
    <2> SUFFICES ASSUME NEW k \in Client, read'[k] # None
                 PROVE  /\ read'[k].seqNo <= seqNo'
                        /\ ~read'[k].fresh /\ doc'[read'[k].id] # None
                               => doc'[read'[k].id].seqNo # read'[k].seqNo
      BY DEF StaleReads
    <2>1. k # c /\ read[k] # None /\ read[k] \in Seen
      BY DEF Store, Known, DocInv, TypesOfClients
    <2>2. read[k].seqNo <= seqNo /\ seqNo' = seqNo + 1 /\ seqNo \in Nat /\ read[k].seqNo \in Nat
      BY <2>1 DEF DocInv, StaleReads, Store, TypesOfDocs, Seen
    <2>3. CASE read[k].id = i
      <3>1. read'[k] = [read[k] EXCEPT !.fresh = FALSE]
        BY <2>1, <2>3 DEF Store, Known
      <3>2. read'[k].seqNo = read[k].seqNo /\ read'[k].id = i
        BY <2>1, <2>3, <3>1 DEF Seen
      <3>3. doc'[i].seqNo = seqNo + 1
        BY DEF Store, DocInv, TypesOfDocs
      <3> QED
        BY <2>2, <3>2, <3>3
    <2>4. CASE read[k].id # i
      <3>1. read'[k] = read[k]
        BY <2>1, <2>4 DEF Store, Known
      <3>2. doc'[read[k].id] = doc[read[k].id]
        BY <2>1, <2>4 DEF Store, DocInv, TypesOfDocs, Seen
      <3> QED
        BY <2>1, <2>2, <3>1, <3>2 DEF DocInv, StaleReads
    <2> QED
      BY <2>3, <2>4
  <1>4. PeakIsCurrent'
    <2> SUFFICES ASSUME NEW j \in Id, peak'[j] # None
                 PROVE  (IF doc[j] # None THEN doc[j].version = peak[j].version
                         ELSE /\ Tombstone(j) # None
                              /\ Tombstone(j).version = peak[j].version
                              /\ Tombstone(j).at = peak[j].at)'
      BY DEF PeakIsCurrent
    <2>1. CASE j = i
      <3>1. doc'[i] = [version |-> version, seqNo |-> seqNo + 1, shard |-> s]
        BY DEF Store, DocInv, TypesOfDocs
      <3>2. peak'[i] = [version |-> version, at |-> txNow]
        BY DEF Store, Answered, DocInv, TypesOfClients
      <3>3. doc'[i] \in Doc
        BY <1>1, <3>1, WriteAssumption DEF Store, Doc, DocInv, TypesOfDocs
      <3> QED
        BY <2>1, <3>1, <3>2, <3>3, NoneAssumption
    <2>2. CASE j # i
      BY <2>2 DEF Store, Answered, DocInv, PeakIsCurrent, TypesOfDocs, TypesOfClients, Tombstone
    <2> QED
      BY <2>1, <2>2
  <1> QED
    BY <1>1, <1>2, <1>3, <1>4, <1>5 DEF DocInv

LEMMA DeleteStep ==
    ASSUME DocInv, NEW i \in Id, NEW s \in Shard, NEW w \in Versioning,
           NEW c \in Client \cup {None}, Delete(i, s, w, c)
    PROVE  DocInv'
  <1> DEFINE version == NextVersion(w, CurrentOn(i, s))
             grave == [version |-> version, seqNo |-> seqNo + 1, at |-> txNow]
  <1>1. version \in Nat /\ version <= MaxVersion
    BY SeenVersion, VersionsGrow DEF Delete, Passes, DocInv
  <1>2. over' = [over EXCEPT ![i] = grave] /\ seqNo' = seqNo + 1
    BY DEF Delete, Bury
  <1>3. grave \in Tomb /\ grave # None /\ grave # Same
    BY <1>1, NoneAssumption, WriteAssumption DEF Delete, Tomb, DocInv, TypesOfDocs
  <1>4. doc' = IF OnShard(i, s) THEN [doc EXCEPT ![i] = None] ELSE doc
    BY DEF Delete
  <1>5. peak' = IF Missed(i, s) THEN peak ELSE [peak EXCEPT ![i] = [version |-> version, at |-> txNow]]
    BY DEF Delete, Answered
  <1>6. [version |-> version, at |-> txNow] \in Answer
    BY <1>1, WriteAssumption DEF Answer, DocInv, TypesOfDocs
  <1>7. Known(i, c, OnShard(i, s)) /\ UNCHANGED <<tomb, txNow, now>>
    BY DEF Delete
  <1> HIDE DEF version, grave
  <1>8. TypesOfDocs'
    BY <1>2, <1>3, <1>4, <1>7, WriteAssumption DEF DocInv, TypesOfDocs, Delete, Ended, InRequest
  <1>9. TypesOfClients'
    BY <1>5, <1>6, <1>7, NoneAssumption DEF DocInv, TypesOfClients, Known, Seen
  <1>10. ClockOrder'
    BY <1>7 DEF DocInv, ClockOrder
  <1>13. NumbersDrawn'
    <2>1. \A j \in Id : doc'[j] \in {None, doc[j]} /\ (doc[j] # None => doc[j].seqNo \in Nat)
      BY <1>4 DEF DocInv, TypesOfDocs, Doc
    <2> QED
      BY <1>2, <2>1 DEF DocInv, NumbersDrawn, TypesOfDocs
  <1>11. StaleReads'
    <2> SUFFICES ASSUME NEW k \in Client, read'[k] # None
                 PROVE  /\ read'[k].seqNo <= seqNo'
                        /\ ~read'[k].fresh /\ doc'[read'[k].id] # None
                               => doc'[read'[k].id].seqNo # read'[k].seqNo
      BY DEF StaleReads
    <2>1. read[k] # None /\ read[k] \in Seen
      BY <1>7 DEF Known, DocInv, TypesOfClients
    <2>2. read[k].seqNo <= seqNo /\ seqNo \in Nat /\ read[k].seqNo \in Nat
      BY <2>1 DEF DocInv, StaleReads, TypesOfDocs, Seen
    <2>3. CASE OnShard(i, s) /\ read[k].id = i
      <3>1. read'[k] = [read[k] EXCEPT !.fresh = FALSE]
        BY <1>7, <2>1, <2>3 DEF Known
      <3>2. read'[k].seqNo = read[k].seqNo /\ read'[k].id = i
        BY <2>1, <2>3, <3>1 DEF Seen
      <3>3. doc'[i] = None
        BY <1>4, <2>3 DEF DocInv, TypesOfDocs
      <3> QED
        BY <1>2, <2>2, <3>2, <3>3
    <2>4. CASE ~(OnShard(i, s) /\ read[k].id = i)
      <3>1. read'[k] = read[k]
        BY <1>7, <2>1, <2>4 DEF Known
      <3>2. doc'[read[k].id] = doc[read[k].id]
        BY <1>4, <2>1, <2>4 DEF DocInv, TypesOfDocs, Seen
      <3> QED
        BY <1>2, <2>1, <2>2, <3>1, <3>2 DEF DocInv, StaleReads
    <2> QED
      BY <2>3, <2>4
  <1>12. PeakIsCurrent'
    <2> SUFFICES ASSUME NEW j \in Id, peak'[j] # None
                 PROVE  (IF doc[j] # None THEN doc[j].version = peak[j].version
                         ELSE /\ Tombstone(j) # None
                              /\ Tombstone(j).version = peak[j].version
                              /\ Tombstone(j).at = peak[j].at)'
      BY DEF PeakIsCurrent
    <2>1. CASE j # i
      BY <1>2, <1>4, <1>5, <1>7, <2>1 DEF DocInv, PeakIsCurrent, TypesOfDocs, TypesOfClients, Tombstone
    <2>2. CASE j = i /\ Missed(i, s)
      <3>1. doc'[i] = doc[i] /\ doc[i] # None /\ peak'[i] = peak[i]
        BY <1>4, <1>5, <2>2, SeenVersion DEF Missed, DocInv
      <3> QED
        BY <2>2, <3>1 DEF DocInv, PeakIsCurrent
    <2>3. CASE j = i /\ ~Missed(i, s)
      <3>1. doc'[i] = None
        BY <1>4, <2>3, SeenVersion DEF DocInv, TypesOfDocs
      <3>2. peak'[i] = [version |-> version, at |-> txNow]
        BY <1>5, <2>3 DEF DocInv, TypesOfClients
      <3>3. Tombstone(i)' = grave
        BY <1>2, <1>3 DEF Tombstone, DocInv, TypesOfDocs
      <3> QED
        BY <1>3, <2>3, <3>1, <3>2, <3>3 DEF grave
    <2> QED
      BY <2>1, <2>2, <2>3
  <1> QED
    BY <1>8, <1>9, <1>10, <1>11, <1>12, <1>13 DEF DocInv

(* A refused request leaves everything but what its client asked about. *)
LEMMA RefusedStep ==
    ASSUME DocInv, NEW i \in Id, NEW c \in Client \cup {None}, InRequest, Refused(i, c)
    PROVE  DocInv'
  <1>1. \A k \in Client : read'[k] \in {None, read[k]}
    BY DEF Refused, Known
  <1>2. TypesOfDocs'
    BY DEF DocInv, TypesOfDocs, Refused, Ended, InRequest, docVars, txVars
  <1>3. TypesOfClients'
    BY DEF DocInv, TypesOfClients, Refused, Known
  <1>4. ClockOrder' /\ NumbersDrawn' /\ PeakIsCurrent'
    BY DEF DocInv, ClockOrder, NumbersDrawn, PeakIsCurrent, Tombstone, Refused, docVars, txVars
  <1>5. StaleReads'
    BY <1>1 DEF DocInv, StaleReads, Refused, docVars
  <1> QED
    BY <1>2, <1>3, <1>4, <1>5 DEF DocInv

LEMMA OperationStep ==
    ASSUME DocInv, NEW i \in Id, NEW s \in Shard, NEW c \in Client \cup {None}, Operation(i, s, c)
    PROVE  DocInv'
  <1>1. ASSUME NEW w \in Versioning, IndexDoc(i, s, w, c)
        PROVE  DocInv'
    <2>1. NextVersion(w, Current(i)) \in Nat
      BY <1>1, CurrentType, VersionsGrow DEF IndexDoc, Passes, DocInv
    <2> QED
      BY <1>1, <2>1, StoreStep DEF IndexDoc
  <1>2. ASSUME NEW w \in Versioning, RefuseIndex(i, w, c) \/ RefuseDelete(i, s, w, c)
        PROVE  DocInv'
    BY <1>2, RefusedStep DEF RefuseIndex, RefuseDelete
  <1>3. ASSUME NEW w \in Versioning, Delete(i, s, w, c)
        PROVE  DocInv'
    BY <1>3, DeleteStep
  <1>4. CASE UpdateDoc(i, s, c)
    <2>1. doc[i].version + 1 \in Nat
      BY <1>4, WriteAssumption DEF UpdateDoc, OnShard, DocInv, TypesOfDocs, Doc
    <2> QED
      BY <1>4, <2>1, StoreStep DEF UpdateDoc
  <1>5. CASE UpdateNothing(i, s, c)
    BY <1>5, RefusedStep DEF UpdateNothing
  <1> QED
    BY <1>1, <1>2, <1>3, <1>4, <1>5 DEF Operation

(* The end of a request changes no tombstone that anybody sees. *)
LEMMA CommitKeeps ==
    ASSUME TypesOfDocs, CommitTx
    PROVE  /\ tomb' \in [Id -> Tomb \cup {None}] /\ over' \in [Id -> Tomb \cup {None, Same}]
           /\ \A i \in Id : Tombstone(i)' = Tombstone(i)
  BY TombstoneType DEF CommitTx, TypesOfDocs, Tombstone

LEMMA DocInvNext == DocInv /\ [Next]_vars => DocInv'
  <1> SUFFICES ASSUME DocInv, [Next]_vars PROVE DocInv'
    OBVIOUS
  <1>1. ASSUME NEW kind \in {"single", "bulk"}, Begin(kind)
        PROVE  DocInv'
    BY <1>1 DEF Begin, DocInv, TypesOfDocs, TypesOfClients, ClockOrder, NumbersDrawn, StaleReads, PeakIsCurrent, Tombstone, docVars
  <1>2. CASE EndSingle \/ EndBulk
    <2>1. CommitTx /\ UNCHANGED <<docVars, txNow, now, read, peak>> /\ pc' = "idle"
      BY <1>2 DEF EndSingle, EndBulk
    <2>2. \A i \in Id : Tombstone(i)' = Tombstone(i)
      BY <2>1, CommitKeeps DEF DocInv
    <2>3. TypesOfDocs' /\ TypesOfClients' /\ ClockOrder' /\ NumbersDrawn' /\ StaleReads'
      BY <2>1, CommitKeeps DEF DocInv, TypesOfDocs, TypesOfClients, ClockOrder, NumbersDrawn, StaleReads, docVars
    <2>4. PeakIsCurrent'
      BY <2>1, <2>2 DEF DocInv, PeakIsCurrent, docVars
    <2> QED
      BY <2>3, <2>4 DEF DocInv
  <1>3. CASE RefuseLate
    <2>1. /\ seqNo < MaxSeqNo /\ seqNo' = seqNo + 1 /\ pc' \in {"done", "bulk"}
          /\ UNCHANGED <<doc, tomb, over, txNow, now, read, peak>>
      BY <1>3 DEF RefuseLate, InRequest, Ended, txVars
    <2>2. TypesOfDocs'
      BY <2>1, WriteAssumption DEF DocInv, TypesOfDocs
    <2>3. TypesOfClients' /\ ClockOrder' /\ PeakIsCurrent'
      BY <2>1 DEF DocInv, TypesOfClients, ClockOrder, PeakIsCurrent, Tombstone
    <2>5. NumbersDrawn'
      <3>1. \A j \in Id : doc[j] # None => doc[j].seqNo \in Nat
        BY DEF DocInv, TypesOfDocs, Doc
      <3> QED
        BY <2>1, <3>1 DEF DocInv, NumbersDrawn, TypesOfDocs
    <2>4. StaleReads'
      BY <2>1, WriteAssumption DEF DocInv, StaleReads, TypesOfDocs, TypesOfClients, Seen
    <2> QED
      BY <2>2, <2>3, <2>4, <2>5 DEF DocInv
  <1>4. CASE Tick
    BY <1>4, WriteAssumption
    DEF Tick, DocInv, TypesOfDocs, TypesOfClients, ClockOrder, NumbersDrawn, StaleReads, PeakIsCurrent, Tombstone, docVars, txVars
  <1>5. ASSUME NEW i \in Id, NEW s \in Shard, IndexAuto(i, s)
        PROVE  DocInv'
    BY <1>5, StoreStep DEF IndexAuto
  <1>6. ASSUME NEW i \in Id, NEW s \in Shard, Upsert(i, s)
        PROVE  DocInv'
    <2>1. NextVersion(Internal, Current(i)) \in Nat
      BY CurrentType, WriteAssumption DEF DocInv, NextVersion, Internal
    <2> QED
      BY <1>6, <2>1, StoreStep DEF Upsert
  <1>7. ASSUME NEW i \in Id, NEW s \in Shard, NEW c \in Client \cup {None}, Operation(i, s, c)
        PROVE  DocInv'
    BY <1>7, OperationStep
  <1>8. ASSUME NEW i \in Id, NEW s \in Shard, NEW c \in Client, Read(c, i, s)
        PROVE  DocInv'
    <2>1. doc[i] \in Doc /\ doc[i].seqNo \in 1..MaxSeqNo
      BY <1>8 DEF Read, OnShard, DocInv, TypesOfDocs, Doc
    <2>2. read' = [read EXCEPT ![c] = [id |-> i, seqNo |-> doc[i].seqNo, fresh |-> TRUE]]
      BY <1>8 DEF Read
    <2>3. doc[i].seqNo <= seqNo
      BY <2>1, NoneAssumption DEF DocInv, NumbersDrawn
    <2>4. read' \in [Client -> Seen \cup {None}]
      BY <2>1, <2>2 DEF DocInv, TypesOfClients, Seen
    <2>5. UNCHANGED <<doc, seqNo, tomb, over, now, txNow, pc, peak>>
      BY <1>8 DEF Read, docVars, txVars
    <2>6. StaleReads'
      BY <2>2, <2>3, <2>5 DEF DocInv, StaleReads, TypesOfClients
    <2>7. TypesOfDocs' /\ TypesOfClients' /\ ClockOrder' /\ NumbersDrawn' /\ PeakIsCurrent'
      BY <2>4, <2>5 DEF DocInv, TypesOfDocs, TypesOfClients, ClockOrder, NumbersDrawn, PeakIsCurrent, Tombstone
    <2> QED
      BY <2>6, <2>7 DEF DocInv
  <1>9. CASE UNCHANGED vars
    BY <1>9 DEF vars, docVars, txVars, bleveVars, DocInv, TypesOfDocs, TypesOfClients, ClockOrder, NumbersDrawn, StaleReads, PeakIsCurrent, Tombstone
  <1> QED
    BY <1>1, <1>2, <1>3, <1>4, <1>5, <1>6, <1>7, <1>8, <1>9 DEF Next

(* The invariant holds: in particular numbers are drawn in order and every *)
(* tombstone knows the last version that was answered.                     *)
THEOREM DocumentsInOrder == Spec => []DocInv
  BY DocInvInit, DocInvNext, PTL DEF Spec

-----------------------------------------------------------------------------
(* Compare-and-set *)

\* A write under compare-and-set is let through on current knowledge only.
LEMMA UnchangedIsFresh ==
    ASSUME DocInv, NEW c \in Client, NEW i \in Id,
           read[c] # None, read[c].id = i, Unchanged(c, doc[i])
    PROVE  read[c].fresh
  <1>1. doc[i] # None /\ doc[i].seqNo = read[c].seqNo
    BY NoneAssumption DEF Unchanged
  <1>2. read[c] \in Seen
    BY DEF DocInv, TypesOfClients
  <1> QED
    BY <1>1, <1>2 DEF DocInv, StaleReads, Seen

\* Only the answer to a client's own request takes its knowledge away.
LEMMA OwnAnswer ==
    ASSUME DocInv, NEW i \in Id, NEW c \in Client \cup {None}, NEW changed \in BOOLEAN,
           Known(i, c, changed), NEW k \in Client, read[k] # None, read'[k] = None
    PROVE  k = c
  <1> SUFFICES ASSUME k # c PROVE FALSE
    OBVIOUS
  <1>1. read[k] \in Seen /\ read'[k] \in {read[k], [read[k] EXCEPT !.fresh = FALSE]}
    BY DEF Known, DocInv, TypesOfClients
  <1>2. [read[k] EXCEPT !.fresh = FALSE] \in Seen
    BY <1>1 DEF Seen
  <1> QED
    BY <1>1, <1>2, NoneAssumption

LEMMA CompareAndSetStep ==
    ASSUME DocInv, [Next]_vars, NEW c \in Client,
           read[c] # None, read'[c] = None, doc'[read[c].id] # doc[read[c].id]
    PROVE  read[c].fresh
  <1>1. ASSUME NEW i \in Id, NEW s \in Shard, NEW k \in Client \cup {None}, NEW v, Store(i, s, v, k),
               k # None => CanSend(i, Internal, k) /\ Unchanged(k, doc[i])
        PROVE  read[c].fresh
    <2>1. k = c
      BY <1>1, OwnAnswer DEF Store
    <2> QED
      BY <1>1, <2>1, UnchangedIsFresh, NoneAssumption DEF CanSend
  <1>2. ASSUME NEW i \in Id, NEW s \in Shard, NEW w \in Versioning, NEW k \in Client \cup {None}, Delete(i, s, w, k)
        PROVE  read[c].fresh
    <2>1. OnShard(i, s)
      BY <1>2 DEF Delete
    <2>2. k = c
      BY <1>2, OwnAnswer DEF Delete, OnShard
    <2>3. read[c].id = i /\ Unchanged(c, doc[i])
      BY <1>2, <2>1, <2>2, NoneAssumption DEF Delete, CanSend, Passes, SeenAs
    <2> QED
      BY <2>3, UnchangedIsFresh
  <1>3. ASSUME NEW i \in Id, NEW s \in Shard, NEW k \in Client \cup {None}, Operation(i, s, k)
        PROVE  read[c].fresh
    <2>1. ASSUME NEW w \in Versioning, IndexDoc(i, s, w, k)
          PROVE  read[c].fresh
      <3>1. k # None => CanSend(i, Internal, k) /\ Unchanged(k, doc[i])
        BY <2>1 DEF IndexDoc, CanSend, Passes
      <3> QED
        BY <1>1, <2>1, <3>1 DEF IndexDoc
    <2>2. CASE UpdateDoc(i, s, k)
      BY <1>1, <2>2 DEF UpdateDoc
    <2>3. ~(UpdateNothing(i, s, k) \/ \E w \in Versioning : RefuseIndex(i, w, k) \/ RefuseDelete(i, s, w, k))
      BY DEF UpdateNothing, RefuseIndex, RefuseDelete, Refused, docVars
    <2> QED
      BY <1>2, <1>3, <2>1, <2>2, <2>3 DEF Operation
  <1>4. ASSUME NEW i \in Id, NEW s \in Shard, IndexAuto(i, s) \/ Upsert(i, s)
        PROVE  read[c].fresh
    BY <1>1, <1>4 DEF IndexAuto, Upsert
  <1> QED
    BY <1>3, <1>4
    DEF Next, Begin, EndSingle, EndBulk, RefuseLate, Tick, Read, vars, docVars

(* No update is lost: a write under if_seq_no changes only what its client *)
(* knew (Index.checkWrite).                                                *)
THEOREM NoLostUpdate == Spec => CompareAndSetIsSound
  <1>1. DocInv /\ [Next]_vars =>
            [\A c \in Client :
                read[c] # None /\ read'[c] = None /\ doc'[read[c].id] # doc[read[c].id]
                => read[c].fresh]_vars
    BY CompareAndSetStep
  <1> QED
    BY <1>1, DocumentsInOrder, PTL DEF Spec, CompareAndSetIsSound

-----------------------------------------------------------------------------
(* Versions over deletions *)

\* Until gc_deletes has passed the last version that was answered is current.
LEMMA PeakCounts ==
    ASSUME DocInv, NEW i \in Id, peak[i] # None, doc[i] # None \/ txNow - peak[i].at <= GcDeletes
    PROVE  Current(i) = peak[i].version
  <1>1. peak[i] \in Answer /\ peak[i].at \in Int /\ txNow \in Int
    BY WriteAssumption DEF DocInv, TypesOfClients, TypesOfDocs, Answer
  <1>2. CASE doc[i] # None
    BY <1>2 DEF DocInv, PeakIsCurrent, Current
  <1>3. CASE doc[i] = None
    <2>1. Tombstone(i) # None /\ Tombstone(i).version = peak[i].version /\ Tombstone(i).at = peak[i].at
      BY <1>3 DEF DocInv, PeakIsCurrent
    <2>2. ~Expired(Tombstone(i).at)
      BY <1>1, <1>3, <2>1, WriteAssumption DEF Expired
    <2> QED
      BY <1>3, <2>1, <2>2 DEF Current
  <1> QED
    BY <1>2, <1>3

LEMMA VersionStep ==
    ASSUME DocInv, [Next]_vars, NEW i \in Id, peak[i] # None, peak'[i] # peak[i],
           doc[i] # None \/ txNow - peak[i].at <= GcDeletes
    PROVE  peak'[i].version >= peak[i].version
  <1>1. Current(i) = peak[i].version
    BY PeakCounts
  <1>2. ASSUME NEW j \in Id, NEW v, Answered(j, v), v >= Current(j)
        PROVE  peak'[i].version >= peak[i].version
    <2>1. j = i /\ peak'[i] = [version |-> v, at |-> txNow]
      BY <1>2 DEF Answered, DocInv, TypesOfClients
    <2> QED
      BY <1>1, <1>2, <2>1
  <1>3. ASSUME NEW j \in Id, NEW s \in Shard, NEW c \in Client \cup {None}, Operation(j, s, c)
        PROVE  peak'[i].version >= peak[i].version
    <2>1. ASSUME NEW w \in Versioning, IndexDoc(j, s, w, c)
          PROVE  peak'[i].version >= peak[i].version
      <3>1. NextVersion(w, Current(j)) >= Current(j)
        BY <2>1, CurrentType, VersionsGrow DEF IndexDoc, Passes, DocInv
      <3> QED
        BY <1>2, <2>1, <3>1 DEF IndexDoc, Store
    <2>2. ASSUME NEW w \in Versioning, Delete(j, s, w, c)
          PROVE  peak'[i].version >= peak[i].version
      <3>1. ~Missed(j, s) /\ Answered(j, NextVersion(w, CurrentOn(j, s)))
        BY <2>2 DEF Delete
      <3>2. CurrentOn(j, s) = Current(j)
        BY <3>1 DEF CurrentOn
      <3>3. NextVersion(w, Current(j)) >= Current(j)
        BY <2>2, <3>2, CurrentType, VersionsGrow DEF Delete, Passes, DocInv
      <3> QED
        BY <1>2, <3>1, <3>2, <3>3
    <2>3. CASE UpdateDoc(j, s, c)
      <3>1. Current(j) = doc[j].version /\ doc[j].version \in Nat
        BY <2>3, WriteAssumption DEF UpdateDoc, OnShard, Current, DocInv, TypesOfDocs, Doc
      <3> QED
        BY <1>2, <2>3, <3>1 DEF UpdateDoc, Store
    <2>4. ~(UpdateNothing(j, s, c) \/ \E w \in Versioning : RefuseIndex(j, w, c) \/ RefuseDelete(j, s, w, c))
      BY DEF UpdateNothing, RefuseIndex, RefuseDelete, Refused
    <2> QED
      BY <1>3, <2>1, <2>2, <2>3, <2>4 DEF Operation
  <1>4. ASSUME NEW j \in Id, NEW s \in Shard, IndexAuto(j, s)
        PROVE  peak'[i].version >= peak[i].version
    <2>1. Current(j) = NotFound
      BY <1>4 DEF IndexAuto, Current
    <2> QED
      BY <1>2, <1>4, <2>1 DEF IndexAuto, Store
  <1>5. ASSUME NEW j \in Id, NEW s \in Shard, Upsert(j, s)
        PROVE  peak'[i].version >= peak[i].version
    <2>1. NextVersion(Internal, Current(j)) >= Current(j)
      BY CurrentType, WriteAssumption DEF DocInv, NextVersion, Internal
    <2> QED
      BY <1>2, <1>5, <2>1 DEF Upsert, Store
  <1> QED
    BY <1>3, <1>4, <1>5
    DEF Next, Begin, EndSingle, EndBulk, RefuseLate, Tick, Read, vars

(* No write is answered with a lower version than the last one, while the  *)
(* document lives and for index.gc_deletes after its deletion.             *)
THEOREM VersionsRise == Spec => VersionsNeverGoBack
  <1>1. DocInv /\ [Next]_vars =>
            [\A i \in Id :
                /\ peak[i] # None /\ peak'[i] # peak[i]
                /\ (doc[i] # None \/ txNow - peak[i].at <= GcDeletes)
                => peak'[i].version >= peak[i].version]_vars
    BY VersionStep
  <1> QED
    BY <1>1, DocumentsInOrder, PTL DEF Spec, VersionsNeverGoBack

-----------------------------------------------------------------------------
(* Requests implement the register *)

(* Within a request the register has the version the request works on. *)
LEMMA RegisterVersion ==
    ASSUME DocInv, InRequest, NEW i \in Id
    PROVE  /\ R!Live(i) <=> doc[i] # None
           /\ R!Version(i) = Current(i)
  <1>1. R!Live(i) <=> doc[i] # None
    BY DEF R!Live, Register
  <1>2. CASE doc[i] # None
    BY <1>1, <1>2 DEF R!Version, Register, Current
  <1>3. CASE doc[i] = None /\ Tombstone(i) = None
    BY <1>1, <1>3 DEF R!Version, Register, Current
  <1>4. CASE doc[i] = None /\ Tombstone(i) # None
    <2>1. Tombstone(i).at \in Int /\ txNow \in Int /\ GcDeletes \in Int
      BY <1>4, TombstoneType, WriteAssumption DEF DocInv, TypesOfDocs, Tomb
    <2>2. ~Expired(Tombstone(i).at) <=> txNow - Tombstone(i).at <= GcDeletes
      BY <2>1 DEF Expired
    <2> QED
      BY <1>1, <1>4, <2>2 DEF R!Version, Register, Current, InRequest
  <1> QED
    BY <1>1, <1>2, <1>3, <1>4

(* Versions are drawn as the register allows. *)
LEMMA NextIsSuccessor ==
    ASSUME DocInv, InRequest, NEW i \in Id, NEW w \in Versioning, NEW deleted \in BOOLEAN,
           ~Conflict(w, Current(i), deleted)
    PROVE  NextVersion(w, Current(i)) \in R!Successors(i)
  BY RegisterVersion, CurrentType, VersionsGrow DEF R!Successors, DocInv

(* The other documents' registers stay. *)
LEMMA OtherRegisters ==
    ASSUME NEW i \in Id, NEW j \in Id, i # j, doc'[j] = doc[j], tomb'[j] = tomb[j], over'[j] = over[j]
    PROVE  Register(j)' = Register(j)
  BY DEF Register, Tombstone

(* A write within a request leaves the clock of the request. *)
LEMMA RequestClock ==
    ASSUME InRequest, Ended, txNow' = txNow
    PROVE  (IF pc = "idle" THEN now ELSE txNow)' = IF pc = "idle" THEN now ELSE txNow
  BY DEF InRequest, Ended

LEMMA StoreRefines ==
    ASSUME DocInv, InRequest, NEW i \in Id, NEW s \in Shard, NEW c \in Client \cup {None},
           NEW v \in R!Successors(i), Store(i, s, v, c)
    PROVE  R!Next
  <1>1. doc' = [doc EXCEPT ![i] = [version |-> v, seqNo |-> seqNo + 1, shard |-> s]]
    BY DEF Store
  <1>2. doc'[i] = [version |-> v, seqNo |-> seqNo + 1, shard |-> s] /\ doc'[i] # None
    <2>1. v \in Nat
      BY RegisterVersion, CurrentType, WriteAssumption DEF R!Successors, DocInv
    <2>2. doc'[i] = [version |-> v, seqNo |-> seqNo + 1, shard |-> s]
      BY <1>1 DEF DocInv, TypesOfDocs
    <2>3. doc'[i] \in Doc
      BY <2>1, <2>2, WriteAssumption DEF Store, Doc, DocInv, TypesOfDocs
    <2> QED
      BY <2>2, <2>3, NoneAssumption
  <1>3. Register(i)' = [state |-> "live", version |-> v, seqNo |-> seqNo + 1, shard |-> s]
    BY <1>2 DEF Register
  <1>4. \A j \in Id \ {i} : Register(j)' = Register(j)
    BY OtherRegisters DEF Store, DocInv, TypesOfDocs
  <1>5. [j \in Id |-> Register(j)]' = [[j \in Id |-> Register(j)] EXCEPT ![i] =
            [state |-> "live", version |-> v, seqNo |-> seqNo + 1, shard |-> s]]
    BY <1>3, <1>4
  <1>6. R!Index(i, s, v)
    BY <1>5, RequestClock DEF R!Index, Store
  <1> QED
    BY <1>6 DEF R!Next

LEMMA DeleteRefines ==
    ASSUME DocInv, NEW i \in Id, NEW s \in Shard, NEW w \in Versioning,
           NEW c \in Client \cup {None}, Delete(i, s, w, c)
    PROVE  R!Next
  <1> DEFINE v == NextVersion(w, CurrentOn(i, s))
             grave == [version |-> v, seqNo |-> seqNo + 1, at |-> txNow]
  <1>1. InRequest /\ Ended /\ UNCHANGED <<tomb, txNow, now>> /\ seqNo' = seqNo + 1
    BY DEF Delete
  <1>2. over' = [over EXCEPT ![i] = grave]
    BY DEF Delete, Bury
  <1>3. doc' = IF OnShard(i, s) THEN [doc EXCEPT ![i] = None] ELSE doc
    BY DEF Delete
  <1>4. \A j \in Id \ {i} : Register(j)' = Register(j)
    BY <1>1, <1>2, <1>3, OtherRegisters DEF DocInv, TypesOfDocs
  <1>5. CASE Missed(i, s)
    <2>1. doc'[i] = doc[i] /\ doc[i] # None
      BY <1>3, <1>5, SeenVersion DEF DocInv, Missed
    <2>2. Register(i)' = Register(i)
      BY <2>1 DEF Register
    <2>3. R!DrawNumber
      BY <1>1, <1>4, <2>2, RequestClock DEF R!DrawNumber
    <2> QED
      BY <2>3 DEF R!Next
  <1>6. CASE ~Missed(i, s)
    <2>1. doc'[i] = None
      BY <1>3, <1>6, SeenVersion DEF DocInv, TypesOfDocs
    <2>2. CurrentOn(i, s) = Current(i)
      BY <1>6 DEF CurrentOn
    <2>3. v \in R!Successors(i)
      BY <1>1, <2>2, NextIsSuccessor DEF Delete, Passes
    <2>4. grave \in Tomb
      <3>1. v \in Nat /\ v <= MaxVersion
        BY SeenVersion, VersionsGrow DEF Delete, Passes, DocInv
      <3> QED
        BY <3>1, WriteAssumption DEF Delete, Tomb, DocInv, TypesOfDocs
    <2>5. Tombstone(i)' = grave /\ grave # None
      BY <1>2, <2>4, NoneAssumption DEF Tombstone, DocInv, TypesOfDocs
    <2> DEFINE buried == [state |-> "deleted", version |-> v, seqNo |-> seqNo + 1, at |-> txNow]
    <2>6. Register(i)' = buried
      BY <2>1, <2>5 DEF Register
    <2>7. R!Live(i) => [j \in Id |-> Register(j)][i].shard = s
      BY <1>1, <1>6, RegisterVersion DEF Missed, Register
    <2> HIDE DEF v
    <2>8. [j \in Id |-> Register(j)]' = [[j \in Id |-> Register(j)] EXCEPT ![i] = buried]
      BY <1>4, <2>6
    <2>9. R!Delete(i, s, v)
      <3>1. (IF pc = "idle" THEN now ELSE txNow) = txNow
        BY <1>1 DEF InRequest
      <3> QED
        BY <1>1, <2>7, <2>8, <3>1, RequestClock DEF R!Delete
    <2> QED
      BY <2>3, <2>9 DEF R!Next
  <1> QED
    BY <1>5, <1>6

(* Refused requests leave no trace. *)
LEMMA RefusedRefines ==
    ASSUME InRequest, NEW i, NEW c, Refused(i, c)
    PROVE  UNCHANGED R!vars
  BY RequestClock DEF Refused, R!vars, Register, Tombstone, docVars, txVars

LEMMA OperationRefines ==
    ASSUME DocInv, NEW i \in Id, NEW s \in Shard, NEW c \in Client \cup {None}, Operation(i, s, c)
    PROVE  [R!Next]_R!vars
  <1>1. ASSUME NEW w \in Versioning, IndexDoc(i, s, w, c)
        PROVE  R!Next
    <2>1. NextVersion(w, Current(i)) \in R!Successors(i)
      BY <1>1, NextIsSuccessor DEF IndexDoc, Passes
    <2> QED
      BY <1>1, <2>1, StoreRefines DEF IndexDoc
  <1>2. ASSUME NEW w \in Versioning, RefuseIndex(i, w, c) \/ RefuseDelete(i, s, w, c)
        PROVE  UNCHANGED R!vars
    BY <1>2, RefusedRefines DEF RefuseIndex, RefuseDelete
  <1>3. ASSUME NEW w \in Versioning, Delete(i, s, w, c)
        PROVE  R!Next
    BY <1>3, DeleteRefines
  <1>4. CASE UpdateDoc(i, s, c)
    <2>1. InRequest /\ doc[i] # None
      BY <1>4 DEF UpdateDoc, OnShard
    <2>2. Current(i) = doc[i].version /\ doc[i].version \in Nat
      BY <2>1, WriteAssumption DEF Current, DocInv, TypesOfDocs, Doc
    <2>3. doc[i].version + 1 \in R!Successors(i)
      BY <2>1, <2>2, RegisterVersion DEF R!Successors
    <2> QED
      BY <1>4, <2>1, <2>3, StoreRefines DEF UpdateDoc
  <1>5. CASE UpdateNothing(i, s, c)
    BY <1>5, RefusedRefines DEF UpdateNothing
  <1> QED
    BY <1>1, <1>2, <1>3, <1>4, <1>5 DEF Operation

LEMMA NextRefines == DocInv /\ [Next]_vars => [R!Next]_R!vars
  <1> SUFFICES ASSUME DocInv, [Next]_vars PROVE [R!Next]_R!vars
    OBVIOUS
  <1>1. ASSUME NEW kind \in {"single", "bulk"}, Begin(kind)
        PROVE  UNCHANGED R!vars
    BY <1>1 DEF Begin, R!vars, Register, Tombstone, docVars
  <1>2. CASE EndSingle \/ EndBulk
    <2>1. /\ CommitTx /\ UNCHANGED <<doc, seqNo, txNow, now>>
          /\ pc' = "idle" /\ pc # "idle"
      BY <1>2 DEF EndSingle, EndBulk, docVars
    <2>2. [i \in Id |-> Register(i)]' = [i \in Id |-> Register(i)]
      BY <2>1, CommitKeeps DEF DocInv, Register
    <2>3. now \in Nat /\ txNow \in Nat /\ txNow <= now
      BY WriteAssumption DEF DocInv, TypesOfDocs, ClockOrder
    <2> QED
      BY <2>1, <2>2, <2>3 DEF R!Next, R!Tick, R!vars
  <1>3. CASE RefuseLate
    <2>1. InRequest /\ Ended /\ seqNo' = seqNo + 1 /\ UNCHANGED <<doc, tomb, over, txNow>>
      BY <1>3 DEF RefuseLate, txVars
    <2> QED
      BY <2>1, RequestClock DEF R!Next, R!DrawNumber, Register, Tombstone
  <1>4. CASE Tick
    <2>1. UNCHANGED <<doc, seqNo, tomb, over, txNow, pc>> /\ now' = now + 1 /\ now \in Nat
      BY <1>4, WriteAssumption DEF Tick, docVars, txVars, DocInv, TypesOfDocs
    <2>2. [i \in Id |-> Register(i)]' = [i \in Id |-> Register(i)]
      BY <2>1 DEF Register, Tombstone
    <2> QED
      BY <2>1, <2>2 DEF R!Next, R!Tick, R!vars
  <1>5. ASSUME NEW i \in Id, NEW s \in Shard, IndexAuto(i, s)
        PROVE  R!Next
    <2>1. InRequest /\ Current(i) = NotFound
      BY <1>5 DEF IndexAuto, Current
    <2>2. 1 \in R!Successors(i)
      BY <2>1, RegisterVersion DEF R!Successors
    <2> QED
      BY <1>5, <2>1, <2>2, StoreRefines DEF IndexAuto
  <1>6. ASSUME NEW i \in Id, NEW s \in Shard, Upsert(i, s)
        PROVE  R!Next
    <2>1. InRequest /\ NextVersion(Internal, Current(i)) = IF Current(i) = NotFound THEN 1 ELSE Current(i) + 1
      BY <1>6 DEF Upsert, NextVersion, Internal
    <2>2. NextVersion(Internal, Current(i)) \in R!Successors(i)
      BY <2>1, RegisterVersion DEF R!Successors
    <2> QED
      BY <1>6, <2>1, <2>2, StoreRefines DEF Upsert
  <1>7. ASSUME NEW i \in Id, NEW s \in Shard, NEW c \in Client \cup {None}, Operation(i, s, c)
        PROVE  [R!Next]_R!vars
    BY <1>7, OperationRefines
  <1>8. ASSUME NEW i \in Id, NEW s \in Shard, NEW c \in Client, Read(c, i, s)
        PROVE  UNCHANGED R!vars
    BY <1>8 DEF Read, R!vars, Register, Tombstone, docVars, txVars
  <1>9. CASE UNCHANGED vars
    BY <1>9 DEF vars, docVars, txVars, R!vars, Register, Tombstone
  <1> QED
    BY <1>1, <1>2, <1>3, <1>4, <1>5, <1>6, <1>7, <1>8, <1>9 DEF Next

(* Single and bulk requests implement one versioned register per document: *)
(* the operations of a bulk request take effect one after the other, and   *)
(* what is refused, or misses the document's shard, changes none of them.  *)
THEOREM RequestsImplementRegister == Spec => ImplementsRegister
  <1>1. Init => R!Init
    BY NoneAssumption DEF Init, R!Init, R!Unknown, Register, Tombstone
  <1> QED
    BY <1>1, NextRefines, DocumentsInOrder, PTL DEF Spec, ImplementsRegister
-----------------------------------------------------------------------------
(* What bleve holds. *)

\* The number bleve should find: that of the stored document.
Stored(i) == IF doc[i] = None THEN 0 ELSE doc[i].seqNo

\* Only a bulk request has a batch; what is in it is about to be right, and what
\* is not already is, but for what a failed flush left behind.
BleveInv ==
    /\ indexed \in [Id -> Int] /\ queued \in [Id -> Int]
    /\ pc # "bulk" => \A i \in Id : queued[i] = -1
    /\ \A i \in Id : IF queued[i] # -1 THEN queued[i] = Stored(i)
                     ELSE i \notin adrift => indexed[i] = Stored(i)

\* A document changes together with what bleve gets of it, at once or in the batch.
LEMMA ToBleveStep ==
    ASSUME BleveInv, InRequest, NEW i \in Id, NEW n \in Nat, ToBleve(i, n),
           \A j \in Id \ {i} : doc'[j] = doc[j],
           Stored(i)' = n, Ended
    PROVE  BleveInv'
<1>1. \A j \in Id \ {i} : Stored(j)' = Stored(j)
  BY DEF Stored
<1>2. CASE pc = "single"
  <2>1. /\ indexed' = [indexed EXCEPT ![i] = n] /\ adrift' = adrift \ {i} /\ queued' = queued
        /\ pc' # "bulk" /\ \A j \in Id : queued[j] = -1
    BY <1>2 DEF ToBleve, Ended, BleveInv
  <2>2. \A j \in Id : j \notin adrift' => indexed'[j] = Stored(j)'
    BY <1>1, <2>1 DEF BleveInv
  <2>3. \A j \in Id : IF queued'[j] # -1 THEN queued'[j] = Stored(j)'
                      ELSE j \notin adrift' => indexed'[j] = Stored(j)'
    BY <2>1, <2>2
  <2> QED BY <2>1, <2>3 DEF BleveInv
<1>3. CASE pc # "single"
  <2>1. /\ queued' = [queued EXCEPT ![i] = n] /\ UNCHANGED <<indexed, adrift>>
        /\ pc = "bulk" /\ pc' = "bulk"
    BY <1>3 DEF ToBleve, Ended, InRequest
  <2>2. \A j \in Id : IF queued'[j] # -1 THEN queued'[j] = Stored(j)'
                      ELSE j \notin adrift' => indexed'[j] = Stored(j)'
    BY <1>1, <2>1 DEF BleveInv
  <2> QED BY <2>1, <2>2 DEF BleveInv
<1> QED BY <1>2, <1>3

LEMMA StoreInBleve ==
    ASSUME DocInv, BleveInv, InRequest, NEW i \in Id, NEW s \in Shard, NEW v \in Nat,
           NEW c, Store(i, s, v, c)
    PROVE  BleveInv'
<1> DEFINE d == [version |-> v, seqNo |-> seqNo + 1, shard |-> s]
<1>1. /\ doc' = [doc EXCEPT ![i] = d] /\ ToBleve(i, seqNo + 1) /\ Ended
      /\ seqNo < MaxSeqNo /\ v <= MaxVersion
  BY DEF Store
<1>2. doc \in [Id -> Doc \cup {None}] /\ seqNo \in 0..MaxSeqNo
  BY DEF DocInv, TypesOfDocs
<1>3. seqNo + 1 \in Nat /\ d \in Doc
  BY <1>1, <1>2, WriteAssumption DEF Doc
<1>4. d # None
  BY <1>3, NoneAssumption
<1>5. Stored(i)' = seqNo + 1 /\ \A j \in Id \ {i} : doc'[j] = doc[j]
  BY <1>1, <1>2, <1>4 DEF Stored
<1> QED BY <1>1, <1>3, <1>5, ToBleveStep

LEMMA DeleteInBleve ==
    ASSUME DocInv, BleveInv, NEW i \in Id, NEW s \in Shard, NEW w, NEW c, Delete(i, s, w, c)
    PROVE  BleveInv'
<1>1. CASE OnShard(i, s)
  <2>1. doc' = [doc EXCEPT ![i] = None] /\ ToBleve(i, 0) /\ Ended /\ InRequest
    BY <1>1 DEF Delete
  <2>2. Stored(i)' = 0 /\ \A j \in Id \ {i} : doc'[j] = doc[j]
    BY <2>1 DEF Stored, DocInv, TypesOfDocs
  <2> QED BY <2>1, <2>2, ToBleveStep
<1>2. CASE ~OnShard(i, s)
  <2>1. UNCHANGED <<doc, indexed, queued, adrift>> /\ Ended /\ InRequest
    BY <1>2 DEF Delete, bleveVars
  <2> QED BY <2>1 DEF BleveInv, Stored, Ended, InRequest
<1> QED BY <1>1, <1>2

\* A failed flush leaves behind what the batch held, and no more.
LEMMA FlushInBleve ==
    ASSUME DocInv, BleveInv, EndBulk
    PROVE  BleveInv'
<1>1. UNCHANGED doc /\ pc' = "idle" /\ queued' = [i \in Id |-> -1]
  BY DEF EndBulk, docVars
<1>2. \A i \in Id : Stored(i)' = Stored(i)
  BY <1>1 DEF Stored
<1>3. CASE /\ indexed' = [i \in Id |-> IF i \in Queued THEN queued[i] ELSE indexed[i]]
           /\ adrift' = adrift \ Queued
  <2>1. \A i \in Id : i \notin adrift' => indexed'[i] = Stored(i)'
    BY <1>2, <1>3 DEF BleveInv, Queued
  <2>2. indexed' \in [Id -> Int]
    BY <1>3 DEF BleveInv
  <2> QED BY <1>1, <2>1, <2>2 DEF BleveInv
<1>4. CASE adrift' = adrift \cup Queued /\ UNCHANGED indexed
  <2>1. \A i \in Id : i \notin adrift' => indexed'[i] = Stored(i)'
    BY <1>2, <1>4 DEF BleveInv, Queued
  <2> QED BY <1>1, <1>4, <2>1 DEF BleveInv
<1> QED BY <1>3, <1>4 DEF EndBulk

LEMMA BleveNext == DocInv /\ BleveInv /\ [Next]_vars => BleveInv'
<1> SUFFICES ASSUME DocInv, BleveInv, [Next]_vars PROVE BleveInv'
  OBVIOUS
<1> USE DEF vars, docVars, txVars, bleveVars
<1>0. ASSUME UNCHANGED <<doc, indexed, queued, adrift>>, pc # "bulk" \/ pc' = "bulk" \/ pc' = pc
      PROVE  BleveInv'
  BY <1>0 DEF BleveInv, Stored
<1>1. CASE (\E kind \in {"single", "bulk"} : Begin(kind)) \/ EndSingle \/ RefuseLate \/ Tick
           \/ UNCHANGED vars
  BY <1>0, <1>1 DEF Begin, EndSingle, RefuseLate, Tick, Ended, InRequest
<1>2. CASE EndBulk
  BY <1>2, FlushInBleve
<1>3. ASSUME NEW i \in Id, NEW s \in Shard, IndexAuto(i, s)
      PROVE  BleveInv'
  BY <1>3, StoreInBleve DEF IndexAuto
<1>4. ASSUME NEW i \in Id, NEW s \in Shard, Upsert(i, s)
      PROVE  BleveInv'
  <2>1. NextVersion(Internal, Current(i)) \in Nat
    BY CurrentType, WriteAssumption DEF DocInv, NextVersion, Internal
  <2> QED BY <1>4, <2>1, StoreInBleve DEF Upsert
<1>5. ASSUME NEW i \in Id, NEW s \in Shard, NEW c \in Client, Read(c, i, s)
      PROVE  BleveInv'
  BY <1>0, <1>5 DEF Read
<1>6. ASSUME NEW i \in Id, NEW s \in Shard, NEW c \in Client \cup {None}, Operation(i, s, c)
      PROVE  BleveInv'
  <2>1. ASSUME NEW w \in Versioning, IndexDoc(i, s, w, c)
        PROVE  BleveInv'
    <3>1. NextVersion(w, Current(i)) \in Nat
      BY <2>1, CurrentType, VersionsGrow DEF IndexDoc, Passes, DocInv
    <3> QED BY <2>1, <3>1, StoreInBleve DEF IndexDoc
  <2>2. ASSUME NEW w \in Versioning, Delete(i, s, w, c)
        PROVE  BleveInv'
    BY <2>2, DeleteInBleve
  <2>3. CASE UpdateDoc(i, s, c)
    <3>1. doc[i].version + 1 \in Nat
      BY <2>3, WriteAssumption DEF UpdateDoc, OnShard, DocInv, TypesOfDocs, Doc
    <3> QED BY <2>3, <3>1, StoreInBleve DEF UpdateDoc
  <2>4. ASSUME Refused(i, c), InRequest
        PROVE  BleveInv'
    BY <1>0, <2>4 DEF Refused, Ended, InRequest
  <2>5. ASSUME NEW w \in Versioning, RefuseIndex(i, w, c) \/ RefuseDelete(i, s, w, c)
        PROVE  BleveInv'
    BY <2>4, <2>5 DEF RefuseIndex, RefuseDelete
  <2>6. CASE UpdateNothing(i, s, c)
    BY <2>4, <2>6 DEF UpdateNothing
  <2> QED BY <1>6, <2>1, <2>2, <2>3, <2>5, <2>6 DEF Operation
<1> QED BY <1>1, <1>2, <1>3, <1>4, <1>5, <1>6 DEF Next

\* Between requests a search finds every document as it is stored, and no other,
\* unless the batch of a bulk request failed on it and nobody wrote it since.
THEOREM SearchesFindWhatIsStored == Spec => []StoredIsSearchable
<1>1. Init => BleveInv
  BY DEF Init, BleveInv, Stored
<1>2. BleveInv => StoredIsSearchable
  BY DEF BleveInv, StoredIsSearchable, Stored
<1> QED BY <1>1, <1>2, DocumentsInOrder, BleveNext, PTL DEF Spec
=============================================================================
