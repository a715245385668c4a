------------------------------ MODULE Tombstones ------------------------------
(***************************************************************************)
(* Versions of deleted documents along the copy-on-write lineage of one    *)
(* index (tombstones.go).                                                  *)
(*                                                                         *)
(* Clusters that share an Index share its tombstones, which a process-wide *)
(* registry keeps outside the Index: a short history of snapshots, keyed   *)
(* by weak pointers.  A cluster that copies the Index before its first     *)
(* write inherits the snapshot as of the copy's sequence number, in a step *)
(* of its own after it gave up its share: by then the other cluster may be *)
(* writing to the original.  Snapshots are maps that several histories can *)
(* refer to, and a commit changes the newest one in place when it takes it *)
(* to be private.                                                          *)
(*                                                                         *)
(* Index objects, reference counts and locks are those of CopyOnWrite; the *)
(* share of a cluster is the only kind of holder here.                     *)
(***************************************************************************)
EXTENDS Integers, FiniteSets, SequencesExt

CONSTANTS
    Cluster,    \* engine.Cluster handles; a closed one can be cloned into again
    Id,         \* document ids
    Obj,        \* Index objects; a collected one is used again
    MapId,      \* items maps, numbers; an unreferenced one is used again
    MaxVersion, \* bound on versions
    MaxSeqNo,   \* bound on sequence numbers, one less after each copy of bypasses
    MaxCopies,  \* bound on Index.copies
    MaxTime,    \* bound on the clock
    GcDeletes,  \* index.gc_deletes
    History,    \* tombstoneHistory
    MaxBypasses,\* bound on the copies that inherit nothing (see bypassed)
    Nil

ASSUME Bounds ==
    /\ MaxVersion \in Nat /\ MaxSeqNo \in Nat /\ MaxCopies \in Nat /\ MaxTime \in Nat
    /\ GcDeletes \in Nat /\ History \in Nat \ {0} /\ MapId \subseteq Nat
    /\ MaxBypasses \in Nat

ASSUME NilAssumption == Nil \notin Obj

VARIABLES
    cur,        \* cur[c]: the Index of the cluster, Nil when it has none
    docs,       \* docs[o][i]: version of the stored document, 0 if there is none
    seqNo,      \* seqNo[o]: Index.seqNo
    copies,     \* copies[o]: Index.copies
    hist,       \* hist[o]: tombstones.byIndex[o].history; empty if not registered
    items,      \* items[m]: contents of the items map m
    seen,       \* seen[c]: tombstones.lastSeen[c], a weak pointer
    now,        \* the clock
    pc,         \* pc[c]: step of the request that holds c.mu.Lock
    before,     \* before[c]: the Index the request found
    txNow,      \* docTx.now
    pending,    \* docTx.pending
    removed,    \* docTx.removed
    truth,      \* truth[c][i]: the last deletion of i in the history of c that no
                \* indexing followed (a history variable: no code behind it)
    bypassed,   \* clusters whose history has a copy that inherited nothing when it was
                \* installed: an index-level write, a document request that a write
                \* block stopped, or one that came too late (a history variable)
    bypasses    \* how many such copies there were (a bound)

objVars == <<docs, seqNo, copies>>
regVars == <<hist, items, seen>>
txVars == <<txNow, pending, removed>>
history == <<bypassed, bypasses>>
vars == <<cur, objVars, regVars, now, pc, before, txVars, truth, history>>

Version == 1..MaxVersion
Nothing == [version |-> 0, at |-> 0]            \* no tombstone
NoItems == [i \in Id |-> Nothing]
Tombstone == {Nothing} \cup [version : Version, at : 0..MaxTime]
Step == {"idle", "copy", "inherit", "note", "ops", "indexCopy"}

\* The clusters among which Index.refs of o is shared, and whether anybody but
\* weak pointers refers to it.
Sharers(o) == {c \in Cluster : cur[c] = o}
Reachable(o) == Sharers(o) # {} \/ \E c \in Cluster : before[c] = o

InUse(m) == \E o \in Obj : \E k \in DOMAIN hist[o] : hist[o][k].map = m
Unused == {m \in MapId : ~InUse(m)}
FreshMap == CHOOSE m \in Unused : \A x \in Unused : m <= x

Init ==
    /\ \E c \in Cluster, o \in Obj : cur = [d \in Cluster |-> IF d = c THEN o ELSE Nil]
    /\ docs = [o \in Obj |-> [i \in Id |-> 0]]
    /\ seqNo = [o \in Obj |-> -1]
    /\ copies = [o \in Obj |-> 0]
    /\ hist = [o \in Obj |-> <<>>]
    /\ items = [m \in MapId |-> NoItems]
    /\ seen = [c \in Cluster |-> Nil]
    /\ now = 0
    /\ pc = [c \in Cluster |-> "idle"]
    /\ before = [c \in Cluster |-> Nil]
    /\ txNow = [c \in Cluster |-> 0]
    /\ pending = [c \in Cluster |-> NoItems]
    /\ removed = [c \in Cluster |-> {}]
    /\ truth = [c \in Cluster |-> NoItems]
    /\ bypassed = {} /\ bypasses = 0

\* The bound on sequence numbers leaves c another operation.
WithinBound(c) == seqNo[cur[c]] + bypasses < MaxSeqNo

\* c gets a copy that inherits nothing.
Bypass(c) ==
    /\ bypasses < MaxBypasses /\ WithinBound(c)
    /\ bypassed' = bypassed \cup {c}
    /\ bypasses' = bypasses + 1

-----------------------------------------------------------------------------
(* The registry. *)

Expired(t, time) == t = Nothing \/ time - t.at > GcDeletes

\* current: the newest snapshot's items.
CurrentItems(o) == IF hist[o] = <<>> THEN NoItems ELSE items[Last(hist[o]).map]

\* snapshotAt: positions of the snapshots of o not newer than n, and the newest.
NotNewer(o, n) == {k \in DOMAIN hist[o] : hist[o][k].seqNo <= n}
SnapshotNewest(o, n) == Len(hist[o])            \* mutant: ignores the copy's seqNo
SnapshotAt(o, n) == CHOOSE k \in NotNewer(o, n) : \A j \in NotNewer(o, n) : j <= k

\* inheritLocked does something: `to` has no tombstones of its own, and the
\* snapshot of `from` at its sequence number has some.
Inherits(from, to) ==
    /\ from # Nil /\ from # to /\ hist[to] = <<>>
    /\ NotNewer(from, seqNo[to]) # {}
    /\ items[hist[from][SnapshotAt(from, seqNo[to])].map] # NoItems

\* inheritLocked: `to` starts its history with the map of `from`.
InheritLocked(from, to) ==
    IF Inherits(from, to)
    THEN LET k == SnapshotAt(from, seqNo[to])
         IN hist' = [hist EXCEPT
                ![from][k].shared = TRUE,
                ![to] = <<[seqNo |-> seqNo[to], map |-> hist[from][k].map,
                           copies |-> copies[to], shared |-> TRUE]>>]
    ELSE UNCHANGED hist

\* mutable: commit may update the newest snapshot of o in place.
MutableIgnoringShared(o) == hist[o] # <<>> /\ Last(hist[o]).copies = copies[o]  \* mutant
Mutable(o) == hist[o] # <<>> /\ ~Last(hist[o]).shared /\ Last(hist[o]).copies = copies[o]

\* The maps that no history in h refers to are garbage.
Kept(h, maps) ==
    [m \in MapId |-> IF \E o \in Obj : \E k \in DOMAIN h[o] : h[o][k].map = m
                     THEN maps[m] ELSE NoItems]

\* The garbage collector reclaims an Index: its entry and the weak pointers go.
Collected(o) == seqNo[o] = -1 /\ copies[o] = 0 /\ hist[o] = <<>> /\ \A c \in Cluster : seen[c] # o
Collect(o) ==
    /\ ~Reachable(o) /\ ~Collected(o)
    /\ docs' = [docs EXCEPT ![o] = [i \in Id |-> 0]]
    /\ seqNo' = [seqNo EXCEPT ![o] = -1]
    /\ copies' = [copies EXCEPT ![o] = 0]
    /\ hist' = [hist EXCEPT ![o] = <<>>]
    /\ items' = Kept(hist', items)
    /\ seen' = [c \in Cluster |-> IF seen[c] = o THEN Nil ELSE seen[c]]
    /\ UNCHANGED <<cur, now, pc, before, txVars, truth, history>>

-----------------------------------------------------------------------------
(* The clock, clones and their end. *)

Tick ==
    /\ now < MaxTime
    /\ now' = now + 1
    /\ UNCHANGED <<cur, objVars, regVars, pc, before, txVars, truth, history>>

Clone(c, d) ==
    /\ cur[c] # Nil /\ pc[c] = "idle" /\ cur[d] = Nil
    /\ cur' = [cur EXCEPT ![d] = cur[c]]
    /\ truth' = [truth EXCEPT ![d] = truth[c]]
    /\ bypassed' = IF c \in bypassed THEN bypassed \cup {d} ELSE bypassed
    /\ UNCHANGED <<objVars, regVars, now, pc, before, txVars, bypasses>>

\* Close, and the collection of the handle.
Close(c) ==
    /\ cur[c] # Nil /\ pc[c] = "idle"
    /\ cur' = [cur EXCEPT ![c] = Nil]
    /\ seen' = [seen EXCEPT ![c] = Nil]
    /\ truth' = [truth EXCEPT ![c] = NoItems]
    /\ bypassed' = bypassed \ {c}
    /\ UNCHANGED <<objVars, hist, items, now, pc, before, txVars, bypasses>>

-----------------------------------------------------------------------------
(* A document request: docWritable or docEnsureIndex, operations, commit. *)

\* newDocTx, and writable when the Index is not shared: nothing to inherit.
BeginOwned(c) ==
    /\ cur[c] # Nil /\ pc[c] = "idle" /\ Sharers(cur[c]) = {c}
    /\ pc' = [pc EXCEPT ![c] = "note"]
    /\ txNow' = [txNow EXCEPT ![c] = now]
    /\ UNCHANGED <<cur, objVars, regVars, now, before, pending, removed, truth, history>>

\* newDocTx, and writable when it is: copyIndex counts the copy first.
BeginSharedUncounted(c) ==                      \* mutant: no copies.Add
    /\ cur[c] # Nil /\ pc[c] = "idle" /\ Sharers(cur[c]) # {c} /\ copies[cur[c]] < MaxCopies
    /\ before' = [before EXCEPT ![c] = cur[c]]
    /\ pc' = [pc EXCEPT ![c] = "copy"]
    /\ txNow' = [txNow EXCEPT ![c] = now]
    /\ UNCHANGED <<cur, objVars, regVars, now, pending, removed, truth, history>>
BeginShared(c) ==
    /\ cur[c] # Nil /\ pc[c] = "idle" /\ Sharers(cur[c]) # {c} /\ copies[cur[c]] < MaxCopies
    /\ copies' = [copies EXCEPT ![cur[c]] = @ + 1]
    /\ before' = [before EXCEPT ![c] = cur[c]]
    /\ pc' = [pc EXCEPT ![c] = "copy"]
    /\ txNow' = [txNow EXCEPT ![c] = now]
    /\ UNCHANGED <<cur, docs, seqNo, regVars, now, pending, removed, truth, history>>

\* The request is over.
Return(c) ==
    /\ pc' = [pc EXCEPT ![c] = "idle"]
    /\ before' = [before EXCEPT ![c] = Nil]
    /\ txNow' = [txNow EXCEPT ![c] = 0]
    /\ pending' = [pending EXCEPT ![c] = NoItems]
    /\ removed' = [removed EXCEPT ![c] = {}]

AbortCopy(c) ==
    /\ pc[c] \in {"copy", "indexCopy"}
    /\ Return(c)
    /\ UNCHANGED <<cur, objVars, regVars, now, truth, history>>

\* The copy n takes the place of the Index of c, whose share is released.
Replace(c, n) ==
    /\ ~Reachable(n) /\ Collected(n)
    /\ docs' = [docs EXCEPT ![n] = docs[cur[c]]]
    /\ seqNo' = [seqNo EXCEPT ![n] = seqNo[cur[c]]]
    /\ cur' = [cur EXCEPT ![c] = n]

Install(c, n) ==
    /\ pc[c] = "copy"
    /\ Replace(c, n)
    /\ pc' = [pc EXCEPT ![c] = "inherit"]
    /\ UNCHANGED <<copies, regVars, now, before, txVars, truth, history>>

\* The copy `to` finds no snapshot as old as itself, and some may have been evicted
\* since it was installed: the registry's lock is free between the two steps, and
\* other clusters can fill the history of `from` meanwhile.
TooLate(from, to) == NotNewer(from, seqNo[to]) = {} /\ Len(hist[from]) = History

\* inheritTombstones(before, ix)
Inherit(c) ==
    /\ pc[c] = "inherit"
    /\ InheritLocked(before[c], cur[c])
    /\ before' = [before EXCEPT ![c] = Nil]
    /\ pc' = [pc EXCEPT ![c] = "note"]
    /\ bypassed' = IF TooLate(before[c], cur[c]) THEN bypassed \cup {c} ELSE bypassed
    /\ UNCHANGED <<cur, objVars, items, seen, now, txVars, truth, bypasses>>

\* docEnsureIndex returns the error of a write block before it inherits.
Blocked(c) ==
    /\ pc[c] \in {"inherit", "note"}
    /\ Return(c)
    /\ IF pc[c] = "inherit" THEN Bypass(c) ELSE UNCHANGED history
    /\ UNCHANGED <<cur, objVars, regVars, now, truth>>

\* noteIndex: catches up with a copy made by an index-level write, as long as
\* the Index c used before is still there.
Note(c) ==
    /\ pc[c] = "note"
    /\ InheritLocked(seen[c], cur[c])
    /\ seen' = [seen EXCEPT ![c] = cur[c]]
    /\ pc' = [pc EXCEPT ![c] = "ops"]
    /\ UNCHANGED <<cur, objVars, items, now, before, txVars, truth, history>>

\* docTx.tombstone
Visible(c, i) ==
    LET t == IF i \in removed[c] THEN Nothing
             ELSE IF pending[c][i] # Nothing THEN pending[c][i]
             ELSE CurrentItems(cur[c])[i]
    IN IF Expired(t, txNow[c]) THEN Nothing ELSE t

\* currentVersion and updateVersion of internal versioning.
NextVersion(c, i) ==
    1 + (IF docs[cur[c]][i] # 0 THEN docs[cur[c]][i] ELSE Visible(c, i).version)

\* putDoc: the document gets the next version, its tombstone is cleared.
Put(c, i) ==
    /\ pc[c] = "ops" /\ WithinBound(c) /\ NextVersion(c, i) \in Version
    /\ docs' = [docs EXCEPT ![cur[c]][i] = NextVersion(c, i)]
    /\ seqNo' = [seqNo EXCEPT ![cur[c]] = @ + 1]
    /\ pending' = [pending EXCEPT ![c][i] = Nothing]
    /\ removed' = [removed EXCEPT ![c] = @ \cup {i}]
    /\ truth' = [truth EXCEPT ![c][i] = Nothing]
    /\ UNCHANGED <<cur, copies, regVars, now, pc, before, txNow, history>>

\* deleteDoc: a missing document gets a tombstone as well.
Delete(c, i) ==
    /\ pc[c] = "ops" /\ WithinBound(c) /\ NextVersion(c, i) \in Version
    /\ docs' = [docs EXCEPT ![cur[c]][i] = 0]
    /\ seqNo' = [seqNo EXCEPT ![cur[c]] = @ + 1]
    /\ LET t == [version |-> NextVersion(c, i), at |-> txNow[c]]
       IN /\ pending' = [pending EXCEPT ![c][i] = t]
          /\ truth' = [truth EXCEPT ![c][i] = t]
    /\ removed' = [removed EXCEPT ![c] = @ \ {i}]
    /\ UNCHANGED <<cur, copies, regVars, now, pc, before, txNow, history>>

\* commit has something to publish.
Publishes(c) ==
    \/ pending[c] # NoItems
    \/ \E i \in removed[c] : CurrentItems(cur[c])[i] # Nothing

\* Items with the transaction applied, and without those expired.
Applied(c, m) == [i \in Id |-> CASE i \in removed[c] -> Nothing
                                 [] pending[c][i] # Nothing -> pending[c][i]
                                 [] OTHER -> m[i]]
Pruned(c, m) == [i \in Id |-> IF Expired(m[i], txNow[c]) THEN Nothing ELSE m[i]]

Truncated(h) == IF Len(h) > History THEN Tail(h) ELSE h

\* The newest snapshot is updated; a map that has grown enough is swept.
CommitInPlace(c) ==
    LET o == cur[c]
        m == Last(hist[o]).map
    IN /\ \E swept \in {Applied(c, items[m]), Pruned(c, Applied(c, items[m]))} :
              items' = [items EXCEPT ![m] = swept]
       /\ hist' = [hist EXCEPT ![o][Len(hist[o])].seqNo = seqNo[o]]

\* A new snapshot is added.
CommitAppend(c) ==
    LET o == cur[c]
        new == [seqNo |-> seqNo[o], map |-> FreshMap, copies |-> copies[o], shared |-> FALSE]
    IN /\ Unused # {}
       /\ hist' = [hist EXCEPT ![o] = Truncated(Append(@, new))]
       /\ items' = Kept(hist', [items EXCEPT ![FreshMap] = Applied(c, Pruned(c, CurrentItems(o)))])

Commit(c) ==
    /\ pc[c] = "ops"
    /\ IF ~Publishes(c) THEN UNCHANGED <<hist, items>>
       ELSE IF Mutable(cur[c]) THEN CommitInPlace(c) ELSE CommitAppend(c)
    /\ Return(c)
    /\ UNCHANGED <<cur, objVars, seen, now, truth, history>>

-----------------------------------------------------------------------------
(* Index-level writes leave documents and tombstones alone, but replace the *)
(* Index.                                                                   *)

StartIndexCopy(c) ==
    /\ cur[c] # Nil /\ pc[c] = "idle" /\ bypasses < MaxBypasses /\ WithinBound(c)
    /\ Sharers(cur[c]) # {c} /\ copies[cur[c]] < MaxCopies
    /\ copies' = [copies EXCEPT ![cur[c]] = @ + 1]
    /\ pc' = [pc EXCEPT ![c] = "indexCopy"]
    /\ UNCHANGED <<cur, docs, seqNo, regVars, now, before, txVars, truth, history>>

\* writable without docWritable: the copy does not inherit.
InstallIndexCopy(c, n) ==
    /\ pc[c] = "indexCopy"
    /\ Replace(c, n)
    /\ pc' = [pc EXCEPT ![c] = "idle"]
    /\ Bypass(c)
    /\ UNCHANGED <<copies, regVars, now, before, txVars, truth>>

\* A copy of an Index that is not shared.
Rebuild(c, n) ==
    /\ cur[c] # Nil /\ pc[c] = "idle"
    /\ Sharers(cur[c]) = {c} /\ copies[cur[c]] < MaxCopies
    /\ Replace(c, n)
    /\ copies' = [copies EXCEPT ![cur[c]] = @ + 1]
    /\ UNCHANGED <<items, seen, now, pc, before, txVars, truth>>

\* PutMapping hands the tombstones over in the same critical section.
PutMapping(c, n) ==
    /\ Rebuild(c, n)
    /\ LET from == cur[c]
       IN hist' = IF CurrentItems(from) = NoItems THEN hist
                  ELSE [hist EXCEPT
                           ![from][Len(hist[from])].shared = TRUE,
                           ![n] = <<[seqNo |-> seqNo[from], map |-> Last(hist[from]).map,
                                     copies |-> 0, shared |-> TRUE]>>]
    /\ UNCHANGED history

\* OpenIndex does not.
OpenIndex(c, n) ==
    /\ Rebuild(c, n)
    /\ Bypass(c)
    /\ UNCHANGED hist

-----------------------------------------------------------------------------

\* Nobody can tell when an Index without weak pointers to it is reclaimed: at
\* once.
Clean == \A o \in Obj : Reachable(o) \/ Collected(o) \/ \E c \in Cluster : seen[c] = o

Next ==
    \/ \E o \in Obj : Collect(o)
    \/ /\ Clean
       /\ \/ Tick
          \/ \E c, d \in Cluster : Clone(c, d)
          \/ \E c \in Cluster :
                \/ BeginOwned(c) \/ BeginShared(c) \/ AbortCopy(c) \/ Inherit(c) \/ Blocked(c)
                \/ Note(c) \/ Commit(c) \/ StartIndexCopy(c) \/ Close(c)
          \/ \E c \in Cluster, n \in Obj :
                Install(c, n) \/ InstallIndexCopy(c, n) \/ PutMapping(c, n) \/ OpenIndex(c, n)
          \/ \E c \in Cluster, i \in Id : Put(c, i) \/ Delete(c, i)

Spec == Init /\ [][Next]_vars

-----------------------------------------------------------------------------

\* The deletion of i a request of c should see.
Expected(c, i) == IF Expired(truth[c][i], txNow[c]) THEN Nothing ELSE truth[c][i]

\* A document request plans its writes against exactly the deletions in the
\* history of its cluster that are in the window: its own, and those made
\* before the clone it descends from was taken, whoever writes or copies
\* meanwhile.  (A cluster with a copy in its history that did not inherit when it
\* was installed may have lost some: noteIndex makes up for it only if the
\* cluster used the Index in a document request and it is still there.  So may one
\* whose copy came to inherit after tombstoneHistory snapshots by others, TooLate.)
RemembersDeletions ==
    \A c \in Cluster \ bypassed, i \in Id :
        pc[c] = "ops" /\ docs[cur[c]][i] = 0 => Visible(c, i) = Expected(c, i)

\* It never sees a deletion of another cluster.
InventsNoDeletion ==
    \A c \in Cluster, i \in Id :
        pc[c] = "ops" /\ docs[cur[c]][i] = 0 => Visible(c, i) \in {Nothing, Expected(c, i)}

\* "shared maps are never mutated": an items map changes only while a single
\* Index refers to it.
SharedMapsFrozen ==
    [][\A m \in MapId : items'[m] # items[m]
          => Cardinality({o \in Obj : \E k \in DOMAIN hist[o] : hist[o][k].map = m}) <= 1]_vars
=============================================================================
