----------------------------- MODULE CopyOnWrite -----------------------------
(***************************************************************************)
(* Clusters of an osmem process and the Index objects they share.          *)
(*                                                                         *)
(* Cluster.Clone copies the map of indices only: an Index carries an       *)
(* atomic reference count and is duplicated the first time one of its      *)
(* holders writes to it (Cluster.writable).  A point in time (PIT) and a   *)
(* search over a PIT are holders too.  Each cluster has its own c.mu, so   *)
(* the only thing two clusters synchronise on is the counter.              *)
(*                                                                         *)
(* A request that holds c.mu.Lock runs in steps here, because another      *)
(* cluster can read or change the counter, or read the shared object,      *)
(* between them.  Requests whose effect is confined to counters the        *)
(* cluster already holds a share of are one action.                        *)
(***************************************************************************)
EXTENDS Integers, FiniteSets

CONSTANTS
    Cluster,    \* engine.Cluster handles
    Name,       \* index names
    Obj,        \* Index objects; an unreachable one is reused (garbage collection)
    Pit,        \* point-in-time ids; a deleted one is reused
    Reader,     \* goroutines that run a search
    Data,       \* what a search can observe of an index: documents, mapping, aliases
    Empty,      \* the data of a new index without documents
    Nil         \* "no object", "no cluster", "no name"

ASSUME FiniteParts ==
    /\ IsFiniteSet(Cluster) /\ IsFiniteSet(Name)
    /\ IsFiniteSet(Pit) /\ IsFiniteSet(Reader)
ASSUME NilIsNothing == Nil \notin Cluster \cup Name \cup Obj
ASSUME EmptyIsData == Empty \in Data

VARIABLES
    phase,      \* phase[c]: handle not created yet, in use, or closed (c.closed)
    indices,    \* indices[c][n]: the Index registered under n, or Nil
    refs,       \* refs[o]: Index.refs
    closed,     \* closed[o]: not allocated, or released by its last holder
    content,    \* content[o]: what the Index holds
    pitOwner,   \* pitOwner[p]: the cluster whose c.pits has p, or Nil
    pitObj,     \* pitObj[p][n]: the Index of target n, or Nil
    pitLost,    \* pitLost[p]: index names whose reader contexts were freed
    pitExpired, \* pitExpired[p]: the keep-alive has passed
    rCluster,   \* rCluster[r]: the cluster whose c.mu.RLock a search holds, or Nil
    rObjs,      \* rObjs[r][n]: the Index the search reads, or Nil
    rHolds,     \* rHolds[r]: the search retained its targets (search over a PIT)
    pc,         \* pc[c]: step of the request that holds c.mu.Lock
    kind,       \* kind[c]: which request it is
    todo,       \* todo[c]: targets it has not finished
    at,         \* at[c]: the target it works on
    fresh       \* fresh[c]: the copy it is building, or Nil

clusterVars == <<phase, indices>>
objVars == <<refs, closed, content>>
pitVars == <<pitOwner, pitObj, pitLost, pitExpired>>
readerVars == <<rCluster, rObjs, rHolds>>
opVars == <<pc, kind, todo, at, fresh>>
vars == <<clusterVars, objVars, pitVars, readerVars, opVars>>

Kind == {"doc", "mapping", "settings", "close", "open"}
Step == {"idle", "load", "copy", "swap", "apply", "rebuild", "install", "closing"}

\* The part of an Index that copyIndex carries over.
Content == [data : Data, shut : BOOLEAN, reopen : BOOLEAN]
Blank == [data |-> Empty, shut |-> FALSE, reopen |-> FALSE]

NoRow == [n \in Name |-> Nil]
Only(m, o) == [n \in Name |-> IF n = m THEN o ELSE Nil]

-----------------------------------------------------------------------------
(* Holders of an Index. *)

\* The names under which a row (a map of targets) refers to o.
Row(row, o) == {n \in Name : row[n] = o}

\* Every reference the counter stands for.
IndexHolders(o) == {h \in {"index"} \X Cluster \X Name : indices[h[2]][h[3]] = o}
PitHolders(o) == {h \in {"pit"} \X Pit \X Name : pitObj[h[2]][h[3]] = o}
ReaderHolders(o) ==
    {h \in {"reader"} \X Reader \X Name : rHolds[h[2]] /\ rObjs[h[2]][h[3]] = o}
FreshHolders(o) == {h \in {"fresh"} \X Cluster \X {Nil} : fresh[h[2]] = o}
Holders(o) == IndexHolders(o) \cup PitHolders(o) \cup ReaderHolders(o) \cup FreshHolders(o)

\* No variable of the program refers to o any more.
Unreachable(o) == Holders(o) = {} /\ \A r \in Reader : Row(rObjs[r], o) = {}

\* refs.Add(1) for every target of a row.
Retain(row) == refs' = [o \in Obj |-> refs[o] + Cardinality(Row(row, o))]

\* Index.release for every target of a row: whoever drops the last reference
\* closes the bleve index, and its content is gone.
Dies(row, o) == Row(row, o) # {} /\ refs[o] = Cardinality(Row(row, o))
ReleaseCount(row) ==
    /\ refs' = [o \in Obj |-> refs[o] - Cardinality(Row(row, o))]
    /\ closed' = [o \in Obj |-> closed[o] \/ Dies(row, o)]
Release(row) ==
    /\ ReleaseCount(row)
    /\ content' = [o \in Obj |-> IF Dies(row, o) THEN Blank ELSE content[o]]

\* newIndex: a new object with one reference.
Allocate(f, value) ==
    /\ closed[f] /\ Unreachable(f)
    /\ refs' = [refs EXCEPT ![f] = 1]
    /\ closed' = [closed EXCEPT ![f] = FALSE]
    /\ content' = [content EXCEPT ![f] = value]

-----------------------------------------------------------------------------
(* c.mu of each cluster. *)

Unlocked(c) == pc[c] = "idle"                   \* c.mu.RLock succeeds
Free(c) == Unlocked(c) /\ \A r \in Reader : rCluster[r] # c  \* c.mu.Lock succeeds

\* The request is done with the current target (todo[c] is the rest).
NextTarget(c) ==
    /\ todo' = [todo EXCEPT ![c] = @ \ {at[c]}]
    /\ at' = [at EXCEPT ![c] = Nil]
    /\ pc' = [pc EXCEPT ![c] = IF todo[c] = {at[c]} THEN "idle" ELSE "load"]
    /\ kind' = [kind EXCEPT ![c] = IF todo[c] = {at[c]} THEN "doc" ELSE @]

\* The request returns an error: targets it has written stay written.
Abort(c) ==
    /\ todo' = [todo EXCEPT ![c] = {}]
    /\ at' = [at EXCEPT ![c] = Nil]
    /\ pc' = [pc EXCEPT ![c] = "idle"]
    /\ kind' = [kind EXCEPT ![c] = "doc"]

\* A failing document operation fails its item only (Bulk); every other
\* request stops at its first failing target.
FailTarget(c) == IF kind[c] = "doc" THEN NextTarget(c) ELSE Abort(c)

\* Close, open and document requests look at the CLOSE state first.
Eligible(k, o) ==
    CASE k \in {"doc", "close"} -> ~content[o].shut
      [] k = "open" -> content[o].shut
      [] OTHER -> TRUE

Target(c) == indices[c][at[c]]

Init ==
    /\ \E c \in Cluster : phase = [d \in Cluster |-> IF d = c THEN "open" ELSE "unborn"]
    /\ indices = [c \in Cluster |-> NoRow]
    /\ refs = [o \in Obj |-> 0]
    /\ closed = [o \in Obj |-> TRUE]
    /\ content = [o \in Obj |-> Blank]
    /\ pitOwner = [p \in Pit |-> Nil]
    /\ pitObj = [p \in Pit |-> NoRow]
    /\ pitLost = [p \in Pit |-> {}]
    /\ pitExpired = [p \in Pit |-> FALSE]
    /\ rCluster = [r \in Reader |-> Nil]
    /\ rObjs = [r \in Reader |-> NoRow]
    /\ rHolds = [r \in Reader |-> FALSE]
    /\ pc = [c \in Cluster |-> "idle"]
    /\ kind = [c \in Cluster |-> "doc"]
    /\ todo = [c \in Cluster |-> {}]
    /\ at = [c \in Cluster |-> Nil]
    /\ fresh = [c \in Cluster |-> Nil]

-----------------------------------------------------------------------------
(* Requests that are one step. *)

CloneUnretained(c, d) ==                        \* mutant: no refs.Add
    /\ phase[c] # "unborn" /\ phase[d] = "unborn" /\ Unlocked(c)
    /\ phase' = [phase EXCEPT ![d] = "open"]
    /\ indices' = [indices EXCEPT ![d] = indices[c]]
    /\ UNCHANGED <<objVars, pitVars, readerVars, opVars>>

\* Cluster.Clone: every index of c gets one more holder.
Clone(c, d) ==
    /\ phase[c] # "unborn" /\ phase[d] = "unborn" /\ Unlocked(c)
    /\ phase' = [phase EXCEPT ![d] = "open"]
    /\ indices' = [indices EXCEPT ![d] = indices[c]]
    /\ Retain(indices[c])
    /\ UNCHANGED <<closed, content, pitVars, readerVars, opVars>>

\* CreateIndex, and ensureIndex when a document names a missing index.
\* Neither looks at c.closed.
CreateIndex(c, n, f, d) ==
    /\ phase[c] # "unborn" /\ Free(c) /\ indices[c][n] = Nil
    /\ Allocate(f, [Blank EXCEPT !.data = d])
    /\ indices' = [indices EXCEPT ![c][n] = f]
    /\ UNCHANGED <<phase, pitVars, readerVars, opVars>>

KeepPITContexts(c, n) == pitLost' = pitLost       \* mutant: does nothing

\* dropPITContexts: the reader contexts of an index are freed.
DropPITContexts(c, n) ==
    pitLost' = [p \in Pit |-> IF pitOwner[p] = c /\ pitObj[p][n] # Nil
                              THEN pitLost[p] \cup {n} ELSE pitLost[p]]

DeleteIndexUnderRLock(c, n) ==                  \* mutant: does not wait for searches
    /\ Unlocked(c) /\ indices[c][n] # Nil
    /\ Release(Only(n, indices[c][n]))
    /\ indices' = [indices EXCEPT ![c][n] = Nil]
    /\ DropPITContexts(c, n)
    /\ UNCHANGED <<phase, pitOwner, pitObj, pitExpired, readerVars, opVars>>

DeleteIndex(c, n) ==
    /\ Free(c) /\ indices[c][n] # Nil
    /\ Release(Only(n, indices[c][n]))
    /\ indices' = [indices EXCEPT ![c][n] = Nil]
    /\ DropPITContexts(c, n)
    /\ UNCHANGED <<phase, pitOwner, pitObj, pitExpired, readerVars, opVars>>

\* The remove_index action of an alias update deletes the index as well, but
\* leaves the points in time alone.
RemoveIndex(c, n) ==
    /\ Free(c) /\ indices[c][n] # Nil
    /\ Release(Only(n, indices[c][n]))
    /\ indices' = [indices EXCEPT ![c][n] = Nil]
    /\ UNCHANGED <<phase, pitVars, readerVars, opVars>>

CreatePITUnretained(p, c, S) ==                 \* mutant: no refs.Add
    /\ pitOwner[p] = Nil /\ Unlocked(c) /\ S # {}
    /\ \A n \in S : indices[c][n] # Nil /\ ~content[indices[c][n]].shut
    /\ pitObj' = [pitObj EXCEPT ![p] = [n \in Name |-> IF n \in S THEN indices[c][n] ELSE Nil]]
    /\ pitOwner' = [pitOwner EXCEPT ![p] = c]
    /\ pitLost' = [pitLost EXCEPT ![p] = {}]
    /\ pitExpired' = [pitExpired EXCEPT ![p] = FALSE]
    /\ UNCHANGED <<clusterVars, objVars, readerVars, opVars>>

\* CreatePIT over the open indices S: retaining them makes later writes copy.
CreatePIT(p, c, S) ==
    /\ pitOwner[p] = Nil /\ Unlocked(c) /\ S # {}
    /\ \A n \in S : indices[c][n] # Nil /\ ~content[indices[c][n]].shut
    /\ LET row == [n \in Name |-> IF n \in S THEN indices[c][n] ELSE Nil]
       IN /\ pitObj' = [pitObj EXCEPT ![p] = row]
          /\ Retain(row)
    /\ pitOwner' = [pitOwner EXCEPT ![p] = c]
    /\ pitLost' = [pitLost EXCEPT ![p] = {}]
    /\ pitExpired' = [pitExpired EXCEPT ![p] = FALSE]
    /\ UNCHANGED <<clusterVars, closed, content, readerVars, opVars>>

\* releasePIT and the removal of p from c.pits, under scrollMu only.
FreePIT(p) ==
    /\ Release(pitObj[p])
    /\ pitOwner' = [pitOwner EXCEPT ![p] = Nil]
    /\ pitObj' = [pitObj EXCEPT ![p] = NoRow]
    /\ pitLost' = [pitLost EXCEPT ![p] = {}]
    /\ pitExpired' = [pitExpired EXCEPT ![p] = FALSE]

DeletePIT(p) ==
    /\ pitOwner[p] # Nil
    /\ FreePIT(p)
    /\ UNCHANGED <<clusterVars, readerVars, opVars>>

\* The clock passes the keep-alive of p.
ExpirePIT(p) ==
    /\ pitOwner[p] # Nil /\ ~pitExpired[p]
    /\ pitExpired' = [pitExpired EXCEPT ![p] = TRUE]
    /\ UNCHANGED <<clusterVars, objVars, pitOwner, pitObj, pitLost, readerVars, opVars>>

\* ListPITs, or a search over p, finds it expired.
ReapPIT(p) ==
    /\ pitOwner[p] # Nil /\ pitExpired[p]
    /\ FreePIT(p)
    /\ UNCHANGED <<clusterVars, readerVars, opVars>>

-----------------------------------------------------------------------------
(* Searches: c.mu.RLock is held from the first step to the second. *)

\* A search, or any other request that only reads, takes no reference to the
\* indices of c; it may read every one of them.
StartSearch(r, c) ==
    /\ rCluster[r] = Nil /\ phase[c] # "unborn" /\ Unlocked(c)
    /\ rCluster' = [rCluster EXCEPT ![r] = c]
    /\ rObjs' = [rObjs EXCEPT ![r] = indices[c]]
    /\ UNCHANGED <<clusterVars, objVars, pitVars, rHolds, opVars>>

\* pitTargets: a search over p retains the targets, because DeletePIT does not
\* wait for it; it fails when a target is closed by now.
StartPITSearch(r, p) ==
    /\ rCluster[r] = Nil /\ pitOwner[p] # Nil /\ ~pitExpired[p]
    /\ LET c == pitOwner[p]
       IN /\ Unlocked(c)
          /\ \A n \in Name : pitObj[p][n] # Nil /\ indices[c][n] # Nil
                             => ~content[indices[c][n]].shut
          /\ rCluster' = [rCluster EXCEPT ![r] = c]
    /\ rObjs' = [rObjs EXCEPT ![r] = pitObj[p]]
    /\ rHolds' = [rHolds EXCEPT ![r] = TRUE]
    /\ Retain(pitObj[p])
    /\ UNCHANGED <<clusterVars, closed, content, pitVars, opVars>>

EndSearch(r) ==
    /\ rCluster[r] # Nil
    /\ IF rHolds[r] THEN Release(rObjs[r]) ELSE UNCHANGED objVars
    /\ rCluster' = [rCluster EXCEPT ![r] = Nil]
    /\ rObjs' = [rObjs EXCEPT ![r] = NoRow]
    /\ rHolds' = [rHolds EXCEPT ![r] = FALSE]
    /\ UNCHANGED <<clusterVars, pitVars, opVars>>

-----------------------------------------------------------------------------
(* Requests that write to indices, one target after the other. *)

Begin(c, k, S) ==
    /\ Free(c) /\ S # {} /\ \A n \in S : indices[c][n] # Nil
    /\ pc' = [pc EXCEPT ![c] = "load"]
    /\ kind' = [kind EXCEPT ![c] = k]
    /\ todo' = [todo EXCEPT ![c] = S]
    /\ UNCHANGED <<clusterVars, objVars, pitVars, readerVars, at, fresh>>

\* The CLOSE state rules the target out: an item error, or nothing to do.
SkipTarget(c, n) ==
    /\ pc[c] = "load" /\ n \in todo[c] /\ ~Eligible(kind[c], indices[c][n])
    /\ todo' = [todo EXCEPT ![c] = @ \ {n}]
    /\ pc' = [pc EXCEPT ![c] = IF todo[c] = {n} THEN "idle" ELSE "load"]
    /\ kind' = [kind EXCEPT ![c] = IF todo[c] = {n} THEN "doc" ELSE @]
    /\ UNCHANGED <<clusterVars, objVars, pitVars, readerVars, at, fresh>>

LoadShareable(c, n) ==                          \* mutant: refs.Load() > 2 for > 1
    /\ pc[c] = "load" /\ n \in todo[c] /\ Eligible(kind[c], indices[c][n])
    /\ refs[indices[c][n]] <= 2
    /\ at' = [at EXCEPT ![c] = n]
    /\ pc' = [pc EXCEPT ![c] = "apply"]
    /\ UNCHANGED <<clusterVars, objVars, pitVars, readerVars, kind, todo, fresh>>

\* writable, refs.Load() = 1: the object is written in place.
LoadOwned(c, n) ==
    /\ pc[c] = "load" /\ n \in todo[c] /\ Eligible(kind[c], indices[c][n])
    /\ refs[indices[c][n]] <= 1
    /\ at' = [at EXCEPT ![c] = n]
    /\ pc' = [pc EXCEPT ![c] = "apply"]
    /\ UNCHANGED <<clusterVars, objVars, pitVars, readerVars, kind, todo, fresh>>

\* writable, refs.Load() > 1: copyIndex starts.
LoadShared(c, n, f) ==
    /\ pc[c] = "load" /\ n \in todo[c] /\ Eligible(kind[c], indices[c][n])
    /\ refs[indices[c][n]] > 1
    /\ Allocate(f, Blank)
    /\ at' = [at EXCEPT ![c] = n]
    /\ fresh' = [fresh EXCEPT ![c] = f]
    /\ pc' = [pc EXCEPT ![c] = "copy"]
    /\ UNCHANGED <<clusterVars, pitVars, readerVars, kind, todo>>

\* copyIndex has read the whole source, which no lock protects.
FinishCopy(c) ==
    /\ pc[c] = "copy"
    /\ content' = [content EXCEPT ![fresh[c]] = content[Target(c)]]
    /\ pc' = [pc EXCEPT ![c] = "swap"]
    /\ UNCHANGED <<clusterVars, refs, closed, pitVars, readerVars, kind, todo, at, fresh>>

FailCopyReleasingSource(c) ==                   \* mutant: ix.release() for n.release()
    /\ pc[c] \in {"copy", "rebuild"}
    /\ Release(Only(at[c], Target(c)))
    /\ fresh' = [fresh EXCEPT ![c] = Nil]
    /\ FailTarget(c)
    /\ UNCHANGED <<clusterVars, pitVars, readerVars>>

\* rebuild failed: the copy is released and never seen.
FailCopy(c) ==
    /\ pc[c] \in {"copy", "rebuild"}
    /\ Release(Only(at[c], fresh[c]))
    /\ fresh' = [fresh EXCEPT ![c] = Nil]
    /\ FailTarget(c)
    /\ UNCHANGED <<clusterVars, pitVars, readerVars>>

\* writable installs the copy and releases the shared object.
Swap(c) ==
    /\ pc[c] = "swap"
    /\ Release(Only(at[c], Target(c)))
    /\ indices' = [indices EXCEPT ![c][at[c]] = fresh[c]]
    /\ fresh' = [fresh EXCEPT ![c] = Nil]
    /\ pc' = [pc EXCEPT ![c] = "apply"]
    /\ UNCHANGED <<phase, pitVars, readerVars, kind, todo, at>>

SetContent(c, value) == content' = [content EXCEPT ![Target(c)] = value]

\* The write proper, in place: documents, mapping or settings (of a closed
\* index also analysis settings, which its reopening will apply), or CLOSE.
Apply(c, d) ==
    /\ pc[c] = "apply"
    /\ \/ /\ kind[c] \in {"doc", "mapping", "settings"}
          /\ SetContent(c, [content[Target(c)] EXCEPT !.data = d])
          /\ UNCHANGED pitLost
       \/ /\ kind[c] = "settings" /\ content[Target(c)].shut
          /\ SetContent(c, [content[Target(c)] EXCEPT !.data = d, !.reopen = TRUE])
          /\ UNCHANGED pitLost
       \/ /\ kind[c] = "close"
          /\ SetContent(c, [content[Target(c)] EXCEPT !.shut = TRUE])
          /\ DropPITContexts(c, at[c])
       \/ /\ kind[c] = "open" /\ ~content[Target(c)].reopen
          /\ SetContent(c, [content[Target(c)] EXCEPT !.shut = FALSE])
          /\ UNCHANGED pitLost
    /\ NextTarget(c)
    /\ UNCHANGED <<clusterVars, refs, closed, pitOwner, pitObj, pitExpired, readerVars, fresh>>

\* A write that fails after writable: version conflict, parse or merge error,
\* write block.  The private copy stays.
FailApply(c) ==
    /\ pc[c] = "apply" /\ kind[c] \in {"doc", "mapping"}
    /\ FailTarget(c)
    /\ UNCHANGED <<clusterVars, objVars, pitVars, readerVars, fresh>>

\* PutMapping promoting a field to nested, and OpenIndex after a change of the
\* analysis, copy the index a second time with the new mapping or analyzers.
StartRebuild(c, f) ==
    /\ pc[c] = "apply"
    /\ kind[c] = "mapping" \/ (kind[c] = "open" /\ content[Target(c)].reopen)
    /\ Allocate(f, Blank)
    /\ fresh' = [fresh EXCEPT ![c] = f]
    /\ pc' = [pc EXCEPT ![c] = "rebuild"]
    /\ UNCHANGED <<clusterVars, pitVars, readerVars, kind, todo, at>>

FinishRebuild(c, d) ==
    /\ pc[c] = "rebuild"
    /\ LET value == IF kind[c] = "open"
                    THEN [data |-> d, shut |-> FALSE, reopen |-> FALSE]
                    ELSE [content[Target(c)] EXCEPT !.data = d]
       IN content' = [content EXCEPT ![fresh[c]] = value]
    /\ pc' = [pc EXCEPT ![c] = "install"]
    /\ UNCHANGED <<clusterVars, refs, closed, pitVars, readerVars, kind, todo, at, fresh>>

\* The rebuilt copy replaces its source, which is released.
Install(c) ==
    /\ pc[c] = "install"
    /\ Release(Only(at[c], Target(c)))
    /\ indices' = [indices EXCEPT ![c][at[c]] = fresh[c]]
    /\ fresh' = [fresh EXCEPT ![c] = Nil]
    /\ NextTarget(c)
    /\ UNCHANGED <<phase, pitVars, readerVars>>

-----------------------------------------------------------------------------
(* Cluster.Close, under c.mu.Lock; a second Close returns at once. *)

BeginClose(c) ==
    /\ phase[c] = "open" /\ Free(c)
    /\ phase' = [phase EXCEPT ![c] = "closed"]
    /\ pc' = [pc EXCEPT ![c] = "closing"]
    /\ UNCHANGED <<indices, objVars, pitVars, readerVars, kind, todo, at, fresh>>

CloseReleaseIndex(c, n) ==
    /\ pc[c] = "closing" /\ indices[c][n] # Nil
    /\ Release(Only(n, indices[c][n]))
    /\ indices' = [indices EXCEPT ![c][n] = Nil]
    /\ UNCHANGED <<phase, pitVars, readerVars, opVars>>

CloseReleasePIT(c, p) ==
    /\ pc[c] = "closing" /\ indices[c] = NoRow /\ pitOwner[p] = c
    /\ FreePIT(p)
    /\ UNCHANGED <<clusterVars, readerVars, opVars>>

EndClose(c) ==
    /\ pc[c] = "closing" /\ indices[c] = NoRow /\ \A p \in Pit : pitOwner[p] # c
    /\ pc' = [pc EXCEPT ![c] = "idle"]
    /\ UNCHANGED <<clusterVars, objVars, pitVars, readerVars, kind, todo, at, fresh>>

-----------------------------------------------------------------------------

\* The steps of the request that holds c.mu.Lock.
RequestStep(c) ==
    \/ \E n \in Name : SkipTarget(c, n) \/ LoadOwned(c, n) \/ CloseReleaseIndex(c, n)
    \/ \E n \in Name, f \in Obj : LoadShared(c, n, f)
    \/ FinishCopy(c) \/ FailCopy(c) \/ Swap(c)
    \/ \E d \in Data : Apply(c, d) \/ FinishRebuild(c, d)
    \/ FailApply(c)
    \/ \E f \in Obj : StartRebuild(c, f)
    \/ Install(c)
    \/ \E p \in Pit : CloseReleasePIT(c, p)
    \/ EndClose(c)

Next ==
    \/ \E c, d \in Cluster : Clone(c, d)
    \/ \E c \in Cluster, n \in Name, f \in Obj, d \in Data : CreateIndex(c, n, f, d)
    \/ \E c \in Cluster, n \in Name : DeleteIndex(c, n) \/ RemoveIndex(c, n)
    \/ \E p \in Pit, c \in Cluster, S \in SUBSET Name : CreatePIT(p, c, S)
    \/ \E p \in Pit : DeletePIT(p) \/ ExpirePIT(p) \/ ReapPIT(p)
    \/ \E r \in Reader, c \in Cluster : StartSearch(r, c)
    \/ \E r \in Reader, p \in Pit : StartPITSearch(r, p)
    \/ \E r \in Reader : EndSearch(r)
    \/ \E c \in Cluster, k \in Kind, S \in SUBSET Name : Begin(c, k, S)
    \/ \E c \in Cluster : BeginClose(c)
    \/ \E c \in Cluster : RequestStep(c)

Spec == Init /\ [][Next]_vars

-----------------------------------------------------------------------------
(* Properties. *)

\* The variables have their types; a reference count is never negative.
TypeOK ==
    /\ phase \in [Cluster -> {"unborn", "open", "closed"}]
    /\ indices \in [Cluster -> [Name -> Obj \cup {Nil}]]
    /\ refs \in [Obj -> Nat]
    /\ closed \in [Obj -> BOOLEAN]
    /\ content \in [Obj -> Content]
    /\ pitOwner \in [Pit -> Cluster \cup {Nil}]
    /\ pitObj \in [Pit -> [Name -> Obj \cup {Nil}]]
    /\ pitLost \in [Pit -> SUBSET Name]
    /\ pitExpired \in [Pit -> BOOLEAN]
    /\ rCluster \in [Reader -> Cluster \cup {Nil}]
    /\ rObjs \in [Reader -> [Name -> Obj \cup {Nil}]]
    /\ rHolds \in [Reader -> BOOLEAN]
    /\ pc \in [Cluster -> Step]
    /\ kind \in [Cluster -> Kind]
    /\ todo \in [Cluster -> SUBSET Name]
    /\ at \in [Cluster -> Name \cup {Nil}]
    /\ fresh \in [Cluster -> Obj \cup {Nil}]

\* The reference count of an Index is the number of places that refer to it:
\* clusters, points in time, searches over one, and the copy being built.
RefsCountHolders == \A o \in Obj : refs[o] = Cardinality(Holders(o))

\* The bleve index is closed exactly when nobody refers to the Index: no
\* holder works on a closed index and none is left open for ever.
ClosedIffUnheld == \A o \in Obj : closed[o] <=> Holders(o) = {}

\* A search never reads an Index that was closed under it, although it may
\* take no reference (a plain search) and a PIT may be deleted meanwhile.
NoReadOfClosed ==
    \A r \in Reader, n \in Name : rObjs[r][n] # Nil => ~closed[rObjs[r][n]]

\* A request that passed writable is the only holder of its target until it is
\* done: "shared index is never mutated; writer detaches first".
WriterIsAlone ==
    \A c \in Cluster, o \in Obj :
        pc[c] \in {"apply", "rebuild", "install"} /\ Target(c) = o
        => Holders(o) = {<<"index", c, at[c]>>}

\* What makes the invariants above inductive: the bookkeeping of the request
\* that holds c.mu.Lock, ...
RequestOK ==
    \A c \in Cluster :
        /\ pc[c] \in {"copy", "swap", "rebuild", "install"} <=> fresh[c] # Nil
        /\ pc[c] \in {"copy", "swap", "apply", "rebuild", "install"} => at[c] \in todo[c]
        /\ pc[c] \notin {"idle", "closing"} => \A n \in todo[c] : indices[c][n] # Nil
        /\ phase[c] = "unborn" => indices[c] = NoRow /\ pc[c] = "idle"

\* ... nobody else reaches the copy it builds, ...
FreshIsPrivate ==
    \A c \in Cluster, o \in Obj : fresh[c] = o => Holders(o) = {<<"fresh", c, Nil>>}

\* ... unused points in time and readers refer to nothing, and a reader keeps
\* writers of its cluster out, ...
ReadersLockOut ==
    /\ \A p \in Pit : IF pitOwner[p] = Nil THEN pitObj[p] = NoRow
                      ELSE phase[pitOwner[p]] # "unborn"
    /\ \A r \in Reader :
        IF rCluster[r] = Nil
        THEN rObjs[r] = NoRow /\ ~rHolds[r]
        ELSE pc[rCluster[r]] = "idle" /\ phase[rCluster[r]] # "unborn"

\* ... so that a reader without references sees the indices its cluster has.
ReadersSeeTheirCluster ==
    \A r \in Reader : rCluster[r] # Nil /\ ~rHolds[r] => rObjs[r] = indices[rCluster[r]]

\* The inductive invariant behind the reference counting ...
CountInv ==
    /\ TypeOK /\ RefsCountHolders /\ ClosedIffUnheld /\ WriterIsAlone
    /\ RequestOK /\ FreshIsPrivate /\ ReadersLockOut

\* ... and behind what searches see.
IndInv == CountInv /\ ReadersSeeTheirCluster

\* Points in time of a cluster do not serve an index the cluster has closed:
\* CloseIndex frees their reader contexts, also after it copied the index.
PITOfClosedIndexIsLost ==
    \A p \in Pit, n \in Name :
        /\ pitOwner[p] # Nil /\ pitObj[p][n] # Nil
        /\ indices[pitOwner[p]][n] # Nil /\ content[indices[pitOwner[p]][n]].shut
        => n \in pitLost[p]

\* What writable installs has the contents its source has at that moment: no
\* holder of the source writes to it after copyIndex read it, although no lock
\* of theirs was taken, so detaching an index changes nothing anybody sees.
CopyIsCurrent ==
    \A c \in Cluster : pc[c] = "swap" => content[fresh[c]] = content[Target(c)]

\* An open Index changes only in the hands of a request that alone holds it,
\* while nobody reads it or copies from it.
WrittenBy(o, c) ==
    \/ fresh[c] = o /\ Holders(o) = {<<"fresh", c, Nil>>}
    \/ /\ pc[c] = "apply" /\ Target(c) = o
       /\ Holders(o) = {<<"index", c, at[c]>>}
       /\ \A r \in Reader : Row(rObjs[r], o) = {}
       /\ \A d \in Cluster \ {c} : pc[d] \in {"copy", "rebuild"} => Target(d) # o
InPlaceStep ==
    \A o \in Obj : content'[o] # content[o] /\ ~closed[o] /\ ~closed'[o]
        => \E c \in Cluster : WrittenBy(o, c)

\* Every step of the program writes in place only as its owner.
InPlaceOnlyByOwner == [][InPlaceStep]_vars

\* Every cluster, point in time and search sees contents of its own.
ContentOf(row) == [n \in Name |-> IF row[n] = Nil THEN Nil ELSE content[row[n]]]
Store == INSTANCE ClusterStore WITH
    None <- Nil,
    view <- [c \in Cluster |-> ContentOf(indices[c])],
    snap <- [p \in Pit |-> ContentOf(pitObj[p])],
    reading <- [r \in Reader |-> ContentOf(rObjs[r])]

\* The sharing is invisible: writes to a cluster reach neither the clones nor
\* the points in time and searches that share its Index objects.
ImplementsStore == Store!Spec
=============================================================================
