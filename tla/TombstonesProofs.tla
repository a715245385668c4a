--------------------------- MODULE TombstonesProofs ---------------------------
(***************************************************************************)
(* Deletions are remembered along the lineage of a cluster, none is        *)
(* invented, and items maps that two Indexes share are never changed: for  *)
(* any clusters, ids and Indexes, any length of the history and any window *)
(* of index.gc_deletes.                                                    *)
(***************************************************************************)
EXTENDS Tombstones, FiniteSetTheorems, SequenceTheorems, WellFoundedInduction, TLAPS

Snapshot == [seqNo : Int, map : MapId, copies : Nat, shared : BOOLEAN]

Types ==
    /\ cur \in [Cluster -> Obj \cup {Nil}]
    /\ docs \in [Obj -> [Id -> Nat]]
    /\ seqNo \in [Obj -> Int]
    /\ copies \in [Obj -> Nat]
    /\ hist \in [Obj -> Seq(Snapshot)]
    /\ items \in [MapId -> [Id -> Tombstone]]
    /\ seen \in [Cluster -> Obj \cup {Nil}]
    /\ now \in 0..MaxTime
    /\ pc \in [Cluster -> Step]
    /\ before \in [Cluster -> Obj \cup {Nil}]
    /\ txNow \in [Cluster -> 0..MaxTime]
    /\ pending \in [Cluster -> [Id -> Tombstone]]
    /\ removed \in [Cluster -> SUBSET Id]
    /\ truth \in [Cluster -> [Id -> Tombstone]]
    /\ bypassed \subseteq Cluster

\* Snapshots were taken before now, each with a map of its own; two histories
\* share a map only if both snapshots say so.
RegistryOK ==
    /\ \A o \in Obj :
          /\ Len(hist[o]) <= History
          /\ \A k \in 1..Len(hist[o]) :
                hist[o][k].seqNo <= seqNo[o] /\ hist[o][k].copies <= copies[o]
          /\ \A j, k \in 1..Len(hist[o]) : hist[o][j].map = hist[o][k].map => j = k
    /\ \A o, p \in Obj : \A j \in 1..Len(hist[o]), k \in 1..Len(hist[p]) :
          o # p /\ hist[o][j].map = hist[p][k].map => hist[o][j].shared

\* What a request has done so far; a request that may write is alone on its Index,
\* and copies that are under way have been counted.
RequestsOK ==
    \A c \in Cluster :
        /\ cur[c] = Nil => pc[c] = "idle" /\ seen[c] = Nil
        /\ pc[c] = "copy" => before[c] = cur[c]
        /\ pc[c] = "inherit" => before[c] # Nil /\ before[c] # cur[c] /\ hist[cur[c]] = <<>>
        /\ pc[c] \notin {"copy", "inherit"} => before[c] = Nil
        /\ pc[c] # "ops" => pending[c] = NoItems /\ removed[c] = {}
        /\ pc[c] = "ops" => seen[c] = cur[c]
        /\ pc[c] \in {"inherit", "note", "ops"} => \A d \in Cluster : cur[d] = cur[c] => d = c
        /\ txNow[c] <= now
        /\ pc[c] \in {"copy", "indexCopy"} =>
              \A o \in Obj : cur[c] = o /\ hist[o] # <<>> => hist[o][Len(hist[o])].copies < copies[o]

\* Clusters that share an Index have the same past.
SameTruth == \A c, d \in Cluster : cur[c] # Nil /\ cur[c] = cur[d] => truth[c] = truth[d]

\* The tombstones of o as of sequence number s, as far as o remembers them.
AsOf(o, s) == IF NotNewer(o, s) = {} THEN NoItems ELSE items[hist[o][SnapshotAt(o, s)].map]

\* c has left o, whose sequence number was s then: what o had is out of reach of
\* those who write to o now, and it is what c knows.
Left(c, o, s) ==
    /\ s <= seqNo[o]
    /\ Mutable(o) => hist[o][Len(hist[o])].seqNo > s
    /\ \A d \in Cluster : cur[d] = o =>
          /\ pending[d] # NoItems \/ removed[d] # {} => seqNo[o] > s
          /\ seqNo[o] = s => truth[d] = truth[c]
    /\ \A i \in Id : AsOf(o, s)[i] \in {Nothing, truth[c][i]}

\* c may still inherit from o, as of s.
InheritsFrom(c, o, s) ==
    /\ cur[c] # Nil /\ s = seqNo[cur[c]]
    /\ \/ pc[c] = "inherit" /\ before[c] = o
       \/ seen[c] = o /\ cur[c] # o
LeftBehind ==
    \A c \in Cluster, o \in Obj, s \in Int : InheritsFrom(c, o, s) => Left(c, o, s)

\* The request of c has not written i.
Untouched(c, i) == i \notin removed[c] /\ pending[c][i] = Nothing

\* What c knows of deletions is true.
NothingInvented ==
    \A c \in Cluster, o \in Obj, i \in Id : cur[c] = o =>
        /\ i \in removed[c] => pending[c][i] = Nothing /\ truth[c][i] = Nothing
        /\ pending[c][i] # Nothing => truth[c][i] = pending[c][i]
        /\ Untouched(c, i) => CurrentItems(o)[i] \in {Nothing, truth[c][i]}

\* The time at which the request of c, or its next one, looks for tombstones.
Time(c) == IF pc[c] \in {"copy", "inherit", "note", "ops"} THEN txNow[c] ELSE now

\* o cannot tell any more what it had at s.
Evicted(o, s) == NotNewer(o, s) = {} /\ Len(hist[o]) = History

\* What c does not know any more is out of the window.
NothingForgotten ==
    \A c \in Cluster \ bypassed, o \in Obj : cur[c] = o =>
        IF pc[c] = "inherit"
        THEN \A p \in Obj, s \in Int : before[c] = p /\ seqNo[o] = s =>
                \/ Evicted(p, s)
                \/ \A i \in Id : AsOf(p, s)[i] = Nothing => Expired(truth[c][i], txNow[c])
        ELSE \A i \in Id : Untouched(c, i) /\ CurrentItems(o)[i] = Nothing
                               => Expired(truth[c][i], Time(c))

TombInv ==
    Types /\ RegistryOK /\ RequestsOK /\ SameTruth /\ LeftBehind /\ NothingInvented /\ NothingForgotten

-----------------------------------------------------------------------------
(* Least and greatest elements. *)

LEMMA LeastOf ==
    ASSUME NEW S \in SUBSET Nat, S # {}
    PROVE  \E m \in S : \A x \in S : m <= x
<1>1. PICK m \in S : \A y \in S : ~(<<y, m>> \in OpToRel(<, Nat))
  BY NatLessThanWellFounded, WFMin
<1>2. \A y \in S : ~(y < m)
  BY <1>1 DEF OpToRel
<1> QED BY <1>2

LEMMA GreatestOf ==
    ASSUME NEW n \in Nat, NEW S \in SUBSET (1..n), S # {}
    PROVE  \E m \in S : \A x \in S : x <= m
<1> DEFINE T == {t \in Nat : \E x \in S : t = n - x}
<1>1. T \in SUBSET Nat /\ T # {}
  <2>1. PICK x \in S : TRUE
    OBVIOUS
  <2>2. n - x \in T
    OBVIOUS
  <2> QED BY <2>2
<1> HIDE DEF T
<1>2. PICK t \in T : \A y \in T : t <= y
  BY <1>1, LeastOf
<1>3. PICK m \in S : t = n - m
  BY <1>2 DEF T
<1>4. \A x \in S : n - x \in T
  BY DEF T
<1> QED BY <1>2, <1>3, <1>4

\* A free items map is found if there is one.
LEMMA FreshMapIsUnused == Unused # {} => FreshMap \in Unused
<1> SUFFICES ASSUME Unused # {} PROVE FreshMap \in Unused
  OBVIOUS
<1>1. Unused \in SUBSET Nat
  BY Bounds DEF Unused
<1>2. \E m \in Unused : \A x \in Unused : m <= x
  BY <1>1, LeastOf
<1> QED BY <1>2 DEF FreshMap

-----------------------------------------------------------------------------
(* Snapshots. *)

\* What the elements of a history are, and its last one.
LEMMA HistoryIs ==
    Types => \A o \in Obj :
        /\ Len(hist[o]) \in Nat /\ DOMAIN hist[o] = 1..Len(hist[o])
        /\ hist[o] = <<>> <=> Len(hist[o]) = 0
        /\ Last(hist[o]) = hist[o][Len(hist[o])]
        /\ \A k \in 1..Len(hist[o]) :
              /\ hist[o][k] \in Snapshot
              /\ hist[o][k].seqNo \in Int /\ hist[o][k].map \in MapId
              /\ hist[o][k].copies \in Nat /\ hist[o][k].shared \in BOOLEAN
              /\ items[hist[o][k].map] \in [Id -> Tombstone]
<1> SUFFICES ASSUME Types, NEW o \in Obj
             PROVE  /\ Len(hist[o]) \in Nat /\ DOMAIN hist[o] = 1..Len(hist[o])
                    /\ hist[o] = <<>> <=> Len(hist[o]) = 0
                    /\ Last(hist[o]) = hist[o][Len(hist[o])]
                    /\ \A k \in 1..Len(hist[o]) : hist[o][k] \in Snapshot
  BY DEF Types, Snapshot
<1>1. hist[o] \in Seq(Snapshot)
  BY DEF Types
<1> HIDE DEF Snapshot
<1>2. Len(hist[o]) \in Nat /\ DOMAIN hist[o] = 1..Len(hist[o])
  BY <1>1, LenProperties
<1>3. hist[o] = <<>> <=> Len(hist[o]) = 0
  BY <1>1, EmptySeq
<1>4. \A k \in 1..Len(hist[o]) : hist[o][k] \in Snapshot
  BY <1>1, ElementOfSeq
<1> QED BY <1>2, <1>3, <1>4 DEF Last

\* snapshotAt finds the newest of the snapshots that are not newer.
LEMMA SnapshotFound ==
    Types => \A o \in Obj, s \in Int : NotNewer(o, s) # {} =>
        SnapshotAt(o, s) \in NotNewer(o, s) /\ \A j \in NotNewer(o, s) : j <= SnapshotAt(o, s)
<1> SUFFICES ASSUME Types, NEW o \in Obj, NEW s \in Int, NotNewer(o, s) # {}
             PROVE  \E k \in NotNewer(o, s) : \A j \in NotNewer(o, s) : j <= k
  BY DEF SnapshotAt
<1>1. Len(hist[o]) \in Nat /\ NotNewer(o, s) \in SUBSET (1..Len(hist[o]))
  BY DEF Types, NotNewer
<1> QED BY <1>1, GreatestOf

\* So does any other greatest position.
LEMMA AsOfIs ==
    Types => \A o \in Obj, s \in Int : \A k \in 1..Len(hist[o]) :
        hist[o][k].seqNo <= s
        => ((\A j \in 1..Len(hist[o]) : hist[o][j].seqNo <= s => j <= k)
            => AsOf(o, s) = items[hist[o][k].map])
<1> SUFFICES ASSUME Types, NEW o \in Obj, NEW s \in Int, NEW k \in 1..Len(hist[o]),
                    hist[o][k].seqNo <= s,
                    \A j \in 1..Len(hist[o]) : hist[o][j].seqNo <= s => j <= k
             PROVE  AsOf(o, s) = items[hist[o][k].map]
  OBVIOUS
<1>1. NotNewer(o, s) = {j \in 1..Len(hist[o]) : hist[o][j].seqNo <= s} /\ Len(hist[o]) \in Nat
  BY DEF Types, NotNewer
<1>2. k \in NotNewer(o, s) /\ SnapshotAt(o, s) \in NotNewer(o, s)
      /\ k <= SnapshotAt(o, s)
  BY <1>1, SnapshotFound
<1>3. SnapshotAt(o, s) = k
  BY <1>1, <1>2
<1> QED BY <1>2, <1>3 DEF AsOf

LEMMA AsOfNone ==
    Types => \A o \in Obj, s \in Int :
        (\A k \in 1..Len(hist[o]) : ~(hist[o][k].seqNo <= s)) <=> NotNewer(o, s) = {}
<1> QED BY DEF Types, NotNewer

\* An Index that nobody wrote since has what it has.
LEMMA AsOfCurrent ==
    Types /\ RegistryOK => \A o \in Obj : AsOf(o, seqNo[o]) = CurrentItems(o)
<1> SUFFICES ASSUME Types, RegistryOK, NEW o \in Obj
             PROVE  AsOf(o, seqNo[o]) = CurrentItems(o)
  OBVIOUS
<1>1. Len(hist[o]) \in Nat /\ seqNo[o] \in Int /\ hist[o] \in Seq(Snapshot)
  BY DEF Types
<1>2. CASE hist[o] = <<>>
  BY <1>1, <1>2 DEF AsOf, NotNewer, CurrentItems
<1>3. CASE hist[o] # <<>>
  <2>1. Len(hist[o]) \in 1..Len(hist[o])
    BY <1>3, HistoryIs
  <2>2. AsOf(o, seqNo[o]) = items[hist[o][Len(hist[o])].map]
    <3>1. hist[o][Len(hist[o])].seqNo <= seqNo[o] /\ \A j \in 1..Len(hist[o]) : j <= Len(hist[o])
      BY <1>1, <2>1 DEF RegistryOK
    <3> QED BY <1>1, <2>1, <3>1, AsOfIs
  <2> QED BY <1>3, <2>2 DEF CurrentItems, Last
<1> QED BY <1>2, <1>3

\* So do histories that agree on what matters.
LEMMA SameSnapshots ==
    Types => \A o \in Obj, s \in Int :
        /\ DOMAIN hist'[o] = DOMAIN hist[o]
        /\ \A k \in DOMAIN hist[o] : hist'[o][k].seqNo = hist[o][k].seqNo /\ hist'[o][k].map = hist[o][k].map
        /\ \A k \in DOMAIN hist[o] : items'[hist[o][k].map] = items[hist[o][k].map]
        => AsOf(o, s)' = AsOf(o, s) /\ NotNewer(o, s)' = NotNewer(o, s)
<1> SUFFICES ASSUME Types, NEW o \in Obj, NEW s \in Int,
                    DOMAIN hist'[o] = DOMAIN hist[o],
                    \A k \in DOMAIN hist[o] : hist'[o][k].seqNo = hist[o][k].seqNo
                                           /\ hist'[o][k].map = hist[o][k].map,
                    \A k \in DOMAIN hist[o] : items'[hist[o][k].map] = items[hist[o][k].map]
             PROVE  AsOf(o, s)' = AsOf(o, s) /\ NotNewer(o, s)' = NotNewer(o, s)
  OBVIOUS
<1>1. NotNewer(o, s)' = NotNewer(o, s)
  BY DEF NotNewer
<1>2. SnapshotAt(o, s)' = SnapshotAt(o, s)
  BY <1>1 DEF SnapshotAt
<1>3. CASE NotNewer(o, s) = {}
  BY <1>1, <1>3 DEF AsOf
<1>4. CASE NotNewer(o, s) # {}
  <2>1. NotNewer(o, s) # {} => SnapshotAt(o, s) \in NotNewer(o, s)
    BY SnapshotFound
  <2> QED BY <1>1, <1>2, <1>4, <2>1 DEF AsOf, NotNewer
<1> QED BY <1>1, <1>3, <1>4

-----------------------------------------------------------------------------
(* The initial states. *)

LEMMA InitTomb == Init => TombInv
<1> SUFFICES ASSUME Init PROVE TombInv
  OBVIOUS
<1>1. NoItems \in [Id -> Tombstone] /\ Nothing \in Tombstone
  BY DEF NoItems, Tombstone
<1>2. Types
  BY <1>1, Bounds DEF Init, Types, Step, Snapshot
<1>3. \A o \in Obj : Len(hist[o]) = 0 /\ hist[o] = <<>>
  BY DEF Init
<1>4. RegistryOK
  BY <1>3, Bounds DEF RegistryOK
<1>5. RequestsOK
  BY Bounds DEF Init, RequestsOK
<1>6. SameTruth
  BY DEF Init, SameTruth
<1>7. \A o \in Obj : CurrentItems(o) = NoItems
  BY <1>3 DEF CurrentItems
<1>8. LeftBehind
  BY NilAssumption DEF Init, LeftBehind, InheritsFrom
<1>9. NothingInvented
  BY <1>7 DEF Init, NothingInvented, NoItems
<1>10. NothingForgotten
  BY <1>7 DEF Init, NothingForgotten, NoItems, Expired
<1> QED BY <1>2, <1>4, <1>5, <1>6, <1>8, <1>9, <1>10 DEF TombInv

-----------------------------------------------------------------------------
(* Steps that leave the registry alone. *)

\* A tombstone that is out of the window stays out of it.
LEMMA ExpiredLater ==
    ASSUME NEW t \in Tombstone, NEW a \in Nat, NEW b \in Nat, a <= b, Expired(t, a)
    PROVE  Expired(t, b)
<1>1. t = Nothing \/ t.at \in Int
  BY Bounds DEF Tombstone, Version
<1> QED BY <1>1, Bounds DEF Expired

\* Histories stay what they are as long as numbers only grow.
LEMMA SameHistories ==
    ASSUME Types, RegistryOK, UNCHANGED hist, seqNo' \in [Obj -> Int], copies' \in [Obj -> Nat],
           \A o \in Obj : hist[o] # <<>> => seqNo[o] <= seqNo'[o] /\ copies[o] <= copies'[o]
    PROVE  RegistryOK'
<1>1. \A o \in Obj : \A k \in 1..Len(hist[o]) :
         hist[o][k].seqNo <= seqNo'[o] /\ hist[o][k].copies <= copies'[o]
  <2> SUFFICES ASSUME NEW o \in Obj, NEW k \in 1..Len(hist[o])
               PROVE  hist[o][k].seqNo <= seqNo'[o] /\ hist[o][k].copies <= copies'[o]
    OBVIOUS
  <2>1. hist[o] # <<>> /\ hist[o][k].seqNo \in Int /\ hist[o][k].copies \in Nat
    BY HistoryIs
  <2>2. hist[o][k].seqNo <= seqNo[o] /\ hist[o][k].copies <= copies[o]
    BY DEF RegistryOK
  <2>3. seqNo[o] \in Int /\ copies[o] \in Nat /\ seqNo'[o] \in Int /\ copies'[o] \in Nat
    BY DEF Types
  <2> QED BY <2>1, <2>2, <2>3
<1> QED BY <1>1 DEF RegistryOK

LEMMA SameItems ==
    ASSUME UNCHANGED <<hist, items>>
    PROVE  \A o \in Obj : /\ CurrentItems(o)' = CurrentItems(o)
                          /\ \A s \in Int : AsOf(o, s)' = AsOf(o, s) /\ Evicted(o, s)' = Evicted(o, s)
<1> QED BY DEF CurrentItems, AsOf, Evicted, NotNewer, SnapshotAt

LEMMA TickTomb == TombInv /\ Tick => TombInv'
<1> SUFFICES ASSUME TombInv, Tick PROVE TombInv'
  OBVIOUS
<1> USE DEF TombInv
<1>0. UNCHANGED <<cur, docs, seqNo, copies, hist, items, seen, pc, before, txNow, pending,
                  removed, truth, bypassed, bypasses>>
      /\ now' = now + 1 /\ now < MaxTime /\ now \in Nat /\ now' \in 0..MaxTime
  BY Bounds DEF Tick, Types, objVars, regVars, txVars, history
<1>1. Types'
  BY <1>0 DEF Types
<1>2. RegistryOK'
  BY <1>0 DEF RegistryOK
<1>3. RequestsOK'
  BY <1>0 DEF RequestsOK, Types
<1>4. SameTruth'
  BY <1>0 DEF SameTruth
<1>5. LeftBehind'
  BY <1>0, SameItems DEF LeftBehind, InheritsFrom, Left, Mutable, Last
<1>6. NothingInvented'
  BY <1>0, SameItems DEF NothingInvented, Untouched
<1>7. NothingForgotten'
  <2> SUFFICES ASSUME NEW c \in Cluster \ bypassed, NEW o \in Obj, cur[c] = o, pc[c] # "inherit",
                      NEW i \in Id, Untouched(c, i), CurrentItems(o)[i] = Nothing
               PROVE  Expired(truth[c][i], Time(c)')
    BY <1>0, SameItems DEF NothingForgotten, Untouched
  <2>1. Expired(truth[c][i], Time(c))
    BY DEF NothingForgotten
  <2>2. Time(c) \in Nat /\ Time(c)' \in Nat /\ Time(c) <= Time(c)'
    BY <1>0, Bounds DEF Time, Types
  <2>3. truth[c][i] \in Tombstone
    BY DEF Types
  <2> QED BY <2>1, <2>2, <2>3, ExpiredLater
<1> QED BY <1>1, <1>2, <1>3, <1>4, <1>5, <1>6, <1>7

\* What c left behind stays behind, as long as those who are there neither write
\* before the sequence number grows nor have another past.
LEMMA LeftKept ==
    ASSUME NEW c \in Cluster, NEW o \in Obj, NEW s \in Int, Left(c, o, s),
           UNCHANGED <<hist, items>>, s <= seqNo'[o], truth'[c] = truth[c],
           Mutable(o)' => Mutable(o),
           \A d \in Cluster : cur'[d] = o =>
              /\ pending'[d] # NoItems \/ removed'[d] # {} => seqNo'[o] > s
              /\ seqNo'[o] = s => truth'[d] = truth[c]
    PROVE  Left(c, o, s)'
<1>1. AsOf(o, s)' = AsOf(o, s)
  BY SameItems
<1>2. \A i \in Id : AsOf(o, s)[i] \in {Nothing, truth[c][i]}
  BY DEF Left
<1>3. \A i \in Id : AsOf(o, s)'[i] \in {Nothing, truth'[c][i]}
  BY <1>1, <1>2
<1> QED BY <1>3 DEF Left

\* The newest snapshot was taken with no more copies than there are.
LEMMA NewestSnapshot ==
    ASSUME Types, RegistryOK, NEW o \in Obj, hist[o] # <<>>
    PROVE  /\ Len(hist[o]) \in 1..Len(hist[o]) /\ Last(hist[o]) = hist[o][Len(hist[o])]
           /\ Last(hist[o]).copies <= copies[o] /\ Last(hist[o]).copies \in Nat /\ copies[o] \in Nat
           /\ Last(hist[o]).seqNo <= seqNo[o] /\ Last(hist[o]).seqNo \in Int /\ seqNo[o] \in Int
           /\ Last(hist[o]).map \in MapId
<1>1. Len(hist[o]) \in 1..Len(hist[o]) /\ Last(hist[o]) = hist[o][Len(hist[o])]
  BY HistoryIs
<1> QED BY <1>1, HistoryIs DEF RegistryOK, Types

LEMMA CloneTomb == 
    ASSUME TombInv, NEW c \in Cluster, NEW d \in Cluster, Clone(c, d)
    PROVE  TombInv'
<1> USE DEF TombInv
<1>0. /\ cur[c] # Nil /\ pc[c] = "idle" /\ cur[d] = Nil /\ c # d /\ cur[c] \in Obj
      /\ cur' = [cur EXCEPT ![d] = cur[c]] /\ truth' = [truth EXCEPT ![d] = truth[c]]
      /\ bypassed' = IF c \in bypassed THEN bypassed \cup {d} ELSE bypassed
      /\ UNCHANGED <<docs, seqNo, copies, hist, items, seen, now, pc, before, txNow, pending, removed>>
  BY DEF Clone, Types, objVars, regVars, txVars
<1>a. pc[d] = "idle" /\ seen[d] = Nil /\ before[d] = Nil
  BY <1>0 DEF RequestsOK
<1>b. \A x \in {c, d} : pending[x] = NoItems /\ removed[x] = {} /\ pending'[x] = NoItems /\ removed'[x] = {}
  BY <1>0, <1>a DEF RequestsOK
<1>c. \A x \in Cluster : x # d => cur'[x] = cur[x] /\ truth'[x] = truth[x]
  BY <1>0 DEF Types
<1>d. cur'[d] = cur[c] /\ truth'[d] = truth[c]
  BY <1>0 DEF Types
<1>1. Types'
  BY <1>0 DEF Types
<1>2. RegistryOK'
  BY <1>0 DEF RegistryOK
<1>3. RequestsOK'
  BY <1>0 DEF RequestsOK, Types
<1>4. SameTruth'
  BY <1>0 DEF SameTruth, RequestsOK, Types
<1>5. LeftBehind'
  <2> SUFFICES ASSUME NEW x \in Cluster, NEW o \in Obj, NEW s \in Int, InheritsFrom(x, o, s)'
               PROVE  Left(x, o, s)'
    BY DEF LeftBehind
  <2>1. x # d
    BY <1>0, <1>a, NilAssumption DEF InheritsFrom
  <2>2. InheritsFrom(x, o, s)
    BY <1>0, <1>c, <2>1 DEF InheritsFrom
  <2>3. Left(x, o, s)
    BY <2>2 DEF LeftBehind
  <2>4. \A e \in Cluster : cur'[e] = o =>
           /\ pending'[e] # NoItems \/ removed'[e] # {} => seqNo'[o] > s
           /\ seqNo'[o] = s => truth'[e] = truth[x]
    BY <1>0, <1>b, <1>c, <1>d, <2>3 DEF Left
  <2>5. Mutable(o)' => Mutable(o)
    BY <1>0 DEF Mutable, Last
  <2> QED BY <1>0, <1>c, <2>1, <2>3, <2>4, <2>5, LeftKept DEF Left
<1>6. NothingInvented'
  <2> SUFFICES ASSUME NEW x \in Cluster, NEW o \in Obj, NEW i \in Id, cur'[x] = o
               PROVE  /\ i \in removed'[x] => pending'[x][i] = Nothing /\ truth'[x][i] = Nothing
                      /\ pending'[x][i] # Nothing => truth'[x][i] = pending'[x][i]
                      /\ Untouched(x, i)' => CurrentItems(o)'[i] \in {Nothing, truth'[x][i]}
    BY DEF NothingInvented
  <2>1. CurrentItems(o)' = CurrentItems(o)
    BY <1>0, SameItems
  <2>2. CASE x # d
    BY <1>0, <1>c, <2>1, <2>2 DEF NothingInvented, Untouched
  <2>3. CASE x = d
    BY <1>0, <1>b, <1>d, <2>1, <2>3 DEF NothingInvented, Untouched, NoItems
  <2> QED BY <2>2, <2>3
<1>7. NothingForgotten'
  <2>1. \A x \in Cluster : Time(x)' = Time(x) /\ \A i \in Id : Untouched(x, i)' = Untouched(x, i)
    BY <1>0 DEF Time, Untouched
  <2>2. \A o \in Obj : CurrentItems(o)' = CurrentItems(o)
    BY <1>0, SameItems
  <2>3. \A p \in Obj, s \in Int : AsOf(p, s)' = AsOf(p, s) /\ Evicted(p, s)' = Evicted(p, s)
    BY <1>0, SameItems
  <2>4. \A x \in Cluster \ bypassed' : x # d => x \notin bypassed
    BY <1>0
  <2>5. d \notin bypassed' => c \notin bypassed
    BY <1>0
  <2>6. Time(c) = Time(d) /\ \A i \in Id : Untouched(c, i) <=> Untouched(d, i)
    BY <1>0, <1>a, <1>b DEF Time, Untouched
  <2> QED BY <1>0, <1>a, <1>c, <1>d, <2>1, <2>2, <2>3, <2>4, <2>5, <2>6 DEF NothingForgotten
<1> QED BY <1>1, <1>2, <1>3, <1>4, <1>5, <1>6, <1>7

LEMMA CloseTomb == 
    ASSUME TombInv, NEW c \in Cluster, Close(c)
    PROVE  TombInv'
<1> USE DEF TombInv
<1>0. /\ cur[c] # Nil /\ pc[c] = "idle" /\ cur' = [cur EXCEPT ![c] = Nil]
      /\ seen' = [seen EXCEPT ![c] = Nil] /\ truth' = [truth EXCEPT ![c] = NoItems]
      /\ NoItems \in [Id -> Tombstone] /\ bypassed' = bypassed \ {c}
      /\ UNCHANGED <<docs, seqNo, copies, hist, items, now, pc, before, txNow, pending, removed>>
  BY DEF Close, objVars, txVars, NoItems, Tombstone
<1>c. \A x \in Cluster : x # c => cur'[x] = cur[x] /\ truth'[x] = truth[x] /\ seen'[x] = seen[x]
  BY <1>0 DEF Types
<1>d. cur'[c] = Nil
  BY <1>0 DEF Types
<1>1. Types'
  BY <1>0 DEF Types
<1>2. RegistryOK'
  BY <1>0 DEF RegistryOK
<1>3. RequestsOK'
  BY <1>0 DEF RequestsOK, Types
<1>4. SameTruth'
  BY <1>0 DEF SameTruth, RequestsOK, Types
<1>5. LeftBehind'
  <2> SUFFICES ASSUME NEW x \in Cluster, NEW o \in Obj, NEW s \in Int, InheritsFrom(x, o, s)'
               PROVE  Left(x, o, s)'
    BY DEF LeftBehind
  <2>1. x # c
    BY <1>d DEF InheritsFrom
  <2>2. InheritsFrom(x, o, s)
    BY <1>0, <1>c, <2>1 DEF InheritsFrom
  <2>3. Left(x, o, s)
    BY <2>2 DEF LeftBehind
  <2>4. \A e \in Cluster : cur'[e] = o =>
           /\ pending'[e] # NoItems \/ removed'[e] # {} => seqNo'[o] > s
           /\ seqNo'[o] = s => truth'[e] = truth[x]
    BY <1>0, <1>c, <1>d, <2>3, NilAssumption DEF Left
  <2>5. Mutable(o)' => Mutable(o)
    BY <1>0 DEF Mutable, Last
  <2> QED BY <1>0, <1>c, <2>1, <2>3, <2>4, <2>5, LeftKept DEF Left
<1>6. NothingInvented'
  <2> SUFFICES ASSUME NEW x \in Cluster, NEW o \in Obj, NEW i \in Id, cur'[x] = o
               PROVE  /\ i \in removed'[x] => pending'[x][i] = Nothing /\ truth'[x][i] = Nothing
                      /\ pending'[x][i] # Nothing => truth'[x][i] = pending'[x][i]
                      /\ Untouched(x, i)' => CurrentItems(o)'[i] \in {Nothing, truth'[x][i]}
    BY DEF NothingInvented
  <2>1. CurrentItems(o)' = CurrentItems(o) /\ x # c
    BY <1>0, <1>d, SameItems, NilAssumption
  <2> QED BY <1>0, <1>c, <2>1 DEF NothingInvented, Untouched
<1>7. NothingForgotten'
  <2>1. \A x \in Cluster : Time(x)' = Time(x) /\ \A i \in Id : Untouched(x, i)' = Untouched(x, i)
    BY <1>0 DEF Time, Untouched
  <2>2. \A o \in Obj : CurrentItems(o)' = CurrentItems(o)
    BY <1>0, SameItems
  <2>3. \A p \in Obj, s \in Int : AsOf(p, s)' = AsOf(p, s) /\ Evicted(p, s)' = Evicted(p, s)
    BY <1>0, SameItems
  <2>4. \A x \in Cluster \ bypassed', o \in Obj : cur'[x] = o => x # c /\ x \notin bypassed
    BY <1>0, <1>d, NilAssumption
  <2> QED BY <1>0, <1>c, <2>1, <2>2, <2>3, <2>4 DEF NothingForgotten
<1> QED BY <1>1, <1>2, <1>3, <1>4, <1>5, <1>6, <1>7

LEMMA BeginOwnedTomb == 
    ASSUME TombInv, NEW c \in Cluster, BeginOwned(c)
    PROVE  TombInv'
<1> USE DEF TombInv
<1>0. /\ cur[c] # Nil /\ pc[c] = "idle" /\ \A d \in Cluster : cur[d] = cur[c] => d = c
      /\ pc' = [pc EXCEPT ![c] = "note"] /\ txNow' = [txNow EXCEPT ![c] = now]
      /\ UNCHANGED <<cur, docs, seqNo, copies, hist, items, seen, now, before, pending, removed,
                     truth, bypassed>>
  BY DEF BeginOwned, Sharers, objVars, regVars, history
<1>1. Types'
  BY <1>0 DEF Types, Step
<1>2. RegistryOK'
  BY <1>0 DEF RegistryOK
<1>3. RequestsOK'
  BY <1>0 DEF RequestsOK, Types
<1>4. SameTruth'
  BY <1>0 DEF SameTruth, RequestsOK, Types
<1>5. LeftBehind'
  BY <1>0, SameItems DEF LeftBehind, InheritsFrom, Left, Mutable, Last, RequestsOK, Types
<1>6. NothingInvented'
  BY <1>0, SameItems DEF NothingInvented, Untouched, RequestsOK, SameTruth, Types
<1>7. NothingForgotten'
  BY <1>0, SameItems DEF NothingForgotten, Untouched, Time, RequestsOK, SameTruth, Types
<1> QED BY <1>1, <1>2, <1>3, <1>4, <1>5, <1>6, <1>7

LEMMA BeginSharedTomb == 
    ASSUME TombInv, NEW c \in Cluster, BeginShared(c)
    PROVE  TombInv'
<1> USE DEF TombInv
<1>0. /\ cur[c] # Nil /\ pc[c] = "idle" /\ copies' = [copies EXCEPT ![cur[c]] = copies[cur[c]] + 1]
      /\ pc' = [pc EXCEPT ![c] = "copy"] /\ txNow' = [txNow EXCEPT ![c] = now]
      /\ before' = [before EXCEPT ![c] = cur[c]] /\ cur[c] \in Obj
      /\ UNCHANGED <<cur, docs, seqNo, hist, items, seen, now, pending, removed, truth, bypassed>>
  BY DEF BeginShared, objVars, regVars, history, Types
<1>m. \A o \in Obj : Mutable(o)' => Mutable(o)
  <2> SUFFICES ASSUME NEW o \in Obj, Mutable(o)' PROVE Mutable(o)
    OBVIOUS
  <2>1. Last(hist[o]).copies <= copies[o] /\ Last(hist[o]).copies \in Nat
    BY <1>0, HistoryIs DEF Mutable, RegistryOK
  <2>2. copies'[o] = IF o = cur[c] THEN copies[o] + 1 ELSE copies[o]
    BY <1>0 DEF Types
  <2> QED BY <1>0, <2>1, <2>2 DEF Mutable, Types
<1>1. Types'
  BY <1>0 DEF Types, Step
<1>2. RegistryOK'
  <2>1. \A o \in Obj : hist[o] # <<>> => seqNo[o] <= seqNo'[o] /\ copies[o] <= copies'[o]
    BY <1>0, <1>1 DEF Types
  <2>2. seqNo' \in [Obj -> Int] /\ copies' \in [Obj -> Nat]
    BY <1>1 DEF Types
  <2> QED BY <1>0, <2>1, <2>2, SameHistories
<1>3. RequestsOK'
  <2>1. \A o \in Obj : hist[o] # <<>> =>
           hist[o][Len(hist[o])].copies <= copies[o] /\ hist[o][Len(hist[o])].copies \in Nat
    BY HistoryIs DEF RegistryOK
  <2>2. \A o \in Obj : copies'[o] = IF o = cur[c] THEN copies[o] + 1 ELSE copies[o]
    BY <1>0 DEF Types
  <2>3. \A d \in Cluster : pc'[d] \in {"copy", "indexCopy"} =>
              \A o \in Obj : cur'[d] = o /\ hist'[o] # <<>> => hist'[o][Len(hist'[o])].copies < copies'[o]
    <3> SUFFICES ASSUME NEW d \in Cluster, NEW o \in Obj, pc'[d] \in {"copy", "indexCopy"}, cur[d] = o, hist[o] # <<>>
                 PROVE  hist[o][Len(hist[o])].copies < copies'[o]
      BY <1>0
    <3>1. copies[o] \in Nat
      BY DEF Types
    <3>2. CASE d = c
      BY <2>1, <2>2, <3>1, <3>2
    <3>3. CASE d # c
      <4>1. hist[o][Len(hist[o])].copies < copies[o]
        BY <1>0, <3>3 DEF RequestsOK, Types
      <4> QED BY <2>1, <2>2, <3>1, <4>1
    <3> QED BY <3>2, <3>3
  <2> QED BY <1>0, <2>3 DEF RequestsOK, Types
<1>4. SameTruth'
  BY <1>0 DEF SameTruth, RequestsOK, Types
<1>5. LeftBehind'
  <2> SUFFICES ASSUME NEW x \in Cluster, NEW o \in Obj, NEW s \in Int, InheritsFrom(x, o, s)'
               PROVE  Left(x, o, s)'
    BY DEF LeftBehind
  <2>1. InheritsFrom(x, o, s)
    BY <1>0 DEF InheritsFrom, Types
  <2>2. Left(x, o, s)
    BY <2>1 DEF LeftBehind
  <2>3. \A d \in Cluster : cur'[d] = o =>
              /\ pending'[d] # NoItems \/ removed'[d] # {} => seqNo'[o] > s
              /\ seqNo'[o] = s => truth'[d] = truth[x]
    BY <1>0, <2>2 DEF Left
  <2> QED BY <1>0, <1>m, <2>2, <2>3, LeftKept DEF Left
<1>6. NothingInvented'
  BY <1>0, SameItems DEF NothingInvented, Untouched, RequestsOK, SameTruth, Types
<1>7. NothingForgotten'
  <2>1. \A d \in Cluster : /\ (pc'[d] = "inherit" <=> pc[d] = "inherit") /\ (pc[d] = "inherit" => d # c)
                          /\ Time(d)' = Time(d) /\ \A i \in Id : Untouched(d, i)' <=> Untouched(d, i)
    BY <1>0 DEF Types, Time, Untouched
  <2>2. \A d \in Cluster : d # c => before'[d] = before[d] /\ txNow'[d] = txNow[d]
    BY <1>0 DEF Types
  <2>3. \A o \in Obj : /\ CurrentItems(o)' = CurrentItems(o)
                      /\ \A s \in Int : AsOf(o, s)' = AsOf(o, s) /\ Evicted(o, s)' = Evicted(o, s)
    BY <1>0, SameItems
  <2>4. UNCHANGED <<cur, seqNo, truth, bypassed>> /\ seqNo \in [Obj -> Int]
    BY <1>0 DEF Types
  <2> SUFFICES ASSUME NEW d \in Cluster \ bypassed, NEW o \in Obj, cur[d] = o
               PROVE  IF pc'[d] = "inherit"
                      THEN \A p \in Obj, s \in Int : before'[d] = p /\ seqNo[o] = s =>
                              \/ Evicted(p, s)'
                              \/ \A i \in Id : AsOf(p, s)'[i] = Nothing => Expired(truth[d][i], txNow'[d])
                      ELSE \A i \in Id : Untouched(d, i)' /\ CurrentItems(o)'[i] = Nothing
                                             => Expired(truth[d][i], Time(d)')
    BY <2>4 DEF NothingForgotten
  <2>5. CASE pc[d] = "inherit"
    BY <2>1, <2>2, <2>3, <2>5 DEF NothingForgotten
  <2>6. CASE pc[d] # "inherit"
    BY <2>1, <2>3, <2>6 DEF NothingForgotten
  <2> QED BY <2>1, <2>5, <2>6
<1> QED BY <1>1, <1>2, <1>3, <1>4, <1>5, <1>6, <1>7

LEMMA StartIndexCopyTomb == 
    ASSUME TombInv, NEW c \in Cluster, StartIndexCopy(c)
    PROVE  TombInv'
<1> USE DEF TombInv
<1>0. /\ cur[c] # Nil /\ pc[c] = "idle" /\ copies' = [copies EXCEPT ![cur[c]] = copies[cur[c]] + 1]
      /\ pc' = [pc EXCEPT ![c] = "indexCopy"] /\ cur[c] \in Obj
      /\ UNCHANGED <<cur, docs, seqNo, hist, items, seen, now, before, txNow, pending, removed, truth, bypassed>>
  BY DEF StartIndexCopy, objVars, regVars, txVars, history, Types
<1>m. \A o \in Obj : Mutable(o)' => Mutable(o)
  <2> SUFFICES ASSUME NEW o \in Obj, Mutable(o)' PROVE Mutable(o)
    OBVIOUS
  <2>1. Last(hist[o]).copies <= copies[o] /\ Last(hist[o]).copies \in Nat
    BY <1>0, HistoryIs DEF Mutable, RegistryOK
  <2>2. copies'[o] = IF o = cur[c] THEN copies[o] + 1 ELSE copies[o]
    BY <1>0 DEF Types
  <2> QED BY <1>0, <2>1, <2>2 DEF Mutable, Types
<1>1. Types'
  BY <1>0 DEF Types, Step
<1>2. RegistryOK'
  <2>1. \A o \in Obj : hist[o] # <<>> => seqNo[o] <= seqNo'[o] /\ copies[o] <= copies'[o]
    BY <1>0, <1>1 DEF Types
  <2>2. seqNo' \in [Obj -> Int] /\ copies' \in [Obj -> Nat]
    BY <1>1 DEF Types
  <2> QED BY <1>0, <2>1, <2>2, SameHistories
<1>3. RequestsOK'
  <2>1. \A o \in Obj : hist[o] # <<>> =>
           hist[o][Len(hist[o])].copies <= copies[o] /\ hist[o][Len(hist[o])].copies \in Nat
    BY HistoryIs DEF RegistryOK
  <2>2. \A o \in Obj : copies'[o] = IF o = cur[c] THEN copies[o] + 1 ELSE copies[o]
    BY <1>0 DEF Types
  <2>3. \A d \in Cluster : pc'[d] \in {"copy", "indexCopy"} =>
              \A o \in Obj : cur'[d] = o /\ hist'[o] # <<>> => hist'[o][Len(hist'[o])].copies < copies'[o]
    <3> SUFFICES ASSUME NEW d \in Cluster, NEW o \in Obj, pc'[d] \in {"copy", "indexCopy"}, cur[d] = o, hist[o] # <<>>
                 PROVE  hist[o][Len(hist[o])].copies < copies'[o]
      BY <1>0
    <3>1. copies[o] \in Nat
      BY DEF Types
    <3>2. CASE d = c
      BY <2>1, <2>2, <3>1, <3>2
    <3>3. CASE d # c
      <4>1. hist[o][Len(hist[o])].copies < copies[o]
        BY <1>0, <3>3 DEF RequestsOK, Types
      <4> QED BY <2>1, <2>2, <3>1, <4>1
    <3> QED BY <3>2, <3>3
  <2> QED BY <1>0, <2>3 DEF RequestsOK, Types
<1>4. SameTruth'
  BY <1>0 DEF SameTruth, RequestsOK, Types
<1>5. LeftBehind'
  <2> SUFFICES ASSUME NEW x \in Cluster, NEW o \in Obj, NEW s \in Int, InheritsFrom(x, o, s)'
               PROVE  Left(x, o, s)'
    BY DEF LeftBehind
  <2>1. InheritsFrom(x, o, s)
    BY <1>0 DEF InheritsFrom, Types
  <2>2. Left(x, o, s)
    BY <2>1 DEF LeftBehind
  <2>3. \A d \in Cluster : cur'[d] = o =>
              /\ pending'[d] # NoItems \/ removed'[d] # {} => seqNo'[o] > s
              /\ seqNo'[o] = s => truth'[d] = truth[x]
    BY <1>0, <2>2 DEF Left
  <2> QED BY <1>0, <1>m, <2>2, <2>3, LeftKept DEF Left
<1>6. NothingInvented'
  BY <1>0, SameItems DEF NothingInvented, Untouched, RequestsOK, SameTruth, Types
<1>7. NothingForgotten'
  <2>1. \A d \in Cluster : /\ (pc'[d] = "inherit" <=> pc[d] = "inherit") /\ (pc[d] = "inherit" => d # c)
                          /\ Time(d)' = Time(d) /\ \A i \in Id : Untouched(d, i)' <=> Untouched(d, i)
    BY <1>0 DEF Types, Time, Untouched
  <2>2. \A d \in Cluster : d # c => before'[d] = before[d] /\ txNow'[d] = txNow[d]
    BY <1>0 DEF Types
  <2>3. \A o \in Obj : /\ CurrentItems(o)' = CurrentItems(o)
                      /\ \A s \in Int : AsOf(o, s)' = AsOf(o, s) /\ Evicted(o, s)' = Evicted(o, s)
    BY <1>0, SameItems
  <2>4. UNCHANGED <<cur, seqNo, truth, bypassed>> /\ seqNo \in [Obj -> Int]
    BY <1>0 DEF Types
  <2> SUFFICES ASSUME NEW d \in Cluster \ bypassed, NEW o \in Obj, cur[d] = o
               PROVE  IF pc'[d] = "inherit"
                      THEN \A p \in Obj, s \in Int : before'[d] = p /\ seqNo[o] = s =>
                              \/ Evicted(p, s)'
                              \/ \A i \in Id : AsOf(p, s)'[i] = Nothing => Expired(truth[d][i], txNow'[d])
                      ELSE \A i \in Id : Untouched(d, i)' /\ CurrentItems(o)'[i] = Nothing
                                             => Expired(truth[d][i], Time(d)')
    BY <2>4 DEF NothingForgotten
  <2>5. CASE pc[d] = "inherit"
    BY <2>1, <2>2, <2>3, <2>5 DEF NothingForgotten
  <2>6. CASE pc[d] # "inherit"
    BY <2>1, <2>3, <2>6 DEF NothingForgotten
  <2> QED BY <2>1, <2>5, <2>6
<1> QED BY <1>1, <1>2, <1>3, <1>4, <1>5, <1>6, <1>7

LEMMA AbortCopyTomb == 
    ASSUME TombInv, NEW c \in Cluster, AbortCopy(c)
    PROVE  TombInv'
<1> USE DEF TombInv
<1>0. /\ pc[c] \in {"copy", "indexCopy"} /\ bypassed' = bypassed
      /\ pc' = [pc EXCEPT ![c] = "idle"] /\ before' = [before EXCEPT ![c] = Nil]
      /\ txNow' = [txNow EXCEPT ![c] = 0] /\ pending' = [pending EXCEPT ![c] = NoItems]
      /\ removed' = [removed EXCEPT ![c] = {}]
      /\ UNCHANGED <<cur, docs, seqNo, copies, hist, items, seen, now, truth>>
  BY DEF AbortCopy, Return, objVars, regVars, history
<1>a. NoItems \in [Id -> Tombstone] /\ pending[c] = NoItems /\ removed[c] = {}
  BY <1>0 DEF NoItems, Tombstone, RequestsOK
<1>b. pending' = pending /\ removed' = removed
  BY <1>0, <1>a DEF Types
<1>m. \A o \in Obj : Mutable(o)' = Mutable(o)
  BY <1>0 DEF Mutable
<1>1. Types'
  BY <1>0, <1>a, <1>b, Bounds DEF Types, Step
<1>2. RegistryOK'
  BY <1>0 DEF RegistryOK
<1>3. RequestsOK'
  BY <1>0, <1>b DEF RequestsOK, Types
<1>4. SameTruth'
  BY <1>0 DEF SameTruth, RequestsOK, Types
<1>5. LeftBehind'
  <2> SUFFICES ASSUME NEW x \in Cluster, NEW o \in Obj, NEW s \in Int, InheritsFrom(x, o, s)'
               PROVE  Left(x, o, s)'
    BY DEF LeftBehind
  <2>1. InheritsFrom(x, o, s)
    BY <1>0 DEF InheritsFrom, Types
  <2>2. Left(x, o, s)
    BY <2>1 DEF LeftBehind
  <2>3. \A d \in Cluster : cur'[d] = o =>
              /\ pending'[d] # NoItems \/ removed'[d] # {} => seqNo'[o] > s
              /\ seqNo'[o] = s => truth'[d] = truth[x]
    BY <1>0, <1>b, <2>2 DEF Left
  <2> QED BY <1>0, <1>m, <2>2, <2>3, LeftKept DEF Left
<1>6. NothingInvented'
  BY <1>0, <1>b, SameItems DEF NothingInvented, Untouched
<1>7. NothingForgotten'
  <2>1. \A x \in Cluster : x # c => Time(x)' = Time(x) /\ pc'[x] = pc[x] /\ before'[x] = before[x] /\ txNow'[x] = txNow[x]
    BY <1>0 DEF Time, Types
  <2>2. \A x \in Cluster, i \in Id : Untouched(x, i)' = Untouched(x, i)
    BY <1>b DEF Untouched
  <2>3. \A o \in Obj : CurrentItems(o)' = CurrentItems(o)
    BY <1>0, SameItems
  <2>4. \A p \in Obj, s \in Int : AsOf(p, s)' = AsOf(p, s) /\ Evicted(p, s)' = Evicted(p, s)
    BY <1>0, SameItems
  <2>5. \A x \in Cluster \ bypassed', o \in Obj : cur'[x] = o /\ x # c =>
           IF pc'[x] = "inherit"
           THEN \A p \in Obj, s \in Int : before'[x] = p /\ seqNo'[o] = s =>
                   \/ Evicted(p, s)'
                   \/ \A i \in Id : AsOf(p, s)'[i] = Nothing => Expired(truth'[x][i], txNow'[x])
           ELSE \A i \in Id : Untouched(x, i)' /\ CurrentItems(o)'[i] = Nothing
                                  => Expired(truth'[x][i], Time(x)')
    BY <1>0, <2>1, <2>2, <2>3, <2>4 DEF NothingForgotten
  <2>6. \A o \in Obj, i \in Id : c \notin bypassed' /\ cur'[c] = o /\ CurrentItems(o)'[i] = Nothing
                                => Expired(truth'[c][i], Time(c)')
    <3> SUFFICES ASSUME c \notin bypassed', NEW o \in Obj, NEW i \in Id, cur[c] = o, CurrentItems(o)[i] = Nothing
                 PROVE  Expired(truth[c][i], Time(c)')
      BY <1>0, <2>3
    <3>1. pc[c] # "inherit" /\ c \notin bypassed
      BY <1>0 DEF Types, Bypass, history
    <3>2. Untouched(c, i)
      BY <1>a DEF Untouched, NoItems
    <3>3. Expired(truth[c][i], Time(c))
      BY <3>1, <3>2 DEF NothingForgotten
    <3>4. Time(c) \in Nat /\ Time(c)' \in Nat /\ Time(c) <= Time(c)'
      BY <1>0, Bounds DEF Time, Types, RequestsOK
    <3> QED BY <3>3, <3>4, ExpiredLater DEF Types
  <2>7. pc'[c] # "inherit"
    BY <1>0 DEF Types
  <2> QED BY <2>5, <2>6, <2>7 DEF NothingForgotten
<1> QED BY <1>1, <1>2, <1>3, <1>4, <1>5, <1>6, <1>7

LEMMA BlockedTomb == 
    ASSUME TombInv, NEW c \in Cluster, Blocked(c)
    PROVE  TombInv'
<1> USE DEF TombInv
<1>0. /\ pc[c] \in {"inherit", "note"} /\ IF pc[c] = "inherit" THEN Bypass(c) ELSE bypassed' = bypassed
      /\ pc' = [pc EXCEPT ![c] = "idle"] /\ before' = [before EXCEPT ![c] = Nil]
      /\ txNow' = [txNow EXCEPT ![c] = 0] /\ pending' = [pending EXCEPT ![c] = NoItems]
      /\ removed' = [removed EXCEPT ![c] = {}]
      /\ UNCHANGED <<cur, docs, seqNo, copies, hist, items, seen, now, truth>>
  BY DEF Blocked, Return, objVars, regVars, history
<1>a. NoItems \in [Id -> Tombstone] /\ pending[c] = NoItems /\ removed[c] = {}
  BY <1>0 DEF NoItems, Tombstone, RequestsOK
<1>b. pending' = pending /\ removed' = removed
  BY <1>0, <1>a DEF Types
<1>m. \A o \in Obj : Mutable(o)' = Mutable(o)
  BY <1>0 DEF Mutable
<1>c. bypassed \subseteq bypassed' /\ bypassed' \subseteq Cluster
  BY <1>0 DEF Bypass, Types
<1>1. Types'
  BY <1>0, <1>a, <1>b, <1>c, Bounds DEF Types, Step
<1>2. RegistryOK'
  BY <1>0 DEF RegistryOK
<1>3. RequestsOK'
  BY <1>0, <1>b DEF RequestsOK, Types
<1>4. SameTruth'
  BY <1>0 DEF SameTruth, RequestsOK, Types
<1>5. LeftBehind'
  <2> SUFFICES ASSUME NEW x \in Cluster, NEW o \in Obj, NEW s \in Int, InheritsFrom(x, o, s)'
               PROVE  Left(x, o, s)'
    BY DEF LeftBehind
  <2>1. InheritsFrom(x, o, s)
    BY <1>0 DEF InheritsFrom, Types
  <2>2. Left(x, o, s)
    BY <2>1 DEF LeftBehind
  <2>3. \A d \in Cluster : cur'[d] = o =>
              /\ pending'[d] # NoItems \/ removed'[d] # {} => seqNo'[o] > s
              /\ seqNo'[o] = s => truth'[d] = truth[x]
    BY <1>0, <1>b, <2>2 DEF Left
  <2> QED BY <1>0, <1>m, <2>2, <2>3, LeftKept DEF Left
<1>6. NothingInvented'
  BY <1>0, <1>b, SameItems DEF NothingInvented, Untouched
<1>7. NothingForgotten'
  <2>1. \A x \in Cluster : x # c => Time(x)' = Time(x) /\ pc'[x] = pc[x] /\ before'[x] = before[x] /\ txNow'[x] = txNow[x]
    BY <1>0 DEF Time, Types
  <2>2. \A x \in Cluster, i \in Id : Untouched(x, i)' = Untouched(x, i)
    BY <1>b DEF Untouched
  <2>3. \A o \in Obj : CurrentItems(o)' = CurrentItems(o)
    BY <1>0, SameItems
  <2>4. \A p \in Obj, s \in Int : AsOf(p, s)' = AsOf(p, s) /\ Evicted(p, s)' = Evicted(p, s)
    BY <1>0, SameItems
  <2>5. \A x \in Cluster \ bypassed', o \in Obj : cur'[x] = o /\ x # c =>
           IF pc'[x] = "inherit"
           THEN \A p \in Obj, s \in Int : before'[x] = p /\ seqNo'[o] = s =>
                   \/ Evicted(p, s)'
                   \/ \A i \in Id : AsOf(p, s)'[i] = Nothing => Expired(truth'[x][i], txNow'[x])
           ELSE \A i \in Id : Untouched(x, i)' /\ CurrentItems(o)'[i] = Nothing
                                  => Expired(truth'[x][i], Time(x)')
    BY <1>0, <1>c, <2>1, <2>2, <2>3, <2>4 DEF NothingForgotten
  <2>6. \A o \in Obj, i \in Id : c \notin bypassed' /\ cur'[c] = o /\ CurrentItems(o)'[i] = Nothing
                                => Expired(truth'[c][i], Time(c)')
    <3> SUFFICES ASSUME c \notin bypassed', NEW o \in Obj, NEW i \in Id, cur[c] = o, CurrentItems(o)[i] = Nothing
                 PROVE  Expired(truth[c][i], Time(c)')
      BY <1>0, <2>3
    <3>1. pc[c] # "inherit" /\ c \notin bypassed
      BY <1>0 DEF Types, Bypass, history
    <3>2. Untouched(c, i)
      BY <1>a DEF Untouched, NoItems
    <3>3. Expired(truth[c][i], Time(c))
      BY <3>1, <3>2 DEF NothingForgotten
    <3>4. Time(c) \in Nat /\ Time(c)' \in Nat /\ Time(c) <= Time(c)'
      BY <1>0, Bounds DEF Time, Types, RequestsOK
    <3> QED BY <3>3, <3>4, ExpiredLater DEF Types
  <2>7. pc'[c] # "inherit"
    BY <1>0 DEF Types
  <2> QED BY <2>5, <2>6, <2>7 DEF NothingForgotten
<1> QED BY <1>1, <1>2, <1>3, <1>4, <1>5, <1>6, <1>7

-----------------------------------------------------------------------------
(* Copies take the place of an Index. *)

LEMMA ReplaceBy ==
    ASSUME Types, NEW c \in Cluster, NEW n \in Obj, Replace(c, n), cur[c] # Nil
    PROVE  /\ cur[c] \in Obj /\ cur[c] # n
           /\ hist[n] = <<>> /\ copies[n] = 0
           /\ \A x \in Cluster : cur[x] # n /\ before[x] # n /\ seen[x] # n
           /\ cur' = [cur EXCEPT ![c] = n] /\ cur'[c] = n
           /\ \A x \in Cluster : x # c => cur'[x] = cur[x]
           /\ seqNo' = [seqNo EXCEPT ![n] = seqNo[cur[c]]] /\ seqNo'[n] = seqNo[cur[c]]
           /\ \A o \in Obj : o # n => seqNo'[o] = seqNo[o]
           /\ docs' \in [Obj -> [Id -> Nat]]
<1>1. \A x \in Cluster : cur[x] # n /\ before[x] # n /\ seen[x] # n
  BY DEF Replace, Reachable, Sharers, Collected
<1>2. cur[c] \in Obj /\ cur[c] # n
  BY <1>1 DEF Types
<1> QED BY <1>1, <1>2 DEF Replace, Collected, Types

\* What a cluster leaves that has counted its copy.
LEMMA LeavingCounted ==
    ASSUME TombInv, NEW c \in Cluster, cur[c] \in Obj, pc[c] \in {"copy", "indexCopy"}
    PROVE  Left(c, cur[c], seqNo[cur[c]]) /\ ~Mutable(cur[c])
<1> DEFINE o == cur[c]
<1>1. AsOf(o, seqNo[o]) = CurrentItems(o) /\ seqNo[o] \in Int
  BY AsOfCurrent DEF TombInv, Types
<1>2. ~Mutable(o)
  <2>1. hist[o] # <<>> => hist[o][Len(hist[o])].copies < copies[o] /\ hist[o][Len(hist[o])].copies \in Nat
    BY HistoryIs DEF TombInv, RequestsOK
  <2> QED BY <2>1 DEF Mutable, Last, TombInv, Types
<1>3. \A d \in Cluster : cur[d] = o => pending[d] = NoItems /\ removed[d] = {} /\ truth[d] = truth[c]
  <2> SUFFICES ASSUME NEW d \in Cluster, cur[d] = o
               PROVE  pending[d] = NoItems /\ removed[d] = {} /\ truth[d] = truth[c]
    OBVIOUS
  <2>1. pc[d] # "ops"
    BY DEF TombInv, RequestsOK
  <2>2. o # Nil
    BY NilAssumption
  <2> QED BY <2>1, <2>2 DEF TombInv, RequestsOK, SameTruth
<1>4. \A i \in Id : Untouched(c, i)
  BY <1>3 DEF Untouched, NoItems
<1>5. \A i \in Id : CurrentItems(o)[i] \in {Nothing, truth[c][i]}
  BY <1>4 DEF TombInv, NothingInvented
<1> QED BY <1>1, <1>2, <1>3, <1>5 DEF Left

LEMMA InstallTomb == 
    ASSUME TombInv, NEW c \in Cluster, NEW n \in Obj, Install(c, n)
    PROVE  TombInv'
<1> USE DEF TombInv
<1>0. /\ cur[c] # Nil /\ pc[c] = "copy" /\ Replace(c, n) /\ before[c] = cur[c]
      /\ pc' = [pc EXCEPT ![c] = "inherit"]
      /\ UNCHANGED <<copies, hist, items, seen, now, before, txNow, pending, removed, truth, bypassed>>
  BY DEF Install, regVars, txVars, history, RequestsOK
<1>r. /\ cur[c] \in Obj /\ cur[c] # n
      /\ hist[n] = <<>> /\ copies[n] = 0
      /\ \A x \in Cluster : cur[x] # n /\ before[x] # n /\ seen[x] # n
      /\ cur' = [cur EXCEPT ![c] = n] /\ cur'[c] = n
      /\ \A x \in Cluster : x # c => cur'[x] = cur[x]
      /\ seqNo' = [seqNo EXCEPT ![n] = seqNo[cur[c]]] /\ seqNo'[n] = seqNo[cur[c]]
      /\ \A o \in Obj : o # n => seqNo'[o] = seqNo[o]
      /\ docs' \in [Obj -> [Id -> Nat]]
  BY <1>0, ReplaceBy
<1>m. \A o \in Obj : Mutable(o)' = Mutable(o)
  BY <1>0 DEF Mutable
<1>1. Types'
  BY <1>0, <1>r DEF Types, Step
<1>2. RegistryOK'
  <2>1. \A o \in Obj : hist[o] # <<>> => seqNo[o] <= seqNo'[o] /\ copies[o] <= copies'[o]
    BY <1>0, <1>r DEF Types
  <2>2. seqNo' \in [Obj -> Int] /\ copies' \in [Obj -> Nat]
    BY <1>1 DEF Types
  <2> QED BY <1>0, <2>1, <2>2, SameHistories
<1>3. RequestsOK'
  <2>1. \A x \in Cluster : x # c => pc'[x] = pc[x]
    BY <1>0 DEF Types
  <2>2. cur'[c] # Nil
    BY <1>r, NilAssumption
  <2>3. \A x, d \in Cluster : x # c /\ cur'[d] = cur'[x] => cur[d] = cur[x]
    BY <1>r
  <2>4. \A d \in Cluster : cur'[d] = cur'[c] => d = c
    BY <1>r
  <2> SUFFICES ASSUME NEW x \in Cluster
               PROVE  /\ cur'[x] = Nil => pc'[x] = "idle" /\ seen'[x] = Nil
                      /\ pc'[x] = "copy" => before'[x] = cur'[x]
                      /\ pc'[x] = "inherit" => before'[x] # Nil /\ before'[x] # cur'[x] /\ hist'[cur'[x]] = <<>>
                      /\ pc'[x] \notin {"copy", "inherit"} => before'[x] = Nil
                      /\ pc'[x] # "ops" => pending'[x] = NoItems /\ removed'[x] = {}
                      /\ pc'[x] = "ops" => seen'[x] = cur'[x]
                      /\ pc'[x] \in {"inherit", "note", "ops"} => \A d \in Cluster : cur'[d] = cur'[x] => d = x
                      /\ txNow'[x] <= now'
                      /\ pc'[x] \in {"copy", "indexCopy"} =>
                            \A o \in Obj : cur'[x] = o /\ hist'[o] # <<>> => hist'[o][Len(hist'[o])].copies < copies'[o]
    BY DEF RequestsOK
  <2>5. CASE x # c
    BY <1>0, <1>r, <2>1, <2>3, <2>5 DEF RequestsOK
  <2>6. CASE x = c
    BY <1>0, <1>r, <2>2, <2>4, <2>6, NilAssumption DEF RequestsOK, Types
  <2> QED BY <2>5, <2>6
<1>4. SameTruth'
  BY <1>0, <1>r DEF SameTruth
<1>5. LeftBehind'
  <2> SUFFICES ASSUME NEW x \in Cluster, NEW o \in Obj, NEW s \in Int, InheritsFrom(x, o, s)'
               PROVE  Left(x, o, s)'
    BY DEF LeftBehind
  <2>1. o # n
    BY <1>0, <1>r DEF InheritsFrom, Types
  <2>2. s = seqNo[cur[x]]
    BY <1>0, <1>r DEF InheritsFrom, Types
  <2>3. \A d \in Cluster : cur'[d] = o => cur[d] = o
    BY <1>r, <2>1
  <2>4. CASE Left(x, o, s)
    <3>1. \A d \in Cluster : cur'[d] = o =>
              /\ pending'[d] # NoItems \/ removed'[d] # {} => seqNo'[o] > s
              /\ seqNo'[o] = s => truth'[d] = truth[x]
      BY <1>0, <1>r, <2>1, <2>3, <2>4 DEF Left
    <3>2. s <= seqNo'[o]
      BY <1>r, <2>1, <2>4 DEF Left
    <3> QED BY <1>0, <1>m, <2>4, <3>1, <3>2, LeftKept
  <2>5. InheritsFrom(x, o, s) => Left(x, o, s)
    BY DEF LeftBehind
  <2>6. ASSUME x # c PROVE InheritsFrom(x, o, s)
    BY <1>0, <1>r, <2>6 DEF InheritsFrom, Types
  <2>7. ASSUME x = c, o # cur[c] PROVE InheritsFrom(x, o, s)
    BY <1>0, <1>r, <2>7 DEF InheritsFrom, Types
  <2>8. CASE x = c /\ o = cur[c]
    BY <1>0, <1>r, <2>2, <2>4, <2>8, LeavingCounted
  <2> QED BY <2>4, <2>5, <2>6, <2>7, <2>8
<1>6. NothingInvented'
  <2> SUFFICES ASSUME NEW x \in Cluster, NEW o \in Obj, NEW i \in Id, cur'[x] = o
               PROVE  /\ i \in removed'[x] => pending'[x][i] = Nothing /\ truth'[x][i] = Nothing
                      /\ pending'[x][i] # Nothing => truth'[x][i] = pending'[x][i]
                      /\ Untouched(x, i)' => CurrentItems(o)'[i] \in {Nothing, truth'[x][i]}
    BY DEF NothingInvented
  <2>1. CurrentItems(o)' = CurrentItems(o)
    BY <1>0, SameItems
  <2>2. CASE x # c
    BY <1>0, <1>r, <2>1, <2>2 DEF NothingInvented, Untouched
  <2>3. CASE x = c
    <3>1. o = n /\ CurrentItems(o) = NoItems
      BY <1>r, <2>3 DEF CurrentItems
    <3>2. pending[c] = NoItems /\ removed[c] = {}
      BY <1>0 DEF RequestsOK
    <3> QED BY <1>0, <2>1, <2>3, <3>1, <3>2 DEF NoItems
  <2> QED BY <2>2, <2>3
<1>7. NothingForgotten'
  <2>1. \A x \in Cluster : x # c => Time(x)' = Time(x) /\ pc'[x] = pc[x]
    BY <1>0 DEF Time, Types
  <2>2. \A x \in Cluster, i \in Id : Untouched(x, i)' = Untouched(x, i)
    BY <1>0 DEF Untouched
  <2>3. \A o \in Obj : CurrentItems(o)' = CurrentItems(o)
    BY <1>0, SameItems
  <2>4. \A p \in Obj, s \in Int : AsOf(p, s)' = AsOf(p, s) /\ Evicted(p, s)' = Evicted(p, s)
    BY <1>0, SameItems
  <2> SUFFICES ASSUME NEW x \in Cluster \ bypassed', NEW o \in Obj, cur'[x] = o
               PROVE  IF pc'[x] = "inherit"
                      THEN \A p \in Obj, s \in Int : before'[x] = p /\ seqNo'[o] = s =>
                              \/ Evicted(p, s)'
                              \/ \A i \in Id : AsOf(p, s)'[i] = Nothing => Expired(truth'[x][i], txNow'[x])
                      ELSE \A i \in Id : Untouched(x, i)' /\ CurrentItems(o)'[i] = Nothing
                                             => Expired(truth'[x][i], Time(x)')
    BY DEF NothingForgotten
  <2>5. CASE x # c
    <3>1. o # n /\ cur[x] = o /\ x \notin bypassed /\ seqNo'[o] = seqNo[o]
      BY <1>0, <1>r, <2>5 DEF Bypass
    <3> QED BY <1>0, <2>1, <2>2, <2>3, <2>4, <2>5, <3>1 DEF NothingForgotten
  <2>6. CASE x = c
    <3> SUFFICES ASSUME NEW p \in Obj, NEW s \in Int, before[c] = p, seqNo'[n] = s, NEW i \in Id,
                        AsOf(p, s)[i] = Nothing
                 PROVE  Expired(truth[c][i], txNow[c])
      BY <1>0, <1>r, <2>4, <2>6 DEF Types
    <3>1. p = cur[c] /\ s = seqNo[p] /\ AsOf(p, s) = CurrentItems(p)
      BY <1>0, <1>r, AsOfCurrent DEF RequestsOK
    <3>2. Untouched(c, i) /\ c \notin bypassed /\ Time(c) = txNow[c]
      BY <1>0, <2>6 DEF RequestsOK, Untouched, NoItems, Time
    <3> QED BY <1>0, <3>1, <3>2 DEF NothingForgotten
  <2> QED BY <2>5, <2>6
<1> QED BY <1>1, <1>2, <1>3, <1>4, <1>5, <1>6, <1>7

LEMMA InstallIndexCopyTomb == 
    ASSUME TombInv, NEW c \in Cluster, NEW n \in Obj, InstallIndexCopy(c, n)
    PROVE  TombInv'
<1> USE DEF TombInv
<1>0. /\ cur[c] # Nil /\ pc[c] = "indexCopy" /\ Replace(c, n) /\ before[c] = Nil
      /\ pc' = [pc EXCEPT ![c] = "idle"] /\ Bypass(c)
      /\ UNCHANGED <<copies, hist, items, seen, now, before, txNow, pending, removed, truth>>
  BY DEF InstallIndexCopy, regVars, txVars, RequestsOK
<1>r. /\ cur[c] \in Obj /\ cur[c] # n
      /\ hist[n] = <<>> /\ copies[n] = 0
      /\ \A x \in Cluster : cur[x] # n /\ before[x] # n /\ seen[x] # n
      /\ cur' = [cur EXCEPT ![c] = n] /\ cur'[c] = n
      /\ \A x \in Cluster : x # c => cur'[x] = cur[x]
      /\ seqNo' = [seqNo EXCEPT ![n] = seqNo[cur[c]]] /\ seqNo'[n] = seqNo[cur[c]]
      /\ \A o \in Obj : o # n => seqNo'[o] = seqNo[o]
      /\ docs' \in [Obj -> [Id -> Nat]]
  BY <1>0, ReplaceBy
<1>m. \A o \in Obj : Mutable(o)' = Mutable(o)
  BY <1>0 DEF Mutable
<1>1. Types'
  BY <1>0, <1>r DEF Types, Step, Bypass
<1>2. RegistryOK'
  <2>1. \A o \in Obj : hist[o] # <<>> => seqNo[o] <= seqNo'[o] /\ copies[o] <= copies'[o]
    BY <1>0, <1>r DEF Types
  <2>2. seqNo' \in [Obj -> Int] /\ copies' \in [Obj -> Nat]
    BY <1>1 DEF Types
  <2> QED BY <1>0, <2>1, <2>2, SameHistories
<1>3. RequestsOK'
  <2>1. \A x \in Cluster : x # c => pc'[x] = pc[x]
    BY <1>0 DEF Types
  <2>2. cur'[c] # Nil
    BY <1>r, NilAssumption
  <2>3. \A x, d \in Cluster : x # c /\ cur'[d] = cur'[x] => cur[d] = cur[x]
    BY <1>r
  <2>4. \A d \in Cluster : cur'[d] = cur'[c] => d = c
    BY <1>r
  <2> SUFFICES ASSUME NEW x \in Cluster
               PROVE  /\ cur'[x] = Nil => pc'[x] = "idle" /\ seen'[x] = Nil
                      /\ pc'[x] = "copy" => before'[x] = cur'[x]
                      /\ pc'[x] = "inherit" => before'[x] # Nil /\ before'[x] # cur'[x] /\ hist'[cur'[x]] = <<>>
                      /\ pc'[x] \notin {"copy", "inherit"} => before'[x] = Nil
                      /\ pc'[x] # "ops" => pending'[x] = NoItems /\ removed'[x] = {}
                      /\ pc'[x] = "ops" => seen'[x] = cur'[x]
                      /\ pc'[x] \in {"inherit", "note", "ops"} => \A d \in Cluster : cur'[d] = cur'[x] => d = x
                      /\ txNow'[x] <= now'
                      /\ pc'[x] \in {"copy", "indexCopy"} =>
                            \A o \in Obj : cur'[x] = o /\ hist'[o] # <<>> => hist'[o][Len(hist'[o])].copies < copies'[o]
    BY DEF RequestsOK
  <2>5. CASE x # c
    BY <1>0, <1>r, <2>1, <2>3, <2>5 DEF RequestsOK
  <2>6. CASE x = c
    BY <1>0, <1>r, <2>2, <2>4, <2>6, NilAssumption DEF RequestsOK, Types
  <2> QED BY <2>5, <2>6
<1>4. SameTruth'
  BY <1>0, <1>r DEF SameTruth
<1>5. LeftBehind'
  <2> SUFFICES ASSUME NEW x \in Cluster, NEW o \in Obj, NEW s \in Int, InheritsFrom(x, o, s)'
               PROVE  Left(x, o, s)'
    BY DEF LeftBehind
  <2>1. o # n
    BY <1>0, <1>r DEF InheritsFrom, Types
  <2>2. s = seqNo[cur[x]]
    BY <1>0, <1>r DEF InheritsFrom, Types
  <2>3. \A d \in Cluster : cur'[d] = o => cur[d] = o
    BY <1>r, <2>1
  <2>4. CASE Left(x, o, s)
    <3>1. \A d \in Cluster : cur'[d] = o =>
              /\ pending'[d] # NoItems \/ removed'[d] # {} => seqNo'[o] > s
              /\ seqNo'[o] = s => truth'[d] = truth[x]
      BY <1>0, <1>r, <2>1, <2>3, <2>4 DEF Left
    <3>2. s <= seqNo'[o]
      BY <1>r, <2>1, <2>4 DEF Left
    <3> QED BY <1>0, <1>m, <2>4, <3>1, <3>2, LeftKept
  <2>5. InheritsFrom(x, o, s) => Left(x, o, s)
    BY DEF LeftBehind
  <2>6. ASSUME x # c PROVE InheritsFrom(x, o, s)
    BY <1>0, <1>r, <2>6 DEF InheritsFrom, Types
  <2>7. ASSUME x = c, o # cur[c] PROVE InheritsFrom(x, o, s)
    BY <1>0, <1>r, <2>7 DEF InheritsFrom, Types
  <2>8. CASE x = c /\ o = cur[c]
    BY <1>0, <1>r, <2>2, <2>4, <2>8, LeavingCounted
  <2> QED BY <2>4, <2>5, <2>6, <2>7, <2>8
<1>6. NothingInvented'
  <2> SUFFICES ASSUME NEW x \in Cluster, NEW o \in Obj, NEW i \in Id, cur'[x] = o
               PROVE  /\ i \in removed'[x] => pending'[x][i] = Nothing /\ truth'[x][i] = Nothing
                      /\ pending'[x][i] # Nothing => truth'[x][i] = pending'[x][i]
                      /\ Untouched(x, i)' => CurrentItems(o)'[i] \in {Nothing, truth'[x][i]}
    BY DEF NothingInvented
  <2>1. CurrentItems(o)' = CurrentItems(o)
    BY <1>0, SameItems
  <2>2. CASE x # c
    BY <1>0, <1>r, <2>1, <2>2 DEF NothingInvented, Untouched
  <2>3. CASE x = c
    <3>1. o = n /\ CurrentItems(o) = NoItems
      BY <1>r, <2>3 DEF CurrentItems
    <3>2. pending[c] = NoItems /\ removed[c] = {}
      BY <1>0 DEF RequestsOK
    <3> QED BY <1>0, <2>1, <2>3, <3>1, <3>2 DEF NoItems
  <2> QED BY <2>2, <2>3
<1>7. NothingForgotten'
  <2>1. \A x \in Cluster : x # c => Time(x)' = Time(x) /\ pc'[x] = pc[x]
    BY <1>0 DEF Time, Types
  <2>2. \A x \in Cluster, i \in Id : Untouched(x, i)' = Untouched(x, i)
    BY <1>0 DEF Untouched
  <2>3. \A o \in Obj : CurrentItems(o)' = CurrentItems(o)
    BY <1>0, SameItems
  <2>4. \A p \in Obj, s \in Int : AsOf(p, s)' = AsOf(p, s) /\ Evicted(p, s)' = Evicted(p, s)
    BY <1>0, SameItems
  <2> SUFFICES ASSUME NEW x \in Cluster \ bypassed', NEW o \in Obj, cur'[x] = o
               PROVE  IF pc'[x] = "inherit"
                      THEN \A p \in Obj, s \in Int : before'[x] = p /\ seqNo'[o] = s =>
                              \/ Evicted(p, s)'
                              \/ \A i \in Id : AsOf(p, s)'[i] = Nothing => Expired(truth'[x][i], txNow'[x])
                      ELSE \A i \in Id : Untouched(x, i)' /\ CurrentItems(o)'[i] = Nothing
                                             => Expired(truth'[x][i], Time(x)')
    BY DEF NothingForgotten
  <2>5. CASE x # c
    <3>1. o # n /\ cur[x] = o /\ x \notin bypassed /\ seqNo'[o] = seqNo[o]
      BY <1>0, <1>r, <2>5 DEF Bypass
    <3> QED BY <1>0, <2>1, <2>2, <2>3, <2>4, <2>5, <3>1 DEF NothingForgotten
  <2>6. x # c
    BY <1>0 DEF Bypass
  <2> QED BY <2>5, <2>6
<1> QED BY <1>1, <1>2, <1>3, <1>4, <1>5, <1>6, <1>7

LEMMA OpenIndexTomb == 
    ASSUME TombInv, NEW c \in Cluster, NEW n \in Obj, OpenIndex(c, n)
    PROVE  TombInv'
<1> USE DEF TombInv
<1>0. /\ cur[c] # Nil /\ pc[c] = "idle" /\ Replace(c, n) /\ before[c] = Nil
      /\ \A d \in Cluster : cur[d] = cur[c] => d = c
      /\ copies' = [copies EXCEPT ![cur[c]] = copies[cur[c]] + 1] /\ Bypass(c)
      /\ UNCHANGED <<hist, items, seen, now, pc, before, txNow, pending, removed, truth>>
  BY DEF OpenIndex, Rebuild, Sharers, regVars, txVars, RequestsOK
<1>r. /\ cur[c] \in Obj /\ cur[c] # n
      /\ hist[n] = <<>> /\ copies[n] = 0
      /\ \A x \in Cluster : cur[x] # n /\ before[x] # n /\ seen[x] # n
      /\ cur' = [cur EXCEPT ![c] = n] /\ cur'[c] = n
      /\ \A x \in Cluster : x # c => cur'[x] = cur[x]
      /\ seqNo' = [seqNo EXCEPT ![n] = seqNo[cur[c]]] /\ seqNo'[n] = seqNo[cur[c]]
      /\ \A o \in Obj : o # n => seqNo'[o] = seqNo[o]
      /\ docs' \in [Obj -> [Id -> Nat]]
  BY <1>0, ReplaceBy
<1>a. \A o \in Obj : copies'[o] = IF o = cur[c] THEN copies[o] + 1 ELSE copies[o]
  BY <1>0 DEF Types
<1>b. \A o \in Obj : hist[o] # <<>> =>
        Last(hist[o]).copies <= copies[o] /\ Last(hist[o]).copies \in Nat /\ copies[o] \in Nat
  BY NewestSnapshot
<1>m. \A o \in Obj : (Mutable(o)' => Mutable(o)) /\ (o = cur[c] => ~Mutable(o)')
  <2>1. \A o \in Obj : Mutable(o)' => hist[o] # <<>> /\ ~Last(hist[o]).shared /\ Last(hist[o]).copies = copies'[o]
    BY <1>0 DEF Mutable
  <2> QED BY <1>a, <1>b, <1>r, <2>1 DEF Mutable
<1>1. Types'
  BY <1>0, <1>r DEF Types, Step, Bypass
<1>2. RegistryOK'
  <2>1. \A o \in Obj : hist[o] # <<>> => seqNo[o] <= seqNo'[o] /\ copies[o] <= copies'[o]
    BY <1>0, <1>r DEF Types
  <2>2. seqNo' \in [Obj -> Int] /\ copies' \in [Obj -> Nat]
    BY <1>1 DEF Types
  <2> QED BY <1>0, <2>1, <2>2, SameHistories
<1>3. RequestsOK'
  <2>1. \A x \in Cluster : x # c => pc'[x] = pc[x]
    BY <1>0 DEF Types
  <2>2. cur'[c] # Nil
    BY <1>r, NilAssumption
  <2>3. \A x, d \in Cluster : x # c /\ cur'[d] = cur'[x] => cur[d] = cur[x]
    BY <1>r
  <2>4. \A d \in Cluster : cur'[d] = cur'[c] => d = c
    BY <1>r
  <2> SUFFICES ASSUME NEW x \in Cluster
               PROVE  /\ cur'[x] = Nil => pc'[x] = "idle" /\ seen'[x] = Nil
                      /\ pc'[x] = "copy" => before'[x] = cur'[x]
                      /\ pc'[x] = "inherit" => before'[x] # Nil /\ before'[x] # cur'[x] /\ hist'[cur'[x]] = <<>>
                      /\ pc'[x] \notin {"copy", "inherit"} => before'[x] = Nil
                      /\ pc'[x] # "ops" => pending'[x] = NoItems /\ removed'[x] = {}
                      /\ pc'[x] = "ops" => seen'[x] = cur'[x]
                      /\ pc'[x] \in {"inherit", "note", "ops"} => \A d \in Cluster : cur'[d] = cur'[x] => d = x
                      /\ txNow'[x] <= now'
                      /\ pc'[x] \in {"copy", "indexCopy"} =>
                            \A o \in Obj : cur'[x] = o /\ hist'[o] # <<>> => hist'[o][Len(hist'[o])].copies < copies'[o]
    BY DEF RequestsOK
  <2>5. CASE x # c
    <3>1. \A o \in Obj : cur[x] = o /\ cur[x] # cur[c] => copies'[o] = copies[o]
      BY <1>a
    <3> QED BY <3>1, <1>0, <1>r, <2>1, <2>3, <2>5 DEF RequestsOK
  <2>6. CASE x = c
    BY <1>0, <1>r, <2>2, <2>4, <2>6, NilAssumption DEF RequestsOK, Types
  <2> QED BY <2>5, <2>6
<1>4. SameTruth'
  BY <1>0, <1>r DEF SameTruth
<1>5. LeftBehind'
  <2> SUFFICES ASSUME NEW x \in Cluster, NEW o \in Obj, NEW s \in Int, InheritsFrom(x, o, s)'
               PROVE  Left(x, o, s)'
    BY DEF LeftBehind
  <2>1. o # n
    BY <1>0, <1>r DEF InheritsFrom, Types
  <2>2. s = seqNo[cur[x]]
    BY <1>0, <1>r DEF InheritsFrom, Types
  <2>3. \A d \in Cluster : cur'[d] = o => cur[d] = o
    BY <1>r, <2>1
  <2>4. CASE Left(x, o, s)
    <3>1. \A d \in Cluster : cur'[d] = o =>
              /\ pending'[d] # NoItems \/ removed'[d] # {} => seqNo'[o] > s
              /\ seqNo'[o] = s => truth'[d] = truth[x]
      BY <1>0, <1>r, <2>1, <2>3, <2>4 DEF Left
    <3>2. s <= seqNo'[o]
      BY <1>r, <2>1, <2>4 DEF Left
    <3> QED BY <1>0, <1>m, <2>4, <3>1, <3>2, LeftKept
  <2>5. InheritsFrom(x, o, s) => Left(x, o, s)
    BY DEF LeftBehind
  <2>6. ASSUME x # c PROVE InheritsFrom(x, o, s)
    BY <1>0, <1>r, <2>6 DEF InheritsFrom, Types
  <2>7. ASSUME x = c, o # cur[c] PROVE InheritsFrom(x, o, s)
    BY <1>0, <1>r, <2>7 DEF InheritsFrom, Types
  <2>8. CASE x = c /\ o = cur[c]
    <3>1. \A d \in Cluster : cur'[d] # o
      BY <1>0, <1>r, <2>8
    <3>2. \A i \in Id : AsOf(o, s)'[i] \in {Nothing, truth'[x][i]}
      <4>1. AsOf(o, s)' = CurrentItems(o)
        BY <1>0, <2>2, <2>8, AsOfCurrent, SameItems
      <4>2. \A i \in Id : Untouched(c, i)
        BY <1>0 DEF RequestsOK, Untouched, NoItems
      <4> QED BY <1>0, <2>8, <4>1, <4>2 DEF NothingInvented
    <3>3. s <= seqNo'[o]
      BY <1>r, <2>2, <2>8
    <3> QED BY <1>0, <1>m, <2>8, <3>1, <3>2, <3>3 DEF Left
  <2> QED BY <2>4, <2>5, <2>6, <2>7, <2>8
<1>6. NothingInvented'
  <2> SUFFICES ASSUME NEW x \in Cluster, NEW o \in Obj, NEW i \in Id, cur'[x] = o
               PROVE  /\ i \in removed'[x] => pending'[x][i] = Nothing /\ truth'[x][i] = Nothing
                      /\ pending'[x][i] # Nothing => truth'[x][i] = pending'[x][i]
                      /\ Untouched(x, i)' => CurrentItems(o)'[i] \in {Nothing, truth'[x][i]}
    BY DEF NothingInvented
  <2>1. CurrentItems(o)' = CurrentItems(o)
    BY <1>0, SameItems
  <2>2. CASE x # c
    BY <1>0, <1>r, <2>1, <2>2 DEF NothingInvented, Untouched
  <2>3. CASE x = c
    <3>1. o = n /\ CurrentItems(o) = NoItems
      BY <1>r, <2>3 DEF CurrentItems
    <3>2. pending[c] = NoItems /\ removed[c] = {}
      BY <1>0 DEF RequestsOK
    <3> QED BY <1>0, <2>1, <2>3, <3>1, <3>2 DEF NoItems
  <2> QED BY <2>2, <2>3
<1>7. NothingForgotten'
  <2>1. \A x \in Cluster : x # c => Time(x)' = Time(x) /\ pc'[x] = pc[x]
    BY <1>0 DEF Time, Types
  <2>2. \A x \in Cluster, i \in Id : Untouched(x, i)' = Untouched(x, i)
    BY <1>0 DEF Untouched
  <2>3. \A o \in Obj : CurrentItems(o)' = CurrentItems(o)
    BY <1>0, SameItems
  <2>4. \A p \in Obj, s \in Int : AsOf(p, s)' = AsOf(p, s) /\ Evicted(p, s)' = Evicted(p, s)
    BY <1>0, SameItems
  <2> SUFFICES ASSUME NEW x \in Cluster \ bypassed', NEW o \in Obj, cur'[x] = o
               PROVE  IF pc'[x] = "inherit"
                      THEN \A p \in Obj, s \in Int : before'[x] = p /\ seqNo'[o] = s =>
                              \/ Evicted(p, s)'
                              \/ \A i \in Id : AsOf(p, s)'[i] = Nothing => Expired(truth'[x][i], txNow'[x])
                      ELSE \A i \in Id : Untouched(x, i)' /\ CurrentItems(o)'[i] = Nothing
                                             => Expired(truth'[x][i], Time(x)')
    BY DEF NothingForgotten
  <2>5. CASE x # c
    <3>1. o # n /\ cur[x] = o /\ x \notin bypassed /\ seqNo'[o] = seqNo[o]
      BY <1>0, <1>r, <2>5 DEF Bypass
    <3> QED BY <1>0, <2>1, <2>2, <2>3, <2>4, <2>5, <3>1 DEF NothingForgotten
  <2>6. x # c
    BY <1>0 DEF Bypass
  <2> QED BY <2>5, <2>6
<1> QED BY <1>1, <1>2, <1>3, <1>4, <1>5, <1>6, <1>7

-----------------------------------------------------------------------------
(* Snapshots are handed over. *)

\* `to` starts its history with snapshot k of `from`.
HandsOver(from, k, to, q, n) ==
    hist' = [hist EXCEPT ![from][k].shared = TRUE,
                         ![to] = <<[seqNo |-> q, map |-> hist[from][k].map,
                                    copies |-> n, shared |-> TRUE]>>]

LEMMA HandOver ==
    ASSUME Types, NEW from \in Obj, NEW to \in Obj, NEW k \in 1..Len(hist[from]),
           NEW q \in Int, NEW n \in Nat, HandsOver(from, k, to, q, n),
           from # to, hist[to] = <<>>
    PROVE  /\ hist' \in [Obj -> Seq(Snapshot)]
           /\ \A o \in Obj : o # to =>
                 /\ Len(hist'[o]) = Len(hist[o])
                 /\ \A j \in 1..Len(hist[o]) :
                       /\ hist'[o][j].seqNo = hist[o][j].seqNo
                       /\ hist'[o][j].map = hist[o][j].map
                       /\ hist'[o][j].copies = hist[o][j].copies
                       /\ hist[o][j].shared => hist'[o][j].shared
           /\ hist'[from][k].shared
           /\ Len(hist'[to]) = 1
           /\ hist'[to][1].seqNo = q /\ hist'[to][1].map = hist[from][k].map
           /\ hist'[to][1].copies = n /\ hist'[to][1].shared
<1> DEFINE snap == [hist[from][k] EXCEPT !.shared = TRUE]
           new == [seqNo |-> q, map |-> hist[from][k].map, copies |-> n, shared |-> TRUE]
           h == [hist[from] EXCEPT ![k] = snap]
<1>1. hist[from] \in Seq(Snapshot) /\ hist[from][k] \in Snapshot /\ hist \in [Obj -> Seq(Snapshot)]
  BY HistoryIs DEF Types
<1>2. /\ snap \in Snapshot /\ snap.shared
      /\ snap.seqNo = hist[from][k].seqNo /\ snap.map = hist[from][k].map
      /\ snap.copies = hist[from][k].copies
  BY <1>1 DEF Snapshot
<1>3. new \in Snapshot /\ new.seqNo = q /\ new.map = hist[from][k].map /\ new.copies = n /\ new.shared
  BY <1>1 DEF Snapshot
<1>4. hist' = [hist EXCEPT ![from] = h, ![to] = <<new>>]
  BY DEF HandsOver
<1> HIDE DEF snap, new
<1>5. h \in Seq(Snapshot) /\ Len(h) = Len(hist[from])
      /\ \A j \in 1..Len(hist[from]) : h[j] = IF j = k THEN snap ELSE hist[from][j]
  BY <1>1, <1>2, ExceptSeq
<1>6. <<new>> \in Seq(Snapshot) /\ Len(<<new>>) = 1 /\ <<new>>[1] = new
  BY <1>3
<1> HIDE DEF h
<1>7. hist'[to] = <<new>> /\ hist'[from] = h /\ \A o \in Obj : o # to /\ o # from => hist'[o] = hist[o]
  BY <1>1, <1>4
<1>8. hist' \in [Obj -> Seq(Snapshot)]
  BY <1>1, <1>4, <1>5, <1>6
<1>9. \A o \in Obj : o # to =>
         /\ Len(hist'[o]) = Len(hist[o])
         /\ \A j \in 1..Len(hist[o]) :
               /\ hist'[o][j].seqNo = hist[o][j].seqNo
               /\ hist'[o][j].map = hist[o][j].map
               /\ hist'[o][j].copies = hist[o][j].copies
               /\ hist[o][j].shared => hist'[o][j].shared
  BY <1>2, <1>5, <1>7
<1> QED BY <1>2, <1>3, <1>5, <1>6, <1>7, <1>8, <1>9

\* What that does to the registry when the maps do not change.
LEMMA HandOverKeeps ==
    ASSUME Types, RegistryOK, NEW from \in Obj, NEW to \in Obj, NEW k \in 1..Len(hist[from]),
           NEW q \in Int, NEW n \in Nat, HandsOver(from, k, to, q, n),
           from # to, hist[to] = <<>>, UNCHANGED items,
           seqNo' \in [Obj -> Int], copies' \in [Obj -> Nat],
           \A o \in Obj : o # to => seqNo[o] <= seqNo'[o] /\ copies[o] <= copies'[o],
           q <= seqNo'[to], n <= copies'[to]
    PROVE  /\ RegistryOK'
           /\ \A o \in Obj : o # to => CurrentItems(o)' = CurrentItems(o)
           /\ \A o \in Obj, s \in Int : o # to => AsOf(o, s)' = AsOf(o, s) /\ Evicted(o, s)' = Evicted(o, s)
           /\ CurrentItems(to)' = items[hist[from][k].map]
           /\ \A s \in Int : AsOf(to, s)' \in {NoItems, items[hist[from][k].map]}
           /\ \A s \in Int : s < q => AsOf(to, s)' = NoItems
           /\ ~Mutable(to)'
           /\ \A o \in Obj : o # to => (Mutable(o)' => Mutable(o))
<1>t. hist' \in [Obj -> Seq(Snapshot)]
  BY HandOver
<1>0. /\ \A o \in Obj : o # to =>
            /\ Len(hist'[o]) = Len(hist[o])
            /\ \A j \in 1..Len(hist[o]) :
                  /\ hist'[o][j].seqNo = hist[o][j].seqNo
                  /\ hist'[o][j].map = hist[o][j].map
                  /\ hist'[o][j].copies = hist[o][j].copies
                  /\ hist[o][j].shared => hist'[o][j].shared
      /\ hist'[from][k].shared
  BY HandOver
<1>1. /\ Len(hist'[to]) = 1
      /\ hist'[to][1].seqNo = q /\ hist'[to][1].map = hist[from][k].map
      /\ hist'[to][1].copies = n /\ hist'[to][1].shared
  BY HandOver
<1>2. \A o \in Obj : DOMAIN hist'[o] = 1..Len(hist'[o]) /\ Last(hist'[o]) = hist'[o][Len(hist'[o])]
                     /\ (hist'[o] = <<>> <=> Len(hist'[o]) = 0) /\ Len(hist'[o]) \in Nat
  <2> SUFFICES ASSUME NEW o \in Obj
               PROVE  /\ DOMAIN hist'[o] = 1..Len(hist'[o]) /\ Len(hist'[o]) \in Nat
                      /\ hist'[o] = <<>> <=> Len(hist'[o]) = 0
    BY DEF Last
  <2>1. hist'[o] \in Seq(Snapshot)
    BY <1>t
  <2> QED BY <2>1, LenProperties, EmptySeq
<1>3. RegistryOK'
  <2>1. \A o \in Obj : Len(hist'[o]) <= History
    <3>1. \A o \in Obj : Len(hist[o]) <= History
      BY DEF RegistryOK
    <3>2. 1 <= History
      BY Bounds
    <3>3. \A o \in Obj : o # to => Len(hist'[o]) = Len(hist[o])
      BY <1>0
    <3>4. Len(hist'[to]) = 1
      BY <1>1
    <3> QED BY <3>1, <3>2, <3>3, <3>4
  <2>2. \A o \in Obj : \A j \in 1..Len(hist'[o]) :
           hist'[o][j].seqNo <= seqNo'[o] /\ hist'[o][j].copies <= copies'[o]
    <3> SUFFICES ASSUME NEW o \in Obj, NEW j \in 1..Len(hist'[o])
                 PROVE  hist'[o][j].seqNo <= seqNo'[o] /\ hist'[o][j].copies <= copies'[o]
      OBVIOUS
    <3>1. CASE o = to
      BY <1>1, <3>1
    <3>2. CASE o # to
      <4>1. hist'[o][j].seqNo = hist[o][j].seqNo /\ hist'[o][j].copies = hist[o][j].copies
            /\ j \in 1..Len(hist[o])
        BY <1>0, <3>2
      <4>2. hist[o][j].seqNo <= seqNo[o] /\ hist[o][j].copies <= copies[o]
            /\ hist[o][j].seqNo \in Int /\ hist[o][j].copies \in Nat
        BY <4>1, HistoryIs DEF RegistryOK
      <4>3. seqNo[o] \in Int /\ seqNo'[o] \in Int /\ copies[o] \in Nat /\ copies'[o] \in Nat
            /\ seqNo[o] <= seqNo'[o] /\ copies[o] <= copies'[o]
        BY <3>2 DEF Types
      <4>4. \A a, b, d \in Int : a <= b /\ b <= d => a <= d
        OBVIOUS
      <4>5. hist[o][j].seqNo <= seqNo'[o]
        BY <4>2, <4>3, <4>4
      <4>6. hist[o][j].copies <= copies'[o]
        BY <4>2, <4>3, <4>4
      <4> QED BY <4>1, <4>5, <4>6
    <3> QED BY <3>1, <3>2
  <2>3. \A o \in Obj : \A i, j \in 1..Len(hist'[o]) : hist'[o][i].map = hist'[o][j].map => i = j
    <3> SUFFICES ASSUME NEW o \in Obj, NEW i \in 1..Len(hist'[o]), NEW j \in 1..Len(hist'[o]),
                        hist'[o][i].map = hist'[o][j].map
                 PROVE  i = j
      OBVIOUS
    <3>1. CASE o = to
      BY <1>1, <3>1
    <3>2. CASE o # to
      <4>1. Len(hist'[o]) = Len(hist[o]) /\ hist'[o][i].map = hist[o][i].map
            /\ hist'[o][j].map = hist[o][j].map
        BY <1>0, <3>2
      <4> QED BY <4>1 DEF RegistryOK
    <3> QED BY <3>1, <3>2
  <2>4. \A o, p \in Obj : \A i \in 1..Len(hist'[o]), j \in 1..Len(hist'[p]) :
           o # p /\ hist'[o][i].map = hist'[p][j].map => hist'[o][i].shared
    <3> SUFFICES ASSUME NEW o \in Obj, NEW p \in Obj, NEW i \in 1..Len(hist'[o]),
                        NEW j \in 1..Len(hist'[p]), o # p, hist'[o][i].map = hist'[p][j].map
                 PROVE  hist'[o][i].shared
      OBVIOUS
    <3>1. CASE o = to
      BY <1>1, <3>1
    <3>2. CASE o # to /\ p # to
      <4>1. /\ i \in 1..Len(hist[o]) /\ hist'[o][i].map = hist[o][i].map
            /\ hist[o][i].shared => hist'[o][i].shared
        BY <1>0, <3>2
      <4>2. j \in 1..Len(hist[p]) /\ hist'[p][j].map = hist[p][j].map
        BY <1>0, <3>2
      <4>3. hist[o][i].shared
        BY <4>1, <4>2 DEF RegistryOK
      <4> QED BY <4>1, <4>3
    <3>3. CASE o # to /\ p = to
      <4>1. hist[o][i].map = hist[from][k].map /\ i \in 1..Len(hist[o])
        <5>1. Len(hist'[o]) = Len(hist[o])
          BY <1>0, <3>3
        <5>2. hist'[o][i].map = hist[o][i].map
          BY <1>0, <3>3, <5>1
        <5>3. j = 1
          BY <1>1, <3>3
        <5> QED BY <1>1, <3>3, <5>1, <5>2, <5>3
      <4>2. CASE o = from
        <5>1. i = k
          BY <4>1, <4>2 DEF RegistryOK
        <5> QED BY <1>0, <4>2, <5>1
      <4>3. CASE o # from
        BY <1>0, <1>1, <3>3, <4>1, <4>3 DEF RegistryOK
      <4> QED BY <4>2, <4>3
    <3> QED BY <3>1, <3>2, <3>3
  <2> QED BY <2>1, <2>2, <2>3, <2>4 DEF RegistryOK
<1>4. \A o \in Obj : o # to => CurrentItems(o)' = CurrentItems(o)
  <2> SUFFICES ASSUME NEW o \in Obj, o # to PROVE CurrentItems(o)' = CurrentItems(o)
    OBVIOUS
  <2>1. Len(hist'[o]) = Len(hist[o]) /\ Len(hist[o]) \in Nat
    BY <1>0, <1>1, HistoryIs
  <2>2. Len(hist[o]) # 0 => hist'[o][Len(hist[o])].map = hist[o][Len(hist[o])].map
    <3>1. Len(hist[o]) # 0 => Len(hist[o]) \in 1..Len(hist[o])
      BY <2>1
    <3> QED BY <1>0, <3>1
  <2> QED BY <1>2, <2>1, <2>2, HistoryIs DEF CurrentItems
<1>5. \A o \in Obj, s \in Int : o # to => AsOf(o, s)' = AsOf(o, s) /\ Evicted(o, s)' = Evicted(o, s)
  <2> SUFFICES ASSUME NEW o \in Obj, NEW s \in Int, o # to
               PROVE  AsOf(o, s)' = AsOf(o, s) /\ Evicted(o, s)' = Evicted(o, s)
    OBVIOUS
  <2>1. DOMAIN hist'[o] = DOMAIN hist[o] /\ Len(hist'[o]) = Len(hist[o])
    BY <1>0, <1>1, <1>2, HistoryIs
  <2>2. AsOf(o, s)' = AsOf(o, s) /\ NotNewer(o, s)' = NotNewer(o, s)
    <3>1. \A j \in DOMAIN hist[o] : hist'[o][j].seqNo = hist[o][j].seqNo /\ hist'[o][j].map = hist[o][j].map
      <4>1. DOMAIN hist[o] = 1..Len(hist[o])
        BY HistoryIs
      <4> QED BY <1>0, <4>1
    <3> QED BY <2>1, <3>1, SameSnapshots
  <2> QED BY <2>1, <2>2 DEF Evicted
<1>6. CurrentItems(to)' = items[hist[from][k].map]
  <2>1. hist'[to] # <<>> /\ Last(hist'[to]) = hist'[to][1]
    BY <1>1, <1>2
  <2>2. CurrentItems(to)' = items'[Last(hist'[to]).map]
    BY <2>1 DEF CurrentItems
  <2>3. items' = items /\ hist'[to][1].map = hist[from][k].map
    BY <1>1
  <2> QED BY ONLY <2>1, <2>2, <2>3
<1>7. \A s \in Int : /\ AsOf(to, s)' \in {NoItems, items[hist[from][k].map]}
                     /\ s < q => AsOf(to, s)' = NoItems
  <2> SUFFICES ASSUME NEW s \in Int
               PROVE  /\ AsOf(to, s)' \in {NoItems, items[hist[from][k].map]}
                      /\ s < q => AsOf(to, s)' = NoItems
    OBVIOUS
  <2>1. NotNewer(to, s)' = {j \in 1..1 : hist'[to][j].seqNo <= s}
    BY <1>1, <1>2 DEF NotNewer
  <2>2. CASE s < q
    <3>1. NotNewer(to, s)' = {}
      BY <1>1, <2>1, <2>2
    <3> QED BY <3>1 DEF AsOf
  <2>3. CASE ~(s < q)
    <3>1. NotNewer(to, s)' = {1}
      BY <1>1, <2>1, <2>3
    <3>2. SnapshotAt(to, s)' = 1
      BY <3>1 DEF SnapshotAt
    <3> QED BY <1>1, <2>3, <3>1, <3>2 DEF AsOf
  <2> QED BY <2>2, <2>3
<1>8. ~Mutable(to)'
  BY <1>1, <1>2 DEF Mutable
<1>9. \A o \in Obj : o # to => (Mutable(o)' => Mutable(o))
  <2> SUFFICES ASSUME NEW o \in Obj, o # to, Mutable(o)' PROVE Mutable(o)
    OBVIOUS
  <2>1. hist[o] # <<>> /\ Len(hist'[o]) = Len(hist[o]) /\ hist'[o] # <<>>
    BY <1>0, <1>1, <1>2, HistoryIs DEF Mutable
  <2>2. Len(hist[o]) \in 1..Len(hist[o])
    BY <2>1, HistoryIs
  <2>3. Last(hist'[o]).copies = Last(hist[o]).copies /\ (Last(hist[o]).shared => Last(hist'[o]).shared)
    <3>1. Last(hist'[o]) = hist'[o][Len(hist[o])] /\ Last(hist[o]) = hist[o][Len(hist[o])]
      BY <1>2, <2>1, HistoryIs
    <3>2. hist'[o][Len(hist[o])].copies = hist[o][Len(hist[o])].copies
          /\ (hist[o][Len(hist[o])].shared => hist'[o][Len(hist[o])].shared)
      BY <1>0, <2>2
    <3> QED BY <3>1, <3>2
  <2>4. Last(hist'[o]).copies = copies'[o] /\ ~Last(hist'[o]).shared
    BY DEF Mutable
  <2>5. Last(hist[o]).copies <= copies[o] /\ copies[o] <= copies'[o] /\ copies[o] \in Nat /\ copies'[o] \in Nat
        /\ Last(hist[o]).copies \in Nat
    BY <2>1, NewestSnapshot DEF Types
  <2> QED BY <2>1, <2>3, <2>4, <2>5 DEF Mutable
<1> QED BY <1>3, <1>4, <1>5, <1>6, <1>7, <1>8, <1>9

-----------------------------------------------------------------------------
(* inheritLocked. *)

\* What a cluster left stays behind when the registry changes, if what can be told
\* about that time is still the same.
LEMMA LeftStays ==
    ASSUME NEW c \in Cluster, NEW o \in Obj, NEW s \in Int, Left(c, o, s),
           UNCHANGED <<cur, seqNo, pending, removed, truth>>,
           Mutable(o)' => hist'[o][Len(hist'[o])].seqNo > s,
           \A i \in Id : AsOf(o, s)'[i] \in {Nothing, truth[c][i]}
    PROVE  Left(c, o, s)'
<1>1. \A i \in Id : AsOf(o, s)'[i] \in {Nothing, truth'[c][i]}
  OBVIOUS
<1> QED BY <1>1 DEF Left

LEMMA InheritKeeps ==
    ASSUME TombInv, NEW c \in Cluster, NEW to \in Obj, cur[c] = to, pc[c] \in {"inherit", "note"},
           NEW from \in Obj \cup {Nil},
           from # Nil /\ from # to => InheritsFrom(c, from, seqNo[to]),
           InheritLocked(from, to),
           UNCHANGED <<cur, seqNo, copies, items, pending, removed, truth>>
    PROVE  /\ hist' \in [Obj -> Seq(Snapshot)]
           /\ RegistryOK'
           /\ \A o \in Obj : o # to =>
                 /\ hist[o] = <<>> => hist'[o] = <<>>
                 /\ hist'[o] # <<>> => hist[o] # <<>> /\ hist'[o][Len(hist'[o])].copies = hist[o][Len(hist[o])].copies
                 /\ CurrentItems(o)' = CurrentItems(o)
                 /\ \A s \in Int : AsOf(o, s)' = AsOf(o, s) /\ Evicted(o, s)' = Evicted(o, s)
           /\ hist[to] # <<>> => UNCHANGED hist
           /\ \A x \in Cluster, o \in Obj, s \in Int : InheritsFrom(x, o, s) => Left(x, o, s)'
           /\ NothingInvented'
           /\ from # Nil /\ from # to /\ hist[to] = <<>>
                 => CurrentItems(to)' = AsOf(from, seqNo[to])
<1> USE DEF TombInv
<1> DEFINE q == seqNo[to]
           k == SnapshotAt(from, q)
<1>1. seqNo \in [Obj -> Int] /\ copies \in [Obj -> Nat] /\ q \in Int
  BY DEF Types
<1>2. CASE ~Inherits(from, to)
  <2>1. UNCHANGED hist
    BY <1>2 DEF InheritLocked
  <2>2. \A o \in Obj : CurrentItems(o)' = CurrentItems(o)
                       /\ \A s \in Int : AsOf(o, s)' = AsOf(o, s) /\ Evicted(o, s)' = Evicted(o, s)
    BY <2>1, SameItems
  <2>3. RegistryOK'
    BY <2>1 DEF RegistryOK
  <2>4. \A x \in Cluster, o \in Obj, s \in Int : InheritsFrom(x, o, s) => Left(x, o, s)'
    <3> SUFFICES ASSUME NEW x \in Cluster, NEW o \in Obj, NEW s \in Int, InheritsFrom(x, o, s)
                 PROVE  Left(x, o, s)'
      OBVIOUS
    <3>1. Left(x, o, s)
      BY DEF LeftBehind
    <3>2. Mutable(o)' => hist'[o][Len(hist'[o])].seqNo > s
      BY <2>1, <3>1 DEF Left, Mutable
    <3> QED BY <2>2, <3>1, <3>2, LeftStays DEF Left
  <2>5. NothingInvented'
    BY <2>2 DEF NothingInvented, Untouched
  <2>6. from # Nil /\ from # to /\ hist[to] = <<>> => CurrentItems(to)' = AsOf(from, seqNo[to])
    <3> SUFFICES ASSUME from # Nil, from # to, hist[to] = <<>> PROVE CurrentItems(to)' = AsOf(from, seqNo[to])
      OBVIOUS
    <3>1. AsOf(from, seqNo[to]) = NoItems
      BY <1>2 DEF Inherits, AsOf
    <3> QED BY <2>2, <3>1 DEF CurrentItems
  <2> QED BY <2>1, <2>2, <2>3, <2>4, <2>5, <2>6 DEF Types
<1>3. CASE Inherits(from, to)
  <2>0. from # Nil /\ from # to /\ from \in Obj /\ hist[to] = <<>> /\ NotNewer(from, q) # {}
    BY <1>3 DEF Inherits
  <2>1. k \in 1..Len(hist[from])
    BY <1>1, <2>0, SnapshotFound, HistoryIs DEF NotNewer
  <2>2. AsOf(from, q) = items[hist[from][k].map]
    BY <2>0 DEF AsOf
  <2>3. HandsOver(from, k, to, q, copies[to])
    BY <1>3 DEF InheritLocked, HandsOver
  <2>n. copies[to] \in Nat /\ q <= seqNo'[to] /\ copies[to] <= copies'[to]
    BY <1>1
  <2>u. /\ seqNo' \in [Obj -> Int] /\ copies' \in [Obj -> Nat] /\ UNCHANGED items
        /\ \A o \in Obj : o # to => seqNo[o] <= seqNo'[o] /\ copies[o] <= copies'[o]
    BY <1>1
  <2> HIDE DEF k, q
  <2>4. /\ RegistryOK'
        /\ \A o \in Obj : o # to => CurrentItems(o)' = CurrentItems(o)
        /\ \A o \in Obj, s \in Int : o # to => AsOf(o, s)' = AsOf(o, s) /\ Evicted(o, s)' = Evicted(o, s)
        /\ CurrentItems(to)' = items[hist[from][k].map]
        /\ \A s \in Int : AsOf(to, s)' \in {NoItems, items[hist[from][k].map]}
        /\ \A s \in Int : s < q => AsOf(to, s)' = NoItems
        /\ ~Mutable(to)'
        /\ \A o \in Obj : o # to => (Mutable(o)' => Mutable(o))
    BY <1>1, <2>0, <2>1, <2>3, <2>n, <2>u, HandOverKeeps
  <2>5. /\ hist' \in [Obj -> Seq(Snapshot)]
        /\ \A o \in Obj : o # to =>
              /\ Len(hist'[o]) = Len(hist[o])
              /\ \A j \in 1..Len(hist[o]) : hist'[o][j].copies = hist[o][j].copies
                                            /\ hist'[o][j].seqNo = hist[o][j].seqNo
    BY <1>1, <2>0, <2>1, <2>3, <2>n, HandOver
  <2>6. \A o \in Obj : o # to =>
           /\ hist[o] = <<>> => hist'[o] = <<>>
           /\ hist'[o] # <<>> => hist[o] # <<>> /\ hist'[o][Len(hist'[o])].copies = hist[o][Len(hist[o])].copies
                                 /\ hist'[o][Len(hist'[o])].seqNo = hist[o][Len(hist[o])].seqNo
    <3> SUFFICES ASSUME NEW o \in Obj, o # to
                 PROVE  /\ hist[o] = <<>> => hist'[o] = <<>>
                        /\ hist'[o] # <<>> => hist[o] # <<>> /\ hist'[o][Len(hist'[o])].copies = hist[o][Len(hist[o])].copies
                                 /\ hist'[o][Len(hist'[o])].seqNo = hist[o][Len(hist[o])].seqNo
      OBVIOUS
    <3>1. hist'[o] \in Seq(Snapshot) /\ Len(hist'[o]) = Len(hist[o])
      BY <2>5
    <3>2. hist'[o] # <<>> => Len(hist'[o]) \in Nat \ {0}
      BY <3>1, EmptySeq
    <3>3. hist[o] = <<>> <=> Len(hist[o]) = 0
      BY HistoryIs
    <3>4. hist'[o] # <<>> => Len(hist[o]) \in 1..Len(hist[o])
      BY <3>1, <3>2
    <3> QED BY <2>5, <3>1, <3>2, <3>3, <3>4
  <2>7. InheritsFrom(c, from, q) /\ Left(c, from, q)
    BY <1>1, <2>0 DEF LeftBehind, q
  <2>8. \A i \in Id : AsOf(from, q)[i] \in {Nothing, truth[c][i]}
    BY <2>7 DEF Left
  <2>9. \A x \in Cluster, o \in Obj, s \in Int : InheritsFrom(x, o, s) => Left(x, o, s)'
    <3> SUFFICES ASSUME NEW x \in Cluster, NEW o \in Obj, NEW s \in Int, InheritsFrom(x, o, s)
                 PROVE  Left(x, o, s)'
      OBVIOUS
    <3>1. Left(x, o, s)
      BY DEF LeftBehind
    <3>2. CASE o # to
      <4>1. Mutable(o)' => hist'[o][Len(hist'[o])].seqNo > s
        BY <2>4, <2>6, <3>1, <3>2 DEF Left, Mutable
      <4>2. \A i \in Id : AsOf(o, s)'[i] \in {Nothing, truth[x][i]}
        BY <2>4, <3>1, <3>2 DEF Left
      <4> QED BY <3>1, <4>1, <4>2, LeftStays
    <3>3. CASE o = to
      <4>1. s <= q /\ (q = s => truth[c] = truth[x])
        BY <3>1, <3>3 DEF Left, q
      <4>2. CASE s < q
        BY <2>4, <3>1, <3>3, <4>2, LeftStays DEF NoItems
      <4>3. CASE s = q
        <5>1. \A i \in Id : AsOf(to, s)'[i] \in {Nothing, truth[x][i]}
          BY <2>2, <2>4, <2>8, <4>1, <4>3 DEF NoItems
        <5> QED BY <2>4, <3>1, <3>3, <5>1, LeftStays
      <4> QED BY <1>1, <4>1, <4>2, <4>3 DEF q
    <3> QED BY <3>2, <3>3
  <2>10. NothingInvented'
    <3> SUFFICES ASSUME NEW x \in Cluster, NEW o \in Obj, NEW i \in Id, cur[x] = o
                 PROVE  /\ i \in removed[x] => pending[x][i] = Nothing /\ truth[x][i] = Nothing
                        /\ pending[x][i] # Nothing => truth[x][i] = pending[x][i]
                        /\ Untouched(x, i) => CurrentItems(o)'[i] \in {Nothing, truth[x][i]}
      BY DEF NothingInvented, Untouched
    <3>1. CASE o # to
      BY <2>4, <3>1 DEF NothingInvented
    <3>2. CASE o = to
      <4>1. x = c
        BY <3>2 DEF RequestsOK
      <4> QED BY <2>2, <2>4, <2>8, <3>2, <4>1 DEF NothingInvented
    <3> QED BY <3>1, <3>2
  <2>11. CurrentItems(to)' = AsOf(from, seqNo[to])
    BY <2>2, <2>4 DEF q
  <2> QED BY <2>0, <2>4, <2>5, <2>6, <2>9, <2>10, <2>11
<1> QED BY <1>2, <1>3

LEMMA InheritTomb == 
    ASSUME TombInv, NEW c \in Cluster, NEW to \in Obj, cur[c] = to, Inherit(c)
    PROVE  TombInv'
<1> USE DEF TombInv
<1>0. /\ pc[c] = "inherit" /\ InheritLocked(before[c], to)
      /\ before' = [before EXCEPT ![c] = Nil] /\ pc' = [pc EXCEPT ![c] = "note"]
      /\ bypassed' = IF TooLate(before[c], to) THEN bypassed \cup {c} ELSE bypassed
      /\ UNCHANGED <<cur, docs, seqNo, copies, items, seen, now, txNow, pending, removed, truth>>
  BY DEF Inherit, objVars, txVars
<1>k. /\ hist' \in [Obj -> Seq(Snapshot)]
      /\ RegistryOK'
      /\ \A o \in Obj : o # to =>
            /\ hist[o] = <<>> => hist'[o] = <<>>
            /\ hist'[o] # <<>> => hist[o] # <<>> /\ hist'[o][Len(hist'[o])].copies = hist[o][Len(hist[o])].copies
            /\ CurrentItems(o)' = CurrentItems(o)
            /\ \A s \in Int : AsOf(o, s)' = AsOf(o, s) /\ Evicted(o, s)' = Evicted(o, s)
      /\ hist[to] # <<>> => UNCHANGED hist
      /\ \A x \in Cluster, o \in Obj, s \in Int : InheritsFrom(x, o, s) => Left(x, o, s)'
      /\ NothingInvented'
      /\ before[c] # Nil /\ before[c] # to /\ hist[to] = <<>>
            => CurrentItems(to)' = AsOf(before[c], seqNo[to])
  <2>1. before[c] # Nil /\ before[c] # to => InheritsFrom(c, before[c], seqNo[to])
    BY <1>0, NilAssumption DEF InheritsFrom, RequestsOK
  <2>2. before[c] \in Obj \cup {Nil}
    BY DEF Types
  <2> QED BY <1>0, <2>1, <2>2, InheritKeeps
<1>a. \A x \in Cluster : cur[x] = to => x = c
  BY <1>0 DEF RequestsOK
<1>b. \A x \in Cluster : x # c => pc'[x] = pc[x] /\ before'[x] = before[x] /\ seen'[x] = seen[x]
  BY <1>0 DEF Types
<1>1. Types'
  BY <1>0, <1>k DEF Types, Step
<1>2. RegistryOK'
  BY <1>k
<1>3. RequestsOK'
  <2> SUFFICES ASSUME NEW x \in Cluster
               PROVE  /\ cur'[x] = Nil => pc'[x] = "idle" /\ seen'[x] = Nil
                      /\ pc'[x] = "copy" => before'[x] = cur'[x]
                      /\ pc'[x] = "inherit" => before'[x] # Nil /\ before'[x] # cur'[x] /\ hist'[cur'[x]] = <<>>
                      /\ pc'[x] \notin {"copy", "inherit"} => before'[x] = Nil
                      /\ pc'[x] # "ops" => pending'[x] = NoItems /\ removed'[x] = {}
                      /\ pc'[x] = "ops" => seen'[x] = cur'[x]
                      /\ pc'[x] \in {"inherit", "note", "ops"} => \A d \in Cluster : cur'[d] = cur'[x] => d = x
                      /\ txNow'[x] <= now'
                      /\ pc'[x] \in {"copy", "indexCopy"} =>
                            \A o \in Obj : cur'[x] = o /\ hist'[o] # <<>> => hist'[o][Len(hist'[o])].copies < copies'[o]
    BY DEF RequestsOK
  <2>1. CASE x # c
    <3>1. pc[x] = "inherit" => cur[x] \in Obj /\ cur[x] # to
      BY <1>a, <2>1 DEF RequestsOK, Types
    <3>2. pc[x] = "inherit" => hist'[cur[x]] = <<>>
      BY <1>k, <3>1 DEF RequestsOK
    <3>3. pc[x] \in {"copy", "indexCopy"} =>
             \A o \in Obj : cur[x] = o /\ hist'[o] # <<>> => hist'[o][Len(hist'[o])].copies < copies[o]
      BY <1>a, <1>k, <2>1 DEF RequestsOK
    <3> QED BY <1>0, <1>b, <2>1, <3>2, <3>3 DEF RequestsOK
  <2>2. CASE x = c
    BY <1>0, <1>a, <2>2, NilAssumption DEF RequestsOK, Types
  <2> QED BY <2>1, <2>2
<1>4. SameTruth'
  BY <1>0 DEF SameTruth, RequestsOK, Types
<1>5. LeftBehind'
  <2> SUFFICES ASSUME NEW x \in Cluster, NEW o \in Obj, NEW s \in Int, InheritsFrom(x, o, s)'
               PROVE  Left(x, o, s)'
    BY DEF LeftBehind
  <2>1. InheritsFrom(x, o, s)
    BY <1>0 DEF InheritsFrom, Types
  <2> QED BY <1>k, <2>1
<1>6. NothingInvented'
  BY <1>k
<1>7. NothingForgotten'
  <2>1. \A x \in Cluster : x # c => Time(x)' = Time(x)
    BY <1>0 DEF Time, Types
  <2>2. \A x \in Cluster, i \in Id : Untouched(x, i)' = Untouched(x, i)
    BY <1>0 DEF Untouched
  <2> SUFFICES ASSUME NEW x \in Cluster \ bypassed', NEW o \in Obj, cur[x] = o
               PROVE  IF pc'[x] = "inherit"
                      THEN \A p \in Obj, s \in Int : before'[x] = p /\ seqNo'[o] = s =>
                              \/ Evicted(p, s)'
                              \/ \A i \in Id : AsOf(p, s)'[i] = Nothing => Expired(truth'[x][i], txNow'[x])
                      ELSE \A i \in Id : Untouched(x, i)' /\ CurrentItems(o)'[i] = Nothing
                                             => Expired(truth'[x][i], Time(x)')
    BY <1>0 DEF NothingForgotten
  <2>3. x \notin bypassed
    BY <1>0
  <2>4. CASE x # c /\ pc[x] # "inherit"
    BY <1>0, <1>a, <1>b, <1>k, <2>1, <2>2, <2>3, <2>4 DEF NothingForgotten
  <2>5. CASE x # c /\ pc[x] = "inherit"
    <3> SUFFICES ASSUME NEW p \in Obj, NEW s \in Int, before[x] = p, seqNo[o] = s
                 PROVE  \/ Evicted(p, s)'
                        \/ \A i \in Id : AsOf(p, s)'[i] = Nothing => Expired(truth[x][i], txNow[x])
      BY <1>0, <1>b, <2>5
    <3>1. \/ Evicted(p, s)
          \/ \A i \in Id : AsOf(p, s)[i] = Nothing => Expired(truth[x][i], txNow[x])
      BY <2>3, <2>5 DEF NothingForgotten
    <3>2. CASE p # to
      BY <1>k, <3>1, <3>2
    <3>3. CASE p = to /\ hist[to] # <<>>
      BY <1>0, <1>k, <3>1, <3>3, SameItems
    <3>4. CASE p = to /\ hist[to] = <<>>
      <4>1. NotNewer(p, s) = {} /\ ~Evicted(p, s)
        BY <3>4, Bounds DEF NotNewer, Evicted
      <4>2. AsOf(p, s) = NoItems
        BY <4>1 DEF AsOf
      <4> QED BY <3>1, <4>1, <4>2 DEF NoItems
    <3> QED BY <3>2, <3>3, <3>4
  <2>6. CASE x = c
    <3> SUFFICES ASSUME NEW i \in Id, CurrentItems(to)'[i] = Nothing
                 PROVE  Expired(truth[c][i], txNow[c])
      BY <1>0, <2>6 DEF Time, Types
    <3>1. before[c] # Nil /\ before[c] # to /\ hist[to] = <<>> /\ before[c] \in Obj
      BY <1>0 DEF RequestsOK, Types
    <3>2. AsOf(before[c], seqNo[to])[i] = Nothing
      BY <1>k, <3>1
    <3>3. ~Evicted(before[c], seqNo[to])
      BY <1>0, <2>6 DEF TooLate, Evicted
    <3>4. seqNo[to] \in Int
      BY DEF Types
    <3> QED BY <1>0, <2>3, <2>6, <3>1, <3>2, <3>3, <3>4 DEF NothingForgotten
  <2> QED BY <2>4, <2>5, <2>6
<1> QED BY <1>1, <1>2, <1>3, <1>4, <1>5, <1>6, <1>7

LEMMA NoteTomb == 
    ASSUME TombInv, NEW c \in Cluster, NEW to \in Obj, cur[c] = to, Note(c)
    PROVE  TombInv'
<1> USE DEF TombInv
<1>0. /\ pc[c] = "note" /\ InheritLocked(seen[c], to)
      /\ seen' = [seen EXCEPT ![c] = to] /\ pc' = [pc EXCEPT ![c] = "ops"]
      /\ UNCHANGED <<cur, docs, seqNo, copies, items, before, now, txNow, pending, removed, truth, bypassed>>
  BY DEF Note, objVars, txVars, history
<1>k. /\ hist' \in [Obj -> Seq(Snapshot)]
      /\ RegistryOK'
      /\ \A o \in Obj : o # to =>
            /\ hist[o] = <<>> => hist'[o] = <<>>
            /\ hist'[o] # <<>> => hist[o] # <<>> /\ hist'[o][Len(hist'[o])].copies = hist[o][Len(hist[o])].copies
            /\ CurrentItems(o)' = CurrentItems(o)
            /\ \A s \in Int : AsOf(o, s)' = AsOf(o, s) /\ Evicted(o, s)' = Evicted(o, s)
      /\ hist[to] # <<>> => UNCHANGED hist
      /\ \A x \in Cluster, o \in Obj, s \in Int : InheritsFrom(x, o, s) => Left(x, o, s)'
      /\ NothingInvented'
      /\ seen[c] # Nil /\ seen[c] # to /\ hist[to] = <<>>
            => CurrentItems(to)' = AsOf(seen[c], seqNo[to])
  <2>1. seen[c] # Nil /\ seen[c] # to => InheritsFrom(c, seen[c], seqNo[to])
    BY <1>0, NilAssumption DEF InheritsFrom, RequestsOK
  <2>2. seen[c] \in Obj \cup {Nil}
    BY DEF Types
  <2> QED BY <1>0, <2>1, <2>2, InheritKeeps
<1>a. \A x \in Cluster : cur[x] = to => x = c
  BY <1>0 DEF RequestsOK
<1>b. \A x \in Cluster : x # c => pc'[x] = pc[x] /\ before'[x] = before[x] /\ seen'[x] = seen[x]
  BY <1>0 DEF Types
<1>1. Types'
  BY <1>0, <1>k DEF Types, Step
<1>2. RegistryOK'
  BY <1>k
<1>3. RequestsOK'
  <2> SUFFICES ASSUME NEW x \in Cluster
               PROVE  /\ cur'[x] = Nil => pc'[x] = "idle" /\ seen'[x] = Nil
                      /\ pc'[x] = "copy" => before'[x] = cur'[x]
                      /\ pc'[x] = "inherit" => before'[x] # Nil /\ before'[x] # cur'[x] /\ hist'[cur'[x]] = <<>>
                      /\ pc'[x] \notin {"copy", "inherit"} => before'[x] = Nil
                      /\ pc'[x] # "ops" => pending'[x] = NoItems /\ removed'[x] = {}
                      /\ pc'[x] = "ops" => seen'[x] = cur'[x]
                      /\ pc'[x] \in {"inherit", "note", "ops"} => \A d \in Cluster : cur'[d] = cur'[x] => d = x
                      /\ txNow'[x] <= now'
                      /\ pc'[x] \in {"copy", "indexCopy"} =>
                            \A o \in Obj : cur'[x] = o /\ hist'[o] # <<>> => hist'[o][Len(hist'[o])].copies < copies'[o]
    BY DEF RequestsOK
  <2>1. CASE x # c
    <3>1. pc[x] = "inherit" => cur[x] \in Obj /\ cur[x] # to
      BY <1>a, <2>1 DEF RequestsOK, Types
    <3>2. pc[x] = "inherit" => hist'[cur[x]] = <<>>
      BY <1>k, <3>1 DEF RequestsOK
    <3>3. pc[x] \in {"copy", "indexCopy"} =>
             \A o \in Obj : cur[x] = o /\ hist'[o] # <<>> => hist'[o][Len(hist'[o])].copies < copies[o]
      BY <1>a, <1>k, <2>1 DEF RequestsOK
    <3> QED BY <1>0, <1>b, <2>1, <3>2, <3>3 DEF RequestsOK
  <2>2. CASE x = c
    BY <1>0, <1>a, <2>2, NilAssumption DEF RequestsOK, Types
  <2> QED BY <2>1, <2>2
<1>4. SameTruth'
  BY <1>0 DEF SameTruth, RequestsOK, Types
<1>5. LeftBehind'
  <2> SUFFICES ASSUME NEW x \in Cluster, NEW o \in Obj, NEW s \in Int, InheritsFrom(x, o, s)'
               PROVE  Left(x, o, s)'
    BY DEF LeftBehind
  <2>1. InheritsFrom(x, o, s)
    BY <1>0 DEF InheritsFrom, Types
  <2> QED BY <1>k, <2>1
<1>6. NothingInvented'
  BY <1>k
<1>7. NothingForgotten'
  <2>1. \A x \in Cluster : x # c => Time(x)' = Time(x)
    BY <1>0 DEF Time, Types
  <2>2. \A x \in Cluster, i \in Id : Untouched(x, i)' = Untouched(x, i)
    BY <1>0 DEF Untouched
  <2> SUFFICES ASSUME NEW x \in Cluster \ bypassed', NEW o \in Obj, cur[x] = o
               PROVE  IF pc'[x] = "inherit"
                      THEN \A p \in Obj, s \in Int : before'[x] = p /\ seqNo'[o] = s =>
                              \/ Evicted(p, s)'
                              \/ \A i \in Id : AsOf(p, s)'[i] = Nothing => Expired(truth'[x][i], txNow'[x])
                      ELSE \A i \in Id : Untouched(x, i)' /\ CurrentItems(o)'[i] = Nothing
                                             => Expired(truth'[x][i], Time(x)')
    BY <1>0 DEF NothingForgotten
  <2>3. x \notin bypassed
    BY <1>0
  <2>4. CASE x # c /\ pc[x] # "inherit"
    BY <1>0, <1>a, <1>b, <1>k, <2>1, <2>2, <2>3, <2>4 DEF NothingForgotten
  <2>5. CASE x # c /\ pc[x] = "inherit"
    <3> SUFFICES ASSUME NEW p \in Obj, NEW s \in Int, before[x] = p, seqNo[o] = s
                 PROVE  \/ Evicted(p, s)'
                        \/ \A i \in Id : AsOf(p, s)'[i] = Nothing => Expired(truth[x][i], txNow[x])
      BY <1>0, <1>b, <2>5
    <3>1. \/ Evicted(p, s)
          \/ \A i \in Id : AsOf(p, s)[i] = Nothing => Expired(truth[x][i], txNow[x])
      BY <2>3, <2>5 DEF NothingForgotten
    <3>2. CASE p # to
      BY <1>k, <3>1, <3>2
    <3>3. CASE p = to /\ hist[to] # <<>>
      BY <1>0, <1>k, <3>1, <3>3, SameItems
    <3>4. CASE p = to /\ hist[to] = <<>>
      <4>1. NotNewer(p, s) = {} /\ ~Evicted(p, s)
        BY <3>4, Bounds DEF NotNewer, Evicted
      <4>2. AsOf(p, s) = NoItems
        BY <4>1 DEF AsOf
      <4> QED BY <3>1, <4>1, <4>2 DEF NoItems
    <3> QED BY <3>2, <3>3, <3>4
  <2>6. CASE x = c
    <3> SUFFICES ASSUME NEW i \in Id, Untouched(c, i), CurrentItems(to)'[i] = Nothing
                 PROVE  Expired(truth[c][i], txNow[c])
      BY <1>0, <2>2, <2>6 DEF Time, Types
    <3>1. CurrentItems(to)[i] = Nothing
      <4>1. CASE hist[to] # <<>>
        BY <1>0, <1>k, <4>1, SameItems
      <4>2. CASE hist[to] = <<>>
        BY <4>2 DEF CurrentItems, NoItems
      <4> QED BY <4>1, <4>2
    <3> QED BY <1>0, <2>3, <2>6, <3>1 DEF NothingForgotten, Time
  <2> QED BY <2>4, <2>5, <2>6
<1> QED BY <1>1, <1>2, <1>3, <1>4, <1>5, <1>6, <1>7

LEMMA PutMappingTomb == 
    ASSUME TombInv, NEW c \in Cluster, NEW n \in Obj, NEW from \in Obj \cup {Nil}, cur[c] = from, PutMapping(c, n)
    PROVE  TombInv'
<1> USE DEF TombInv
<1>0. /\ cur[c] # Nil /\ pc[c] = "idle" /\ Replace(c, n) /\ before[c] = Nil
      /\ \A d \in Cluster : cur[d] = cur[c] => d = c
      /\ copies' = [copies EXCEPT ![from] = copies[from] + 1]
      /\ hist' = IF CurrentItems(from) = NoItems THEN hist
                 ELSE [hist EXCEPT ![from][Len(hist[from])].shared = TRUE,
                                   ![n] = <<[seqNo |-> seqNo[from], map |-> Last(hist[from]).map,
                                             copies |-> 0, shared |-> TRUE]>>]
      /\ UNCHANGED <<items, seen, now, pc, before, txNow, pending, removed, truth, bypassed>>
  BY DEF PutMapping, Rebuild, Sharers, regVars, txVars, history, RequestsOK
<1>r. /\ from \in Obj /\ from # n
      /\ hist[n] = <<>> /\ copies[n] = 0
      /\ \A x \in Cluster : cur[x] # n /\ before[x] # n /\ seen[x] # n
      /\ cur' = [cur EXCEPT ![c] = n] /\ cur'[c] = n
      /\ \A x \in Cluster : x # c => cur'[x] = cur[x]
      /\ seqNo' = [seqNo EXCEPT ![n] = seqNo[from]] /\ seqNo'[n] = seqNo[from]
      /\ \A o \in Obj : o # n => seqNo'[o] = seqNo[o]
      /\ docs' \in [Obj -> [Id -> Nat]]
  BY <1>0, ReplaceBy
<1>k. /\ hist' \in [Obj -> Seq(Snapshot)]
      /\ RegistryOK'
      /\ \A o \in Obj : o # n =>
            /\ hist[o] = <<>> => hist'[o] = <<>>
            /\ hist'[o] # <<>> => hist[o] # <<>> /\ hist'[o][Len(hist'[o])].copies = hist[o][Len(hist[o])].copies
                                  /\ hist'[o][Len(hist'[o])].seqNo = hist[o][Len(hist[o])].seqNo
            /\ CurrentItems(o)' = CurrentItems(o)
            /\ \A s \in Int : AsOf(o, s)' = AsOf(o, s) /\ Evicted(o, s)' = Evicted(o, s)
            /\ Mutable(o)' => Mutable(o) /\ o # from
      /\ CurrentItems(n)' = CurrentItems(from)
  <2>a. \A o \in Obj : copies'[o] = IF o = from THEN copies[o] + 1 ELSE copies[o]
    BY <1>0 DEF Types
  <2>b. \A o \in Obj : seqNo[o] \in Int /\ copies[o] \in Nat
    BY DEF Types
  <2>u. /\ seqNo' \in [Obj -> Int] /\ copies' \in [Obj -> Nat]
        /\ \A o \in Obj : o # n => seqNo[o] <= seqNo'[o] /\ copies[o] <= copies'[o]
    BY <1>0, <1>r, <2>a, <2>b DEF Types
  <2>c. \A o \in Obj : Mutable(o)' => hist'[o] # <<>> /\ Last(hist'[o]).copies = copies'[o]
    BY DEF Mutable
  <2>1. CASE CurrentItems(from) = NoItems
    <3>1. UNCHANGED <<hist, items>>
      BY <1>0, <2>1
    <3>2. RegistryOK'
      BY <1>r, <2>u, <3>1, SameHistories
    <3>3. \A o \in Obj : Mutable(o)' => Mutable(o) /\ o # from
      <4> SUFFICES ASSUME NEW o \in Obj, Mutable(o)' PROVE Mutable(o) /\ o # from
        OBVIOUS
      <4>1. hist[o] # <<>> /\ Last(hist[o]).copies = copies'[o]
        BY <2>c, <3>1
      <4>2. Last(hist[o]).copies <= copies[o] /\ Last(hist[o]).copies \in Nat
        BY <4>1, NewestSnapshot
      <4>3. o # from /\ copies'[o] = copies[o]
        BY <2>a, <2>b, <4>1, <4>2
      <4> QED BY <3>1, <4>3 DEF Mutable
    <3>4. CurrentItems(n) = NoItems
      BY <1>r DEF CurrentItems
    <3> QED BY <2>1, <3>1, <3>2, <3>3, <3>4, SameItems DEF Types
  <2>2. CASE CurrentItems(from) # NoItems
    <3> DEFINE k == Len(hist[from])
               q == seqNo[from]
               z == 0
    <3>1. hist[from] # <<>> /\ k \in 1..Len(hist[from]) /\ CurrentItems(from) = items[hist[from][k].map]
      BY <1>r, <2>2, NewestSnapshot DEF CurrentItems
    <3>2. HandsOver(from, k, n, q, z)
      BY <1>0, <1>r, <2>2, <3>1, HistoryIs DEF HandsOver
    <3>3. q \in Int /\ z \in Nat /\ q <= seqNo'[n] /\ z <= copies'[n] /\ from \in Obj /\ from # n
          /\ hist[n] = <<>>
      BY <1>r, <2>b, <2>u
    <3> HIDE DEF k, q, z
    <3>4. /\ RegistryOK'
          /\ \A o \in Obj : o # n => CurrentItems(o)' = CurrentItems(o)
          /\ \A o \in Obj, s \in Int : o # n => AsOf(o, s)' = AsOf(o, s) /\ Evicted(o, s)' = Evicted(o, s)
          /\ CurrentItems(n)' = items[hist[from][k].map]
          /\ \A o \in Obj : o # n => (Mutable(o)' => Mutable(o))
      <4>1. UNCHANGED items
        BY <1>0
      <4> QED BY <2>u, <3>1, <3>2, <3>3, <4>1, HandOverKeeps
    <3>5. /\ hist' \in [Obj -> Seq(Snapshot)]
          /\ \A o \in Obj : o # n =>
                /\ Len(hist'[o]) = Len(hist[o])
                /\ \A j \in 1..Len(hist[o]) : hist'[o][j].copies = hist[o][j].copies
                                              /\ hist'[o][j].seqNo = hist[o][j].seqNo
      BY <3>1, <3>2, <3>3, HandOver
    <3>6. \A o \in Obj : o # n =>
             /\ hist[o] = <<>> => hist'[o] = <<>>
             /\ hist'[o] # <<>> => hist[o] # <<>> /\ hist'[o][Len(hist'[o])].copies = hist[o][Len(hist[o])].copies
                                   /\ hist'[o][Len(hist'[o])].seqNo = hist[o][Len(hist[o])].seqNo
      <4> SUFFICES ASSUME NEW o \in Obj, o # n
                   PROVE  /\ hist[o] = <<>> => hist'[o] = <<>>
                          /\ hist'[o] # <<>> => hist[o] # <<>> /\ hist'[o][Len(hist'[o])].copies = hist[o][Len(hist[o])].copies
                                   /\ hist'[o][Len(hist'[o])].seqNo = hist[o][Len(hist[o])].seqNo
        OBVIOUS
      <4>1. hist'[o] \in Seq(Snapshot) /\ Len(hist'[o]) = Len(hist[o])
        BY <3>5
      <4>2. hist'[o] # <<>> => Len(hist'[o]) \in Nat \ {0}
        BY <4>1, EmptySeq
      <4>3. hist[o] = <<>> <=> Len(hist[o]) = 0
        BY HistoryIs
      <4>4. hist'[o] # <<>> => Len(hist[o]) \in 1..Len(hist[o])
        BY <4>1, <4>2
      <4> QED BY <3>5, <4>1, <4>2, <4>3, <4>4
    <3>7. \A o \in Obj : o # n /\ Mutable(o)' => o # from
      <4> SUFFICES ASSUME NEW o \in Obj, o # n, Mutable(o)', o = from PROVE FALSE
        OBVIOUS
      <4>1. hist'[o] # <<>> /\ hist'[o][Len(hist'[o])].copies = copies'[o]
        BY <2>c DEF Last
      <4>2. Last(hist[o]).copies = copies'[o]
        BY <3>1, <3>6, <4>1, NewestSnapshot
      <4>3. Last(hist[o]).copies <= copies[o] /\ Last(hist[o]).copies \in Nat
        BY <3>1, NewestSnapshot
      <4> QED BY <2>a, <2>b, <4>2, <4>3
    <3> QED BY <3>1, <3>4, <3>5, <3>6, <3>7
  <2> QED BY <2>1, <2>2
<1>1. Types'
  <2>1. copies' \in [Obj -> Nat]
    BY <1>0, <1>r DEF Types
  <2>2. cur' \in [Cluster -> Obj \cup {Nil}] /\ seqNo' \in [Obj -> Int]
    BY <1>r DEF Types
  <2> QED BY <1>0, <1>k, <1>r, <2>1, <2>2 DEF Types
<1>2. RegistryOK'
  BY <1>k
<1>3. RequestsOK'
  <2>1. \A x, d \in Cluster : x # c /\ cur'[d] = cur'[x] => cur[d] = cur[x]
    BY <1>r
  <2>2. \A d \in Cluster : cur'[d] = cur'[c] => d = c
    BY <1>r
  <2> SUFFICES ASSUME NEW x \in Cluster
               PROVE  /\ cur'[x] = Nil => pc'[x] = "idle" /\ seen'[x] = Nil
                      /\ pc'[x] = "copy" => before'[x] = cur'[x]
                      /\ pc'[x] = "inherit" => before'[x] # Nil /\ before'[x] # cur'[x] /\ hist'[cur'[x]] = <<>>
                      /\ pc'[x] \notin {"copy", "inherit"} => before'[x] = Nil
                      /\ pc'[x] # "ops" => pending'[x] = NoItems /\ removed'[x] = {}
                      /\ pc'[x] = "ops" => seen'[x] = cur'[x]
                      /\ pc'[x] \in {"inherit", "note", "ops"} => \A d \in Cluster : cur'[d] = cur'[x] => d = x
                      /\ txNow'[x] <= now'
                      /\ pc'[x] \in {"copy", "indexCopy"} =>
                            \A o \in Obj : cur'[x] = o /\ hist'[o] # <<>> => hist'[o][Len(hist'[o])].copies < copies'[o]
    BY DEF RequestsOK
  <2>3. CASE x # c
    <3>1. pc[x] = "inherit" => hist'[cur[x]] = <<>>
      BY <1>k, <1>r DEF RequestsOK, Types
    <3>2. \A o \in Obj : cur[x] = o => o # n /\ o # from /\ copies'[o] = copies[o]
      BY <1>0, <1>r, <2>3 DEF Types
    <3>3. pc[x] \in {"copy", "indexCopy"} =>
             \A o \in Obj : cur[x] = o /\ hist'[o] # <<>> => hist'[o][Len(hist'[o])].copies < copies'[o]
      BY <1>k, <3>2 DEF RequestsOK
    <3>4. cur'[x] = cur[x]
      BY <1>r, <2>3
    <3> QED BY <1>0, <2>1, <2>3, <3>1, <3>3, <3>4 DEF RequestsOK
  <2>4. CASE x = c
    BY <1>0, <1>r, <2>2, <2>4, NilAssumption DEF RequestsOK
  <2> QED BY <2>3, <2>4
<1>4. SameTruth'
  BY <1>0, <1>r DEF SameTruth
<1>5. LeftBehind'
  <2> SUFFICES ASSUME NEW x \in Cluster, NEW o \in Obj, NEW s \in Int, InheritsFrom(x, o, s)'
               PROVE  Left(x, o, s)'
    BY DEF LeftBehind
  <2>1. o # n
    BY <1>0, <1>r DEF InheritsFrom, Types
  <2>2. s = seqNo[cur[x]]
    BY <1>0, <1>r DEF InheritsFrom, Types
  <2>3. \A d \in Cluster : cur'[d] = o => cur[d] = o /\ d # c
    BY <1>r, <2>1
  <2>4. CASE Left(x, o, s)
    <3>1. Mutable(o)' => hist'[o][Len(hist'[o])].seqNo > s
      BY <1>k, <2>1, <2>4 DEF Left, Mutable
    <3>2. \A i \in Id : AsOf(o, s)'[i] \in {Nothing, truth'[x][i]}
      BY <1>0, <1>k, <2>1, <2>4 DEF Left
    <3>3. seqNo'[o] = seqNo[o]
      BY <1>r, <2>1
    <3> QED BY <1>0, <2>3, <2>4, <3>1, <3>2, <3>3 DEF Left
  <2>5. InheritsFrom(x, o, s) => Left(x, o, s)
    BY DEF LeftBehind
  <2>6. ASSUME x # c PROVE InheritsFrom(x, o, s)
    BY <1>0, <1>r, <2>6 DEF InheritsFrom, Types
  <2>7. ASSUME x = c, o # from PROVE InheritsFrom(x, o, s)
    BY <1>0, <1>r, <2>7 DEF InheritsFrom, Types
  <2>8. CASE x = c /\ o = from
    <3>1. \A d \in Cluster : cur'[d] # o
      BY <1>0, <1>r, <2>8
    <3>2. \A i \in Id : AsOf(o, s)'[i] \in {Nothing, truth'[x][i]}
      <4>1. AsOf(o, s)' = CurrentItems(o)
        BY <1>0, <1>k, <2>1, <2>2, <2>8, AsOfCurrent DEF Types
      <4>2. \A i \in Id : Untouched(c, i)
        BY <1>0 DEF RequestsOK, Untouched, NoItems
      <4> QED BY <1>0, <2>8, <4>1, <4>2 DEF NothingInvented
    <3>3. s <= seqNo'[o]
      BY <1>0, <1>r, <2>2, <2>8 DEF Types
    <3> QED BY <1>k, <2>1, <2>8, <3>1, <3>2, <3>3 DEF Left
  <2> QED BY <2>4, <2>5, <2>6, <2>7, <2>8
<1>6. NothingInvented'
  <2> SUFFICES ASSUME NEW x \in Cluster, NEW o \in Obj, NEW i \in Id, cur'[x] = o
               PROVE  /\ i \in removed'[x] => pending'[x][i] = Nothing /\ truth'[x][i] = Nothing
                      /\ pending'[x][i] # Nothing => truth'[x][i] = pending'[x][i]
                      /\ Untouched(x, i)' => CurrentItems(o)'[i] \in {Nothing, truth'[x][i]}
    BY DEF NothingInvented
  <2>1. CASE x # c
    BY <1>0, <1>k, <1>r, <2>1 DEF NothingInvented, Untouched
  <2>2. CASE x = c
    BY <1>0, <1>k, <1>r, <2>2 DEF NothingInvented, Untouched
  <2> QED BY <2>1, <2>2
<1>7. NothingForgotten'
  <2>1. \A x \in Cluster : Time(x)' = Time(x)
    BY <1>0 DEF Time
  <2>2. \A x \in Cluster, i \in Id : Untouched(x, i)' = Untouched(x, i)
    BY <1>0 DEF Untouched
  <2> SUFFICES ASSUME NEW x \in Cluster \ bypassed', NEW o \in Obj, cur'[x] = o
               PROVE  IF pc'[x] = "inherit"
                      THEN \A p \in Obj, s \in Int : before'[x] = p /\ seqNo'[o] = s =>
                              \/ Evicted(p, s)'
                              \/ \A i \in Id : AsOf(p, s)'[i] = Nothing => Expired(truth'[x][i], txNow'[x])
                      ELSE \A i \in Id : Untouched(x, i)' /\ CurrentItems(o)'[i] = Nothing
                                             => Expired(truth'[x][i], Time(x)')
    BY DEF NothingForgotten
  <2>3. CASE x # c
    <3>1. o # n /\ cur[x] = o /\ x \notin bypassed /\ seqNo'[o] = seqNo[o]
      BY <1>0, <1>r, <2>3
    <3>2. before[x] # n
      BY <1>r
    <3>3. \A p \in Obj, s \in Int : before[x] = p => AsOf(p, s)' = AsOf(p, s) /\ Evicted(p, s)' = Evicted(p, s)
      BY <1>k, <3>2
    <3>4. CurrentItems(o)' = CurrentItems(o)
      BY <1>k, <3>1
    <3>5. CASE pc[x] = "inherit"
      <4>1. \A p \in Obj, s \in Int : before[x] = p /\ seqNo[o] = s =>
               \/ Evicted(p, s)
               \/ \A i \in Id : AsOf(p, s)[i] = Nothing => Expired(truth[x][i], txNow[x])
        BY <3>1, <3>5 DEF NothingForgotten
      <4> QED BY <1>0, <3>1, <3>3, <3>5, <4>1
    <3>6. CASE pc[x] # "inherit"
      <4>1. \A i \in Id : Untouched(x, i) /\ CurrentItems(o)[i] = Nothing => Expired(truth[x][i], Time(x))
        BY <3>1, <3>6 DEF NothingForgotten
      <4> QED BY <1>0, <2>1, <2>2, <3>4, <3>6, <4>1
    <3> QED BY <3>5, <3>6
  <2>4. CASE x = c
    BY <1>0, <1>k, <1>r, <2>1, <2>2, <2>4 DEF NothingForgotten
  <2> QED BY <2>3, <2>4
<1> QED BY <1>1, <1>2, <1>3, <1>4, <1>5, <1>6, <1>7

-----------------------------------------------------------------------------
(* Operations, and the end of an Index. *)

LEMMA PutTomb == 
    ASSUME TombInv, NEW c \in Cluster, NEW i \in Id, NEW o \in Obj, cur[c] = o, Put(c, i)
    PROVE  TombInv'
<1> USE DEF TombInv
<1>0. /\ pc[c] = "ops" /\ NextVersion(c, i) \in Version
      /\ docs' = [docs EXCEPT ![o][i] = NextVersion(c, i)]
      /\ seqNo' = [seqNo EXCEPT ![o] = seqNo[o] + 1]
      /\ pending' = [pending EXCEPT ![c][i] = Nothing]
      /\ removed' = [removed EXCEPT ![c] = removed[c] \cup {i}]
      /\ truth' = [truth EXCEPT ![c][i] = Nothing]
      /\ UNCHANGED <<cur, copies, hist, items, seen, now, pc, before, txNow, bypassed>>
  BY DEF Put, regVars, history
<1>a. \A x \in Cluster : x # c => cur[x] # o
  BY <1>0 DEF RequestsOK
<1>b. \A x \in Cluster : x # c => pending'[x] = pending[x] /\ removed'[x] = removed[x] /\ truth'[x] = truth[x]
  BY <1>0 DEF Types
<1>c. \A j \in Id : j # i => pending'[c][j] = pending[c][j] /\ truth'[c][j] = truth[c][j]
                           /\ (j \in removed'[c] <=> j \in removed[c])
  BY <1>0 DEF Types
<1>s. /\ \A p \in Obj : p # o => seqNo'[p] = seqNo[p]
      /\ seqNo'[o] = seqNo[o] + 1 /\ seqNo[o] \in Int /\ seqNo' \in [Obj -> Int]
  BY <1>0 DEF Types
<1>i. \A p \in Obj : CurrentItems(p)' = CurrentItems(p)
                   /\ \A s \in Int : AsOf(p, s)' = AsOf(p, s) /\ Evicted(p, s)' = Evicted(p, s)
  BY <1>0, SameItems
<1>d. pending'[c][i] = Nothing /\ truth'[c][i] = Nothing /\ i \in removed'[c]
  BY <1>0 DEF Types
<1>1. Types'
  <2>1. Nothing \in Tombstone /\ NextVersion(c, i) \in Nat
    BY <1>0, Bounds DEF Tombstone, Version
  <2>2. docs' \in [Obj -> [Id -> Nat]]
    BY <1>0, <2>1 DEF Types
  <2>3. pending' \in [Cluster -> [Id -> Tombstone]] /\ truth' \in [Cluster -> [Id -> Tombstone]]
    BY <1>0, <2>1 DEF Types
  <2>4. removed' \in [Cluster -> SUBSET Id]
    BY <1>0 DEF Types
  <2> QED BY <1>0, <1>s, <2>2, <2>3, <2>4 DEF Types
<1>2. RegistryOK'
  <2>1. \A p \in Obj : hist[p] # <<>> => seqNo[p] <= seqNo'[p] /\ copies[p] <= copies'[p]
    BY <1>0, <1>s DEF Types
  <2>2. copies' \in [Obj -> Nat]
    BY <1>0 DEF Types
  <2> QED BY <1>0, <1>s, <2>1, <2>2, SameHistories
<1>3. RequestsOK'
  <2>1. \A x \in Cluster : pc[x] # "ops" => pending'[x] = NoItems /\ removed'[x] = {}
    BY <1>0, <1>b DEF RequestsOK
  <2> QED BY <1>0, <2>1 DEF RequestsOK
<1>4. SameTruth'
  BY <1>0, <1>a, <1>b DEF SameTruth
<1>5. LeftBehind'
  <2> SUFFICES ASSUME NEW x \in Cluster, NEW p \in Obj, NEW s \in Int, InheritsFrom(x, p, s)'
               PROVE  Left(x, p, s)'
    BY DEF LeftBehind
  <2>1. x # c
    BY <1>0 DEF InheritsFrom, RequestsOK
  <2>2. InheritsFrom(x, p, s)
    <3>1. cur[x] # Nil => seqNo'[cur[x]] = seqNo[cur[x]]
      BY <1>a, <1>s, <2>1 DEF Types
    <3> QED BY <1>0, <3>1 DEF InheritsFrom
  <2>3. Left(x, p, s)
    BY <2>2 DEF LeftBehind
  <2>4. s <= seqNo'[p]
    <3>1. s <= seqNo[p] /\ seqNo[p] \in Int
      BY <2>3 DEF Left, Types
    <3>2. seqNo'[p] = seqNo[p] \/ seqNo'[p] = seqNo[p] + 1
      BY <1>s
    <3> QED BY <3>1, <3>2
  <2>5. Mutable(p)' => Mutable(p)
    BY <1>0 DEF Mutable
  <2>6. \A d \in Cluster : cur'[d] = p =>
           /\ pending'[d] # NoItems \/ removed'[d] # {} => seqNo'[p] > s
           /\ seqNo'[p] = s => truth'[d] = truth[x]
    <3>1. CASE p = o
      BY <1>0, <1>s, <2>3, <3>1 DEF Left
    <3>2. CASE p # o
      BY <1>0, <1>b, <1>s, <2>3, <3>2 DEF Left
    <3> QED BY <3>1, <3>2
  <2> QED BY <1>0, <1>b, <2>1, <2>3, <2>4, <2>5, <2>6, LeftKept
<1>6. NothingInvented'
  <2> SUFFICES ASSUME NEW x \in Cluster, NEW p \in Obj, NEW j \in Id, cur[x] = p
               PROVE  /\ j \in removed'[x] => pending'[x][j] = Nothing /\ truth'[x][j] = Nothing
                      /\ pending'[x][j] # Nothing => truth'[x][j] = pending'[x][j]
                      /\ Untouched(x, j)' => CurrentItems(p)'[j] \in {Nothing, truth'[x][j]}
    BY <1>0 DEF NothingInvented
  <2>1. CASE x # c
    BY <1>b, <1>i, <2>1 DEF NothingInvented, Untouched
  <2>2. CASE x = c /\ j # i
    BY <1>c, <1>i, <2>2 DEF NothingInvented, Untouched
  <2>3. CASE x = c /\ j = i
    BY <1>d, <2>3 DEF Untouched
  <2> QED BY <2>1, <2>2, <2>3
<1>7. NothingForgotten'
  <2>1. \A x \in Cluster : Time(x)' = Time(x)
    BY <1>0 DEF Time
  <2> SUFFICES ASSUME NEW x \in Cluster \ bypassed, NEW p \in Obj, cur[x] = p
               PROVE  IF pc[x] = "inherit"
                      THEN \A r \in Obj, s \in Int : before[x] = r /\ seqNo'[p] = s =>
                              \/ Evicted(r, s)'
                              \/ \A j \in Id : AsOf(r, s)'[j] = Nothing => Expired(truth'[x][j], txNow[x])
                      ELSE \A j \in Id : Untouched(x, j)' /\ CurrentItems(p)'[j] = Nothing
                                             => Expired(truth'[x][j], Time(x)')
    BY <1>0 DEF NothingForgotten
  <2>2. CASE x # c
    <3>1. seqNo'[p] = seqNo[p]
      BY <1>a, <1>s, <2>2
    <3>2. truth'[x] = truth[x] /\ \A j \in Id : Untouched(x, j)' = Untouched(x, j)
      BY <1>b, <2>2 DEF Untouched
    <3>3. CASE pc[x] = "inherit"
      BY <1>i, <3>1, <3>2, <3>3 DEF NothingForgotten
    <3>4. CASE pc[x] # "inherit"
      BY <1>i, <2>1, <3>2, <3>4 DEF NothingForgotten
    <3> QED BY <3>3, <3>4
  <2>3. CASE x = c
    <3> SUFFICES ASSUME NEW j \in Id, Untouched(c, j)', CurrentItems(p)'[j] = Nothing
                 PROVE  Expired(truth'[c][j], Time(c)')
      BY <1>0, <2>3
    <3>1. CASE j = i
      BY <1>d, <3>1 DEF Untouched, Expired
    <3>2. CASE j # i
      <4>1. Untouched(c, j) /\ truth'[c][j] = truth[c][j]
        BY <1>c, <3>2 DEF Untouched
      <4> QED BY <1>0, <1>i, <2>1, <2>3, <4>1 DEF NothingForgotten
    <3> QED BY <3>1, <3>2
  <2> QED BY <2>2, <2>3
<1> QED BY <1>1, <1>2, <1>3, <1>4, <1>5, <1>6, <1>7

LEMMA DeleteTomb == 
    ASSUME TombInv, NEW c \in Cluster, NEW i \in Id, NEW o \in Obj, cur[c] = o, Delete(c, i)
    PROVE  TombInv'
<1> USE DEF TombInv
<1> DEFINE t == [version |-> NextVersion(c, i), at |-> txNow[c]]
<1>0. /\ pc[c] = "ops" /\ NextVersion(c, i) \in Version
      /\ docs' = [docs EXCEPT ![o][i] = 0]
      /\ seqNo' = [seqNo EXCEPT ![o] = seqNo[o] + 1]
      /\ pending' = [pending EXCEPT ![c][i] = t]
      /\ removed' = [removed EXCEPT ![c] = removed[c] \ {i}]
      /\ truth' = [truth EXCEPT ![c][i] = t]
      /\ UNCHANGED <<cur, copies, hist, items, seen, now, pc, before, txNow, bypassed>>
  BY DEF Delete, regVars, history
<1>t. t \in Tombstone /\ t # Nothing
  <2>1. t.version # 0 /\ Nothing.version = 0
    BY <1>0, Bounds DEF Version, Nothing
  <2>2. txNow[c] \in 0..MaxTime
    BY DEF Types
  <2> QED BY <1>0, <2>1, <2>2 DEF Tombstone
<1> HIDE DEF t
<1>a. \A x \in Cluster : x # c => cur[x] # o
  BY <1>0 DEF RequestsOK
<1>b. \A x \in Cluster : x # c => pending'[x] = pending[x] /\ removed'[x] = removed[x] /\ truth'[x] = truth[x]
  BY <1>0 DEF Types
<1>c. \A j \in Id : j # i => pending'[c][j] = pending[c][j] /\ truth'[c][j] = truth[c][j]
                           /\ (j \in removed'[c] <=> j \in removed[c])
  BY <1>0 DEF Types
<1>s. /\ \A p \in Obj : p # o => seqNo'[p] = seqNo[p]
      /\ seqNo'[o] = seqNo[o] + 1 /\ seqNo[o] \in Int /\ seqNo' \in [Obj -> Int]
  BY <1>0 DEF Types
<1>i. \A p \in Obj : CurrentItems(p)' = CurrentItems(p)
                   /\ \A s \in Int : AsOf(p, s)' = AsOf(p, s) /\ Evicted(p, s)' = Evicted(p, s)
  BY <1>0, SameItems
<1>d. pending'[c][i] = t /\ truth'[c][i] = t /\ i \notin removed'[c] /\ t # Nothing
  BY <1>0, <1>t DEF Types
<1>1. Types'
  <2>1. docs' \in [Obj -> [Id -> Nat]]
    BY <1>0 DEF Types
  <2>2. pending' \in [Cluster -> [Id -> Tombstone]] /\ truth' \in [Cluster -> [Id -> Tombstone]]
    BY <1>0, <1>t DEF Types
  <2>3. removed' \in [Cluster -> SUBSET Id]
    BY <1>0 DEF Types
  <2> QED BY <1>0, <1>s, <2>1, <2>2, <2>3 DEF Types
<1>2. RegistryOK'
  <2>1. \A p \in Obj : hist[p] # <<>> => seqNo[p] <= seqNo'[p] /\ copies[p] <= copies'[p]
    BY <1>0, <1>s DEF Types
  <2>2. copies' \in [Obj -> Nat]
    BY <1>0 DEF Types
  <2> QED BY <1>0, <1>s, <2>1, <2>2, SameHistories
<1>3. RequestsOK'
  <2>1. \A x \in Cluster : pc[x] # "ops" => pending'[x] = NoItems /\ removed'[x] = {}
    BY <1>0, <1>b DEF RequestsOK
  <2> QED BY <1>0, <2>1 DEF RequestsOK
<1>4. SameTruth'
  BY <1>0, <1>a, <1>b DEF SameTruth
<1>5. LeftBehind'
  <2> SUFFICES ASSUME NEW x \in Cluster, NEW p \in Obj, NEW s \in Int, InheritsFrom(x, p, s)'
               PROVE  Left(x, p, s)'
    BY DEF LeftBehind
  <2>1. x # c
    BY <1>0 DEF InheritsFrom, RequestsOK
  <2>2. InheritsFrom(x, p, s)
    <3>1. cur[x] # Nil => seqNo'[cur[x]] = seqNo[cur[x]]
      BY <1>a, <1>s, <2>1 DEF Types
    <3> QED BY <1>0, <3>1 DEF InheritsFrom
  <2>3. Left(x, p, s)
    BY <2>2 DEF LeftBehind
  <2>4. s <= seqNo'[p]
    <3>1. s <= seqNo[p] /\ seqNo[p] \in Int
      BY <2>3 DEF Left, Types
    <3>2. seqNo'[p] = seqNo[p] \/ seqNo'[p] = seqNo[p] + 1
      BY <1>s
    <3> QED BY <3>1, <3>2
  <2>5. Mutable(p)' => Mutable(p)
    BY <1>0 DEF Mutable
  <2>6. \A d \in Cluster : cur'[d] = p =>
           /\ pending'[d] # NoItems \/ removed'[d] # {} => seqNo'[p] > s
           /\ seqNo'[p] = s => truth'[d] = truth[x]
    <3>1. CASE p = o
      BY <1>0, <1>s, <2>3, <3>1 DEF Left
    <3>2. CASE p # o
      BY <1>0, <1>b, <1>s, <2>3, <3>2 DEF Left
    <3> QED BY <3>1, <3>2
  <2> QED BY <1>0, <1>b, <2>1, <2>3, <2>4, <2>5, <2>6, LeftKept
<1>6. NothingInvented'
  <2> SUFFICES ASSUME NEW x \in Cluster, NEW p \in Obj, NEW j \in Id, cur[x] = p
               PROVE  /\ j \in removed'[x] => pending'[x][j] = Nothing /\ truth'[x][j] = Nothing
                      /\ pending'[x][j] # Nothing => truth'[x][j] = pending'[x][j]
                      /\ Untouched(x, j)' => CurrentItems(p)'[j] \in {Nothing, truth'[x][j]}
    BY <1>0 DEF NothingInvented
  <2>1. CASE x # c
    BY <1>b, <1>i, <2>1 DEF NothingInvented, Untouched
  <2>2. CASE x = c /\ j # i
    BY <1>c, <1>i, <2>2 DEF NothingInvented, Untouched
  <2>3. CASE x = c /\ j = i
    BY <1>d, <2>3 DEF Untouched
  <2> QED BY <2>1, <2>2, <2>3
<1>7. NothingForgotten'
  <2>1. \A x \in Cluster : Time(x)' = Time(x)
    BY <1>0 DEF Time
  <2> SUFFICES ASSUME NEW x \in Cluster \ bypassed, NEW p \in Obj, cur[x] = p
               PROVE  IF pc[x] = "inherit"
                      THEN \A r \in Obj, s \in Int : before[x] = r /\ seqNo'[p] = s =>
                              \/ Evicted(r, s)'
                              \/ \A j \in Id : AsOf(r, s)'[j] = Nothing => Expired(truth'[x][j], txNow[x])
                      ELSE \A j \in Id : Untouched(x, j)' /\ CurrentItems(p)'[j] = Nothing
                                             => Expired(truth'[x][j], Time(x)')
    BY <1>0 DEF NothingForgotten
  <2>2. CASE x # c
    <3>1. seqNo'[p] = seqNo[p]
      BY <1>a, <1>s, <2>2
    <3>2. truth'[x] = truth[x] /\ \A j \in Id : Untouched(x, j)' = Untouched(x, j)
      BY <1>b, <2>2 DEF Untouched
    <3>3. CASE pc[x] = "inherit"
      BY <1>i, <3>1, <3>2, <3>3 DEF NothingForgotten
    <3>4. CASE pc[x] # "inherit"
      BY <1>i, <2>1, <3>2, <3>4 DEF NothingForgotten
    <3> QED BY <3>3, <3>4
  <2>3. CASE x = c
    <3> SUFFICES ASSUME NEW j \in Id, Untouched(c, j)', CurrentItems(p)'[j] = Nothing
                 PROVE  Expired(truth'[c][j], Time(c)')
      BY <1>0, <2>3
    <3>1. CASE j = i
      BY <1>d, <3>1 DEF Untouched, Expired
    <3>2. CASE j # i
      <4>1. Untouched(c, j) /\ truth'[c][j] = truth[c][j]
        BY <1>c, <3>2 DEF Untouched
      <4> QED BY <1>0, <1>i, <2>1, <2>3, <4>1 DEF NothingForgotten
    <3> QED BY <3>1, <3>2
  <2> QED BY <2>2, <2>3
<1> QED BY <1>1, <1>2, <1>3, <1>4, <1>5, <1>6, <1>7

LEMMA CollectTomb == 
    ASSUME TombInv, NEW o \in Obj, Collect(o)
    PROVE  TombInv'
<1> USE DEF TombInv
<1>0. /\ docs' = [docs EXCEPT ![o] = [i \in Id |-> 0]]
      /\ seqNo' = [seqNo EXCEPT ![o] = -1] /\ copies' = [copies EXCEPT ![o] = 0]
      /\ hist' = [hist EXCEPT ![o] = <<>>] /\ items' = Kept(hist', items)
      /\ seen' = [c \in Cluster |-> IF seen[c] = o THEN Nil ELSE seen[c]]
      /\ UNCHANGED <<cur, now, pc, before, txNow, pending, removed, truth, bypassed>>
  BY DEF Collect, txVars, history
<1>a. \A x \in Cluster : cur[x] # o /\ before[x] # o /\ seen'[x] # o
  BY <1>0, NilAssumption DEF Collect, Reachable, Sharers
<1>b. hist'[o] = <<>> /\ hist' \in [Obj -> Seq(Snapshot)] /\ \A p \in Obj : p # o => hist'[p] = hist[p]
  BY <1>0 DEF Types
<1>c. \A p \in Obj : p # o => seqNo'[p] = seqNo[p] /\ copies'[p] = copies[p]
  BY <1>0 DEF Types
<1>k. \A p \in Obj : p # o => \A k \in DOMAIN hist[p] : items'[hist[p][k].map] = items[hist[p][k].map]
  <2> SUFFICES ASSUME NEW p \in Obj, p # o, NEW k \in DOMAIN hist[p]
               PROVE  items'[hist[p][k].map] = items[hist[p][k].map]
    OBVIOUS
  <2>1. hist'[p] = hist[p] /\ hist[p][k].map \in MapId
    BY <1>b, HistoryIs
  <2> QED BY <1>0, <2>1 DEF Kept
<1>i. \A p \in Obj : p # o => /\ CurrentItems(p)' = CurrentItems(p)
                            /\ \A s \in Int : AsOf(p, s)' = AsOf(p, s) /\ Evicted(p, s)' = Evicted(p, s)
  <2> SUFFICES ASSUME NEW p \in Obj, p # o
               PROVE  /\ CurrentItems(p)' = CurrentItems(p)
                      /\ \A s \in Int : AsOf(p, s)' = AsOf(p, s) /\ Evicted(p, s)' = Evicted(p, s)
    OBVIOUS
  <2>1. hist'[p] = hist[p]
    BY <1>b
  <2>2. hist[p] # <<>> => Len(hist[p]) \in DOMAIN hist[p] /\ Last(hist[p]) = hist[p][Len(hist[p])]
    BY HistoryIs
  <2>3. CurrentItems(p)' = CurrentItems(p)
    BY <1>k, <2>1, <2>2 DEF CurrentItems
  <2>4. \A s \in Int : AsOf(p, s)' = AsOf(p, s) /\ NotNewer(p, s)' = NotNewer(p, s)
    BY <1>k, <2>1, SameSnapshots
  <2> QED BY <2>1, <2>3, <2>4 DEF Evicted
<1>m. NoItems \in [Id -> Tombstone]
  BY DEF NoItems, Tombstone
<1>1. Types'
  <2>1. items' \in [MapId -> [Id -> Tombstone]]
    BY <1>0, <1>m DEF Kept, Types
  <2>2. seen' \in [Cluster -> Obj \cup {Nil}]
    BY <1>0 DEF Types
  <2>3. docs' \in [Obj -> [Id -> Nat]] /\ seqNo' \in [Obj -> Int] /\ copies' \in [Obj -> Nat]
    BY <1>0 DEF Types
  <2> QED BY <1>0, <1>b, <2>1, <2>2, <2>3 DEF Types
<1>2. RegistryOK'
  <2>1. \A p \in Obj : \A k \in 1..Len(hist'[p]) : p # o /\ hist'[p] = hist[p]
    BY <1>b
  <2>2. Len(<<>>) <= History /\ Len(<<>>) = 0
    BY Bounds
  <2>3. \A p \in Obj : Len(hist'[p]) <= History
    BY <1>b, <2>2 DEF RegistryOK
  <2>4. \A p \in Obj : \A k \in 1..Len(hist'[p]) :
           hist'[p][k].seqNo <= seqNo'[p] /\ hist'[p][k].copies <= copies'[p]
    BY <1>c, <2>1 DEF RegistryOK
  <2>5. \A p \in Obj : \A j, k \in 1..Len(hist'[p]) : hist'[p][j].map = hist'[p][k].map => j = k
    BY <2>1 DEF RegistryOK
  <2>6. \A p, r \in Obj : \A j \in 1..Len(hist'[p]), k \in 1..Len(hist'[r]) :
           p # r /\ hist'[p][j].map = hist'[r][k].map => hist'[p][j].shared
    BY <2>1 DEF RegistryOK
  <2> QED BY <2>3, <2>4, <2>5, <2>6 DEF RegistryOK
<1>3. RequestsOK'
  <2>1. \A x \in Cluster : cur[x] = Nil \/ (cur[x] \in Obj /\ cur[x] # o)
    BY <1>a DEF Types
  <2>2. \A x \in Cluster : seen'[x] = IF seen[x] = o THEN Nil ELSE seen[x]
    BY <1>0
  <2>3. \A x \in Cluster : pc[x] = "inherit" => hist'[cur[x]] = <<>>
    BY <1>b, <2>1 DEF RequestsOK
  <2>4. \A x \in Cluster : pc[x] \in {"copy", "indexCopy"} =>
           \A p \in Obj : cur[x] = p /\ hist'[p] # <<>> => hist'[p][Len(hist'[p])].copies < copies'[p]
    BY <1>a, <1>b, <1>c DEF RequestsOK
  <2>5. \A x \in Cluster : cur[x] = Nil => seen'[x] = Nil
    BY <2>2 DEF RequestsOK
  <2>6. \A x \in Cluster : pc[x] = "ops" => seen'[x] = cur[x]
    BY <1>a, <2>2 DEF RequestsOK
  <2> QED BY <1>0, <2>3, <2>4, <2>5, <2>6 DEF RequestsOK
<1>4. SameTruth'
  BY <1>0 DEF SameTruth, RequestsOK, Types
<1>5. LeftBehind'
  <2> SUFFICES ASSUME NEW x \in Cluster, NEW p \in Obj, NEW s \in Int, InheritsFrom(x, p, s)'
               PROVE  Left(x, p, s)'
    BY DEF LeftBehind
  <2>1. p # o
    BY <1>0, <1>a DEF InheritsFrom
  <2>2. InheritsFrom(x, p, s)
    <3>1. cur[x] # Nil => seqNo'[cur[x]] = seqNo[cur[x]]
      BY <1>a, <1>c DEF Types
    <3> QED BY <1>0, <2>1, <3>1, NilAssumption DEF InheritsFrom
  <2>3. Left(x, p, s)
    BY <2>2 DEF LeftBehind
  <2>4. Mutable(p)' => Mutable(p)
    BY <1>b, <1>c, <2>1 DEF Mutable
  <2> QED BY <1>0, <1>b, <1>c, <1>i, <2>1, <2>3, <2>4 DEF Left
<1>6. NothingInvented'
  BY <1>0, <1>a, <1>i DEF NothingInvented, Untouched
<1>7. NothingForgotten'
  <2>1. \A x \in Cluster : Time(x)' = Time(x) /\ \A i \in Id : Untouched(x, i)' = Untouched(x, i)
    BY <1>0 DEF Time, Untouched
  <2> SUFFICES ASSUME NEW x \in Cluster \ bypassed, NEW p \in Obj, cur[x] = p
               PROVE  IF pc[x] = "inherit"
                      THEN \A r \in Obj, s \in Int : before[x] = r /\ seqNo'[p] = s =>
                              \/ Evicted(r, s)'
                              \/ \A j \in Id : AsOf(r, s)'[j] = Nothing => Expired(truth[x][j], txNow[x])
                      ELSE \A j \in Id : Untouched(x, j) /\ CurrentItems(p)'[j] = Nothing
                                             => Expired(truth[x][j], Time(x))
    BY <1>0, <2>1 DEF NothingForgotten
  <2>2. p # o /\ seqNo'[p] = seqNo[p]
    BY <1>a, <1>c
  <2>3. CASE pc[x] = "inherit"
    BY <1>a, <1>i, <2>2, <2>3 DEF NothingForgotten
  <2>4. CASE pc[x] # "inherit"
    BY <1>i, <2>2, <2>4 DEF NothingForgotten
  <2> QED BY <2>3, <2>4
<1> QED BY <1>1, <1>2, <1>3, <1>4, <1>5, <1>6, <1>7

-----------------------------------------------------------------------------
(* Commit. *)

\* What a commit publishes is what the request found, with its own writes, and
\* perhaps without what is out of the window.
Published(c, m) ==
    {Applied(c, m), Pruned(c, Applied(c, m)), Applied(c, Pruned(c, m))}

LEMMA PublishedItems ==
    ASSUME TombInv, NEW c \in Cluster, NEW o \in Obj, cur[c] = o, pc[c] = "ops",
           NEW m \in Published(c, CurrentItems(o))
    PROVE  /\ m \in [Id -> Tombstone]
           /\ \A i \in Id : m[i] \in {Nothing, truth[c][i]}
           /\ c \notin bypassed => \A i \in Id : m[i] = Nothing => Expired(truth[c][i], txNow[c])
<1> USE DEF TombInv
<1> DEFINE x == CurrentItems(o)
<1>1. x \in [Id -> Tombstone] /\ Nothing \in Tombstone
  <2>1. NoItems \in [Id -> Tombstone] /\ Nothing \in Tombstone
    BY DEF NoItems, Tombstone
  <2>2. hist[o] # <<>> => Last(hist[o]).map \in MapId
    BY NewestSnapshot
  <2> QED BY <2>1, <2>2 DEF CurrentItems, Types
<1>2. \A i \in Id : /\ i \in removed[c] => pending[c][i] = Nothing /\ truth[c][i] = Nothing
                    /\ pending[c][i] # Nothing => truth[c][i] = pending[c][i]
                    /\ i \notin removed[c] /\ pending[c][i] = Nothing => x[i] \in {Nothing, truth[c][i]}
                    /\ pending[c][i] \in Tombstone
  BY DEF NothingInvented, Untouched, Types
<1>3. c \notin bypassed => \A i \in Id : i \notin removed[c] /\ pending[c][i] = Nothing /\ x[i] = Nothing
                                           => Expired(truth[c][i], txNow[c])
  BY DEF NothingForgotten, Untouched, Time
<1> HIDE DEF x
<1>4. Expired(Nothing, txNow[c])
  BY DEF Expired
<1>5. CASE m = Applied(c, x)
  BY <1>1, <1>2, <1>3, <1>4, <1>5 DEF Applied
<1>6. CASE m = Pruned(c, Applied(c, x))
  <2>1. \A i \in Id : m[i] = IF Expired(Applied(c, x)[i], txNow[c]) THEN Nothing ELSE Applied(c, x)[i]
    BY <1>6 DEF Pruned
  <2>2. \A i \in Id : /\ Applied(c, x)[i] \in Tombstone /\ Applied(c, x)[i] \in {Nothing, truth[c][i]}
                      /\ c \notin bypassed /\ Applied(c, x)[i] = Nothing => Expired(truth[c][i], txNow[c])
    BY <1>1, <1>2, <1>3, <1>4 DEF Applied
  <2>3. m \in [Id -> Tombstone]
    BY <1>1, <1>6, <2>2 DEF Pruned
  <2> QED BY <2>1, <2>2, <2>3
<1>7. CASE m = Applied(c, Pruned(c, x))
  <2>1. \A i \in Id : Pruned(c, x)[i] = IF Expired(x[i], txNow[c]) THEN Nothing ELSE x[i]
    BY DEF Pruned
  <2>2. \A i \in Id : m[i] = IF i \in removed[c] THEN Nothing
                             ELSE IF pending[c][i] # Nothing THEN pending[c][i] ELSE Pruned(c, x)[i]
    BY <1>2, <1>7 DEF Applied
  <2>3. m \in [Id -> Tombstone]
    BY <1>1, <1>2, <1>7, <2>1 DEF Applied
  <2>4. \A i \in Id : m[i] \in {Nothing, truth[c][i]}
    BY <1>2, <2>1, <2>2
  <2>5. c \notin bypassed => \A i \in Id : m[i] = Nothing => Expired(truth[c][i], txNow[c])
    BY <1>2, <1>3, <1>4, <2>1, <2>2
  <2> QED BY <2>3, <2>4, <2>5
<1> QED BY <1>5, <1>6, <1>7 DEF Published, x

\* The registry after a commit on o: other Indexes do not notice, and those who left
\* o before the request wrote still find what was there then, or the history has
\* moved on.
Committed(c, o) ==
    /\ hist' \in [Obj -> Seq(Snapshot)]
    /\ items' \in [MapId -> [Id -> Tombstone]]
    /\ RegistryOK'
    /\ \A p \in Obj : p # o => hist'[p] = hist[p]
    /\ \A p \in Obj : \A k \in DOMAIN hist[p] : p # o => items'[hist[p][k].map] = items[hist[p][k].map]
    /\ CurrentItems(o)' \in Published(c, CurrentItems(o))
    /\ hist'[o] # <<>> /\ hist'[o][Len(hist'[o])].seqNo = seqNo[o]
    /\ \A s \in Int : s < seqNo[o] /\ (Mutable(o) => Last(hist[o]).seqNo > s) =>
          \/ AsOf(o, s)' = AsOf(o, s) /\ (Evicted(o, s) => Evicted(o, s)')
          \/ AsOf(o, s)' = NoItems /\ Evicted(o, s)'

LEMMA InPlace ==
    ASSUME TombInv, NEW c \in Cluster, NEW o \in Obj, cur[c] = o, pc[c] = "ops",
           Mutable(o), CommitInPlace(c), UNCHANGED <<seqNo, copies>>
    PROVE  Committed(c, o)
<1> USE DEF TombInv
<1> DEFINE n == Len(hist[o])
           m == Last(hist[o]).map
           new == [hist[o][n] EXCEPT !.seqNo = seqNo[o]]
           h == [hist[o] EXCEPT ![n] = new]
<1>1. /\ hist[o] # <<>> /\ n \in 1..n /\ Last(hist[o]) = hist[o][n] /\ m \in MapId /\ m = hist[o][n].map
      /\ hist[o][n].seqNo <= seqNo[o] /\ hist[o][n].seqNo \in Int /\ seqNo[o] \in Int /\ n <= History
      /\ ~hist[o][n].shared /\ hist[o][n] \in Snapshot /\ hist[o] \in Seq(Snapshot)
  BY NewestSnapshot, HistoryIs DEF Mutable, Types, RegistryOK
<1>2. PICK swept \in {Applied(c, items[m]), Pruned(c, Applied(c, items[m]))} :
          items' = [items EXCEPT ![m] = swept]
  BY DEF CommitInPlace
<1>3. hist' = [hist EXCEPT ![o] = h]
  BY DEF CommitInPlace
<1>4. new \in Snapshot /\ new.seqNo = seqNo[o] /\ new.map = m /\ ~new.shared /\ new.copies = hist[o][n].copies
  BY <1>1 DEF Snapshot
<1> HIDE DEF new, m, n
<1>5. h \in Seq(Snapshot) /\ Len(h) = n /\ \A j \in 1..n : h[j] = IF j = n THEN new ELSE hist[o][j]
  BY <1>1, <1>4, ExceptSeq DEF n
<1> HIDE DEF h
<1>6. hist'[o] = h /\ hist' \in [Obj -> Seq(Snapshot)] /\ \A p \in Obj : p # o => hist'[p] = hist[p]
  BY <1>3, <1>5 DEF Types
<1>7. CurrentItems(o) = items[m]
  BY <1>1 DEF CurrentItems, m
<1>8. swept \in Published(c, CurrentItems(o)) /\ swept \in [Id -> Tombstone]
  <2>1. swept \in Published(c, CurrentItems(o))
    BY <1>2, <1>7 DEF Published
  <2> QED BY <2>1, PublishedItems
<1>9. items' \in [MapId -> [Id -> Tombstone]] /\ items'[m] = swept /\ \A x \in MapId : x # m => items'[x] = items[x]
  BY <1>1, <1>2, <1>8 DEF Types
<1>10. \A p \in Obj : \A k \in 1..Len(hist[p]) : hist[p][k].map = m => p = o /\ k = n
  <2> SUFFICES ASSUME NEW p \in Obj, NEW k \in 1..Len(hist[p]), hist[p][k].map = m PROVE p = o /\ k = n
    OBVIOUS
  <2>1. n \in 1..Len(hist[o]) /\ hist[o][n].map = m /\ ~hist[o][n].shared
    BY <1>1 DEF n
  <2>2. p = o
    BY <2>1 DEF RegistryOK
  <2> QED BY <2>1, <2>2 DEF RegistryOK
<1>11. \A j \in 1..n : /\ h[j].map = hist[o][j].map
                       /\ h[j].shared <=> hist[o][j].shared
                       /\ h[j].copies = hist[o][j].copies
  <2> SUFFICES ASSUME NEW j \in 1..n
               PROVE  /\ h[j].map = hist[o][j].map
                      /\ h[j].shared <=> hist[o][j].shared
                      /\ h[j].copies = hist[o][j].copies
    OBVIOUS
  <2>1. CASE j = n
    BY <1>1, <1>4, <1>5, <2>1
  <2>2. CASE j # n
    BY <1>5, <2>2
  <2> QED BY <2>1, <2>2
<1>12. \A p \in Obj : /\ Len(hist'[p]) = Len(hist[p])
                      /\ \A j \in 1..Len(hist[p]) : /\ hist'[p][j].map = hist[p][j].map
                                                    /\ hist'[p][j].shared <=> hist[p][j].shared
                                                    /\ hist'[p][j].copies = hist[p][j].copies
  BY <1>5, <1>6, <1>11 DEF n
<1>13. RegistryOK'
  <2>1. \A p \in Obj : \A j \in 1..Len(hist[p]) : hist'[p][j].seqNo <= seqNo[p]
    <3> SUFFICES ASSUME NEW p \in Obj, NEW j \in 1..Len(hist[p]) PROVE hist'[p][j].seqNo <= seqNo[p]
      OBVIOUS
    <3>1. CASE p = o /\ j = n
      BY <1>1, <1>4, <1>5, <1>6, <3>1
    <3>2. CASE p = o /\ j # n
      BY <1>5, <1>6, <3>2 DEF RegistryOK, n
    <3>3. CASE p # o
      BY <1>6, <3>3 DEF RegistryOK
    <3> QED BY <3>1, <3>2, <3>3
  <2>2. \A p \in Obj : Len(hist'[p]) <= History
    BY <1>12 DEF RegistryOK
  <2>3. \A p \in Obj : \A j \in 1..Len(hist'[p]) : hist'[p][j].seqNo <= seqNo'[p] /\ hist'[p][j].copies <= copies'[p]
    BY <1>12, <2>1 DEF RegistryOK
  <2>4. \A p \in Obj : \A j, k \in 1..Len(hist'[p]) : hist'[p][j].map = hist'[p][k].map => j = k
    BY <1>12 DEF RegistryOK
  <2>5. \A p, r \in Obj : \A j \in 1..Len(hist'[p]), k \in 1..Len(hist'[r]) :
           p # r /\ hist'[p][j].map = hist'[r][k].map => hist'[p][j].shared
    BY <1>12 DEF RegistryOK
  <2> QED BY <2>2, <2>3, <2>4, <2>5 DEF RegistryOK
<1>14. \A p \in Obj : \A k \in DOMAIN hist[p] : p # o => items'[hist[p][k].map] = items[hist[p][k].map]
  BY <1>9, <1>10, HistoryIs
<1>15. h # <<>> /\ Last(h) = new /\ h[Len(h)] = new /\ DOMAIN h = 1..n
  BY <1>1, <1>5, EmptySeq, LenProperties DEF Last
<1>16. CurrentItems(o)' = swept
  BY <1>4, <1>6, <1>9, <1>15 DEF CurrentItems
<1>17. ASSUME NEW s \in Int, s < seqNo[o], hist[o][n].seqNo > s
       PROVE  AsOf(o, s)' = AsOf(o, s) /\ (Evicted(o, s) => Evicted(o, s)')
  <2>1. DOMAIN hist[o] = 1..n
    BY HistoryIs DEF n
  <2>2. NotNewer(o, s)' = NotNewer(o, s)
    <3>1. \A j \in 1..n : h[j].seqNo <= s <=> hist[o][j].seqNo <= s
      BY <1>1, <1>4, <1>5, <1>17
    <3> QED BY <1>6, <1>15, <2>1, <3>1 DEF NotNewer
  <2>3. SnapshotAt(o, s)' = SnapshotAt(o, s)
    BY <2>2 DEF SnapshotAt
  <2>4. CASE NotNewer(o, s) = {}
    BY <2>2, <2>4, <1>5, <1>6 DEF AsOf, Evicted, n
  <2>5. CASE NotNewer(o, s) # {}
    <3>1. SnapshotAt(o, s) \in NotNewer(o, s)
      BY <2>5, SnapshotFound
    <3>2. SnapshotAt(o, s) \in 1..n /\ SnapshotAt(o, s) # n
      BY <1>1, <1>17, <2>1, <3>1 DEF NotNewer
    <3>3. items'[hist[o][SnapshotAt(o, s)].map] = items[hist[o][SnapshotAt(o, s)].map]
      BY <1>9, <1>10, <3>2, HistoryIs DEF n
    <3> QED BY <1>6, <1>11, <2>2, <2>3, <2>5, <3>2, <3>3 DEF AsOf, Evicted
  <2> QED BY <2>4, <2>5
<1> QED BY <1>1, <1>4, <1>6, <1>8, <1>9, <1>13, <1>14, <1>15, <1>16, <1>17 DEF Committed

LEMMA Appended ==
    ASSUME TombInv, NEW c \in Cluster, NEW o \in Obj, cur[c] = o, pc[c] = "ops",
           CommitAppend(c), UNCHANGED <<seqNo, copies>>
    PROVE  Committed(c, o)
<1> USE DEF TombInv
<1> DEFINE n == Len(hist[o])
           m == FreshMap
           new == [seqNo |-> seqNo[o], map |-> m, copies |-> copies[o], shared |-> FALSE]
           full == Append(hist[o], new)
           d == IF n + 1 > History THEN 1 ELSE 0
           h == Truncated(full)
           x == Applied(c, Pruned(c, CurrentItems(o)))
<1>1. /\ hist[o] \in Seq(Snapshot) /\ n \in Nat /\ n <= History /\ History \in Nat \ {0}
      /\ DOMAIN hist[o] = 1..n /\ seqNo[o] \in Int /\ copies[o] \in Nat
  BY HistoryIs, Bounds DEF Types, RegistryOK
<1>2. m \in MapId /\ \A p \in Obj : \A k \in 1..Len(hist[p]) : hist[p][k].map # m
  <2>1. m \in Unused
    BY FreshMapIsUnused DEF CommitAppend
  <2> QED BY <2>1, HistoryIs DEF Unused, InUse
<1>3. new \in Snapshot /\ new.seqNo = seqNo[o] /\ new.map = m /\ ~new.shared /\ new.copies = copies[o]
  BY <1>1, <1>2 DEF Snapshot
<1>4. hist' = [hist EXCEPT ![o] = h] /\ items' = Kept(hist', [items EXCEPT ![m] = x])
  BY DEF CommitAppend
<1>5. x \in Published(c, CurrentItems(o)) /\ x \in [Id -> Tombstone]
  <2>1. x \in Published(c, CurrentItems(o))
    BY DEF Published
  <2> HIDE DEF x
  <2> QED BY <2>1, PublishedItems
<1> HIDE DEF new, m, n, x
<1>6. /\ full \in Seq(Snapshot) /\ Len(full) = n + 1 /\ full # <<>>
      /\ \A j \in 1..n : full[j] = hist[o][j]
      /\ full[n + 1] = new
  BY <1>1, <1>3, AppendProperties DEF n
<1> HIDE DEF full
<1>7. d \in {0, 1} /\ d <= n /\ n + 1 - d \in Nat /\ n + 1 - d <= History
  BY <1>1
<1>8. h \in Seq(Snapshot) /\ Len(h) = n + 1 - d /\ \A j \in 1..(n + 1 - d) : h[j] = full[j + d]
  <2>1. CASE n + 1 > History
    <3>1. h = Tail(full) /\ d = 1
      BY <1>6, <2>1 DEF Truncated
    <3> QED BY <1>1, <1>6, <3>1, HeadTailProperties
  <2>2. CASE ~(n + 1 > History)
    <3>1. h = full /\ d = 0
      BY <1>6, <2>2 DEF Truncated
    <3> QED BY <1>1, <1>6, <3>1
  <2> QED BY <2>1, <2>2
<1>9. (d = 1 => n = History) /\ (d = 0 => n < History)
  BY <1>1
<1> HIDE DEF h, d
<1>10. h[n + 1 - d] = new /\ \A j \in 1..(n - d) : h[j] = hist[o][j + d] /\ j + d \in 1..n
  <2>1. h[n + 1 - d] = new
    BY <1>1, <1>6, <1>7, <1>8
  <2>2. \A j \in 1..(n - d) : j \in 1..(n + 1 - d) /\ j + d \in 1..n
    BY <1>1, <1>7
  <2> QED BY <1>6, <1>8, <2>1, <2>2
<1>11. hist'[o] = h /\ hist' \in [Obj -> Seq(Snapshot)] /\ \A p \in Obj : p # o => hist'[p] = hist[p]
  BY <1>4, <1>8 DEF Types
<1>12. DOMAIN h = 1..(n + 1 - d) /\ h # <<>> /\ Last(h) = new /\ h[Len(h)] = new
  <2>1. n + 1 - d # 0
    BY <1>1, <1>7
  <2> QED BY <1>8, <1>10, <2>1, LenProperties, EmptySeq DEF Last
<1>13. /\ items'[m] = x
       /\ \A p \in Obj : \A k \in DOMAIN hist'[p] : hist'[p][k].map \in MapId /\ hist'[p][k].map # m
                            => items'[hist'[p][k].map] = items[hist'[p][k].map]
  <2>1. n + 1 - d \in DOMAIN hist'[o] /\ hist'[o][n + 1 - d].map = m
    BY <1>1, <1>3, <1>7, <1>10, <1>11, <1>12
  <2>2. \E p \in Obj : \E k \in DOMAIN hist'[p] : hist'[p][k].map = m
    BY <2>1
  <2>3. items'[m] = x
    BY <1>2, <1>4, <2>2 DEF Kept, Types
  <2>4. \A p \in Obj : \A k \in DOMAIN hist'[p] : hist'[p][k].map \in MapId /\ hist'[p][k].map # m
                            => items'[hist'[p][k].map] = items[hist'[p][k].map]
    BY <1>4 DEF Kept, Types
  <2> QED BY <2>3, <2>4
<1>14. \A j \in 1..n : hist[o][j].map \in MapId /\ hist[o][j].map # m
  BY <1>2, HistoryIs DEF n
<1>15. \A p \in Obj : \A k \in DOMAIN hist[p] : p # o => items'[hist[p][k].map] = items[hist[p][k].map]
  <2> SUFFICES ASSUME NEW p \in Obj, NEW k \in DOMAIN hist[p], p # o
               PROVE  items'[hist[p][k].map] = items[hist[p][k].map]
    OBVIOUS
  <2>1. hist'[p] = hist[p] /\ hist[p][k].map \in MapId /\ hist[p][k].map # m
    BY <1>2, <1>11, HistoryIs
  <2> QED BY <1>13, <2>1
<1>16. \A j \in 1..(n - d) : items'[hist[o][j + d].map] = items[hist[o][j + d].map]
  <2> SUFFICES ASSUME NEW j \in 1..(n - d) PROVE items'[hist[o][j + d].map] = items[hist[o][j + d].map]
    OBVIOUS
  <2>1. j \in DOMAIN hist'[o] /\ hist'[o][j] = hist[o][j + d]
    BY <1>1, <1>7, <1>10, <1>11, <1>12
  <2>2. hist[o][j + d].map \in MapId /\ hist[o][j + d].map # m
    BY <1>10, <1>14
  <2> QED BY <1>13, <2>1, <2>2
<1>17. items' \in [MapId -> [Id -> Tombstone]]
  <2>1. NoItems \in [Id -> Tombstone]
    BY DEF NoItems, Tombstone
  <2>2. [items EXCEPT ![m] = x] \in [MapId -> [Id -> Tombstone]]
    BY <1>5 DEF Types
  <2> QED BY <1>4, <2>1, <2>2 DEF Kept
<1>18. CurrentItems(o)' = x
  BY <1>3, <1>11, <1>12, <1>13 DEF CurrentItems
<1>19. RegistryOK'
  <2>0. \A j \in 1..Len(h) : (j = n + 1 - d /\ h[j] = new) \/ (j \in 1..(n - d) /\ h[j] = hist[o][j + d] /\ j + d \in 1..n)
    BY <1>1, <1>7, <1>8, <1>10
  <2>1. \A p \in Obj : Len(hist'[p]) <= History
    BY <1>7, <1>8, <1>11 DEF RegistryOK
  <2>2. \A p \in Obj : \A j \in 1..Len(hist'[p]) : hist'[p][j].seqNo <= seqNo'[p] /\ hist'[p][j].copies <= copies'[p]
    <3> SUFFICES ASSUME NEW p \in Obj, NEW j \in 1..Len(hist'[p])
                 PROVE  hist'[p][j].seqNo <= seqNo[p] /\ hist'[p][j].copies <= copies[p]
      OBVIOUS
    <3>1. CASE p # o
      BY <1>11, <3>1 DEF RegistryOK
    <3>2. CASE p = o
      <4>1. CASE h[j] = new
        BY <1>1, <1>3, <1>11, <3>2, <4>1
      <4>2. CASE h[j] = hist[o][j + d] /\ j + d \in 1..n
        BY <1>11, <3>2, <4>2 DEF RegistryOK, n
      <4> QED BY <1>11, <2>0, <3>2, <4>1, <4>2
    <3> QED BY <3>1, <3>2
  <2>3. \A p \in Obj : \A j, k \in 1..Len(hist'[p]) : hist'[p][j].map = hist'[p][k].map => j = k
    <3> SUFFICES ASSUME NEW p \in Obj, NEW j \in 1..Len(hist'[p]), NEW k \in 1..Len(hist'[p]),
                        hist'[p][j].map = hist'[p][k].map
                 PROVE  j = k
      OBVIOUS
    <3>1. CASE p # o
      BY <1>11, <3>1 DEF RegistryOK
    <3>2. CASE p = o
      <4>1. j \in 1..Len(h) /\ k \in 1..Len(h) /\ h[j].map = h[k].map
        BY <1>11, <3>2
      <4>2. CASE j = n + 1 - d \/ k = n + 1 - d
        BY <1>3, <1>10, <1>14, <2>0, <4>1, <4>2
      <4>3. CASE j # n + 1 - d /\ k # n + 1 - d
        <5>1. hist[o][j + d].map = hist[o][k + d].map /\ j + d \in 1..n /\ k + d \in 1..n
          BY <2>0, <4>1, <4>3
        <5>2. j + d = k + d
          BY <5>1 DEF RegistryOK, n
        <5> QED BY <1>7, <1>8, <4>1, <5>2
      <4> QED BY <4>2, <4>3
    <3> QED BY <3>1, <3>2
  <2>4. \A p, r \in Obj : \A j \in 1..Len(hist'[p]), k \in 1..Len(hist'[r]) :
           p # r /\ hist'[p][j].map = hist'[r][k].map => hist'[p][j].shared
    <3> SUFFICES ASSUME NEW p \in Obj, NEW r \in Obj, NEW j \in 1..Len(hist'[p]), NEW k \in 1..Len(hist'[r]),
                        p # r, hist'[p][j].map = hist'[r][k].map
                 PROVE  hist'[p][j].shared
      OBVIOUS
    <3>1. CASE p # o /\ r # o
      BY <1>11, <3>1 DEF RegistryOK
    <3>2. CASE p = o
      <4>1. j \in 1..Len(h) /\ hist'[p][j] = h[j] /\ hist'[r] = hist[r]
        BY <1>11, <3>2
      <4>2. h[j] # new
        BY <1>2, <1>3, <4>1
      <4>3. h[j] = hist[o][j + d] /\ j + d \in 1..n
        BY <2>0, <4>1, <4>2
      <4> QED BY <3>2, <4>1, <4>3 DEF RegistryOK, n
    <3>3. CASE r = o
      <4>1. k \in 1..Len(h) /\ hist'[r][k] = h[k] /\ hist'[p] = hist[p]
        BY <1>11, <3>3
      <4>2. h[k] # new
        BY <1>2, <1>3, <4>1
      <4>3. h[k] = hist[o][k + d] /\ k + d \in 1..n
        BY <2>0, <4>1, <4>2
      <4> QED BY <3>3, <4>1, <4>3 DEF RegistryOK, n
    <3> QED BY <3>1, <3>2, <3>3
  <2> QED BY <2>1, <2>2, <2>3, <2>4 DEF RegistryOK
<1>20. ASSUME NEW s \in Int, s < seqNo[o]
       PROVE  \/ AsOf(o, s)' = AsOf(o, s) /\ (Evicted(o, s) => Evicted(o, s)')
              \/ AsOf(o, s)' = NoItems /\ Evicted(o, s)'
  <2>1. NotNewer(o, s) = {j \in 1..n : hist[o][j].seqNo <= s}
    BY <1>1 DEF NotNewer
  <2>2. NotNewer(o, s)' = {j \in 1..(n + 1 - d) : h[j].seqNo <= s}
    BY <1>11, <1>12 DEF NotNewer
  <2>3. NotNewer(o, s)' = {j \in 1..(n - d) : j + d \in NotNewer(o, s)}
    <3>1. ~(h[n + 1 - d].seqNo <= s)
      BY <1>1, <1>3, <1>10, <1>20
    <3>2. \A j \in 1..(n + 1 - d) : j \in NotNewer(o, s)' => j \in 1..(n - d) /\ j + d \in NotNewer(o, s)
      BY <1>1, <1>7, <1>10, <2>1, <2>2, <3>1
    <3>3. \A j \in 1..(n - d) : j + d \in NotNewer(o, s) => j \in NotNewer(o, s)'
      BY <1>1, <1>7, <1>10, <2>1, <2>2
    <3> QED BY <2>2, <3>2, <3>3
  <2>4. CASE NotNewer(o, s)' = {}
    <3>1. AsOf(o, s)' = NoItems
      BY <2>4 DEF AsOf
    <3>2. CASE NotNewer(o, s) = {}
      <4>1. AsOf(o, s) = NoItems
        BY <3>2 DEF AsOf
      <4>2. Evicted(o, s) => Evicted(o, s)'
        <5>1. Evicted(o, s) => n = History
          BY DEF Evicted, n
        <5>2. n = History => Len(h) = History
          BY <1>1, <1>7, <1>8, <1>9
        <5> QED BY <1>11, <2>4, <5>1, <5>2 DEF Evicted
      <4> QED BY <3>1, <4>1, <4>2
    <3>3. CASE NotNewer(o, s) # {}
      <4>1. PICK j \in NotNewer(o, s) : TRUE
        BY <3>3
      <4>2. d = 1
        <5> SUFFICES ASSUME d = 0 PROVE FALSE
          BY <1>7
        <5>1. j \in 1..(n - d) /\ j + d = j
          BY <1>1, <2>1, <4>1
        <5> QED BY <2>3, <2>4, <4>1, <5>1
      <4>3. Len(h) = History
        BY <1>1, <1>8, <1>9, <4>2
      <4> QED BY <1>11, <2>4, <3>1, <4>3 DEF Evicted
    <3> QED BY <3>2, <3>3
  <2>5. CASE NotNewer(o, s)' # {}
    <3> DEFINE k == SnapshotAt(o, s)
    <3>0. PICK y \in NotNewer(o, s)' : TRUE
      BY <2>5
    <3>1. y + d \in NotNewer(o, s) /\ y \in 1..(n - d)
      BY <2>3, <3>0
    <3>2. k \in NotNewer(o, s) /\ \A j \in NotNewer(o, s) : j <= k
      BY <3>1, SnapshotFound
    <3> HIDE DEF k
    <3>3. k \in 1..n /\ y + d <= k
      BY <2>1, <3>1, <3>2
    <3>4. k - d \in 1..(n - d) /\ (k - d) + d = k
      BY <1>1, <1>7, <3>1, <3>3
    <3>5. k - d \in NotNewer(o, s)'
      BY <2>3, <3>2, <3>4
    <3>6. \A j \in NotNewer(o, s)' : j <= k - d
      <4> SUFFICES ASSUME NEW j \in NotNewer(o, s)' PROVE j <= k - d
        OBVIOUS
      <4>1. j + d <= k /\ j \in 1..(n - d)
        BY <2>3, <3>2
      <4> QED BY <1>1, <1>7, <3>3, <4>1
    <3>7. \A j \in NotNewer(o, s)' : (\A z \in NotNewer(o, s)' : z <= j) => j = k - d
      <4> SUFFICES ASSUME NEW j \in NotNewer(o, s)', \A z \in NotNewer(o, s)' : z <= j PROVE j = k - d
        OBVIOUS
      <4>1. k - d <= j /\ j <= k - d
        BY <3>5, <3>6
      <4>2. j \in Int /\ k - d \in Int
        BY <2>3, <3>4
      <4> QED BY <4>1, <4>2
    <3>8. SnapshotAt(o, s)' = k - d
      BY <3>5, <3>6, <3>7 DEF SnapshotAt
    <3>9. AsOf(o, s)' = items'[h[k - d].map]
      BY <1>11, <2>5, <3>8 DEF AsOf
    <3>10. h[k - d] = hist[o][k] /\ items'[hist[o][k].map] = items[hist[o][k].map]
      BY <1>10, <1>16, <3>4
    <3>11. AsOf(o, s) = items[hist[o][k].map]
      BY <3>1 DEF AsOf, k
    <3>12. ~Evicted(o, s)
      BY <3>1 DEF Evicted
    <3> QED BY <3>9, <3>10, <3>11, <3>12
  <2> QED BY <2>4, <2>5
<1> QED BY <1>3, <1>5, <1>11, <1>12, <1>15, <1>17, <1>18, <1>19, <1>20 DEF Committed

LEMMA CommitTomb == 
    ASSUME TombInv, NEW c \in Cluster, NEW o \in Obj, cur[c] = o, Commit(c)
    PROVE  TombInv'
<1> USE DEF TombInv
<1>0. /\ pc[c] = "ops"
      /\ IF ~Publishes(c) THEN UNCHANGED <<hist, items>>
         ELSE IF Mutable(o) THEN CommitInPlace(c) ELSE CommitAppend(c)
      /\ pc' = [pc EXCEPT ![c] = "idle"] /\ before' = [before EXCEPT ![c] = Nil]
      /\ txNow' = [txNow EXCEPT ![c] = 0] /\ pending' = [pending EXCEPT ![c] = NoItems]
      /\ removed' = [removed EXCEPT ![c] = {}]
      /\ UNCHANGED <<cur, docs, seqNo, copies, seen, now, truth, bypassed>>
  BY DEF Commit, Return, objVars, history
<1>a. \A x \in Cluster : x # c => cur[x] # o
  BY <1>0 DEF RequestsOK
<1>b. \A x \in Cluster : x # c => /\ pc'[x] = pc[x] /\ before'[x] = before[x] /\ txNow'[x] = txNow[x]
                               /\ pending'[x] = pending[x] /\ removed'[x] = removed[x]
  BY <1>0 DEF Types
<1>c. /\ pc'[c] = "idle" /\ before'[c] = Nil /\ txNow'[c] = 0 /\ pending'[c] = NoItems /\ removed'[c] = {}
  BY <1>0 DEF Types
<1>n. NoItems \in [Id -> Tombstone]
  BY DEF NoItems, Tombstone
<1>p. Publishes(c) => pending[c] # NoItems \/ removed[c] # {}
  BY DEF Publishes
<1>d. Publishes(c) => Committed(c, o)
  <2>1. UNCHANGED <<seqNo, copies>>
    BY <1>0
  <2> QED BY <1>0, <2>1, InPlace, Appended
<1>h. /\ hist' \in [Obj -> Seq(Snapshot)] /\ items' \in [MapId -> [Id -> Tombstone]] /\ RegistryOK'
      /\ \A p \in Obj : p # o => hist'[p] = hist[p]
  <2>1. CASE Publishes(c)
    BY <1>d, <2>1 DEF Committed
  <2>2. CASE ~Publishes(c)
    BY <1>0, <2>2 DEF RegistryOK, Types
  <2> QED BY <2>1, <2>2
<1>i. \A p \in Obj : p # o => /\ CurrentItems(p)' = CurrentItems(p)
                            /\ \A s \in Int : AsOf(p, s)' = AsOf(p, s) /\ Evicted(p, s)' = Evicted(p, s)
  <2> SUFFICES ASSUME NEW p \in Obj, p # o
               PROVE  /\ CurrentItems(p)' = CurrentItems(p)
                      /\ \A s \in Int : AsOf(p, s)' = AsOf(p, s) /\ Evicted(p, s)' = Evicted(p, s)
    OBVIOUS
  <2>0. hist'[p] = hist[p]
    BY <1>h
  <2>1. \A k \in DOMAIN hist[p] : items'[hist[p][k].map] = items[hist[p][k].map]
    BY <1>0, <1>d DEF Committed
  <2>2. hist[p] # <<>> => Len(hist[p]) \in DOMAIN hist[p] /\ Last(hist[p]) = hist[p][Len(hist[p])]
    BY HistoryIs
  <2>3. CurrentItems(p)' = CurrentItems(p)
    BY <2>0, <2>1, <2>2 DEF CurrentItems
  <2>4. \A s \in Int : AsOf(p, s)' = AsOf(p, s) /\ NotNewer(p, s)' = NotNewer(p, s)
    BY <2>0, <2>1, SameSnapshots
  <2> QED BY <2>0, <2>3, <2>4 DEF Evicted
<1>j. /\ \A i \in Id : CurrentItems(o)'[i] \in {Nothing, truth[c][i]}
      /\ c \notin bypassed => \A i \in Id : CurrentItems(o)'[i] = Nothing => Expired(truth[c][i], txNow[c])
  <2>1. CASE Publishes(c)
    BY <1>0, <1>d, <2>1, PublishedItems DEF Committed
  <2>2. CASE ~Publishes(c)
    <3>1. CurrentItems(o)' = CurrentItems(o)
      BY <1>0, <2>2, SameItems
    <3>2. pending[c] = NoItems /\ \A i \in removed[c] : CurrentItems(o)[i] = Nothing
      BY <2>2 DEF Publishes
    <3>3. \A i \in Id : Untouched(c, i) \/ (i \in removed[c] /\ truth[c][i] = Nothing)
      BY <3>2 DEF Untouched, NothingInvented, NoItems
    <3>4. \A i \in Id : CurrentItems(o)[i] \in {Nothing, truth[c][i]}
      BY <3>2, <3>3 DEF NothingInvented
    <3>5. c \notin bypassed => \A i \in Id : CurrentItems(o)[i] = Nothing => Expired(truth[c][i], txNow[c])
      <4>1. c \notin bypassed => \A i \in Id : Untouched(c, i) /\ CurrentItems(o)[i] = Nothing
                                                => Expired(truth[c][i], txNow[c])
        BY <1>0 DEF NothingForgotten, Time
      <4> QED BY <3>3, <4>1 DEF Expired
    <3> QED BY <3>1, <3>4, <3>5
  <2> QED BY <2>1, <2>2
<1>k. ASSUME NEW x \in Cluster, NEW s \in Int, InheritsFrom(x, o, s), Left(x, o, s)
      PROVE  /\ \/ AsOf(o, s)' = AsOf(o, s) /\ (Evicted(o, s) => Evicted(o, s)')
                \/ AsOf(o, s)' = NoItems /\ Evicted(o, s)'
             /\ Mutable(o)' => hist'[o][Len(hist'[o])].seqNo > s
  <2>1. CASE Publishes(c)
    <3>1. s < seqNo[o] /\ seqNo[o] \in Int
      BY <1>0, <1>k, <1>p, <2>1 DEF Left, Types
    <3>2. Mutable(o) => Last(hist[o]).seqNo > s
      BY <1>k, HistoryIs DEF Left
    <3>3. hist'[o][Len(hist'[o])].seqNo = seqNo[o]
      BY <1>d, <2>1 DEF Committed
    <3>4. hist'[o][Len(hist'[o])].seqNo > s
      BY <3>1, <3>3
    <3> QED BY <1>d, <2>1, <3>1, <3>2, <3>4 DEF Committed
  <2>2. CASE ~Publishes(c)
    <3>1. UNCHANGED <<hist, items, copies>>
      BY <1>0, <2>2
    <3> QED BY <1>k, <3>1, SameItems DEF Left, Mutable
  <2> QED BY <2>1, <2>2
<1>1. Types'
  BY <1>0, <1>h, <1>n, Bounds DEF Types, Step
<1>2. RegistryOK'
  BY <1>h
<1>3. RequestsOK'
  <2> SUFFICES ASSUME NEW x \in Cluster
               PROVE  /\ cur'[x] = Nil => pc'[x] = "idle" /\ seen'[x] = Nil
                      /\ pc'[x] = "copy" => before'[x] = cur'[x]
                      /\ pc'[x] = "inherit" => before'[x] # Nil /\ before'[x] # cur'[x] /\ hist'[cur'[x]] = <<>>
                      /\ pc'[x] \notin {"copy", "inherit"} => before'[x] = Nil
                      /\ pc'[x] # "ops" => pending'[x] = NoItems /\ removed'[x] = {}
                      /\ pc'[x] = "ops" => seen'[x] = cur'[x]
                      /\ pc'[x] \in {"inherit", "note", "ops"} => \A d \in Cluster : cur'[d] = cur'[x] => d = x
                      /\ txNow'[x] <= now'
                      /\ pc'[x] \in {"copy", "indexCopy"} =>
                            \A p \in Obj : cur'[x] = p /\ hist'[p] # <<>> => hist'[p][Len(hist'[p])].copies < copies'[p]
    BY DEF RequestsOK
  <2>1. CASE x # c
    <3>1. cur[x] \in Obj => hist'[cur[x]] = hist[cur[x]]
      BY <1>a, <1>h, <2>1
    <3>2. pc[x] = "inherit" => cur[x] \in Obj
      BY DEF RequestsOK, Types
    <3> QED BY <1>0, <1>b, <2>1, <3>1, <3>2 DEF RequestsOK
  <2>2. CASE x = c
    <3>1. cur[c] # Nil /\ now \in Nat
      BY NilAssumption, Bounds DEF Types
    <3> QED BY <1>0, <1>c, <2>2, <3>1
  <2> QED BY <2>1, <2>2
<1>4. SameTruth'
  BY <1>0 DEF SameTruth, RequestsOK, Types
<1>5. LeftBehind'
  <2> SUFFICES ASSUME NEW x \in Cluster, NEW p \in Obj, NEW s \in Int, InheritsFrom(x, p, s)'
               PROVE  Left(x, p, s)'
    BY DEF LeftBehind
  <2>1. InheritsFrom(x, p, s)
    <3>1. x = c => cur[c] # p /\ seen[c] = p
      BY <1>0, <1>c DEF InheritsFrom
    <3> QED BY <1>0, <1>b, <3>1 DEF InheritsFrom
  <2>2. Left(x, p, s)
    BY <2>1 DEF LeftBehind
  <2>3. \A d \in Cluster : cur'[d] = p =>
           /\ pending'[d] # NoItems \/ removed'[d] # {} => seqNo'[p] > s
           /\ seqNo'[p] = s => truth'[d] = truth[x]
    BY <1>0, <1>b, <1>c, <2>2 DEF Left
  <2>4. CASE p # o
    <3>1. Mutable(p)' => Mutable(p) /\ hist'[p] = hist[p]
      BY <1>0, <1>h, <2>4 DEF Mutable
    <3> QED BY <1>0, <1>h, <1>i, <2>2, <2>3, <2>4, <3>1 DEF Left
  <2>5. CASE p = o
    <3>1. \A i \in Id : AsOf(p, s)'[i] \in {Nothing, truth[x][i]}
      BY <1>k, <2>1, <2>2, <2>5 DEF Left, NoItems
    <3>2. Mutable(p)' => hist'[p][Len(hist'[p])].seqNo > s
      BY <1>k, <2>1, <2>2, <2>5
    <3> QED BY <1>0, <2>2, <2>3, <3>1, <3>2 DEF Left
  <2> QED BY <2>4, <2>5
<1>6. NothingInvented'
  <2> SUFFICES ASSUME NEW x \in Cluster, NEW p \in Obj, NEW j \in Id, cur[x] = p
               PROVE  /\ j \in removed'[x] => pending'[x][j] = Nothing /\ truth[x][j] = Nothing
                      /\ pending'[x][j] # Nothing => truth[x][j] = pending'[x][j]
                      /\ Untouched(x, j)' => CurrentItems(p)'[j] \in {Nothing, truth[x][j]}
    BY <1>0 DEF NothingInvented
  <2>1. CASE x # c
    BY <1>a, <1>b, <1>i, <2>1 DEF NothingInvented, Untouched
  <2>2. CASE x = c
    BY <1>c, <1>j, <2>2 DEF NoItems
  <2> QED BY <2>1, <2>2
<1>7. NothingForgotten'
  <2> SUFFICES ASSUME NEW x \in Cluster \ bypassed, NEW p \in Obj, cur[x] = p
               PROVE  IF pc'[x] = "inherit"
                      THEN \A r \in Obj, s \in Int : before'[x] = r /\ seqNo[p] = s =>
                              \/ Evicted(r, s)'
                              \/ \A j \in Id : AsOf(r, s)'[j] = Nothing => Expired(truth[x][j], txNow'[x])
                      ELSE \A j \in Id : Untouched(x, j)' /\ CurrentItems(p)'[j] = Nothing
                                             => Expired(truth[x][j], Time(x)')
    BY <1>0 DEF NothingForgotten
  <2>1. CASE x # c /\ pc[x] # "inherit"
    <3>1. Time(x)' = Time(x) /\ \A j \in Id : Untouched(x, j)' = Untouched(x, j)
      BY <1>0, <1>b, <2>1 DEF Time, Untouched
    <3> QED BY <1>a, <1>b, <1>i, <2>1, <3>1 DEF NothingForgotten
  <2>2. CASE x # c /\ pc[x] = "inherit"
    <3> SUFFICES ASSUME NEW r \in Obj, NEW s \in Int, before[x] = r, seqNo[p] = s
                 PROVE  \/ Evicted(r, s)'
                        \/ \A j \in Id : AsOf(r, s)'[j] = Nothing => Expired(truth[x][j], txNow[x])
      BY <1>b, <2>2
    <3>1. \/ Evicted(r, s)
          \/ \A j \in Id : AsOf(r, s)[j] = Nothing => Expired(truth[x][j], txNow[x])
      BY <2>2 DEF NothingForgotten
    <3>2. CASE r # o
      BY <1>i, <3>1, <3>2
    <3>3. CASE r = o
      <4>1. InheritsFrom(x, o, s) /\ Left(x, o, s)
        BY <2>2, <3>3, NilAssumption DEF InheritsFrom, LeftBehind
      <4> QED BY <1>k, <3>1, <3>3, <4>1
    <3> QED BY <3>2, <3>3
  <2>3. CASE x = c
    <3> SUFFICES ASSUME NEW j \in Id, CurrentItems(o)'[j] = Nothing
                 PROVE  Expired(truth[c][j], now)
      BY <1>0, <1>c, <2>3 DEF Time
    <3>1. Expired(truth[c][j], txNow[c])
      BY <1>j, <2>3
    <3>2. txNow[c] \in Nat /\ now \in Nat /\ txNow[c] <= now
      BY Bounds DEF Types, RequestsOK
    <3> QED BY <3>1, <3>2, ExpiredLater DEF Types
  <2> QED BY <2>1, <2>2, <2>3
<1> QED BY <1>1, <1>2, <1>3, <1>4, <1>5, <1>6, <1>7

-----------------------------------------------------------------------------
(* Theorems. *)

LEMMA NextTomb == TombInv /\ [Next]_vars => TombInv'
<1> SUFFICES ASSUME TombInv, [Next]_vars PROVE TombInv'
  OBVIOUS
<1>1. CASE UNCHANGED vars
  <2>1. UNCHANGED <<cur, docs, seqNo, copies, hist, items, seen, now, pc, before, txNow, pending,
                    removed, truth, bypassed>>
    BY <1>1 DEF vars, objVars, regVars, txVars, history
  <2>2. Types' /\ RegistryOK' /\ RequestsOK' /\ SameTruth'
    BY <2>1 DEF TombInv, Types, RegistryOK, RequestsOK, SameTruth
  <2>3. LeftBehind'
    BY <2>1, SameItems DEF TombInv, LeftBehind, InheritsFrom, Left, Mutable
  <2>4. NothingInvented'
    BY <2>1, SameItems DEF TombInv, NothingInvented, Untouched
  <2>5. NothingForgotten'
    BY <2>1, SameItems DEF TombInv, NothingForgotten, Untouched, Time
  <2> QED BY <2>2, <2>3, <2>4, <2>5 DEF TombInv
<1>2. CASE \E o \in Obj : Collect(o)
  BY <1>2, CollectTomb
<1>3. CASE Tick
  BY <1>3, TickTomb
<1>4. CASE \E c, d \in Cluster : Clone(c, d)
  BY <1>4, CloneTomb
<1>5. ASSUME NEW c \in Cluster,
             \/ BeginOwned(c) \/ BeginShared(c) \/ AbortCopy(c) \/ Blocked(c)
             \/ StartIndexCopy(c) \/ Close(c)
      PROVE  TombInv'
  BY <1>5, BeginOwnedTomb, BeginSharedTomb, AbortCopyTomb, BlockedTomb, StartIndexCopyTomb, CloseTomb
<1>6. ASSUME NEW c \in Cluster, Inherit(c) \/ Note(c) \/ Commit(c)
      PROVE  TombInv'
  <2>1. pc[c] # "idle"
    BY <1>6 DEF Inherit, Note, Commit
  <2>2. cur[c] \in Obj
    BY <2>1 DEF TombInv, RequestsOK, Types
  <2> QED BY <1>6, <2>2, InheritTomb, NoteTomb, CommitTomb
<1>7. ASSUME NEW c \in Cluster, NEW n \in Obj,
             Install(c, n) \/ InstallIndexCopy(c, n) \/ PutMapping(c, n) \/ OpenIndex(c, n)
      PROVE  TombInv'
  <2>1. cur[c] \in Obj \cup {Nil}
    BY DEF TombInv, Types
  <2> QED BY <1>7, <2>1, InstallTomb, InstallIndexCopyTomb, PutMappingTomb, OpenIndexTomb
<1>8. ASSUME NEW c \in Cluster, NEW i \in Id, Put(c, i) \/ Delete(c, i)
      PROVE  TombInv'
  <2>1. pc[c] = "ops"
    BY <1>8 DEF Put, Delete
  <2>2. cur[c] \in Obj
    BY <2>1 DEF TombInv, RequestsOK, Types
  <2> QED BY <1>8, <2>2, PutTomb, DeleteTomb
<1> QED BY <1>1, <1>2, <1>3, <1>4, <1>5, <1>6, <1>7, <1>8 DEF Next

\* What a cluster has left behind, and what a slow copy may still inherit, agrees
\* with what the cluster knows: the inductive invariant of the tombstone registry.
THEOREM TombstonesInOrder == Spec => []TombInv
<1> QED BY InitTomb, NextTomb, PTL DEF Spec

\* A request plans its writes against exactly the deletions in the window that its
\* history has, unless a copy in it inherited nothing or came too late.
THEOREM DeletionsRemembered == Spec => []RemembersDeletions
<1>1. TombInv => RemembersDeletions
  <2> SUFFICES ASSUME TombInv, NEW c \in Cluster \ bypassed, NEW i \in Id, pc[c] = "ops"
               PROVE  Visible(c, i) = Expected(c, i)
    BY DEF RemembersDeletions
  <2>1. cur[c] \in Obj
    BY DEF TombInv, RequestsOK, Types
  <2>2. i \in removed[c] => pending[c][i] = Nothing /\ truth[c][i] = Nothing
    BY <2>1 DEF TombInv, NothingInvented
  <2>3. pending[c][i] # Nothing => truth[c][i] = pending[c][i]
    BY <2>1 DEF TombInv, NothingInvented
  <2>4. Untouched(c, i) => CurrentItems(cur[c])[i] \in {Nothing, truth[c][i]}
    BY <2>1 DEF TombInv, NothingInvented
  <2>5. Untouched(c, i) /\ CurrentItems(cur[c])[i] = Nothing => Expired(truth[c][i], txNow[c])
    BY <2>1 DEF TombInv, NothingForgotten, Time
  <2> QED BY <2>2, <2>3, <2>4, <2>5 DEF Visible, Expected, Untouched, Expired
<1> QED BY <1>1, TombstonesInOrder, PTL

\* Nor against a deletion that its history does not have.
THEOREM NothingIsInvented == Spec => []InventsNoDeletion
<1>1. TombInv => InventsNoDeletion
  <2> SUFFICES ASSUME TombInv, NEW c \in Cluster, NEW i \in Id, pc[c] = "ops"
               PROVE  Visible(c, i) \in {Nothing, Expected(c, i)}
    BY DEF InventsNoDeletion
  <2>1. cur[c] \in Obj
    BY DEF TombInv, RequestsOK, Types
  <2>2. i \in removed[c] => pending[c][i] = Nothing /\ truth[c][i] = Nothing
    BY <2>1 DEF TombInv, NothingInvented
  <2>3. pending[c][i] # Nothing => truth[c][i] = pending[c][i]
    BY <2>1 DEF TombInv, NothingInvented
  <2>4. Untouched(c, i) => CurrentItems(cur[c])[i] \in {Nothing, truth[c][i]}
    BY <2>1 DEF TombInv, NothingInvented
  <2> QED BY <2>2, <2>3, <2>4 DEF Visible, Expected, Untouched, Expired
<1> QED BY <1>1, TombstonesInOrder, PTL

\* Only o refers to m.
OnlyReferrer(o, m) == {p \in Obj : \E k \in DOMAIN hist[p] : hist[p][k].map = m} \subseteq {o}

LEMMA ChangedMapIsPrivate ==
    ASSUME TombInv, Next, NEW m \in MapId, items'[m] # items[m]
    PROVE  \E o \in Obj : OnlyReferrer(o, m)
<1> USE DEF TombInv
<1>1. CASE UNCHANGED items
  BY <1>1
<1>2. ASSUME NEW o \in Obj, Collect(o)
      PROVE  OnlyReferrer(o, m)
  <2>1. \A p \in Obj : p # o => hist'[p] = hist[p]
    BY <1>2 DEF Collect, Types
  <2>2. ~\E p \in Obj : \E k \in DOMAIN hist'[p] : hist'[p][k].map = m
    BY <1>2 DEF Collect, Kept
  <2> QED BY <2>1, <2>2 DEF OnlyReferrer
<1>3. ASSUME NEW c \in Cluster, NEW o \in Obj, cur[c] = o, Commit(c)
      PROVE  OnlyReferrer(o, m)
  <2>1. CASE ~Publishes(c)
    BY <1>3, <2>1 DEF Commit
  <2>2. CASE Publishes(c) /\ Mutable(o)
    <3>1. m = Last(hist[o]).map
      BY <1>3, <2>2 DEF Commit, CommitInPlace, Types
    <3>2. Len(hist[o]) \in 1..Len(hist[o]) /\ hist[o][Len(hist[o])].map = m /\ ~hist[o][Len(hist[o])].shared
      BY <2>2, <3>1, NewestSnapshot DEF Mutable
    <3>3. \A p \in Obj : p # o => \A k \in 1..Len(hist[p]) : hist[p][k].map # m
      BY <3>2 DEF RegistryOK
    <3> QED BY <3>3, HistoryIs DEF OnlyReferrer
  <2>3. CASE Publishes(c) /\ ~Mutable(o)
    <3>1. CommitAppend(c)
      BY <1>3, <2>3 DEF Commit
    <3>2. Unused # {}
      BY <3>1 DEF CommitAppend
    <3>3. CASE m = FreshMap
      <4>1. ~InUse(m)
        BY <3>2, <3>3, FreshMapIsUnused DEF Unused
      <4> QED BY <4>1 DEF InUse, OnlyReferrer
    <3>4. CASE m # FreshMap
      <4>1. ~\E p \in Obj : \E k \in DOMAIN hist'[p] : hist'[p][k].map = m
        BY <3>1, <3>4 DEF CommitAppend, Kept, Types
      <4>2. \A p \in Obj : p # o => hist'[p] = hist[p]
        BY <1>3, <3>1 DEF CommitAppend, Types
      <4> QED BY <4>1, <4>2 DEF OnlyReferrer
    <3> QED BY <3>3, <3>4
  <2> QED BY <2>1, <2>2, <2>3
<1>4. ASSUME NEW c \in Cluster, Commit(c)
      PROVE  \E o \in Obj : OnlyReferrer(o, m)
  <2>1. cur[c] \in Obj
    BY <1>4 DEF Commit, RequestsOK, Types
  <2> QED BY <1>3, <1>4, <2>1
<1>5. ASSUME NEW c \in Cluster,
             \/ BeginOwned(c) \/ BeginShared(c) \/ AbortCopy(c) \/ Blocked(c) \/ Inherit(c)
             \/ Note(c) \/ StartIndexCopy(c) \/ Close(c)
      PROVE  UNCHANGED items
  BY <1>5 DEF BeginOwned, BeginShared, AbortCopy, Blocked, Inherit, Note, StartIndexCopy, Close, regVars
<1>6. ASSUME NEW c \in Cluster, NEW n \in Obj,
             Install(c, n) \/ InstallIndexCopy(c, n) \/ PutMapping(c, n) \/ OpenIndex(c, n)
      PROVE  UNCHANGED items
  BY <1>6 DEF Install, InstallIndexCopy, PutMapping, OpenIndex, Rebuild, regVars
<1>7. ASSUME NEW c \in Cluster, NEW i \in Id, Put(c, i) \/ Delete(c, i)
      PROVE  UNCHANGED items
  BY <1>7 DEF Put, Delete, regVars
<1>8. CASE Tick
  BY <1>1, <1>8 DEF Tick, regVars
<1>9. CASE \E c, d \in Cluster : Clone(c, d)
  BY <1>1, <1>9 DEF Clone, regVars
<1> QED BY <1>1, <1>2, <1>4, <1>5, <1>6, <1>7, <1>8, <1>9 DEF Next

\* An items map that two Indexes refer to does not change: what one cluster commits
\* is not seen through the snapshots of another.
THEOREM SharedMapsAreFrozen == Spec => SharedMapsFrozen
<1> DEFINE Referrers(m) == {o \in Obj : \E k \in DOMAIN hist[o] : hist[o][k].map = m}
           Frozen == \A m \in MapId : items'[m] # items[m] => Cardinality(Referrers(m)) <= 1
<1>1. ASSUME TombInv, [Next]_vars PROVE [Frozen]_vars
  <2>1. SUFFICES ASSUME Next, NEW m \in MapId, items'[m] # items[m]
                 PROVE  Cardinality(Referrers(m)) <= 1
    BY <1>1
  <2>2. PICK o \in Obj : Referrers(m) \subseteq {o}
    BY <1>1, <2>1, ChangedMapIsPrivate DEF OnlyReferrer
  <2>3. Referrers(m) = {} \/ Referrers(m) = {o}
    BY <2>2
  <2>4. Cardinality({}) = 0 /\ Cardinality({o}) = 1
    BY FS_EmptySet, FS_Singleton
  <2>5. Cardinality(Referrers(m)) \in {0, 1}
    <3> HIDE DEF Referrers
    <3> QED BY <2>3, <2>4
  <2> QED BY <2>5
<1>2. [][Frozen]_vars => SharedMapsFrozen
  BY DEF SharedMapsFrozen
<1> QED BY <1>1, <1>2, TombstonesInOrder, PTL DEF Spec
=============================================================================
