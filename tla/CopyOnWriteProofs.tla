-------------------------- MODULE CopyOnWriteProofs --------------------------
(***************************************************************************)
(* Proofs about CopyOnWrite: the reference count of an Index counts its    *)
(* holders, an Index is closed exactly when it has none, and a writer is   *)
(* the only holder of what it writes; and therefore nobody can observe     *)
(* that objects are shared.  For any number of clusters, index names,      *)
(* points in time and searches.                                            *)
(***************************************************************************)
EXTENDS ScrollContexts, FiniteSetTheorems, TLAPS

-----------------------------------------------------------------------------
(* Counting. *)

\* A product of three finite sets is finite.
LEMMA FiniteTriples ==
    ASSUME NEW A, NEW B, NEW C, IsFiniteSet(A), IsFiniteSet(B), IsFiniteSet(C)
    PROVE  IsFiniteSet(A \X B \X C)
<1> DEFINE P == (A \X B) \X C
           f == [h \in P |-> <<h[1][1], h[1][2], h[2]>>]
<1>1. IsFiniteSet(P)
  BY FS_Product
<1>2. f \in [P -> A \X B \X C]
  OBVIOUS
<1>3. \A h \in A \X B \X C : \E g \in P : f[g] = h
  <2> TAKE h \in A \X B \X C
  <2>1. PICK a \in A, b \in B, c \in C : h = <<a, b, c>>
    OBVIOUS
  <2>2. <<<<a, b>>, c>> \in P /\ f[<<<<a, b>>, c>>] = h
    BY <2>1
  <2> QED BY <2>2
<1>4. f \in Surjection(P, A \X B \X C)
  BY <1>2, <1>3 DEF Surjection
<1> QED BY <1>1, <1>4, FS_Surjection

\* The slots of one row are as many as its names.
LEMMA RowCount ==
    ASSUME NEW t, NEW x, NEW R, IsFiniteSet(R)
    PROVE  /\ IsFiniteSet({t} \X {x} \X R)
           /\ Cardinality({t} \X {x} \X R) = Cardinality(R)
<1> DEFINE T == {t} \X {x} \X R
           f == [n \in R |-> <<t, x, n>>]
<1>1. f \in [R -> T]
  OBVIOUS
<1>2. \A a, b \in R : f[a] = f[b] => a = b
  OBVIOUS
<1>3. \A h \in T : \E n \in R : f[n] = h
  OBVIOUS
<1>4. f \in Bijection(R, T)
  BY <1>1, <1>2, <1>3 DEF Bijection, Injection, IsInjective, Surjection
<1>5. ExistsBijection(R, T)
  BY <1>4 DEF ExistsBijection
<1> QED BY <1>5, FS_Bijection

\* Putting elements into a finite set.
LEMMA CountAdd ==
    ASSUME NEW H, NEW B, IsFiniteSet(H), IsFiniteSet(B), H \cap B = {}
    PROVE  /\ IsFiniteSet(H \cup B)
           /\ Cardinality(H \cup B) = Cardinality(H) + Cardinality(B)
           /\ Cardinality(H \cup B) \in Nat
<1>1. /\ IsFiniteSet(H \cup B)
      /\ Cardinality(H \cup B) = Cardinality(H) + Cardinality(B) - Cardinality(H \cap B)
  BY FS_Union
<1>2. Cardinality(H \cap B) = 0
  BY FS_EmptySet
<1>3. Cardinality(H) \in Nat /\ Cardinality(B) \in Nat
  BY FS_CardinalityType
<1> QED BY <1>1, <1>2, <1>3

\* Taking elements out of a finite set.
LEMMA CountRemove ==
    ASSUME NEW H, NEW A, IsFiniteSet(H), A \subseteq H
    PROVE  /\ IsFiniteSet(H \ A)
           /\ Cardinality(H \ A) = Cardinality(H) - Cardinality(A)
           /\ Cardinality(H \ A) \in Nat /\ Cardinality(H) \in Nat /\ Cardinality(A) \in Nat
<1>1. H \cap A = A
  OBVIOUS
<1>2. IsFiniteSet(H \ A) /\ Cardinality(H \ A) = Cardinality(H) - Cardinality(H \cap A)
  BY FS_Difference
<1>3. Cardinality(H \cap A) = Cardinality(A)
  BY <1>1
<1>4. IsFiniteSet(A)
  BY FS_Subset
<1>5. Cardinality(H \ A) \in Nat /\ Cardinality(H) \in Nat /\ Cardinality(A) \in Nat
  BY <1>2, <1>4, FS_CardinalityType
<1> QED BY <1>2, <1>3, <1>5

\* An Index has finitely many holders, now and after a step.
LEMMA HoldersFinite ==
    ASSUME NEW o
    PROVE  IsFiniteSet(Holders(o)) /\ IsFiniteSet(Holders(o)')
<1> DEFINE U == ({"index"} \X Cluster \X Name) \cup ({"pit"} \X Pit \X Name)
                \cup ({"reader"} \X Reader \X Name) \cup ({"fresh"} \X Cluster \X {Nil})
<1>1. /\ IsFiniteSet({"index"}) /\ IsFiniteSet({"pit"}) /\ IsFiniteSet({"reader"})
      /\ IsFiniteSet({"fresh"}) /\ IsFiniteSet({Nil})
  BY FS_Singleton
<1>2. /\ IsFiniteSet({"index"} \X Cluster \X Name) /\ IsFiniteSet({"pit"} \X Pit \X Name)
      /\ IsFiniteSet({"reader"} \X Reader \X Name)
      /\ IsFiniteSet({"fresh"} \X Cluster \X {Nil})
  BY <1>1, FiniteTriples, FiniteParts
<1>3. IsFiniteSet(U)
  BY <1>2, FS_Union
<1>4. Holders(o) \subseteq U /\ Holders(o)' \subseteq U
  BY DEF Holders, IndexHolders, PitHolders, ReaderHolders, FreshHolders
<1> QED BY <1>3, <1>4, FS_Subset

\* A row has finitely many names.
LEMMA RowFinite ==
    ASSUME NEW row, NEW o
    PROVE  IsFiniteSet(Row(row, o)) /\ Cardinality(Row(row, o)) \in Nat
<1>1. Row(row, o) \in SUBSET Name
  BY DEF Row
<1> QED BY <1>1, FiniteParts, FS_Subset, FS_CardinalityType

-----------------------------------------------------------------------------
(* What taking and dropping the references of a row does to the counters.   *)

\* The slots through which the holder <<t, x>> refers to o by a row.
Slots(t, x, row, o) == {t} \X {x} \X Row(row, o)

\* refs.Add(1) for each target of a row that becomes a holder.
LEMMA RetainCounts ==
    ASSUME CountInv, NEW t, NEW x, NEW row, Retain(row), UNCHANGED closed,
           \A o \in Obj : Holders(o)' = Holders(o) \cup Slots(t, x, row, o),
           \A o \in Obj : Holders(o) \cap Slots(t, x, row, o) = {},
           \A o \in Obj : Row(row, o) # {} => Holders(o) # {}
    PROVE  /\ RefsCountHolders' /\ ClosedIffUnheld'
           /\ refs' \in [Obj -> Nat]
<1> SUFFICES ASSUME NEW o \in Obj
             PROVE  /\ refs'[o] = Cardinality(Holders(o)') /\ refs'[o] \in Nat
                    /\ closed'[o] <=> Holders(o)' = {}
  BY DEF RefsCountHolders, ClosedIffUnheld, Retain
<1>1. /\ IsFiniteSet(Slots(t, x, row, o))
      /\ Cardinality(Slots(t, x, row, o)) = Cardinality(Row(row, o))
  BY RowFinite, RowCount DEF Slots
<1>4. /\ Cardinality(Holders(o)') = Cardinality(Holders(o)) + Cardinality(Row(row, o))
      /\ Cardinality(Holders(o)') \in Nat
  <2> DEFINE H == Holders(o)
             B == Slots(t, x, row, o)
  <2>1. IsFiniteSet(H) /\ IsFiniteSet(B) /\ H \cap B = {} /\ Holders(o)' = H \cup B
    BY <1>1, HoldersFinite
  <2> HIDE DEF H, B
  <2>2. /\ Cardinality(H \cup B) = Cardinality(H) + Cardinality(B)
        /\ Cardinality(H \cup B) \in Nat
    BY <2>1, CountAdd
  <2> QED BY <2>1, <2>2, <1>1 DEF H, B
<1>5. refs'[o] = refs[o] + Cardinality(Row(row, o))
  BY DEF Retain
<1>6. closed'[o] <=> Holders(o)' = {}
  <2>1. closed[o] <=> Holders(o) = {}
    BY DEF CountInv, ClosedIffUnheld
  <2>2. Row(row, o) = {} => Slots(t, x, row, o) = {}
    BY DEF Slots
  <2> QED BY <2>1, <2>2
<1> QED BY <1>4, <1>5, <1>6 DEF CountInv, RefsCountHolders

\* Index.release for each target of a row that stops being a holder.
LEMMA ReleaseCounts ==
    ASSUME CountInv, NEW t, NEW x, NEW row, ReleaseCount(row),
           \A o \in Obj : Holders(o)' = Holders(o) \ Slots(t, x, row, o),
           \A o \in Obj : Slots(t, x, row, o) \subseteq Holders(o)
    PROVE  /\ RefsCountHolders' /\ ClosedIffUnheld'
           /\ refs' \in [Obj -> Nat] /\ closed' \in [Obj -> BOOLEAN]
<1> SUFFICES ASSUME NEW o \in Obj
             PROVE  /\ refs'[o] = Cardinality(Holders(o)') /\ refs'[o] \in Nat
                    /\ closed'[o] <=> Holders(o)' = {}
                    /\ closed'[o] \in BOOLEAN
  BY DEF RefsCountHolders, ClosedIffUnheld, ReleaseCount
<1>1. /\ IsFiniteSet(Slots(t, x, row, o))
      /\ Cardinality(Slots(t, x, row, o)) = Cardinality(Row(row, o))
  BY RowFinite, RowCount DEF Slots
<1>4. /\ Cardinality(Holders(o)') = Cardinality(Holders(o)) - Cardinality(Row(row, o))
      /\ Cardinality(Holders(o)') \in Nat
      /\ Cardinality(Holders(o)) \in Nat /\ Cardinality(Row(row, o)) \in Nat
  <2> DEFINE H == Holders(o)
             A == Slots(t, x, row, o)
  <2>1. IsFiniteSet(H) /\ A \subseteq H /\ Holders(o)' = H \ A
    BY HoldersFinite
  <2> HIDE DEF H, A
  <2>2. /\ Cardinality(H \ A) = Cardinality(H) - Cardinality(A)
        /\ Cardinality(H \ A) \in Nat /\ Cardinality(H) \in Nat /\ Cardinality(A) \in Nat
    BY <2>1, CountRemove
  <2> QED BY <2>1, <2>2, <1>1 DEF H, A
<1>5. refs'[o] = refs[o] - Cardinality(Row(row, o)) /\ refs[o] = Cardinality(Holders(o))
  BY DEF ReleaseCount, CountInv, RefsCountHolders
<1>6. closed'[o] <=> closed[o] \/ (Row(row, o) # {} /\ refs[o] = Cardinality(Row(row, o)))
  BY DEF ReleaseCount, Dies
<1>7. closed[o] <=> Holders(o) = {}
  BY DEF CountInv, ClosedIffUnheld
<1>8. Cardinality(Holders(o)') = 0 <=> Holders(o)' = {}
  BY HoldersFinite, FS_EmptySet
<1>9. CASE Row(row, o) = {}
  <2>1. Slots(t, x, row, o) = {}
    BY <1>9 DEF Slots
  <2>2. Holders(o)' = Holders(o)
    BY <2>1
  <2> QED BY <2>2, <1>4, <1>5, <1>6, <1>7, <1>9 DEF ReleaseCount
<1>10. CASE Row(row, o) # {}
  <2>0. PICK n \in Row(row, o) : TRUE
    BY <1>10
  <2>1. <<t, x, n>> \in Slots(t, x, row, o)
    BY DEF Slots
  <2>2. Holders(o) # {}
    BY <2>1
  <2> QED BY <2>2, <1>4, <1>5, <1>6, <1>7, <1>8, <1>10 DEF ReleaseCount
<1> QED BY <1>9, <1>10

\* A new Index has the one holder it was made for.
LEMMA AllocateCounts ==
    ASSUME CountInv, NEW f \in Obj, NEW value, Allocate(f, value), NEW slot,
           Holders(f)' = {slot},
           \A o \in Obj \ {f} : Holders(o)' = Holders(o)
    PROVE  /\ RefsCountHolders' /\ ClosedIffUnheld'
           /\ refs' \in [Obj -> Nat] /\ closed' \in [Obj -> BOOLEAN]
<1> USE DEF Allocate
<1>1. refs \in [Obj -> Nat] /\ closed \in [Obj -> BOOLEAN]
  BY DEF CountInv, TypeOK
<1>2. Cardinality(Holders(f)') = 1
  BY FS_Singleton
<1>3. ASSUME NEW o \in Obj PROVE refs'[o] = Cardinality(Holders(o)')
  BY <1>1, <1>2 DEF CountInv, RefsCountHolders
<1>4. ASSUME NEW o \in Obj PROVE closed'[o] <=> Holders(o)' = {}
  BY <1>1 DEF CountInv, ClosedIffUnheld
<1> QED BY <1>1, <1>3, <1>4 DEF RefsCountHolders, ClosedIffUnheld

-----------------------------------------------------------------------------
(* Every action preserves the inductive invariant. *)

\* The target of a request is an Index of its cluster.
LEMMA TargetIsObj ==
    ASSUME CountInv, NEW c \in Cluster,
           pc[c] \in {"copy", "swap", "apply", "rebuild", "install"}
    PROVE  at[c] \in Name /\ Target(c) \in Obj
<1>1. at[c] \in todo[c] /\ todo[c] \subseteq Name
  BY DEF CountInv, RequestOK, TypeOK
<1>2. indices[c][at[c]] # Nil
  BY <1>1 DEF CountInv, RequestOK
<1> QED BY <1>1, <1>2 DEF CountInv, TypeOK, Target

LEMMA CloneKeeps ==
    ASSUME CountInv, NEW c \in Cluster, NEW d \in Cluster, Clone(c, d)
    PROVE  CountInv'
<1> USE DEF CountInv
<1>1. ASSUME NEW o \in Obj
      PROVE  /\ Holders(o)' = Holders(o) \cup Slots("index", d, indices[c], o)
             /\ Holders(o) \cap Slots("index", d, indices[c], o) = {}
             /\ \A n \in Row(indices[c], o) : <<"index", c, n>> \in Holders(o)
  <2>1. indices[d] = NoRow /\ o # Nil
    BY NilIsNothing DEF RequestOK, Clone
  <2>2. IndexHolders(o)' = IndexHolders(o) \cup Slots("index", d, indices[c], o)
    BY <2>1 DEF IndexHolders, Slots, Row, Clone, NoRow, TypeOK
  <2>3. UNCHANGED <<PitHolders(o), ReaderHolders(o), FreshHolders(o)>>
    BY DEF Clone, PitHolders, ReaderHolders, FreshHolders, pitVars, readerVars, opVars
  <2>4. Holders(o)' = Holders(o) \cup Slots("index", d, indices[c], o)
    BY <2>2, <2>3 DEF Holders
  <2>5. Holders(o) \cap Slots("index", d, indices[c], o) = {}
    BY <2>1 DEF Holders, IndexHolders, PitHolders, ReaderHolders, FreshHolders, Slots, Row, NoRow
  <2>6. \A n \in Row(indices[c], o) : <<"index", c, n>> \in Holders(o)
    BY DEF Holders, IndexHolders, Row
  <2> QED BY <2>4, <2>5, <2>6
<1>2. RefsCountHolders' /\ ClosedIffUnheld' /\ refs' \in [Obj -> Nat]
  <2>1. Retain(indices[c]) /\ UNCHANGED closed
    BY DEF Clone
  <2>2. \A o \in Obj : Row(indices[c], o) # {} => Holders(o) # {}
    BY <1>1
  <2> QED BY <1>1, <2>1, <2>2, RetainCounts
<1>3. TypeOK'
  BY <1>2 DEF TypeOK, Clone, pitVars, readerVars, opVars
<1>4. ASSUME NEW o \in Obj, NEW h, Holders(o) = {h},
             \A n \in Name : h # <<"index", c, n>>
      PROVE  Holders(o)' = {h}
  BY <1>1, <1>4 DEF Slots, Row
<1>5. WriterIsAlone'
  <2> SUFFICES ASSUME NEW e \in Cluster, NEW o \in Obj,
                      pc'[e] \in {"apply", "rebuild", "install"}, Target(e)' = o
               PROVE  Holders(o)' = {<<"index", e, at'[e]>>}
    BY DEF WriterIsAlone
  <2>1. pc'[e] = pc[e] /\ at'[e] = at[e] /\ e # c /\ e # d
    BY DEF Clone, opVars, Unlocked, RequestOK
  <2>2. Target(e) = o
    BY <2>1, TargetIsObj DEF Clone, Target, TypeOK
  <2>3. Holders(o) = {<<"index", e, at[e]>>}
    BY <2>1, <2>2 DEF WriterIsAlone
  <2> QED BY <1>4, <2>1, <2>3
<1>6. RequestOK'
  BY DEF RequestOK, Clone, Unlocked, TypeOK, opVars
<1>7. FreshIsPrivate'
  BY <1>4 DEF FreshIsPrivate, Clone, TypeOK, opVars
<1>8. ReadersLockOut'
  BY DEF ReadersLockOut, RequestOK, Clone, Unlocked, TypeOK, pitVars, readerVars, opVars
<1> QED BY <1>2, <1>3, <1>5, <1>6, <1>7, <1>8

\* Released content is forgotten, so contents stay contents.
LEMMA ReleaseType ==
    ASSUME CountInv, NEW row, Release(row)
    PROVE  content' \in [Obj -> Content]
  BY EmptyIsData DEF Release, CountInv, TypeOK, Content, Blank

LEMMA CreatePITKeeps ==
    ASSUME CountInv, NEW p \in Pit, NEW c \in Cluster, NEW S \in SUBSET Name, CreatePIT(p, c, S)
    PROVE  CountInv'
<1> DEFINE row == [n \in Name |-> IF n \in S THEN indices[c][n] ELSE Nil]
<1> USE DEF CountInv
<1>1. ASSUME NEW o \in Obj
      PROVE  /\ Holders(o)' = Holders(o) \cup Slots("pit", p, row, o)
             /\ Holders(o) \cap Slots("pit", p, row, o) = {}
             /\ \A n \in Row(row, o) : <<"index", c, n>> \in Holders(o)
  <2>1. pitObj[p] = NoRow /\ o # Nil
    BY NilIsNothing DEF ReadersLockOut, CreatePIT
  <2>2. PitHolders(o)' = PitHolders(o) \cup Slots("pit", p, row, o)
    BY <2>1 DEF PitHolders, Slots, Row, CreatePIT, NoRow, TypeOK
  <2>3. UNCHANGED <<IndexHolders(o), ReaderHolders(o), FreshHolders(o)>>
    BY DEF CreatePIT, IndexHolders, ReaderHolders, FreshHolders, clusterVars, readerVars, opVars
  <2>4. Holders(o)' = Holders(o) \cup Slots("pit", p, row, o)
    BY <2>2, <2>3 DEF Holders
  <2>5. Holders(o) \cap Slots("pit", p, row, o) = {}
    BY <2>1 DEF Holders, IndexHolders, PitHolders, ReaderHolders, FreshHolders, Slots, Row, NoRow
  <2>6. \A n \in Row(row, o) : <<"index", c, n>> \in Holders(o)
    BY <2>1 DEF Holders, IndexHolders, Row
  <2> QED BY <2>4, <2>5, <2>6
<1>2. RefsCountHolders' /\ ClosedIffUnheld' /\ refs' \in [Obj -> Nat]
  <2>1. Retain(row) /\ UNCHANGED closed
    BY DEF CreatePIT
  <2>2. \A o \in Obj : Row(row, o) # {} => Holders(o) # {}
    BY <1>1
  <2> HIDE DEF row
  <2> QED BY <1>1, <2>1, <2>2, RetainCounts
<1>3. TypeOK'
  BY <1>2 DEF TypeOK, CreatePIT, clusterVars, readerVars, opVars
<1>4. ASSUME NEW o \in Obj, NEW h, Holders(o) = {h},
             \A n \in Name : h # <<"index", c, n>>
      PROVE  Holders(o)' = {h}
  <2> HIDE DEF row
  <2> QED BY <1>1, <1>4 DEF Slots, Row
<1>5. WriterIsAlone'
  <2> SUFFICES ASSUME NEW e \in Cluster, NEW o \in Obj,
                      pc'[e] \in {"apply", "rebuild", "install"}, Target(e)' = o
               PROVE  Holders(o)' = {<<"index", e, at'[e]>>}
    BY DEF WriterIsAlone
  <2>1. pc'[e] = pc[e] /\ at'[e] = at[e] /\ e # c /\ Target(e) = o
    BY DEF CreatePIT, opVars, clusterVars, Unlocked, Target
  <2> QED BY <1>4, <2>1 DEF WriterIsAlone
<1>6. RequestOK' /\ FreshIsPrivate' /\ ReadersLockOut'
  <2>1. RequestOK'
    BY DEF RequestOK, CreatePIT, clusterVars, opVars
  <2>3. phase[c] # "unborn" /\ c # Nil
    BY NilIsNothing DEF RequestOK, CreatePIT, NoRow
  <2>4. ReadersLockOut'
    BY <2>3 DEF ReadersLockOut, CreatePIT, Unlocked, TypeOK, clusterVars, readerVars, opVars
  <2>2. FreshIsPrivate'
    BY <1>4 DEF FreshIsPrivate, CreatePIT, opVars
  <2> QED BY <2>1, <2>2, <2>4
<1> QED BY <1>2, <1>3, <1>5, <1>6

LEMMA StartPITSearchKeeps ==
    ASSUME CountInv, NEW r \in Reader, NEW p \in Pit, StartPITSearch(r, p)
    PROVE  CountInv'
<1> USE DEF CountInv
<1>1. ASSUME NEW o \in Obj
      PROVE  /\ Holders(o)' = Holders(o) \cup Slots("reader", r, pitObj[p], o)
             /\ Holders(o) \cap Slots("reader", r, pitObj[p], o) = {}
             /\ \A n \in Row(pitObj[p], o) : <<"pit", p, n>> \in Holders(o)
  <2>1. ~rHolds[r]
    BY DEF ReadersLockOut, StartPITSearch
  <2>2. ReaderHolders(o)' = ReaderHolders(o) \cup Slots("reader", r, pitObj[p], o)
    BY <2>1 DEF ReaderHolders, Slots, Row, StartPITSearch, TypeOK
  <2>3. UNCHANGED <<IndexHolders(o), PitHolders(o), FreshHolders(o)>>
    BY DEF StartPITSearch, IndexHolders, PitHolders, FreshHolders, clusterVars, pitVars, opVars
  <2>4. Holders(o)' = Holders(o) \cup Slots("reader", r, pitObj[p], o)
    BY <2>2, <2>3 DEF Holders
  <2>5. Holders(o) \cap Slots("reader", r, pitObj[p], o) = {}
    BY <2>1 DEF Holders, IndexHolders, PitHolders, ReaderHolders, FreshHolders, Slots, Row
  <2>6. \A n \in Row(pitObj[p], o) : <<"pit", p, n>> \in Holders(o)
    BY DEF Holders, PitHolders, Row
  <2> QED BY <2>4, <2>5, <2>6
<1>2. RefsCountHolders' /\ ClosedIffUnheld' /\ refs' \in [Obj -> Nat]
  <2>1. Retain(pitObj[p]) /\ UNCHANGED closed
    BY DEF StartPITSearch
  <2>2. \A o \in Obj : Row(pitObj[p], o) # {} => Holders(o) # {}
    BY <1>1
  <2> QED BY <1>1, <2>1, <2>2, RetainCounts
<1>3. TypeOK'
  BY <1>2 DEF TypeOK, StartPITSearch, clusterVars, pitVars, opVars
<1>4. ASSUME NEW o \in Obj, NEW h, Holders(o) = {h},
             \A n \in Name : h # <<"pit", p, n>>
      PROVE  Holders(o)' = {h}
  BY <1>1, <1>4 DEF Slots, Row
<1>5. WriterIsAlone'
  BY <1>4 DEF WriterIsAlone, StartPITSearch, Target, opVars, clusterVars
<1>6. RequestOK' /\ ReadersLockOut'
  <2>1. RequestOK'
    BY DEF RequestOK, StartPITSearch, clusterVars, opVars
  <2>2. UNCHANGED <<pitOwner, pitObj, phase, indices, pc>>
    BY DEF StartPITSearch, pitVars, clusterVars, opVars
  <2>3. /\ rCluster'[r] = pitOwner[p] /\ rHolds'[r] /\ pitOwner[p] # Nil
        /\ pc[pitOwner[p]] = "idle" /\ phase[pitOwner[p]] # "unborn"
    BY DEF ReadersLockOut, StartPITSearch, Unlocked, TypeOK
  <2>4. \A q \in Reader \ {r} : /\ rCluster'[q] = rCluster[q] /\ rHolds'[q] = rHolds[q]
                                /\ rObjs'[q] = rObjs[q]
    BY DEF StartPITSearch, TypeOK
  <2> QED BY <2>1, <2>2, <2>3, <2>4 DEF ReadersLockOut
<1>7. FreshIsPrivate'
  BY <1>4 DEF FreshIsPrivate, StartPITSearch, opVars
<1> QED BY <1>2, <1>3, <1>5, <1>6, <1>7

\* An index leaves the map of a cluster: deletion and Cluster.Close.
LEMMA DropIndexKeeps ==
    ASSUME CountInv, NEW c \in Cluster, NEW n \in Name,
           pc[c] \in {"idle", "closing"}, \A r \in Reader : rCluster[r] # c,
           indices[c][n] # Nil, Release(Only(n, indices[c][n])),
           indices' = [indices EXCEPT ![c][n] = Nil],
           pitLost' \in [Pit -> SUBSET Name],
           UNCHANGED <<phase, pitOwner, pitObj, pitExpired, readerVars, opVars>>
    PROVE  CountInv'
<1> DEFINE row == Only(n, indices[c][n])
<1> USE DEF CountInv
<1>0. indices[c][n] \in Obj /\ \A o \in Obj : Row(row, o) = IF o = indices[c][n] THEN {n} ELSE {}
  BY NilIsNothing DEF TypeOK, Row, Only
<1>1. ASSUME NEW o \in Obj
      PROVE  /\ Holders(o)' = Holders(o) \ Slots("index", c, row, o)
             /\ Slots("index", c, row, o) \subseteq Holders(o)
  <2>1. IndexHolders(o)' = IndexHolders(o) \ Slots("index", c, row, o)
    BY <1>0, NilIsNothing DEF IndexHolders, Slots, TypeOK
  <2>2. UNCHANGED <<PitHolders(o), ReaderHolders(o), FreshHolders(o)>>
    BY DEF PitHolders, ReaderHolders, FreshHolders, readerVars, opVars
  <2>3. Slots("index", c, row, o) \subseteq IndexHolders(o)
    BY <1>0 DEF IndexHolders, Slots
  <2>4. (PitHolders(o) \cup ReaderHolders(o) \cup FreshHolders(o)) \cap Slots("index", c, row, o) = {}
    BY <1>0 DEF PitHolders, ReaderHolders, FreshHolders, Slots
  <2> QED BY <2>1, <2>2, <2>3, <2>4 DEF Holders
<1>2. /\ RefsCountHolders' /\ ClosedIffUnheld'
      /\ refs' \in [Obj -> Nat] /\ closed' \in [Obj -> BOOLEAN] /\ content' \in [Obj -> Content]
  <2> HIDE DEF row
  <2> QED BY <1>1, ReleaseCounts, ReleaseType DEF Release, row
<1>3. TypeOK'
  BY <1>2 DEF TypeOK, readerVars, opVars
<1>4. ASSUME NEW o \in Obj, NEW h, Holders(o) = {h}, h # <<"index", c, n>>
      PROVE  Holders(o)' = {h}
  BY <1>0, <1>1, <1>4 DEF Slots
<1>5. WriterIsAlone'
  <2> SUFFICES ASSUME NEW e \in Cluster, NEW o \in Obj,
                      pc'[e] \in {"apply", "rebuild", "install"}, Target(e)' = o
               PROVE  Holders(o)' = {<<"index", e, at'[e]>>}
    BY DEF WriterIsAlone
  <2>1. pc'[e] = pc[e] /\ at'[e] = at[e] /\ e # c /\ Target(e) = o
    BY DEF opVars, Target, TypeOK
  <2> QED BY <1>4, <2>1 DEF WriterIsAlone
<1>6. RequestOK'
  BY NilIsNothing DEF RequestOK, opVars, TypeOK, NoRow
<1>7. FreshIsPrivate'
  BY <1>4 DEF FreshIsPrivate, opVars
<1>8. ReadersLockOut'
  BY DEF ReadersLockOut, TypeOK, readerVars, opVars
<1> QED BY <1>2, <1>3, <1>5, <1>6, <1>7, <1>8

\* A point in time is released: deletion, expiry and Cluster.Close.
LEMMA FreePITKeeps ==
    ASSUME CountInv, NEW p \in Pit, FreePIT(p), UNCHANGED <<clusterVars, readerVars, opVars>>
    PROVE  CountInv'
<1> USE DEF CountInv
<1>1. ASSUME NEW o \in Obj
      PROVE  /\ Holders(o)' = Holders(o) \ Slots("pit", p, pitObj[p], o)
             /\ Slots("pit", p, pitObj[p], o) \subseteq Holders(o)
  <2>1. PitHolders(o)' = PitHolders(o) \ Slots("pit", p, pitObj[p], o)
    BY NilIsNothing DEF FreePIT, PitHolders, Slots, Row, NoRow, TypeOK
  <2>2. UNCHANGED <<IndexHolders(o), ReaderHolders(o), FreshHolders(o)>>
    BY DEF IndexHolders, ReaderHolders, FreshHolders, clusterVars, readerVars, opVars
  <2>3. Slots("pit", p, pitObj[p], o) \subseteq PitHolders(o)
    BY DEF PitHolders, Slots, Row
  <2>4. (IndexHolders(o) \cup ReaderHolders(o) \cup FreshHolders(o))
          \cap Slots("pit", p, pitObj[p], o) = {}
    BY DEF IndexHolders, ReaderHolders, FreshHolders, Slots
  <2> QED BY <2>1, <2>2, <2>3, <2>4 DEF Holders
<1>2. /\ RefsCountHolders' /\ ClosedIffUnheld'
      /\ refs' \in [Obj -> Nat] /\ closed' \in [Obj -> BOOLEAN] /\ content' \in [Obj -> Content]
  BY <1>1, ReleaseCounts, ReleaseType DEF Release, FreePIT
<1>3. TypeOK'
  BY <1>2 DEF TypeOK, FreePIT, NoRow, clusterVars, readerVars, opVars
<1>4. ASSUME NEW o \in Obj, NEW h, Holders(o) = {h}, \A n \in Name : h # <<"pit", p, n>>
      PROVE  Holders(o)' = {h}
  BY <1>1, <1>4 DEF Slots, Row
<1>5. WriterIsAlone'
  BY <1>4 DEF WriterIsAlone, Target, opVars, clusterVars
<1>6. RequestOK'
  BY DEF RequestOK, opVars, clusterVars
<1>7. FreshIsPrivate'
  BY <1>4 DEF FreshIsPrivate, opVars
<1>8. ReadersLockOut'
  BY DEF ReadersLockOut, FreePIT, TypeOK, clusterVars, readerVars, opVars
<1> QED BY <1>2, <1>3, <1>5, <1>6, <1>7, <1>8

LEMMA EndSearchKeeps ==
    ASSUME CountInv, NEW r \in Reader, EndSearch(r)
    PROVE  CountInv'
<1> USE DEF CountInv
<1> DEFINE row == IF rHolds[r] THEN rObjs[r] ELSE NoRow
<1>1. ASSUME NEW o \in Obj
      PROVE  /\ Holders(o)' = Holders(o) \ Slots("reader", r, row, o)
             /\ Slots("reader", r, row, o) \subseteq Holders(o)
  <2>1. ReaderHolders(o)' = ReaderHolders(o) \ Slots("reader", r, row, o)
    BY NilIsNothing DEF EndSearch, ReaderHolders, Slots, Row, NoRow, TypeOK
  <2>2. UNCHANGED <<IndexHolders(o), PitHolders(o), FreshHolders(o)>>
    BY DEF EndSearch, IndexHolders, PitHolders, FreshHolders, clusterVars, pitVars, opVars
  <2>3. Slots("reader", r, row, o) \subseteq ReaderHolders(o)
    BY NilIsNothing DEF ReaderHolders, Slots, Row, NoRow
  <2>4. (IndexHolders(o) \cup PitHolders(o) \cup FreshHolders(o))
          \cap Slots("reader", r, row, o) = {}
    BY DEF IndexHolders, PitHolders, FreshHolders, Slots
  <2> QED BY <2>1, <2>2, <2>3, <2>4 DEF Holders
<1>2. /\ RefsCountHolders' /\ ClosedIffUnheld'
      /\ refs' \in [Obj -> Nat] /\ closed' \in [Obj -> BOOLEAN] /\ content' \in [Obj -> Content]
  <2>1. CASE rHolds[r]
    <3>1. Release(row)
      BY <2>1 DEF EndSearch
    <3> HIDE DEF row
    <3> QED BY <1>1, <3>1, ReleaseCounts, ReleaseType DEF Release
  <2>2. CASE ~rHolds[r]
    <3>1. UNCHANGED objVars
      BY <2>2 DEF EndSearch
    <3>2. \A o \in Obj : Slots("reader", r, row, o) = {}
      BY <2>2, NilIsNothing DEF Slots, Row, NoRow
    <3>3. \A o \in Obj : Holders(o)' = Holders(o)
      BY <1>1, <3>2
    <3> QED BY <3>1, <3>3 DEF objVars, RefsCountHolders, ClosedIffUnheld, TypeOK
  <2> QED BY <2>1, <2>2
<1>3. TypeOK'
  BY <1>2 DEF TypeOK, EndSearch, NoRow, clusterVars, pitVars, opVars
<1>4. ASSUME NEW o \in Obj, NEW h, Holders(o) = {h}, \A n \in Name : h # <<"reader", r, n>>
      PROVE  Holders(o)' = {h}
  <2> HIDE DEF row
  <2> QED BY <1>1, <1>4 DEF Slots, Row
<1>5. WriterIsAlone'
  BY <1>4 DEF WriterIsAlone, EndSearch, Target, opVars, clusterVars
<1>6. RequestOK'
  BY DEF RequestOK, EndSearch, opVars, clusterVars
<1>7. FreshIsPrivate'
  BY <1>4 DEF FreshIsPrivate, EndSearch, opVars
<1>8. ReadersLockOut'
  BY DEF ReadersLockOut, EndSearch, TypeOK, clusterVars, pitVars, opVars
<1> QED BY <1>2, <1>3, <1>5, <1>6, <1>7, <1>8

\* What the request that holds the lock of c leaves to prove: its own part of
\* the bookkeeping, and that single holders elsewhere stay alone.
LEMMA RequestKeeps ==
    ASSUME CountInv, TypeOK', RefsCountHolders', ClosedIffUnheld', NEW c \in Cluster,
           \A r \in Reader : rCluster[r] # c,
           phase[c] # "unborn", phase'[c] # "unborn",
           \A e \in Cluster \ {c} :
               /\ phase'[e] = phase[e] /\ indices'[e] = indices[e]
               /\ pc'[e] = pc[e] /\ todo'[e] = todo[e] /\ at'[e] = at[e]
               /\ fresh'[e] = fresh[e],
           UNCHANGED <<pitOwner, pitObj, readerVars>>,
           \A o \in Obj, e \in Cluster \ {c}, n \in Name :
               /\ Holders(o) = {<<"index", e, n>>} => Holders(o)' = {<<"index", e, n>>}
               /\ Holders(o) = {<<"fresh", e, Nil>>} => Holders(o)' = {<<"fresh", e, Nil>>},
           \A o \in Obj : indices'[c][at'[c]] = o /\ pc'[c] \in {"apply", "rebuild", "install"}
                          => Holders(o)' = {<<"index", c, at'[c]>>},
           \A o \in Obj : fresh'[c] = o => Holders(o)' = {<<"fresh", c, Nil>>},
           pc'[c] \in {"copy", "swap", "rebuild", "install"} <=> fresh'[c] # Nil,
           pc'[c] \in {"copy", "swap", "apply", "rebuild", "install"} => at'[c] \in todo'[c],
           pc'[c] \notin {"idle", "closing"} => \A n \in todo'[c] : indices'[c][n] # Nil
    PROVE  CountInv'
<1> USE DEF CountInv
<1>1. WriterIsAlone'
  <2> SUFFICES ASSUME NEW e \in Cluster, NEW o \in Obj,
                      pc'[e] \in {"apply", "rebuild", "install"}, Target(e)' = o
               PROVE  Holders(o)' = {<<"index", e, at'[e]>>}
    BY DEF WriterIsAlone
  <2>1. CASE e = c
    BY <2>1 DEF Target
  <2>2. CASE e # c
    <3>1. pc[e] = pc'[e] /\ at[e] = at'[e] /\ Target(e) = o /\ at[e] \in Name
      BY <2>2, TargetIsObj DEF Target
    <3>2. Holders(o) = {<<"index", e, at[e]>>}
      BY <3>1 DEF WriterIsAlone
    <3> QED BY <2>2, <3>1, <3>2
  <2> QED BY <2>1, <2>2
<1>2. RequestOK'
  <2> SUFFICES ASSUME NEW e \in Cluster
               PROVE  /\ pc'[e] \in {"copy", "swap", "rebuild", "install"} <=> fresh'[e] # Nil
                      /\ pc'[e] \in {"copy", "swap", "apply", "rebuild", "install"}
                         => at'[e] \in todo'[e]
                      /\ pc'[e] \notin {"idle", "closing"}
                         => \A n \in todo'[e] : indices'[e][n] # Nil
                      /\ phase'[e] = "unborn" => indices'[e] = NoRow /\ pc'[e] = "idle"
    BY DEF RequestOK, NoRow
  <2> QED BY DEF RequestOK
<1>3. FreshIsPrivate'
  <2> SUFFICES ASSUME NEW e \in Cluster, NEW o \in Obj, fresh'[e] = o
               PROVE  Holders(o)' = {<<"fresh", e, Nil>>}
    BY DEF FreshIsPrivate
  <2>1. CASE e = c
    BY <2>1
  <2>2. CASE e # c
    <3>1. Holders(o) = {<<"fresh", e, Nil>>}
      BY <2>2 DEF FreshIsPrivate
    <3>2. pc[e] \in {"copy", "swap", "rebuild", "install"}
      BY <2>2, NilIsNothing DEF RequestOK
    <3>3. at[e] \in Name
      BY <3>2, TargetIsObj
    <3> QED BY <2>2, <3>1, <3>3
  <2> QED BY <2>1, <2>2
<1>4. ReadersLockOut'
  <2>1. \A p \in Pit : pitOwner[p] \in Cluster \cup {Nil}
    BY DEF TypeOK
  <2>2. \A r \in Reader : rCluster[r] # Nil => rCluster[r] \in Cluster \ {c}
    BY DEF TypeOK
  <2> QED BY <2>1, <2>2 DEF ReadersLockOut, readerVars
<1> QED BY <1>1, <1>2, <1>3, <1>4

\* A cluster whose lock a request holds exists and has no searches.
LEMMA LockedOut ==
    ASSUME CountInv, NEW c \in Cluster, pc[c] # "idle"
    PROVE  phase[c] # "unborn" /\ \A r \in Reader : rCluster[r] # c
  BY NilIsNothing DEF CountInv, RequestOK, ReadersLockOut

\* Finishing a target or giving up concerns the request of c alone.
LEMMA FailTargetFrame ==
    ASSUME TypeOK, NEW c \in Cluster, at[c] \in Name, FailTarget(c) \/ NextTarget(c)
    PROVE  /\ pc' \in [Cluster -> Step] /\ kind' \in [Cluster -> Kind]
           /\ todo' \in [Cluster -> SUBSET Name] /\ at' \in [Cluster -> Name \cup {Nil}]
           /\ pc'[c] \in {"idle", "load"} /\ todo'[c] \subseteq todo[c]
           /\ \A e \in Cluster \ {c} : pc'[e] = pc[e] /\ at'[e] = at[e] /\ todo'[e] = todo[e]
<1>1. CASE NextTarget(c)
  BY <1>1 DEF NextTarget, TypeOK, Step, Kind
<1>2. CASE Abort(c)
  BY <1>2 DEF Abort, TypeOK, Step, Kind
<1> QED BY <1>1, <1>2 DEF FailTarget

LEMMA FailCopyKeeps ==
    ASSUME CountInv, NEW c \in Cluster, FailCopy(c)
    PROVE  CountInv'
<1> USE DEF CountInv
<1>1. PICK f \in Obj : f = fresh[c]
  BY DEF FailCopy, RequestOK, TypeOK
<1> DEFINE row == Only(at[c], f)
<1>2. /\ at[c] \in Name /\ f # Nil /\ Release(row) /\ pc[c] # "idle"
      /\ Holders(f) = {<<"fresh", c, Nil>>}
      /\ fresh' = [fresh EXCEPT ![c] = Nil] /\ FailTarget(c)
      /\ UNCHANGED <<clusterVars, pitVars, readerVars>>
  BY <1>1, NilIsNothing DEF FailCopy, FreshIsPrivate, RequestOK, TypeOK
<1>3. \A o \in Obj : Row(row, o) = IF o = f THEN {at[c]} ELSE {}
  BY <1>2, NilIsNothing DEF Row, Only
<1>4. refs[f] = 1 /\ Cardinality(Row(row, f)) = 1 /\ Cardinality({}) = 0
  BY <1>2, <1>3, FS_Singleton, FS_EmptySet DEF RefsCountHolders
<1>5. /\ \A o \in Obj : refs'[o] = IF o = f THEN 0 ELSE refs[o]
      /\ \A o \in Obj : closed'[o] = IF o = f THEN TRUE ELSE closed[o]
      /\ refs' \in [Obj -> Nat] /\ closed' \in [Obj -> BOOLEAN]
  <2>1. ReleaseCount(row)
    BY <1>2 DEF Release
  <2>2. refs \in [Obj -> Nat] /\ closed \in [Obj -> BOOLEAN]
    BY DEF TypeOK
  <2> HIDE DEF row, CountInv
  <2>3. \A o \in Obj : refs'[o] = refs[o] - Cardinality(Row(row, o))
    BY <2>1 DEF ReleaseCount
  <2>4. \A o \in Obj : closed'[o] = (closed[o] \/ Dies(row, o))
    BY <2>1 DEF ReleaseCount
  <2>5. Dies(row, f) /\ \A o \in Obj \ {f} : ~Dies(row, o)
    BY <1>3, <1>4 DEF Dies
  <2>6. \A o \in Obj \ {f} : Cardinality(Row(row, o)) = 0
    BY <1>3, <1>4
  <2>7. \A o \in Obj : refs'[o] = IF o = f THEN 0 ELSE refs[o]
    BY <1>4, <2>2, <2>3, <2>6
  <2>8. \A o \in Obj : closed'[o] = IF o = f THEN TRUE ELSE closed[o]
    BY <2>2, <2>4, <2>5
  <2>9. refs' = [o \in Obj |-> IF o = f THEN 0 ELSE refs[o]]
    BY <2>1, <2>7 DEF ReleaseCount
  <2>10. closed' = [o \in Obj |-> IF o = f THEN TRUE ELSE closed[o]]
    BY <2>1, <2>8 DEF ReleaseCount
  <2> QED BY <2>2, <2>9, <2>10
<1>6. ASSUME NEW o \in Obj
      PROVE  Holders(o)' = IF o = f THEN {} ELSE Holders(o)
  <2>1. FreshHolders(o)' = FreshHolders(o) \ {<<"fresh", c, Nil>>}
    BY <1>2, NilIsNothing DEF FreshHolders, TypeOK
  <2>2. UNCHANGED <<IndexHolders(o), PitHolders(o), ReaderHolders(o)>>
    BY <1>2 DEF IndexHolders, PitHolders, ReaderHolders, clusterVars, pitVars, readerVars
  <2>3. <<"fresh", c, Nil>> \notin IndexHolders(o) \cup PitHolders(o) \cup ReaderHolders(o)
    BY DEF IndexHolders, PitHolders, ReaderHolders
  <2>4. Holders(o)' = Holders(o) \ {<<"fresh", c, Nil>>}
    BY <2>1, <2>2, <2>3 DEF Holders
  <2>5. o # f => <<"fresh", c, Nil>> \notin Holders(o)
    BY <1>1, <2>3 DEF Holders, FreshHolders
  <2> QED BY <1>2, <2>4, <2>5
<1>7. RefsCountHolders' /\ ClosedIffUnheld'
  BY <1>4, <1>5, <1>6 DEF RefsCountHolders, ClosedIffUnheld
<1>8. /\ pc' \in [Cluster -> Step] /\ kind' \in [Cluster -> Kind]
      /\ todo' \in [Cluster -> SUBSET Name] /\ at' \in [Cluster -> Name \cup {Nil}]
      /\ pc'[c] \in {"idle", "load"} /\ todo'[c] \subseteq todo[c]
      /\ \A e \in Cluster \ {c} : pc'[e] = pc[e] /\ at'[e] = at[e] /\ todo'[e] = todo[e]
  BY <1>2, FailTargetFrame
<1>9. TypeOK'
  <2>1. content' \in [Obj -> Content]
    BY <1>2, ReleaseType
  <2>2. fresh' \in [Cluster -> Obj \cup {Nil}]
    BY <1>2 DEF TypeOK
  <2> QED BY <1>2, <1>5, <1>8, <2>1, <2>2 DEF TypeOK, clusterVars, pitVars, readerVars
<1>10. ASSUME NEW o \in Obj, NEW e \in Cluster \ {c}, NEW n \in Name
       PROVE  /\ Holders(o) = {<<"index", e, n>>} => Holders(o)' = {<<"index", e, n>>}
              /\ Holders(o) = {<<"fresh", e, Nil>>} => Holders(o)' = {<<"fresh", e, Nil>>}
  <2>1. <<"index", e, n>> # <<"fresh", c, Nil>> /\ <<"fresh", e, Nil>> # <<"fresh", c, Nil>>
    OBVIOUS
  <2>2. Holders(o) = {<<"index", e, n>>} \/ Holders(o) = {<<"fresh", e, Nil>>} => o # f
    BY <1>2, <2>1
  <2> QED BY <1>6, <2>2
<1>11. /\ phase' = phase /\ indices' = indices /\ fresh'[c] = Nil
       /\ \A e \in Cluster \ {c} : fresh'[e] = fresh[e]
       /\ UNCHANGED <<pitOwner, pitObj, readerVars>>
  BY <1>2 DEF TypeOK, clusterVars, pitVars
<1>12. \A n \in todo'[c] : indices'[c][n] # Nil
  BY <1>8, <1>11 DEF FailCopy, RequestOK
<1>13. \A o \in Obj : fresh'[c] # o
  BY <1>11, NilIsNothing
<1> HIDE DEF CountInv
<1> QED BY <1>2, <1>7, <1>8, <1>9, <1>10, <1>11, <1>12, <1>13, LockedOut, RequestKeeps

\* The copy takes the place of its source: writable, and a rebuild.
LEMMA ReplaceKeeps ==
    ASSUME CountInv, NEW c \in Cluster, pc[c] \in {"swap", "install"},
           Release(Only(at[c], Target(c))),
           indices' = [indices EXCEPT ![c][at[c]] = fresh[c]],
           fresh' = [fresh EXCEPT ![c] = Nil],
           UNCHANGED <<phase, pitVars, readerVars>>,
           pc' \in [Cluster -> Step], kind' \in [Cluster -> Kind],
           todo' \in [Cluster -> SUBSET Name], at' \in [Cluster -> Name \cup {Nil}],
           \A e \in Cluster \ {c} : pc'[e] = pc[e] /\ at'[e] = at[e] /\ todo'[e] = todo[e],
           todo'[c] \subseteq todo[c],
           pc'[c] \in {"idle", "load"}
             \/ (pc'[c] = "apply" /\ at'[c] = at[c] /\ todo'[c] = todo[c])
    PROVE  CountInv'
<1> USE DEF CountInv
<1>1. PICK m \in Name : m = at[c]
  BY TargetIsObj
<1>2. PICK t \in Obj : t = Target(c)
  BY TargetIsObj
<1>3. PICK f \in Obj : f = fresh[c]
  BY DEF RequestOK, TypeOK
<1> DEFINE row == Only(m, t)
           slot == <<"index", c, m>>
<1>4. /\ indices[c][m] = t /\ Release(row) /\ indices' = [indices EXCEPT ![c][m] = f]
      /\ f # Nil /\ t # Nil
  BY <1>1, <1>2, <1>3, NilIsNothing DEF Target
<1>5. slot \in Holders(t)
  BY <1>4 DEF Holders, IndexHolders
<1>6. Holders(f) = {<<"fresh", c, Nil>>}
  BY <1>3 DEF FreshIsPrivate
<1>7. f # t
  <2>1. slot # <<"fresh", c, Nil>>
    OBVIOUS
  <2> QED BY <1>5, <1>6, <2>1
<1>8. \A o \in Obj : Row(row, o) = IF o = t THEN {m} ELSE {}
  BY NilIsNothing DEF Row, Only
<1>9. ASSUME NEW o \in Obj
      PROVE  /\ o = f => Holders(o)' = {slot}
             /\ o = t => Holders(o)' = Holders(o) \ {slot}
             /\ o # f /\ o # t => Holders(o)' = Holders(o)
  <2>1. UNCHANGED <<PitHolders(o), ReaderHolders(o)>>
    BY DEF PitHolders, ReaderHolders, pitVars, readerVars
  <2>2. FreshHolders(o)' = FreshHolders(o) \ {<<"fresh", c, Nil>>}
    BY NilIsNothing DEF FreshHolders, TypeOK
  <2>3. IndexHolders(o)' = IF o = f THEN IndexHolders(o) \cup {slot} ELSE IndexHolders(o) \ {slot}
    BY <1>4 DEF IndexHolders, TypeOK
  <2>4. o # f => <<"fresh", c, Nil>> \notin FreshHolders(o)
    BY <1>3 DEF FreshHolders
  <2>5. o # t => slot \notin IndexHolders(o)
    BY <1>4 DEF IndexHolders
  <2>6. slot \notin PitHolders(o) \cup ReaderHolders(o) \cup FreshHolders(o)
    BY DEF PitHolders, ReaderHolders, FreshHolders
  <2>7. o # f => FreshHolders(o)' = FreshHolders(o)
    BY <2>2, <2>4
  <2>8. CASE o = f
    <3>1. /\ IndexHolders(o) = {} /\ PitHolders(o) = {} /\ ReaderHolders(o) = {}
          /\ FreshHolders(o) \subseteq {<<"fresh", c, Nil>>}
      BY <2>8, <1>6 DEF Holders, IndexHolders, PitHolders, ReaderHolders
    <3> QED BY <2>8, <1>7, <2>1, <2>2, <2>3, <3>1 DEF Holders
  <2>9. CASE o = t
    BY <2>9, <1>7, <2>1, <2>3, <2>6, <2>7 DEF Holders
  <2>10. CASE o # f /\ o # t
    BY <2>10, <2>1, <2>3, <2>5, <2>7 DEF Holders
  <2> QED BY <1>7, <2>8, <2>9, <2>10
<1>10. /\ refs' = [o \in Obj |-> IF o = t THEN refs[t] - 1 ELSE refs[o]]
       /\ closed' = [o \in Obj |-> IF o = t THEN closed[t] \/ refs[t] = 1 ELSE closed[o]]
  <2>1. ReleaseCount(row)
    BY <1>4 DEF Release
  <2>2. refs \in [Obj -> Nat] /\ closed \in [Obj -> BOOLEAN]
    BY DEF TypeOK
  <2>3. Cardinality({m}) = 1 /\ Cardinality({}) = 0
    BY FS_Singleton, FS_EmptySet
  <2> HIDE DEF row, CountInv
  <2>4. Cardinality(Row(row, t)) = 1 /\ \A o \in Obj \ {t} : Cardinality(Row(row, o)) = 0
    BY <1>8, <2>3
  <2>5. (Dies(row, t) <=> refs[t] = 1) /\ \A o \in Obj \ {t} : ~Dies(row, o)
    BY <1>8, <2>4 DEF Dies
  <2>6. \A o \in Obj : refs[o] - Cardinality(Row(row, o)) = IF o = t THEN refs[t] - 1 ELSE refs[o]
    BY <2>2, <2>4
  <2>7. \A o \in Obj : (closed[o] \/ Dies(row, o))
                       = IF o = t THEN closed[t] \/ refs[t] = 1 ELSE closed[o]
    BY <2>2, <2>5
  <2> QED BY <2>1, <2>6, <2>7 DEF ReleaseCount
<1>11. /\ RefsCountHolders' /\ ClosedIffUnheld'
       /\ refs' \in [Obj -> Nat] /\ closed' \in [Obj -> BOOLEAN]
  <2>1. refs \in [Obj -> Nat] /\ closed \in [Obj -> BOOLEAN]
    BY DEF TypeOK
  <2>2. refs[f] = 1 /\ ~closed[f] /\ Cardinality(Holders(f)') = 1
    <3>1. Cardinality(Holders(f)) = 1 /\ Cardinality(Holders(f)') = 1
      BY <1>6, <1>7, <1>9, FS_Singleton
    <3>2. Holders(f) # {}
      BY <1>6
    <3> QED BY <3>1, <3>2 DEF RefsCountHolders, ClosedIffUnheld
  <2>3. /\ Cardinality(Holders(t)') = Cardinality(Holders(t)) - 1
        /\ Cardinality(Holders(t)') \in Nat /\ refs[t] = Cardinality(Holders(t))
    <3> DEFINE H == Holders(t)
    <3>1. IsFiniteSet(H) /\ {slot} \subseteq H /\ Holders(t)' = H \ {slot}
      BY <1>5, <1>9, HoldersFinite
    <3>2. Cardinality({slot}) = 1
      BY FS_Singleton
    <3> HIDE DEF H, slot
    <3>3. Cardinality(H \ {slot}) = Cardinality(H) - Cardinality({slot})
          /\ Cardinality(H \ {slot}) \in Nat
      BY <3>1, CountRemove
    <3> QED BY <3>1, <3>2, <3>3 DEF H, RefsCountHolders
  <2>4. ~closed[t] /\ (Cardinality(Holders(t)') = 0 <=> Holders(t)' = {})
    BY <1>5, HoldersFinite, FS_EmptySet DEF ClosedIffUnheld
  <2>5. ASSUME NEW o \in Obj PROVE refs'[o] = Cardinality(Holders(o)') /\ refs'[o] \in Nat
    BY <1>7, <1>9, <1>10, <2>1, <2>2, <2>3 DEF RefsCountHolders
  <2>6. ASSUME NEW o \in Obj PROVE closed'[o] <=> Holders(o)' = {}
    <3>1. CASE o = t
      <4>1. closed'[t] <=> refs[t] = 1
        BY <1>10, <2>1, <2>4
      <4>2. refs[t] = 1 <=> Cardinality(Holders(t)') = 0
        BY <2>1, <2>3
      <4> QED BY <3>1, <4>1, <4>2, <2>4
    <3>2. CASE o = f
      BY <3>2, <1>7, <1>9, <1>10, <2>2
    <3>3. CASE o # t /\ o # f
      BY <3>3, <1>9, <1>10 DEF ClosedIffUnheld
    <3> QED BY <3>1, <3>2, <3>3
  <2> QED BY <1>10, <2>1, <2>5, <2>6 DEF RefsCountHolders, ClosedIffUnheld
<1>12. TypeOK'
  <2>1. content' \in [Obj -> Content]
    BY <1>4, ReleaseType
  <2>2. indices' \in [Cluster -> [Name -> Obj \cup {Nil}]] /\ fresh' \in [Cluster -> Obj \cup {Nil}]
    <3>1. indices \in [Cluster -> [Name -> Obj \cup {Nil}]]
      BY DEF TypeOK
    <3>2. fresh \in [Cluster -> Obj \cup {Nil}]
      BY DEF TypeOK
    <3> HIDE DEF CountInv
    <3>3. [indices[c] EXCEPT ![m] = f] \in [Name -> Obj \cup {Nil}]
      BY <3>1
    <3>4. indices' \in [Cluster -> [Name -> Obj \cup {Nil}]]
      BY <1>4, <3>1, <3>3
    <3> QED BY <3>2, <3>4
  <2> QED BY <1>11, <2>1, <2>2 DEF TypeOK, pitVars, readerVars
<1>13. ASSUME NEW o \in Obj, NEW e \in Cluster \ {c}, NEW n \in Name
       PROVE  /\ Holders(o) = {<<"index", e, n>>} => Holders(o)' = {<<"index", e, n>>}
              /\ Holders(o) = {<<"fresh", e, Nil>>} => Holders(o)' = {<<"fresh", e, Nil>>}
  <2>1. /\ <<"index", e, n>> # <<"fresh", c, Nil>> /\ <<"fresh", e, Nil>> # <<"fresh", c, Nil>>
        /\ <<"index", e, n>> # slot /\ <<"fresh", e, Nil>> # slot
    OBVIOUS
  <2>2. Holders(o) = {<<"index", e, n>>} \/ Holders(o) = {<<"fresh", e, Nil>>} => o # f /\ o # t
    BY <1>5, <1>6, <2>1
  <2> QED BY <1>9, <2>2
<1>14. /\ phase' = phase /\ fresh'[c] = Nil /\ indices'[c][m] = f /\ at[c] \in todo[c]
       /\ \A e \in Cluster \ {c} : fresh'[e] = fresh[e] /\ indices'[e] = indices[e]
       /\ UNCHANGED <<pitOwner, pitObj, readerVars>>
  BY <1>4 DEF TypeOK, RequestOK, pitVars
<1>15. \A n \in todo'[c] : indices'[c][n] # Nil
  <2>1. \A n \in todo[c] : indices[c][n] # Nil
    BY DEF RequestOK
  <2>2. \A n \in Name : indices'[c][n] = IF n = m THEN f ELSE indices[c][n]
    BY <1>4 DEF TypeOK
  <2>3. todo[c] \subseteq Name
    BY DEF TypeOK
  <2> QED BY <1>4, <2>1, <2>2, <2>3
<1>16. ASSUME NEW o \in Obj, indices'[c][at'[c]] = o, pc'[c] = "apply"
       PROVE  Holders(o)' = {<<"index", c, at'[c]>>}
  <2>1. at'[c] = m
    BY <1>1, <1>16
  <2>2. o = f
    BY <1>14, <1>16, <2>1
  <2> QED BY <1>9, <2>1, <2>2
<1>17. /\ \A o \in Obj : fresh'[c] # o
       /\ pc'[c] \in {"copy", "swap", "rebuild", "install"} <=> fresh'[c] # Nil
       /\ pc'[c] \in {"copy", "swap", "apply", "rebuild", "install"} => at'[c] \in todo'[c]
  BY <1>14, NilIsNothing
<1>18. ASSUME NEW o \in Obj, indices'[c][at'[c]] = o, pc'[c] \in {"apply", "rebuild", "install"}
       PROVE  Holders(o)' = {<<"index", c, at'[c]>>}
  BY <1>16, <1>18
<1>19. phase[c] # "unborn" /\ phase'[c] # "unborn" /\ \A r \in Reader : rCluster[r] # c
  <2> HIDE DEF CountInv
  <2> QED BY <1>14, LockedOut
<1>20. /\ \A e \in Cluster \ {c} : phase'[e] = phase[e]
       /\ \A o \in Obj : fresh'[c] = o => Holders(o)' = {<<"fresh", c, Nil>>}
  BY <1>14, <1>17
<1> HIDE DEF CountInv
<1> QED BY <1>11, <1>12, <1>13, <1>14, <1>15, <1>17, <1>18, <1>19, <1>20, RequestKeeps

LEMMA SwapKeeps ==
    ASSUME CountInv, NEW c \in Cluster, Swap(c)
    PROVE  CountInv'
<1>1. pc[c] = "swap" /\ TypeOK
  BY DEF Swap, CountInv
<1>2. pc' = [pc EXCEPT ![c] = "apply"] /\ UNCHANGED <<readerVars, kind, todo, at>>
  BY DEF Swap
<1>3. /\ pc' \in [Cluster -> Step] /\ pc'[c] = "apply"
      /\ \A e \in Cluster \ {c} : pc'[e] = pc[e]
  BY <1>1, <1>2 DEF TypeOK, Step
<1> QED BY <1>1, <1>2, <1>3, ReplaceKeeps DEF Swap, TypeOK

LEMMA InstallKeeps ==
    ASSUME CountInv, NEW c \in Cluster, Install(c)
    PROVE  CountInv'
<1>1. pc[c] = "install" /\ TypeOK /\ NextTarget(c) /\ at[c] \in Name
  BY TargetIsObj DEF Install, CountInv
<1>2. /\ pc' \in [Cluster -> Step] /\ kind' \in [Cluster -> Kind]
      /\ todo' \in [Cluster -> SUBSET Name] /\ at' \in [Cluster -> Name \cup {Nil}]
      /\ pc'[c] \in {"idle", "load"} /\ todo'[c] \subseteq todo[c]
      /\ \A e \in Cluster \ {c} : pc'[e] = pc[e] /\ at'[e] = at[e] /\ todo'[e] = todo[e]
  BY <1>1, FailTargetFrame
<1> QED BY <1>1, <1>2, ReplaceKeeps DEF Install

\* What a request of c leaves alone when a new Index f gets one holder.
LEMMA AllocateElsewhere ==
    ASSUME CountInv, NEW f \in Obj, NEW value \in Content, Allocate(f, value), NEW slot,
           Holders(f)' = {slot},
           \A o \in Obj \ {f} : Holders(o)' = Holders(o)
    PROVE  /\ RefsCountHolders' /\ ClosedIffUnheld'
           /\ refs' \in [Obj -> Nat] /\ closed' \in [Obj -> BOOLEAN]
           /\ content' \in [Obj -> Content]
           /\ \A o \in Obj : \A h : Holders(o) = {h} => Holders(o)' = {h}
<1>1. Holders(f) = {}
  BY DEF Allocate, Unreachable
<1>2. \A o \in Obj : \A h : Holders(o) = {h} => o # f
  BY <1>1
<1>3. content' \in [Obj -> Content]
  BY DEF Allocate, CountInv, TypeOK
<1> QED BY <1>2, <1>3, AllocateCounts

LEMMA CreateIndexKeeps ==
    ASSUME CountInv, NEW c \in Cluster, NEW n \in Name, NEW f \in Obj, NEW d \in Data,
           CreateIndex(c, n, f, d)
    PROVE  CountInv'
<1> USE DEF CountInv
<1> DEFINE value == [Blank EXCEPT !.data = d]
           slot == <<"index", c, n>>
<1>1. /\ Allocate(f, value) /\ value \in Content /\ Holders(f) = {}
      /\ indices[c][n] = Nil /\ indices' = [indices EXCEPT ![c][n] = f]
  BY DEF CreateIndex, Allocate, Unreachable, Blank, Content
<1>2. ASSUME NEW o \in Obj
      PROVE  Holders(o)' = IF o = f THEN {slot} ELSE Holders(o)
  <2>1. UNCHANGED <<PitHolders(o), ReaderHolders(o), FreshHolders(o)>>
    BY DEF CreateIndex, PitHolders, ReaderHolders, FreshHolders, pitVars, readerVars, opVars
  <2>2. o # Nil
    BY NilIsNothing
  <2>3. IndexHolders(o)' = IF o = f THEN IndexHolders(o) \cup {slot} ELSE IndexHolders(o)
    BY <1>1, <2>2 DEF IndexHolders, TypeOK
  <2>4. CASE o = f
    BY <2>4, <1>1, <2>1, <2>3 DEF Holders
  <2>5. CASE o # f
    BY <2>5, <2>1, <2>3 DEF Holders
  <2> QED BY <2>4, <2>5
<1>3. /\ RefsCountHolders' /\ ClosedIffUnheld'
      /\ refs' \in [Obj -> Nat] /\ closed' \in [Obj -> BOOLEAN] /\ content' \in [Obj -> Content]
      /\ \A o \in Obj : \A h : Holders(o) = {h} => Holders(o)' = {h}
  <2>1. Holders(f)' = {slot} /\ \A o \in Obj \ {f} : Holders(o)' = Holders(o)
    BY <1>2
  <2> HIDE DEF slot, value, CountInv
  <2> QED BY <1>1, <2>1, AllocateElsewhere
<1>4. TypeOK'
  <2>1. indices \in [Cluster -> [Name -> Obj \cup {Nil}]]
    BY DEF TypeOK
  <2>2. [indices[c] EXCEPT ![n] = f] \in [Name -> Obj \cup {Nil}]
    BY <2>1
  <2>3. indices' \in [Cluster -> [Name -> Obj \cup {Nil}]]
    BY <1>1, <2>1, <2>2
  <2> QED BY <1>3, <2>3 DEF TypeOK, CreateIndex, pitVars, readerVars, opVars
<1>5. /\ phase' = phase /\ UNCHANGED <<pc, todo, at, fresh, pitOwner, pitObj, readerVars>>
      /\ \A e \in Cluster \ {c} : indices'[e] = indices[e]
      /\ phase[c] # "unborn" /\ pc[c] = "idle" /\ \A r \in Reader : rCluster[r] # c
  BY <1>1 DEF CreateIndex, Free, Unlocked, TypeOK, pitVars, readerVars, opVars
<1>6. fresh[c] = Nil
  BY <1>5 DEF RequestOK
<1>7. \A o \in Obj : fresh'[c] # o
  BY <1>5, <1>6, NilIsNothing
<1> HIDE DEF CountInv
<1> QED BY <1>3, <1>4, <1>5, <1>6, <1>7, RequestKeeps

\* A copy starts: writable on a shared Index, and a rebuild of an owned one.
LEMMA NewCopyKeeps ==
    ASSUME CountInv, NEW c \in Cluster, NEW m \in Name, NEW f \in Obj, NEW s \in {"copy", "rebuild"},
           m \in todo[c], at' = [at EXCEPT ![c] = m],
           pc[c] = "load" \/ (pc[c] = "apply" /\ at[c] = m),
           s = "rebuild" => pc[c] = "apply",
           Allocate(f, Blank),
           fresh' = [fresh EXCEPT ![c] = f],
           pc' = [pc EXCEPT ![c] = s],
           UNCHANGED <<clusterVars, pitVars, readerVars, kind, todo>>
    PROVE  CountInv'
<1> USE DEF CountInv
<1> DEFINE slot == <<"fresh", c, Nil>>
<1>1. /\ Blank \in Content /\ Holders(f) = {} /\ fresh[c] = Nil /\ f # Nil
      /\ phase' = phase /\ indices' = indices
  BY NilIsNothing, EmptyIsData
     DEF Allocate, Unreachable, Blank, Content, RequestOK, clusterVars
<1>2. ASSUME NEW o \in Obj
      PROVE  Holders(o)' = IF o = f THEN {slot} ELSE Holders(o)
  <2>1. UNCHANGED <<PitHolders(o), ReaderHolders(o), IndexHolders(o)>>
    BY DEF PitHolders, ReaderHolders, IndexHolders, pitVars, readerVars, clusterVars
  <2>2. o # Nil
    BY NilIsNothing
  <2>3. FreshHolders(o)' = IF o = f THEN FreshHolders(o) \cup {slot} ELSE FreshHolders(o)
    BY <1>1, <2>2 DEF FreshHolders, TypeOK
  <2>4. CASE o = f
    BY <2>4, <1>1, <2>1, <2>3 DEF Holders
  <2>5. CASE o # f
    BY <2>5, <2>1, <2>3 DEF Holders
  <2> QED BY <2>4, <2>5
<1>3. /\ RefsCountHolders' /\ ClosedIffUnheld'
      /\ refs' \in [Obj -> Nat] /\ closed' \in [Obj -> BOOLEAN] /\ content' \in [Obj -> Content]
      /\ \A o \in Obj : \A h : Holders(o) = {h} => Holders(o)' = {h}
  <2>1. Holders(f)' = {slot} /\ \A o \in Obj \ {f} : Holders(o)' = Holders(o)
    BY <1>2
  <2> HIDE DEF slot, CountInv
  <2> QED BY <1>1, <2>1, AllocateElsewhere
<1>4. TypeOK'
  <2>1. fresh' \in [Cluster -> Obj \cup {Nil}] /\ pc' \in [Cluster -> Step]
        /\ at' \in [Cluster -> Name \cup {Nil}]
    BY DEF TypeOK, Step
  <2> QED BY <1>3, <2>1 DEF TypeOK, clusterVars, pitVars, readerVars
<1>5. /\ UNCHANGED <<pitOwner, pitObj, readerVars>>
      /\ \A e \in Cluster \ {c} : pc'[e] = pc[e] /\ at'[e] = at[e] /\ fresh'[e] = fresh[e]
      /\ pc'[c] = s /\ at'[c] = m /\ fresh'[c] = f /\ pc[c] # "idle" /\ todo' = todo
  BY DEF TypeOK, pitVars
<1>6. ASSUME NEW o \in Obj, indices'[c][at'[c]] = o, pc'[c] \in {"apply", "rebuild", "install"}
      PROVE  Holders(o)' = {<<"index", c, at'[c]>>}
  <2>1. pc[c] = "apply" /\ at[c] = m /\ Target(c) = o
    BY <1>1, <1>5, <1>6 DEF Target
  <2>2. Holders(o) = {<<"index", c, m>>}
    BY <2>1 DEF WriterIsAlone
  <2> QED BY <1>3, <1>5, <2>2
<1>7. \A o \in Obj : fresh'[c] = o => Holders(o)' = {slot}
  BY <1>2, <1>5
<1>8. \A n \in todo'[c] : indices'[c][n] # Nil
  BY <1>1, <1>5 DEF RequestOK
<1>9. phase[c] # "unborn" /\ \A r \in Reader : rCluster[r] # c
  <2> HIDE DEF CountInv
  <2> QED BY <1>5, LockedOut
<1> HIDE DEF CountInv
<1> QED BY <1>1, <1>3, <1>4, <1>5, <1>6, <1>7, <1>8, <1>9, RequestKeeps

LEMMA LoadSharedKeeps ==
    ASSUME CountInv, NEW c \in Cluster, NEW n \in Name, NEW f \in Obj, LoadShared(c, n, f)
    PROVE  CountInv'
  BY NewCopyKeeps DEF LoadShared

LEMMA StartRebuildKeeps ==
    ASSUME CountInv, NEW c \in Cluster, NEW f \in Obj, StartRebuild(c, f)
    PROVE  CountInv'
<1>1. pc[c] = "apply" /\ at[c] \in Name /\ at[c] \in todo[c] /\ at' = [at EXCEPT ![c] = at[c]]
  BY TargetIsObj DEF StartRebuild, CountInv, RequestOK, TypeOK
<1> QED BY <1>1, NewCopyKeeps DEF StartRebuild

\* Steps that take and drop no reference.
LEMMA QuietCounts ==
    ASSUME CountInv, UNCHANGED <<refs, closed, indices, pitObj, fresh, readerVars>>
    PROVE  /\ RefsCountHolders' /\ ClosedIffUnheld'
           /\ \A o \in Obj : Holders(o)' = Holders(o)
<1>1. \A o \in Obj : Holders(o)' = Holders(o)
  BY DEF Holders, IndexHolders, PitHolders, ReaderHolders, FreshHolders, readerVars
<1> QED BY <1>1 DEF CountInv, RefsCountHolders, ClosedIffUnheld

\* ... taken by the request that holds the lock of c.
LEMMA QuietRequest ==
    ASSUME CountInv, NEW c \in Cluster,
           UNCHANGED <<refs, closed, indices, fresh, pitOwner, pitObj, pitExpired, readerVars>>,
           phase' \in [Cluster -> {"unborn", "open", "closed"}],
           content' \in [Obj -> Content], pitLost' \in [Pit -> SUBSET Name],
           pc' \in [Cluster -> Step], kind' \in [Cluster -> Kind],
           todo' \in [Cluster -> SUBSET Name], at' \in [Cluster -> Name \cup {Nil}],
           \A e \in Cluster \ {c} : /\ phase'[e] = phase[e] /\ pc'[e] = pc[e]
                                    /\ todo'[e] = todo[e] /\ at'[e] = at[e],
           phase[c] # "unborn", phase'[c] # "unborn", \A r \in Reader : rCluster[r] # c,
           pc'[c] \in {"copy", "swap", "rebuild", "install"} <=> fresh[c] # Nil,
           pc'[c] \in {"copy", "swap", "apply", "rebuild", "install"} => at'[c] \in todo'[c],
           pc'[c] \notin {"idle", "closing"} => \A n \in todo'[c] : indices[c][n] # Nil,
           pc'[c] \in {"apply", "rebuild", "install"}
               => Holders(indices[c][at'[c]]) = {<<"index", c, at'[c]>>}
    PROVE  CountInv'
<1>1. /\ RefsCountHolders' /\ ClosedIffUnheld'
      /\ \A o \in Obj : Holders(o)' = Holders(o)
  BY QuietCounts
<1>2. TypeOK'
  BY DEF CountInv, TypeOK, readerVars
<1>3. \A o \in Obj : indices'[c][at'[c]] = o /\ pc'[c] \in {"apply", "rebuild", "install"}
                     => Holders(o)' = {<<"index", c, at'[c]>>}
  BY <1>1
<1>4. \A o \in Obj : fresh'[c] = o => Holders(o)' = {<<"fresh", c, Nil>>}
  BY <1>1 DEF CountInv, FreshIsPrivate
<1> QED BY <1>1, <1>2, <1>3, <1>4, RequestKeeps

LEMMA BeginKeeps ==
    ASSUME CountInv, NEW c \in Cluster, NEW k \in Kind, NEW S \in SUBSET Name, Begin(c, k, S)
    PROVE  CountInv'
<1>1. /\ pc' = [pc EXCEPT ![c] = "load"] /\ kind' = [kind EXCEPT ![c] = k]
      /\ todo' = [todo EXCEPT ![c] = S] /\ pc[c] = "idle"
      /\ \A n \in S : indices[c][n] # Nil
      /\ \A r \in Reader : rCluster[r] # c
      /\ UNCHANGED <<clusterVars, objVars, pitVars, readerVars, at, fresh>>
  BY DEF Begin, Free, Unlocked
<1>2. TypeOK /\ RequestOK
  BY DEF CountInv
<1>3. phase[c] # "unborn"
  BY <1>2 DEF Begin, RequestOK, NoRow
<1>4. /\ pc' \in [Cluster -> Step] /\ kind' \in [Cluster -> Kind]
      /\ todo' \in [Cluster -> SUBSET Name] /\ pc'[c] = "load" /\ todo'[c] = S
      /\ \A e \in Cluster \ {c} : pc'[e] = pc[e] /\ todo'[e] = todo[e]
  BY <1>1, <1>2 DEF TypeOK, Step
<1>5. fresh[c] = Nil
  BY <1>1, <1>2 DEF RequestOK
<1> QED BY <1>1, <1>2, <1>3, <1>4, <1>5, QuietRequest
        DEF TypeOK, clusterVars, objVars, pitVars

LEMMA SkipTargetKeeps ==
    ASSUME CountInv, NEW c \in Cluster, NEW n \in Name, SkipTarget(c, n)
    PROVE  CountInv'
<1>1. TypeOK /\ RequestOK /\ pc[c] = "load"
  BY DEF CountInv, SkipTarget
<1>2. /\ pc' \in [Cluster -> Step] /\ kind' \in [Cluster -> Kind]
      /\ todo' \in [Cluster -> SUBSET Name] /\ pc'[c] \in {"idle", "load"}
      /\ todo'[c] \subseteq todo[c]
      /\ \A e \in Cluster \ {c} : pc'[e] = pc[e] /\ todo'[e] = todo[e]
  BY <1>1 DEF SkipTarget, TypeOK, Step, Kind
<1>3. UNCHANGED <<clusterVars, objVars, pitVars, readerVars, at, fresh>>
  BY DEF SkipTarget
<1>4. fresh[c] = Nil /\ \A n2 \in todo'[c] : indices[c][n2] # Nil
  BY <1>1, <1>2 DEF RequestOK
<1>5. phase[c] # "unborn" /\ \A r \in Reader : rCluster[r] # c
  BY <1>1, LockedOut
<1> QED BY <1>1, <1>2, <1>3, <1>4, <1>5, QuietRequest
        DEF TypeOK, clusterVars, objVars, pitVars

\* refs.Load() = 1 proves that the cluster is alone, although the counter is
\* read without a lock that other clusters take.
LEMMA LoadOwnedKeeps ==
    ASSUME CountInv, NEW c \in Cluster, NEW n \in Name, LoadOwned(c, n)
    PROVE  CountInv'
<1>1. TypeOK /\ RequestOK /\ pc[c] = "load" /\ n \in todo[c] /\ indices[c][n] # Nil
  BY DEF CountInv, LoadOwned, RequestOK
<1>2. PICK o \in Obj : o = indices[c][n]
  BY <1>1 DEF TypeOK
<1>3. Holders(o) = {<<"index", c, n>>}
  <2>1. <<"index", c, n>> \in Holders(o)
    BY <1>2 DEF Holders, IndexHolders
  <2>2. Cardinality(Holders(o)) <= 1 /\ Cardinality(Holders(o)) \in Nat
    BY <1>2 DEF LoadOwned, CountInv, RefsCountHolders, TypeOK
  <2>3. Cardinality(Holders(o)) # 0
    BY <2>1, HoldersFinite, FS_EmptySet
  <2>4. Cardinality(Holders(o)) = 1
    BY <2>2, <2>3
  <2>5. PICK h : Holders(o) = {h}
    <3> DEFINE H == Holders(o)
    <3>1. IsFiniteSet(H) /\ Cardinality(H) = 1
      BY <2>4, HoldersFinite
    <3> HIDE DEF H
    <3>2. \E h : H = {h}
      BY <3>1, FS_Singleton
    <3> QED BY <3>2 DEF H
  <2> QED BY <2>1, <2>5
<1>4. UNCHANGED <<clusterVars, objVars, pitVars, readerVars, kind, todo, fresh>>
  BY DEF LoadOwned
<1>5. /\ pc' \in [Cluster -> Step] /\ at' \in [Cluster -> Name \cup {Nil}]
      /\ pc'[c] = "apply" /\ at'[c] = n
      /\ \A e \in Cluster \ {c} : pc'[e] = pc[e] /\ at'[e] = at[e]
  BY <1>1 DEF LoadOwned, TypeOK, Step
<1>6. fresh[c] = Nil /\ \A n2 \in todo'[c] : indices[c][n2] # Nil
  BY <1>1, <1>4 DEF RequestOK
<1>7. phase[c] # "unborn" /\ \A r \in Reader : rCluster[r] # c
  BY <1>1, LockedOut
<1> QED BY <1>1, <1>2, <1>3, <1>4, <1>5, <1>6, <1>7, QuietRequest
        DEF TypeOK, clusterVars, objVars, pitVars

LEMMA FinishCopyKeeps ==
    ASSUME CountInv, NEW c \in Cluster, FinishCopy(c)
    PROVE  CountInv'
<1>1. TypeOK /\ RequestOK /\ pc[c] = "copy" /\ at[c] \in todo[c] /\ Target(c) \in Obj
  BY TargetIsObj DEF CountInv, FinishCopy, RequestOK
<1>2. UNCHANGED <<clusterVars, refs, closed, pitVars, readerVars, kind, todo, at, fresh>>
  BY DEF FinishCopy
<1>3. content' \in [Obj -> Content]
  BY <1>1 DEF FinishCopy, TypeOK
<1>4. /\ pc' \in [Cluster -> Step] /\ pc'[c] = "swap"
      /\ \A e \in Cluster \ {c} : pc'[e] = pc[e]
  BY <1>1 DEF FinishCopy, TypeOK, Step
<1>5. phase[c] # "unborn" /\ \A r \in Reader : rCluster[r] # c
  BY <1>1, LockedOut
<1> QED BY <1>1, <1>2, <1>3, <1>4, <1>5, QuietRequest
        DEF TypeOK, RequestOK, clusterVars, pitVars

LEMMA FinishRebuildKeeps ==
    ASSUME CountInv, NEW c \in Cluster, NEW d \in Data, FinishRebuild(c, d)
    PROVE  CountInv'
<1>1. TypeOK /\ RequestOK /\ pc[c] = "rebuild" /\ at[c] \in todo[c] /\ Target(c) \in Obj
  BY TargetIsObj DEF CountInv, FinishRebuild, RequestOK
<1>2. UNCHANGED <<clusterVars, refs, closed, pitVars, readerVars, kind, todo, at, fresh>>
  BY DEF FinishRebuild
<1>3. content' \in [Obj -> Content]
  <2>1. content[Target(c)] \in Content
    BY <1>1 DEF TypeOK
  <2>2. [content[Target(c)] EXCEPT !.data = d] \in Content
    BY <2>1 DEF Content
  <2>3. [data |-> d, shut |-> FALSE, reopen |-> FALSE] \in Content
    BY DEF Content
  <2> QED BY <1>1, <2>2, <2>3 DEF FinishRebuild, TypeOK
<1>4. /\ pc' \in [Cluster -> Step] /\ pc'[c] = "install"
      /\ \A e \in Cluster \ {c} : pc'[e] = pc[e]
  BY <1>1 DEF FinishRebuild, TypeOK, Step
<1>5. phase[c] # "unborn" /\ \A r \in Reader : rCluster[r] # c
  BY <1>1, LockedOut
<1>6. Holders(indices[c][at[c]]) = {<<"index", c, at[c]>>}
  BY <1>1 DEF CountInv, WriterIsAlone, Target
<1> QED BY <1>1, <1>2, <1>3, <1>4, <1>5, <1>6, QuietRequest
        DEF TypeOK, RequestOK, clusterVars, pitVars

\* The end of a target, written or not.
LEMMA TargetDone ==
    ASSUME CountInv, NEW c \in Cluster, pc[c] = "apply", NextTarget(c) \/ FailTarget(c),
           content' \in [Obj -> Content], pitLost' \in [Pit -> SUBSET Name],
           UNCHANGED <<clusterVars, refs, closed, pitOwner, pitObj, pitExpired, readerVars, fresh>>
    PROVE  CountInv'
<1>1. TypeOK /\ RequestOK /\ at[c] \in Name
  BY TargetIsObj DEF CountInv
<1>2. /\ pc' \in [Cluster -> Step] /\ kind' \in [Cluster -> Kind]
      /\ todo' \in [Cluster -> SUBSET Name] /\ at' \in [Cluster -> Name \cup {Nil}]
      /\ pc'[c] \in {"idle", "load"} /\ todo'[c] \subseteq todo[c]
      /\ \A e \in Cluster \ {c} : pc'[e] = pc[e] /\ at'[e] = at[e] /\ todo'[e] = todo[e]
  BY <1>1, FailTargetFrame
<1>3. phase[c] # "unborn" /\ \A r \in Reader : rCluster[r] # c
  BY LockedOut
<1>4. fresh[c] = Nil /\ \A n \in todo'[c] : indices[c][n] # Nil
  BY <1>1, <1>2 DEF RequestOK
<1> QED BY <1>1, <1>2, <1>3, <1>4, QuietRequest DEF TypeOK, clusterVars

LEMMA ApplyKeeps ==
    ASSUME CountInv, NEW c \in Cluster, NEW d \in Data, Apply(c, d)
    PROVE  CountInv'
<1>1. /\ pc[c] = "apply" /\ NextTarget(c)
      /\ UNCHANGED <<clusterVars, refs, closed, pitOwner, pitObj, pitExpired, readerVars, fresh>>
  BY DEF Apply
<1>2. TypeOK /\ Target(c) \in Obj /\ at[c] \in Name
  BY <1>1, TargetIsObj DEF CountInv
<1>3. content[Target(c)] \in Content
  BY <1>2 DEF TypeOK
<1>4. /\ [content[Target(c)] EXCEPT !.data = d] \in Content
      /\ [content[Target(c)] EXCEPT !.data = d, !.reopen = TRUE] \in Content
      /\ [content[Target(c)] EXCEPT !.shut = TRUE] \in Content
      /\ [content[Target(c)] EXCEPT !.shut = FALSE] \in Content
  BY <1>3 DEF Content
<1>5. \A value \in Content : SetContent(c, value) => content' \in [Obj -> Content]
  BY <1>2 DEF SetContent, TypeOK
<1>6. content' \in [Obj -> Content]
  BY <1>4, <1>5 DEF Apply
<1>7. pitLost' \in [Pit -> SUBSET Name]
  BY <1>2 DEF Apply, DropPITContexts, TypeOK
<1> QED BY <1>1, <1>6, <1>7, TargetDone

LEMMA FailApplyKeeps ==
    ASSUME CountInv, NEW c \in Cluster, FailApply(c)
    PROVE  CountInv'
  BY TargetDone DEF FailApply, objVars, pitVars, CountInv, TypeOK

LEMMA BeginCloseKeeps ==
    ASSUME CountInv, NEW c \in Cluster, BeginClose(c)
    PROVE  CountInv'
<1>1. TypeOK /\ RequestOK /\ pc[c] = "idle" /\ \A r \in Reader : rCluster[r] # c
  BY DEF CountInv, BeginClose, Free, Unlocked
<1>2. UNCHANGED <<indices, objVars, pitVars, readerVars, kind, todo, at, fresh>>
  BY DEF BeginClose
<1>3. /\ pc' \in [Cluster -> Step] /\ pc'[c] = "closing"
      /\ phase' \in [Cluster -> {"unborn", "open", "closed"}]
      /\ phase[c] # "unborn" /\ phase'[c] # "unborn"
      /\ \A e \in Cluster \ {c} : pc'[e] = pc[e] /\ phase'[e] = phase[e]
  BY <1>1 DEF BeginClose, TypeOK, Step
<1>4. fresh[c] = Nil
  BY <1>1 DEF RequestOK
<1> QED BY <1>1, <1>2, <1>3, <1>4, QuietRequest DEF TypeOK, objVars, pitVars

LEMMA EndCloseKeeps ==
    ASSUME CountInv, NEW c \in Cluster, EndClose(c)
    PROVE  CountInv'
<1>1. TypeOK /\ RequestOK /\ pc[c] = "closing"
  BY DEF CountInv, EndClose
<1>2. UNCHANGED <<clusterVars, objVars, pitVars, readerVars, kind, todo, at, fresh>>
  BY DEF EndClose
<1>3. /\ pc' \in [Cluster -> Step] /\ pc'[c] = "idle"
      /\ \A e \in Cluster \ {c} : pc'[e] = pc[e]
  BY <1>1 DEF EndClose, TypeOK, Step
<1>4. fresh[c] = Nil
  BY <1>1 DEF RequestOK
<1>5. phase[c] # "unborn" /\ \A r \in Reader : rCluster[r] # c
  BY <1>1, LockedOut
<1> QED BY <1>1, <1>2, <1>3, <1>4, <1>5, QuietRequest DEF TypeOK, clusterVars, objVars, pitVars

\* Whatever readers without references look at, the counting stands.
LEMMA UnheldKeeps ==
    ASSUME CountInv, UNCHANGED <<clusterVars, objVars, pitOwner, pitObj, rHolds, opVars>>,
           \A r \in Reader : rHolds[r] => rObjs'[r] = rObjs[r],
           TypeOK', ReadersLockOut'
    PROVE  CountInv'
<1> USE DEF CountInv
<1>1. \A o \in Obj : Holders(o)' = Holders(o)
  BY DEF Holders, IndexHolders, PitHolders, ReaderHolders, FreshHolders, clusterVars, opVars
<1>2. RefsCountHolders' /\ ClosedIffUnheld' /\ FreshIsPrivate'
  BY <1>1 DEF RefsCountHolders, ClosedIffUnheld, FreshIsPrivate, objVars, opVars
<1>3. WriterIsAlone'
  BY <1>1 DEF WriterIsAlone, Target, clusterVars, opVars
<1>4. RequestOK'
  BY DEF RequestOK, clusterVars, opVars
<1> QED BY <1>2, <1>3, <1>4

\* The clock and a search without references change nobody's holding.
LEMMA ObserverKeeps ==
    ASSUME CountInv,
           \/ \E p \in Pit : ExpirePIT(p)
           \/ \E r \in Reader, c \in Cluster : StartSearch(r, c)
           \/ UNCHANGED vars
    PROVE  CountInv'
<1> USE DEF CountInv
<1>2. ASSUME NEW p \in Pit, ExpirePIT(p) PROVE CountInv'
  <2>1. TypeOK' /\ ReadersLockOut'
    BY <1>2 DEF ExpirePIT, TypeOK, ReadersLockOut, clusterVars, objVars, readerVars, opVars
  <2> QED BY <1>2, <2>1, UnheldKeeps DEF ExpirePIT, readerVars
<1>3. ASSUME NEW r \in Reader, NEW c \in Cluster, StartSearch(r, c) PROVE CountInv'
  <2>1. rCluster[r] = Nil /\ ~rHolds[r] /\ pc[c] = "idle" /\ phase[c] # "unborn" /\ c # Nil
    BY <1>3, NilIsNothing DEF StartSearch, ReadersLockOut, Unlocked
  <2>2. /\ rCluster' = [rCluster EXCEPT ![r] = c] /\ rObjs' = [rObjs EXCEPT ![r] = indices[c]]
        /\ UNCHANGED <<clusterVars, objVars, pitVars, rHolds, opVars>>
    BY <1>3 DEF StartSearch
  <2>3. TypeOK'
    BY <2>2 DEF TypeOK, clusterVars, objVars, pitVars, opVars
  <2>4. ReadersLockOut'
    BY <2>1, <2>2 DEF ReadersLockOut, TypeOK, clusterVars, pitVars, opVars
  <2>5. \A q \in Reader : rHolds[q] => rObjs'[q] = rObjs[q]
    BY <2>1, <2>2 DEF TypeOK
  <2> QED BY <2>2, <2>3, <2>4, <2>5, UnheldKeeps DEF pitVars
<1>4. ASSUME UNCHANGED vars PROVE CountInv'
  <2>1. TypeOK' /\ ReadersLockOut'
    BY <1>4 DEF vars, TypeOK, ReadersLockOut, clusterVars, objVars, pitVars, readerVars, opVars
  <2> QED BY <1>4, <2>1, UnheldKeeps DEF vars, pitVars, readerVars
<1> QED BY <1>2, <1>3, <1>4

-----------------------------------------------------------------------------
(* The theorems. *)

LEMMA InitInd == Init => CountInv
<1> SUFFICES ASSUME Init PROVE CountInv
  OBVIOUS
<1> USE DEF Init
<1>1. \A o \in Obj : Holders(o) = {}
  BY NilIsNothing DEF Holders, IndexHolders, PitHolders, ReaderHolders, FreshHolders, NoRow
<1>2. RefsCountHolders /\ ClosedIffUnheld
  BY <1>1, FS_EmptySet DEF RefsCountHolders, ClosedIffUnheld
<1>3. TypeOK
  BY EmptyIsData DEF TypeOK, NoRow, Blank, Content, Step, Kind
<1>4. WriterIsAlone /\ RequestOK /\ FreshIsPrivate /\ ReadersLockOut
  BY NilIsNothing DEF WriterIsAlone, RequestOK, FreshIsPrivate, ReadersLockOut
<1> QED BY <1>2, <1>3, <1>4 DEF CountInv

\* The steps of the request that holds the lock of a cluster.
LEMMA RequestStepKeeps ==
    ASSUME CountInv, NEW c \in Cluster, RequestStep(c)
    PROVE  CountInv'
<1>1. ASSUME NEW n \in Name, CloseReleaseIndex(c, n) PROVE CountInv'
  <2>1. pc[c] = "closing" /\ \A r \in Reader : rCluster[r] # c
    BY <1>1, LockedOut DEF CloseReleaseIndex
  <2>2. /\ indices[c][n] # Nil /\ Release(Only(n, indices[c][n]))
        /\ indices' = [indices EXCEPT ![c][n] = Nil]
        /\ UNCHANGED <<phase, pitOwner, pitObj, pitExpired, readerVars, opVars>>
        /\ pitLost' \in [Pit -> SUBSET Name]
    BY <1>1 DEF CloseReleaseIndex, pitVars, CountInv, TypeOK
  <2> QED BY <2>1, <2>2, DropIndexKeeps
<1>2. ASSUME NEW p \in Pit, CloseReleasePIT(c, p) PROVE CountInv'
  BY <1>2, FreePITKeeps DEF CloseReleasePIT
<1>3. ASSUME NEW n \in Name, SkipTarget(c, n) \/ LoadOwned(c, n) PROVE CountInv'
  BY <1>3, SkipTargetKeeps, LoadOwnedKeeps
<1>4. ASSUME NEW f \in Obj, StartRebuild(c, f) \/ \E n \in Name : LoadShared(c, n, f)
      PROVE  CountInv'
  BY <1>4, StartRebuildKeeps, LoadSharedKeeps
<1>5. ASSUME NEW d \in Data, Apply(c, d) \/ FinishRebuild(c, d) PROVE CountInv'
  BY <1>5, ApplyKeeps, FinishRebuildKeeps
<1>6. ASSUME FinishCopy(c) \/ FailCopy(c) \/ Swap(c) \/ Install(c) PROVE CountInv'
  BY <1>6, FinishCopyKeeps, FailCopyKeeps, SwapKeeps, InstallKeeps
<1>7. ASSUME FailApply(c) \/ EndClose(c) PROVE CountInv'
  BY <1>7, FailApplyKeeps, EndCloseKeeps
<1> QED BY <1>1, <1>2, <1>3, <1>4, <1>5, <1>6, <1>7 DEF RequestStep

LEMMA NextKeeps ==
    ASSUME CountInv, [Next]_vars
    PROVE  CountInv'
<1>1. ASSUME NEW c \in Cluster, NEW n \in Name, DeleteIndex(c, n) \/ RemoveIndex(c, n)
      PROVE  CountInv'
  <2>1. pc[c] = "idle" /\ \A r \in Reader : rCluster[r] # c
    BY <1>1 DEF DeleteIndex, RemoveIndex, Free, Unlocked
  <2>2. /\ indices[c][n] # Nil /\ Release(Only(n, indices[c][n]))
        /\ indices' = [indices EXCEPT ![c][n] = Nil]
        /\ UNCHANGED <<phase, pitOwner, pitObj, pitExpired, readerVars, opVars>>
    BY <1>1 DEF DeleteIndex, RemoveIndex, pitVars
  <2>3. pitLost' \in [Pit -> SUBSET Name]
    BY <1>1 DEF DeleteIndex, RemoveIndex, DropPITContexts, pitVars, CountInv, TypeOK
  <2> QED BY <2>1, <2>2, <2>3, DropIndexKeeps
<1>2. ASSUME NEW p \in Pit, DeletePIT(p) \/ ReapPIT(p) PROVE CountInv'
  BY <1>2, FreePITKeeps DEF DeletePIT, ReapPIT
<1>3. ASSUME NEW c \in Cluster, RequestStep(c) \/ BeginClose(c) PROVE CountInv'
  BY <1>3, RequestStepKeeps, BeginCloseKeeps
<1>4. ASSUME NEW c \in Cluster, NEW d \in Cluster, Clone(c, d) PROVE CountInv'
  BY <1>4, CloneKeeps
<1>5. ASSUME NEW c \in Cluster, NEW n \in Name, NEW f \in Obj, NEW d \in Data,
             CreateIndex(c, n, f, d)
      PROVE  CountInv'
  BY <1>5, CreateIndexKeeps
<1>6. ASSUME NEW p \in Pit, NEW c \in Cluster, NEW S \in SUBSET Name, CreatePIT(p, c, S)
      PROVE  CountInv'
  BY <1>6, CreatePITKeeps
<1>7. ASSUME NEW r \in Reader, EndSearch(r) \/ \E p \in Pit : StartPITSearch(r, p)
      PROVE  CountInv'
  BY <1>7, EndSearchKeeps, StartPITSearchKeeps
<1>8. ASSUME NEW c \in Cluster, NEW k \in Kind, NEW S \in SUBSET Name, Begin(c, k, S)
      PROVE  CountInv'
  BY <1>8, BeginKeeps
<1>9. ASSUME \/ \E p \in Pit : ExpirePIT(p)
             \/ \E r \in Reader, c \in Cluster : StartSearch(r, c)
             \/ UNCHANGED vars
      PROVE  CountInv'
  BY <1>9, ObserverKeeps
<1> QED BY <1>1, <1>2, <1>3, <1>4, <1>5, <1>6, <1>7, <1>8, <1>9 DEF Next

\* A reader without references keeps the row it started with, and its cluster
\* keeps its indices while it is locked.
LEMMA SeenRowsKeep ==
    ASSUME CountInv, [Next]_vars, NEW c \in Cluster, NEW r \in Reader, rCluster[r] = c
    PROVE  indices'[c] = indices[c]
<1> USE DEF CountInv, TypeOK
<1>1. pc[c] = "idle" /\ phase[c] # "unborn" /\ ~Free(c)
  BY NilIsNothing DEF ReadersLockOut, Free
<1>2. ASSUME NEW d \in Cluster, RequestStep(d)
      PROVE  indices'[c] = indices[c]
  <2>1. CASE d = c
    BY <1>1, <1>2, <2>1
    DEF RequestStep, SkipTarget, LoadOwned, LoadShared, FinishCopy, FailCopy, Swap, FailApply, Install,
        EndClose, StartRebuild, Apply, FinishRebuild, CloseReleaseIndex, CloseReleasePIT
  <2>2. CASE d # c
    BY <1>2, <2>2
    DEF RequestStep, SkipTarget, LoadOwned, LoadShared, FinishCopy, FailCopy, Swap, FailApply, Install,
        EndClose, StartRebuild, Apply, FinishRebuild, CloseReleaseIndex, CloseReleasePIT, clusterVars
  <2> QED BY <2>1, <2>2
<1>3. CASE \/ \E d, e \in Cluster : Clone(d, e)
           \/ \E d \in Cluster, n \in Name :
                 \/ DeleteIndex(d, n) \/ RemoveIndex(d, n)
                 \/ \E f \in Obj, v \in Data : CreateIndex(d, n, f, v)
  BY <1>1, <1>3 DEF Clone, DeleteIndex, RemoveIndex, CreateIndex
<1>4. CASE \/ \E d \in Cluster, k \in Kind, S \in SUBSET Name : Begin(d, k, S)
           \/ \E d \in Cluster : BeginClose(d)
           \/ \E p \in Pit : DeletePIT(p) \/ ExpirePIT(p) \/ ReapPIT(p)
           \/ \E p \in Pit, d \in Cluster, S \in SUBSET Name : CreatePIT(p, d, S)
           \/ \E q \in Reader : \/ EndSearch(q) \/ \E d \in Cluster : StartSearch(q, d)
                                \/ \E p \in Pit : StartPITSearch(q, p)
           \/ UNCHANGED vars
  BY <1>4 DEF Begin, BeginClose, DeletePIT, ExpirePIT, ReapPIT, CreatePIT, EndSearch, StartSearch,
              StartPITSearch, vars, clusterVars
<1> QED BY <1>2, <1>3, <1>4 DEF Next

LEMMA ReadersSeeKeeps ==
    ASSUME IndInv, [Next]_vars
    PROVE  ReadersSeeTheirCluster'
<1> USE DEF IndInv, CountInv, TypeOK
<1> SUFFICES ASSUME NEW r \in Reader, rCluster'[r] # Nil, ~rHolds'[r]
             PROVE  rObjs'[r] = indices'[rCluster'[r]]
  BY DEF ReadersSeeTheirCluster
<1>1. CASE UNCHANGED readerVars
  <2>1. rCluster[r] \in Cluster /\ rObjs[r] = indices[rCluster[r]]
    BY <1>1 DEF ReadersSeeTheirCluster, readerVars
  <2> QED BY <1>1, <2>1, SeenRowsKeep DEF readerVars
<1>2. ASSUME NEW q \in Reader,
             \/ EndSearch(q) \/ (\E d \in Cluster : StartSearch(q, d))
             \/ \E p \in Pit : StartPITSearch(q, p)
      PROVE  rObjs'[r] = indices'[rCluster'[r]]
  <2>1. UNCHANGED indices
    BY <1>2 DEF EndSearch, StartSearch, StartPITSearch, clusterVars
  <2>2. CASE q = r
    BY <1>2, <2>1, <2>2 DEF EndSearch, StartSearch, StartPITSearch
  <2>3. CASE q # r
    <3>1. rObjs'[r] = rObjs[r] /\ rCluster'[r] = rCluster[r] /\ rHolds'[r] = rHolds[r]
      BY <1>2, <2>3 DEF EndSearch, StartSearch, StartPITSearch
    <3> QED BY <2>1, <3>1 DEF ReadersSeeTheirCluster
  <2> QED BY <2>2, <2>3
<1>3. ASSUME NEW d \in Cluster, RequestStep(d)
      PROVE  UNCHANGED readerVars
  BY <1>3
  DEF RequestStep, SkipTarget, LoadOwned, LoadShared, FinishCopy, FailCopy, Swap, FailApply, Install,
      EndClose, StartRebuild, Apply, FinishRebuild, CloseReleaseIndex, CloseReleasePIT
<1>4. CASE ~\E q \in Reader :
               \/ EndSearch(q) \/ (\E d \in Cluster : StartSearch(q, d))
               \/ \E p \in Pit : StartPITSearch(q, p)
  <2>1. UNCHANGED readerVars
    BY <1>3, <1>4
    DEF Next, Clone, CreateIndex, DeleteIndex, RemoveIndex, CreatePIT, DeletePIT, ExpirePIT, ReapPIT,
        Begin, BeginClose, vars
  <2> QED BY <1>1, <2>1
<1> QED BY <1>2, <1>4

\* The reference counting of Index: the counter is the number of holders, an
\* Index is closed exactly when it has none, a request that passed writable is
\* the only holder of its target, and the bookkeeping these facts rest on.
THEOREM Counting == Spec => []IndInv
<1>1. Init => IndInv
  BY InitInd DEF IndInv, Init, ReadersSeeTheirCluster
<1>2. IndInv /\ [Next]_vars => IndInv'
  BY NextKeeps, ReadersSeeKeeps DEF IndInv
<1> QED BY <1>1, <1>2, PTL DEF Spec

\* The variables keep their types; in particular no counter becomes negative,
\* whichever holders release it in whichever order.
THEOREM Types == Spec => []TypeOK
<1>1. IndInv => TypeOK
  BY DEF IndInv, CountInv
<1> QED BY <1>1, Counting, PTL

\* Index.refs counts the clusters, points in time, searches over one and
\* unfinished copies that refer to the Index.
THEOREM RefsAreHolders == Spec => []RefsCountHolders
<1>1. IndInv => RefsCountHolders
  BY DEF IndInv, CountInv
<1> QED BY <1>1, Counting, PTL

\* Index.release closes an Index when, and only when, the last holder is gone.
THEOREM ClosedByTheLast == Spec => []ClosedIffUnheld
<1>1. IndInv => ClosedIffUnheld
  BY DEF IndInv, CountInv
<1> QED BY <1>1, Counting, PTL

\* "shared index is never mutated; writer detaches first".
THEOREM WritersAreAlone == Spec => []WriterIsAlone
<1>1. IndInv => WriterIsAlone
  BY DEF IndInv, CountInv
<1> QED BY <1>1, Counting, PTL

\* What a search reads is held: by the search, or by the cluster it keeps locked.
LEMMA ReadersReadHeld ==
    ASSUME IndInv, NEW r \in Reader, NEW n \in Name, rObjs[r][n] # Nil
    PROVE  /\ rObjs[r][n] \in Obj
           /\ \E h \in Holders(rObjs[r][n]) : h[1] \in {"index", "reader"}
<1> USE DEF IndInv, CountInv
<1>1. PICK o \in Obj : o = rObjs[r][n]
  BY DEF TypeOK
<1>2. rCluster[r] \in Cluster
  BY <1>1, NilIsNothing DEF ReadersLockOut, ReadersSeeTheirCluster, NoRow, TypeOK
<1>3. CASE rHolds[r]
  <2>1. <<"reader", r, n>> \in Holders(o)
    BY <1>1, <1>3 DEF Holders, ReaderHolders
  <2> QED BY <1>1, <2>1
<1>4. CASE ~rHolds[r]
  <2>1. indices[rCluster[r]][n] = o
    BY <1>1, <1>2, <1>4, NilIsNothing DEF ReadersLockOut, ReadersSeeTheirCluster
  <2>2. <<"index", rCluster[r], n>> \in Holders(o)
    BY <1>2, <2>1 DEF Holders, IndexHolders
  <2> QED BY <1>1, <2>2
<1> QED BY <1>3, <1>4

\* No search works on an Index that another holder closed.
LEMMA ReadersReadOpen == IndInv => NoReadOfClosed
  BY ReadersReadHeld DEF IndInv, CountInv, ClosedIffUnheld, NoReadOfClosed

\* No search works on an Index that another holder closed.
THEOREM ReadsAreSafe == Spec => []NoReadOfClosed
  BY ReadersReadOpen, Counting, PTL

\* Releasing references changes no Index that stays open, nor does making one.
LEMMA OpenUnchanged ==
    ASSUME CountInv, NEW o \in Obj, ~closed[o], ~closed'[o],
           (\E row : Release(row)) \/ (\E f \in Obj : \E value : Allocate(f, value))
    PROVE  content'[o] = content[o]
<1>1. ASSUME NEW row, Release(row) PROVE content'[o] = content[o]
  <2>1. content' = [x \in Obj |-> IF Dies(row, x) THEN Blank ELSE content[x]]
    BY <1>1 DEF Release
  <2>2. closed' = [x \in Obj |-> closed[x] \/ Dies(row, x)]
    BY <1>1 DEF Release, ReleaseCount
  <2> QED BY <2>1, <2>2
<1>2. ASSUME NEW f \in Obj, NEW value, Allocate(f, value) PROVE content'[o] = content[o]
  <2>1. o # f
    BY <1>2 DEF Allocate
  <2> QED BY <1>2, <2>1 DEF Allocate, CountInv, TypeOK
<1> QED BY <1>1, <1>2

\* While a request is past writable nobody reads its target or copies it.
LEMMA TargetIsPrivate ==
    ASSUME IndInv, NEW c \in Cluster, NEW o \in Obj, pc[c] = "apply", Target(c) = o
    PROVE  WrittenBy(o, c)
<1> USE DEF IndInv, CountInv
<1>1. Holders(o) = {<<"index", c, at[c]>>} /\ o # Nil
  BY NilIsNothing DEF WriterIsAlone
<1>2. ASSUME NEW r \in Reader, NEW n \in Name, rObjs[r][n] = o PROVE FALSE
  <2>1. rCluster[r] \in Cluster /\ rCluster[r] # Nil /\ rCluster[r] # c
    BY <1>1, <1>2 DEF ReadersLockOut, ReadersSeeTheirCluster, NoRow, TypeOK
  <2>2. <<"reader", r, n>> # <<"index", c, at[c]>>
    OBVIOUS
  <2>3. CASE rHolds[r]
    <3>1. <<"reader", r, n>> \in Holders(o)
      BY <1>2, <2>3 DEF Holders, ReaderHolders
    <3> QED BY <1>1, <2>2, <3>1
  <2>4. CASE ~rHolds[r]
    <3>1. indices[rCluster[r]][n] = o
      BY <1>2, <2>1, <2>4 DEF ReadersLockOut, ReadersSeeTheirCluster
    <3>2. <<"index", rCluster[r], n>> \in Holders(o)
      BY <2>1, <3>1 DEF Holders, IndexHolders
    <3> QED BY <1>1, <2>1, <3>2
  <2> QED BY <2>3, <2>4
<1>3. ASSUME NEW d \in Cluster \ {c}, pc[d] \in {"copy", "rebuild"}, Target(d) = o PROVE FALSE
  <2>1. at[d] \in Name
    BY <1>3, TargetIsObj
  <2>2. <<"index", d, at[d]>> \in Holders(o)
    BY <1>3, <2>1 DEF Holders, IndexHolders, Target
  <2> QED BY <1>1, <2>2
<1> QED BY <1>1, <1>2, <1>3 DEF WrittenBy, Row

\* A write in place is done by the only holder, while nobody reads the Index
\* or copies from it: what copyIndex and searches rely on without a lock that
\* the writers of other clusters take.
THEOREM WritesInPlace == Spec => InPlaceOnlyByOwner
<1>1. ASSUME IndInv, Next, NEW o \in Obj, content'[o] # content[o], ~closed[o], ~closed'[o]
      PROVE  \E c \in Cluster : WrittenBy(o, c)
  <2>1. ~\E row : Release(row)
    BY <1>1, OpenUnchanged DEF IndInv
  <2>2. ~\E f \in Obj : \E value : Allocate(f, value)
    BY <1>1, OpenUnchanged DEF IndInv
  <2>3. content' # content
    BY <1>1
  <2>4. PICK c \in Cluster : \/ FinishCopy(c) \/ FailApply(c)
                             \/ \E d \in Data : Apply(c, d) \/ FinishRebuild(c, d)
    <3>1. ASSUME NEW c \in Cluster, RequestStep(c)
          PROVE  \/ FinishCopy(c) \/ FailApply(c)
                 \/ \E d \in Data : Apply(c, d) \/ FinishRebuild(c, d)
      BY <2>1, <2>2, <2>3, <3>1
         DEF RequestStep, SkipTarget, LoadOwned, CloseReleaseIndex, LoadShared, FailCopy, Swap,
             StartRebuild, Install, CloseReleasePIT, FreePIT, EndClose, objVars
    <3>2. \E c \in Cluster : RequestStep(c)
      BY <1>1, <2>1, <2>2, <2>3
         DEF Next, Clone, CreateIndex, DeleteIndex, RemoveIndex, CreatePIT, DeletePIT, ExpirePIT,
             ReapPIT, FreePIT, StartSearch, StartPITSearch, EndSearch, Begin, BeginClose, objVars
    <3> QED BY <3>1, <3>2
  <2>5. CASE FinishCopy(c) \/ \E d \in Data : FinishRebuild(c, d)
    <3>1. PICK value : content' = [content EXCEPT ![fresh[c]] = value]
      BY <2>5 DEF FinishCopy, FinishRebuild
    <3>2. fresh[c] = o
      BY <1>1, <3>1 DEF IndInv, CountInv, TypeOK
    <3> QED BY <1>1, <3>2 DEF WrittenBy, IndInv, CountInv, FreshIsPrivate
  <2>6. CASE FailApply(c)
    BY <2>3, <2>6 DEF FailApply, objVars
  <2>7. CASE \E d \in Data : Apply(c, d)
    <3>1. PICK value : content' = [content EXCEPT ![Target(c)] = value]
      BY <2>7 DEF Apply, SetContent
    <3>2. pc[c] = "apply" /\ Target(c) = o
      BY <1>1, <2>7, <3>1 DEF Apply, IndInv, CountInv, TypeOK
    <3> QED BY <1>1, <3>2, TargetIsPrivate
  <2> QED BY <2>4, <2>5, <2>6, <2>7
<1>2. IndInv /\ [Next]_vars => [InPlaceStep]_vars
  BY <1>1 DEF InPlaceStep
<1> QED BY <1>2, Counting, PTL DEF Spec, InPlaceOnlyByOwner

-----------------------------------------------------------------------------
(* CopyOnWrite implements ClusterStore: the sharing of Index objects between *)
(* clusters, points in time and searches cannot be observed.  What precedes  *)
(* says who holds an object; here follows what the holders see of it.        *)

View == [c \in Cluster |-> ContentOf(indices[c])]
Snap == [p \in Pit |-> ContentOf(pitObj[p])]
Reading == [r \in Reader |-> ContentOf(rObjs[r])]

\* Objects that are open before and after the step keep what they have.
OpenKeep(S) == \A o \in Obj \ S : ~closed[o] /\ ~closed'[o] => content'[o] = content[o]

-----------------------------------------------------------------------------
(* What is seen is open. *)

\* Clusters and points in time refer to open objects, which they hold, and
\* searches read open objects.
Opened ==
    /\ \A c \in Cluster, n \in Name : indices[c][n] # Nil =>
          /\ indices[c][n] \in Obj /\ ~closed[indices[c][n]]
          /\ <<"index", c, n>> \in Holders(indices[c][n])
    /\ \A p \in Pit, n \in Name : pitObj[p][n] # Nil =>
          /\ pitObj[p][n] \in Obj /\ ~closed[pitObj[p][n]]
          /\ <<"pit", p, n>> \in Holders(pitObj[p][n])
    /\ \A r \in Reader, n \in Name : rObjs[r][n] # Nil =>
          rObjs[r][n] \in Obj /\ ~closed[rObjs[r][n]]

LEMMA RowsOpen == IndInv => Opened
<1> SUFFICES ASSUME IndInv PROVE Opened
  OBVIOUS
<1>1. ASSUME NEW c \in Cluster, NEW n \in Name, indices[c][n] # Nil
      PROVE  indices[c][n] \in Obj /\ <<"index", c, n>> \in Holders(indices[c][n])
  BY <1>1 DEF IndInv, CountInv, TypeOK, Holders, IndexHolders
<1>2. ASSUME NEW p \in Pit, NEW n \in Name, pitObj[p][n] # Nil
      PROVE  pitObj[p][n] \in Obj /\ <<"pit", p, n>> \in Holders(pitObj[p][n])
  BY <1>2 DEF IndInv, CountInv, TypeOK, Holders, PitHolders
<1>3. \A o \in Obj : Holders(o) # {} => ~closed[o]
  BY DEF IndInv, CountInv, ClosedIffUnheld
<1>4. \A r \in Reader, n \in Name : rObjs[r][n] # Nil => rObjs[r][n] \in Obj /\ ~closed[rObjs[r][n]]
  BY <1>3, ReadersReadHeld
<1> QED BY <1>1, <1>2, <1>3, <1>4 DEF Opened

LEMMA RowsStayOpen == IndInv' => Opened'
  BY RowsOpen, PTL

\* The rows of clusters, points in time and searches after a step that changes
\* the contents of no open object but those in S.
LEMMA RowsKeep ==
    ASSUME IndInv, IndInv', NEW S, OpenKeep(S)
    PROVE  /\ \A c \in Cluster, n \in Name :
                 indices'[c][n] = indices[c][n] /\ indices[c][n] \notin S
                 => View'[c][n] = View[c][n]
           /\ \A p \in Pit, n \in Name :
                 pitObj'[p][n] = pitObj[p][n] /\ pitObj[p][n] \notin S
                 => Snap'[p][n] = Snap[p][n]
           /\ \A r \in Reader, n \in Name :
                 rObjs'[r][n] = rObjs[r][n] /\ rObjs[r][n] \notin S
                 => Reading'[r][n] = Reading[r][n]
<1>1. ASSUME NEW c \in Cluster, NEW n \in Name, indices'[c][n] = indices[c][n], indices[c][n] \notin S
      PROVE  View'[c][n] = View[c][n]
  <2>1. indices[c][n] # Nil => content'[indices[c][n]] = content[indices[c][n]]
    BY <1>1, RowsOpen, RowsStayOpen DEF OpenKeep, Opened
  <2> QED BY <1>1, <2>1 DEF View, ContentOf
<1>2. ASSUME NEW p \in Pit, NEW n \in Name, pitObj'[p][n] = pitObj[p][n], pitObj[p][n] \notin S
      PROVE  Snap'[p][n] = Snap[p][n]
  <2>1. pitObj[p][n] # Nil => content'[pitObj[p][n]] = content[pitObj[p][n]]
    BY <1>2, RowsOpen, RowsStayOpen DEF OpenKeep, Opened
  <2> QED BY <1>2, <2>1 DEF Snap, ContentOf
<1>3. ASSUME NEW r \in Reader, NEW n \in Name, rObjs'[r][n] = rObjs[r][n], rObjs[r][n] \notin S
      PROVE  Reading'[r][n] = Reading[r][n]
  <2>1. rObjs[r][n] # Nil => content'[rObjs[r][n]] = content[rObjs[r][n]]
    BY <1>3, RowsOpen, RowsStayOpen DEF OpenKeep, Opened
  <2> QED BY <1>3, <2>1 DEF Reading, ContentOf
<1> QED BY <1>1, <1>2, <1>3

-----------------------------------------------------------------------------
(* Steps of the abstract store. *)

\* No point in time and no search refers to an object of S.
Unseen(S) ==
    /\ \A p \in Pit, n \in Name : pitObj[p][n] \notin S
    /\ \A r \in Reader, n \in Name : rObjs[r][n] \notin S

\* Releasing and making objects leaves open ones alone.
LEMMA QuietKeeps ==
    ASSUME CountInv,
           \/ UNCHANGED content
           \/ \E row : Release(row)
           \/ \E f \in Obj : \E value : Allocate(f, value)
    PROVE  OpenKeep({})
  BY OpenUnchanged DEF OpenKeep

\* A step that changes one index of one cluster is an update of the store.
LEMMA UpdatesOne ==
    ASSUME IndInv, IndInv', NEW c \in Cluster, NEW n \in Name, NEW S, OpenKeep(S), Unseen(S),
           UNCHANGED <<pitObj, rObjs>>,
           \A d \in Cluster, m \in Name : <<d, m>> # <<c, n>> =>
               indices'[d][m] = indices[d][m] /\ indices[d][m] \notin S
    PROVE  Store!Update(c)
<1> DEFINE value == View'[c][n]
<1>1. value \in Content \cup {Nil}
  BY DEF View, ContentOf, IndInv, CountInv, TypeOK
<1>2. \A d \in Cluster, m \in Name : <<d, m>> # <<c, n>> => View'[d][m] = View[d][m]
  BY RowsKeep
<1>3. View' = [View EXCEPT ![c][n] = value]
  <2> HIDE DEF value
  <2>1. View' = [d \in Cluster |-> [m \in Name |-> View'[d][m]]]
    BY DEF View, ContentOf
  <2>2. View = [d \in Cluster |-> [m \in Name |-> View[d][m]]]
    BY DEF View, ContentOf
  <2>3. View'[c][n] = value
    BY DEF value
  <2> QED BY <1>2, <2>1, <2>2, <2>3
<1>4. Snap' = Snap
  BY RowsKeep DEF Snap, ContentOf, Unseen
<1>5. Reading' = Reading
  BY RowsKeep DEF Reading, ContentOf, Unseen
<1> HIDE DEF value
<1> QED BY <1>1, <1>3, <1>4, <1>5 DEF Store!Update, View, Snap, Reading

\* A step that changes no row and nothing a row refers to cannot be observed.
LEMMA ShowsNothing ==
    ASSUME IndInv, IndInv', NEW S, OpenKeep(S), Unseen(S),
           UNCHANGED <<indices, pitObj, rObjs>>,
           \A c \in Cluster, n \in Name : indices[c][n] \notin S
    PROVE  UNCHANGED Store!vars
<1>1. View' = View
  BY RowsKeep DEF View, ContentOf
<1>2. Snap' = Snap
  BY RowsKeep DEF Snap, ContentOf, Unseen
<1>3. Reading' = Reading
  BY RowsKeep DEF Reading, ContentOf, Unseen
<1> QED BY <1>1, <1>2, <1>3 DEF Store!vars, View, Snap, Reading

\* An index is made, dropped or replaced.
LEMMA ReplacesOne ==
    ASSUME IndInv, IndInv', NEW c \in Cluster, NEW n \in Name, NEW x,
           indices' = [indices EXCEPT ![c][n] = x], UNCHANGED <<pitObj, rObjs>>, OpenKeep({})
    PROVE  Store!Next
<1>1. \A d \in Cluster, m \in Name : <<d, m>> # <<c, n>> => indices'[d][m] = indices[d][m]
  BY DEF IndInv, CountInv, TypeOK
<1>2. Unseen({})
  BY DEF Unseen
<1>3. Store!Update(c)
  BY <1>1, <1>2, UpdatesOne
<1> QED BY <1>3 DEF Store!Next

\* Cluster.Clone
LEMMA CloneRefines ==
    ASSUME IndInv, IndInv', NEW c \in Cluster, NEW d \in Cluster, Clone(c, d)
    PROVE  Store!Next
<1>1. OpenKeep({}) /\ Unseen({}) /\ UNCHANGED <<pitObj, rObjs>> /\ indices' = [indices EXCEPT ![d] = indices[c]]
  BY QuietKeeps DEF IndInv, Clone, Unseen, pitVars, readerVars
<1>2. View[d] = Store!Nothing
  BY DEF View, ContentOf, Clone, IndInv, CountInv, RequestOK, NoRow, Store!Nothing
<1>3. UNCHANGED content
  BY DEF Clone
<1>4. View' = [View EXCEPT ![d] = View[c]]
  <2>1. indices'[d] = indices[c] /\ \A e \in Cluster \ {d} : indices'[e] = indices[e]
    BY <1>1 DEF IndInv, CountInv, TypeOK
  <2>2. View'[d] = View[c] /\ \A e \in Cluster \ {d} : View'[e] = View[e]
    BY <1>3, <2>1 DEF View, ContentOf
  <2>3. View' = [e \in Cluster |-> View'[e]] /\ View = [e \in Cluster |-> View[e]]
    BY DEF View
  <2> QED BY <2>2, <2>3
<1>5. Snap' = Snap /\ Reading' = Reading
  BY <1>1, <1>3 DEF Snap, Reading, ContentOf
<1>6. Store!Clone(c, d)
  BY <1>2, <1>4, <1>5 DEF Store!Clone, View, Snap, Reading
<1> QED BY <1>6 DEF Store!Next

\* CreatePIT
LEMMA CreatePITRefines ==
    ASSUME IndInv, IndInv', NEW p \in Pit, NEW c \in Cluster, NEW S \in SUBSET Name, CreatePIT(p, c, S)
    PROVE  Store!Next
<1> DEFINE row == [n \in Name |-> IF n \in S THEN indices[c][n] ELSE Nil]
<1>1. pitObj' = [pitObj EXCEPT ![p] = row] /\ UNCHANGED <<indices, content, rObjs>>
  BY DEF CreatePIT, clusterVars, readerVars
<1>2. Snap[p] = Store!Nothing
  BY DEF Snap, ContentOf, CreatePIT, IndInv, CountInv, ReadersLockOut, NoRow, Store!Nothing
<1>3. Snap' = [Snap EXCEPT ![p] = Store!Part(View[c], S)]
  <2>1. pitObj'[p] = row /\ \A q \in Pit \ {p} : pitObj'[q] = pitObj[q]
    BY <1>1 DEF IndInv, CountInv, TypeOK
  <2>2. Snap'[p] = Store!Part(View[c], S)
    BY <1>1, <2>1 DEF Snap, View, ContentOf, Store!Part
  <2>3. \A q \in Pit \ {p} : Snap'[q] = Snap[q]
    BY <1>1, <2>1 DEF Snap, ContentOf
  <2>4. Snap' = [q \in Pit |-> Snap'[q]] /\ Snap = [q \in Pit |-> Snap[q]]
    BY DEF Snap
  <2> QED BY <2>2, <2>3, <2>4
<1>4. View' = View /\ Reading' = Reading
  BY <1>1 DEF View, Reading, ContentOf
<1>5. Store!CreatePIT(p, c)
  BY <1>2, <1>3, <1>4 DEF Store!CreatePIT, View, Snap, Reading
<1> QED BY <1>5 DEF Store!Next

\* DeletePIT, expiry and Close free a point in time.
LEMMA FreePITRefines ==
    ASSUME IndInv, IndInv', NEW p \in Pit, FreePIT(p), UNCHANGED <<indices, rObjs>>
    PROVE  Store!Next
<1>1. OpenKeep({})
  BY QuietKeeps DEF IndInv, FreePIT
<1>2. pitObj' = [pitObj EXCEPT ![p] = NoRow]
  BY DEF FreePIT
<1>3. View' = View /\ Reading' = Reading
  BY <1>1, RowsKeep DEF View, Reading, ContentOf
<1>4. \A q \in Pit \ {p}, n \in Name : Snap'[q][n] = Snap[q][n]
  BY <1>1, <1>2, RowsKeep DEF IndInv, CountInv, TypeOK
<1>5. Snap'[p] = Store!Nothing
  BY <1>2 DEF Snap, ContentOf, NoRow, IndInv, CountInv, TypeOK, Store!Nothing
<1>6. Snap' = [Snap EXCEPT ![p] = Store!Nothing]
  <2>1. \A q \in Pit \ {p} : Snap'[q] = Snap[q]
    BY <1>4 DEF Snap, ContentOf
  <2>2. Snap' = [q \in Pit |-> Snap'[q]] /\ Snap = [q \in Pit |-> Snap[q]]
    BY DEF Snap
  <2> QED BY <1>5, <2>1, <2>2
<1>7. Store!DeletePIT(p)
  BY <1>3, <1>6 DEF Store!DeletePIT, View, Snap, Reading
<1> QED BY <1>7 DEF Store!Next

\* A search starts on a row of its cluster or of a point in time.
LEMMA StartRefines ==
    ASSUME IndInv, NEW r \in Reader, NEW row, rCluster[r] = Nil,
           \/ \E c \in Cluster : row = indices[c]
           \/ \E p \in Pit : row = pitObj[p],
           rObjs' = [rObjs EXCEPT ![r] = row], UNCHANGED <<indices, content, pitObj>>
    PROVE  Store!Next
<1>1. Reading[r] = Store!Nothing
  BY DEF Reading, ContentOf, IndInv, CountInv, ReadersLockOut, NoRow, Store!Nothing
<1>2. Reading' = [Reading EXCEPT ![r] = ContentOf(row)]
  BY DEF Reading, ContentOf, IndInv, CountInv, TypeOK
<1>3. ContentOf(row) \in {View[c] : c \in Cluster} \cup {Snap[p] : p \in Pit}
  BY DEF View, Snap
<1>4. View' = View /\ Snap' = Snap
  BY DEF View, Snap, ContentOf
<1>5. Store!StartSearch(r)
  BY <1>1, <1>2, <1>3, <1>4 DEF Store!StartSearch, View, Snap, Reading
<1> QED BY <1>5 DEF Store!Next

LEMMA EndSearchRefines ==
    ASSUME IndInv, IndInv', NEW r \in Reader, EndSearch(r)
    PROVE  Store!Next
<1>1. UNCHANGED <<indices, pitObj>> /\ rObjs' = [rObjs EXCEPT ![r] = NoRow]
  BY DEF EndSearch, clusterVars, pitVars
<1>2. OpenKeep({})
  BY QuietKeeps DEF IndInv, EndSearch, objVars
<1>3. View' = View /\ Snap' = Snap
  BY <1>1, <1>2, RowsKeep DEF View, Snap, ContentOf
<1>4. \A q \in Reader \ {r}, n \in Name : Reading'[q][n] = Reading[q][n]
  BY <1>1, <1>2, RowsKeep DEF IndInv, CountInv, TypeOK
<1>5. Reading'[r] = Store!Nothing
  BY <1>1 DEF Reading, ContentOf, NoRow, IndInv, CountInv, TypeOK, Store!Nothing
<1>6. Reading' = [Reading EXCEPT ![r] = Store!Nothing]
  <2>1. \A q \in Reader \ {r} : Reading'[q] = Reading[q]
    BY <1>4 DEF Reading, ContentOf
  <2>2. Reading' = [q \in Reader |-> Reading'[q]] /\ Reading = [q \in Reader |-> Reading[q]]
    BY DEF Reading
  <2> QED BY <1>5, <2>1, <2>2
<1>7. Store!EndSearch(r)
  BY <1>3, <1>6 DEF Store!EndSearch, View, Snap, Reading
<1> QED BY <1>7 DEF Store!Next

-----------------------------------------------------------------------------
(* The steps of the request that holds c.mu.Lock. *)

\* A copy under construction is seen by nobody.
LEMMA FreshUnseen ==
    ASSUME IndInv, NEW c \in Cluster, fresh[c] # Nil
    PROVE  /\ fresh[c] \in Obj
           /\ Unseen({fresh[c]})
           /\ \A d \in Cluster, n \in Name : indices[d][n] # fresh[c]
<1>1. PICK o \in Obj : o = fresh[c] /\ o # Nil
  BY DEF IndInv, CountInv, TypeOK
<1>2. \A h \in Holders(o) : h[1] = "fresh"
  BY <1>1 DEF IndInv, CountInv, FreshIsPrivate
<1>3. ASSUME NEW d \in Cluster, NEW n \in Name, indices[d][n] = o
      PROVE  FALSE
  <2>1. <<"index", d, n>> \in Holders(o)
    BY <1>1, <1>3, RowsOpen DEF Opened
  <2> QED BY <1>2, <2>1
<1>4. ASSUME NEW p \in Pit, NEW n \in Name, pitObj[p][n] = o
      PROVE  FALSE
  <2>1. <<"pit", p, n>> \in Holders(o)
    BY <1>1, <1>4, RowsOpen DEF Opened
  <2> QED BY <1>2, <2>1
<1>5. ASSUME NEW r \in Reader, NEW n \in Name, rObjs[r][n] = o
      PROVE  FALSE
  BY <1>1, <1>2, <1>5, ReadersReadHeld
<1> QED BY <1>1, <1>3, <1>4, <1>5 DEF Unseen

\* The target of a write is seen through one name of the cluster only.
LEMMA TargetUnseen ==
    ASSUME IndInv, NEW c \in Cluster, pc[c] = "apply"
    PROVE  /\ Unseen({Target(c)})
           /\ \A d \in Cluster, n \in Name : <<d, n>> # <<c, at[c]>> => indices[d][n] # Target(c)
           /\ \A d \in Cluster : fresh[d] # Target(c)
<1>1. PICK o \in Obj : o = Target(c) /\ o # Nil
  BY TargetIsObj, NilIsNothing DEF IndInv
<1>2. \A h \in Holders(o) : h = <<"index", c, at[c]>>
  BY <1>1 DEF IndInv, CountInv, WriterIsAlone
<1>3. ASSUME NEW d \in Cluster, NEW n \in Name, indices[d][n] = o
      PROVE  <<d, n>> = <<c, at[c]>>
  <2>1. <<"index", d, n>> \in Holders(o)
    BY <1>1, <1>3, RowsOpen DEF Opened
  <2>2. <<"index", d, n>> = <<"index", c, at[c]>>
    BY <1>2, <2>1
  <2> QED BY <2>2
<1>4. ASSUME NEW p \in Pit, NEW n \in Name, pitObj[p][n] = o
      PROVE  FALSE
  <2>1. <<"pit", p, n>> \in Holders(o)
    BY <1>1, <1>4, RowsOpen DEF Opened
  <2> QED BY <1>2, <2>1
<1>5. ASSUME NEW d \in Cluster, fresh[d] = o
      PROVE  FALSE
  <2>1. <<"fresh", d, Nil>> \in Holders(o)
    BY <1>5 DEF IndInv, CountInv, FreshIsPrivate
  <2> QED BY <1>2, <2>1
<1>6. \A r \in Reader, n \in Name : rObjs[r][n] # o
  <2>1. WrittenBy(o, c)
    BY <1>1, TargetIsPrivate
  <2> QED BY <1>5, <2>1 DEF WrittenBy, Row
<1> QED BY <1>1, <1>3, <1>4, <1>5, <1>6 DEF Unseen

LEMMA RequestRefines ==
    ASSUME IndInv, IndInv', NEW c \in Cluster, RequestStep(c)
    PROVE  [Store!Next]_(Store!vars)
<1>0. Unseen({})
  BY DEF Unseen
<1>1. CASE \/ \E n \in Name : SkipTarget(c, n) \/ LoadOwned(c, n)
           \/ FailApply(c) \/ EndClose(c)
  <2>1. UNCHANGED <<indices, content, pitObj, rObjs>>
    BY <1>1 DEF SkipTarget, LoadOwned, FailApply, EndClose, clusterVars, objVars, pitVars, readerVars
  <2>2. OpenKeep({})
    BY <2>1, QuietKeeps DEF IndInv
  <2> QED BY <1>0, <2>1, <2>2, ShowsNothing
<1>2. CASE \/ \E n \in Name, f \in Obj : LoadShared(c, n, f)
           \/ \E f \in Obj : StartRebuild(c, f)
           \/ FailCopy(c)
  <2>1. UNCHANGED <<indices, pitObj, rObjs>>
    BY <1>2 DEF LoadShared, StartRebuild, FailCopy, clusterVars, pitVars, readerVars
  <2>2. OpenKeep({})
    BY <1>2, QuietKeeps DEF IndInv, LoadShared, StartRebuild, FailCopy
  <2> QED BY <1>0, <2>1, <2>2, ShowsNothing
<1>3. CASE FinishCopy(c) \/ \E d \in Data : FinishRebuild(c, d)
  <2>1. fresh[c] # Nil /\ UNCHANGED <<indices, pitObj, rObjs>>
    BY <1>3 DEF FinishCopy, FinishRebuild, IndInv, CountInv, RequestOK, clusterVars, pitVars, readerVars
  <2>2. OpenKeep({fresh[c]})
    BY <1>3 DEF FinishCopy, FinishRebuild, OpenKeep, IndInv, CountInv, TypeOK
  <2> QED BY <2>1, <2>2, FreshUnseen, ShowsNothing
<1>4. CASE Swap(c) \/ Install(c)
  <2>1. at[c] \in Name
    BY <1>4, TargetIsObj DEF Swap, Install, IndInv
  <2>2. /\ indices' = [indices EXCEPT ![c][at[c]] = fresh[c]]
        /\ UNCHANGED <<pitObj, rObjs>> /\ OpenKeep({})
    BY <1>4, QuietKeeps DEF IndInv, Swap, Install, pitVars, readerVars
  <2> QED BY <2>1, <2>2, ReplacesOne
<1>5. ASSUME NEW n \in Name, CloseReleaseIndex(c, n)
      PROVE  Store!Next
  <2>1. /\ indices' = [indices EXCEPT ![c][n] = Nil]
        /\ UNCHANGED <<pitObj, rObjs>> /\ OpenKeep({})
    BY <1>5, QuietKeeps DEF IndInv, CloseReleaseIndex, pitVars, readerVars
  <2> QED BY <2>1, ReplacesOne
<1>6. ASSUME NEW d \in Data, Apply(c, d)
      PROVE  Store!Next
  <2>1. pc[c] = "apply" /\ at[c] \in Name /\ UNCHANGED <<indices, pitObj, rObjs>>
    BY <1>6, TargetIsObj DEF Apply, IndInv, clusterVars, readerVars
  <2>2. OpenKeep({Target(c)})
    BY <1>6 DEF Apply, SetContent, OpenKeep, IndInv, CountInv, TypeOK
  <2>3. \A e \in Cluster, m \in Name : <<e, m>> # <<c, at[c]>> =>
            indices'[e][m] = indices[e][m] /\ indices[e][m] \notin {Target(c)}
    BY <2>1, TargetUnseen
  <2>4. Store!Update(c)
    BY <2>1, <2>2, <2>3, TargetUnseen, UpdatesOne
  <2> QED BY <2>4 DEF Store!Next
<1>7. ASSUME NEW p \in Pit, CloseReleasePIT(c, p)
      PROVE  Store!Next
  BY <1>7, FreePITRefines DEF CloseReleasePIT, clusterVars, readerVars
<1> QED BY <1>1, <1>2, <1>3, <1>4, <1>5, <1>6, <1>7 DEF RequestStep

LEMMA StepRefines ==
    ASSUME IndInv, IndInv', [Next]_vars
    PROVE  [Store!Next]_(Store!vars)
<1>0. Unseen({})
  BY DEF Unseen
<1>1. ASSUME NEW c \in Cluster, NEW d \in Cluster, Clone(c, d)
      PROVE  Store!Next
  BY <1>1, CloneRefines
<1>2. ASSUME NEW c \in Cluster, NEW n \in Name,
             \/ DeleteIndex(c, n) \/ RemoveIndex(c, n)
             \/ \E f \in Obj, d \in Data : CreateIndex(c, n, f, d)
      PROVE  Store!Next
  <2>1. \E x : indices' = [indices EXCEPT ![c][n] = x]
    BY <1>2 DEF DeleteIndex, RemoveIndex, CreateIndex
  <2>2. UNCHANGED <<pitObj, rObjs>> /\ OpenKeep({})
    BY <1>2, QuietKeeps DEF IndInv, DeleteIndex, RemoveIndex, CreateIndex, pitVars, readerVars
  <2> QED BY <2>1, <2>2, ReplacesOne
<1>3. ASSUME NEW p \in Pit, NEW c \in Cluster, NEW S \in SUBSET Name, CreatePIT(p, c, S)
      PROVE  Store!Next
  BY <1>3, CreatePITRefines
<1>4. ASSUME NEW p \in Pit, DeletePIT(p) \/ ReapPIT(p)
      PROVE  Store!Next
  BY <1>4, FreePITRefines DEF DeletePIT, ReapPIT, clusterVars, readerVars
<1>5. ASSUME NEW r \in Reader,
             (\E c \in Cluster : StartSearch(r, c)) \/ \E p \in Pit : StartPITSearch(r, p)
      PROVE  Store!Next
  <2>1. CASE \E c \in Cluster : StartSearch(r, c)
    BY <2>1, StartRefines DEF StartSearch, clusterVars, objVars, pitVars
  <2>2. CASE \E p \in Pit : StartPITSearch(r, p)
    BY <2>2, StartRefines DEF StartPITSearch, clusterVars, pitVars
  <2> QED BY <1>5, <2>1, <2>2
<1>6. ASSUME NEW r \in Reader, EndSearch(r)
      PROVE  Store!Next
  BY <1>6, EndSearchRefines
<1>7. ASSUME \/ \E p \in Pit : ExpirePIT(p)
             \/ \E c \in Cluster, k \in Kind, S \in SUBSET Name : Begin(c, k, S)
             \/ \E c \in Cluster : BeginClose(c)
             \/ UNCHANGED vars
      PROVE  UNCHANGED Store!vars
  <2>1. UNCHANGED <<indices, content, pitObj, rObjs>>
    BY <1>7 DEF ExpirePIT, Begin, BeginClose, vars, clusterVars, objVars, pitVars, readerVars
  <2>2. OpenKeep({})
    BY <2>1, QuietKeeps DEF IndInv
  <2> QED BY <1>0, <2>1, <2>2, ShowsNothing
<1>8. ASSUME NEW c \in Cluster, RequestStep(c)
      PROVE  [Store!Next]_(Store!vars)
  BY <1>8, RequestRefines
<1> QED BY <1>1, <1>2, <1>3, <1>4, <1>5, <1>6, <1>7, <1>8 DEF Next

\* The sharing is invisible: every cluster has indices of its own, a clone
\* starts with those of its origin, a point in time and a search keep what they
\* started with, and one step changes one index of one cluster.
THEOREM SharingIsInvisible == Spec => ImplementsStore
<1>1. Init => Store!Init
  BY DEF Init, Store!Init, Store!Nothing, ContentOf, NoRow
<1>2. IndInv /\ IndInv' /\ [Next]_vars => [Store!Next]_(Store!vars)
  BY StepRefines
<1> QED BY <1>1, <1>2, Counting, PTL DEF Spec, ImplementsStore, Store!Spec

-----------------------------------------------------------------------------
(* Copies. *)

\* The request about to install a copy keeps it, its target and its cluster.
LEMMA SwapWaits ==
    ASSUME IndInv, [Next]_vars, NEW c \in Cluster, pc'[c] \in {"swap", "install"},
           ~FinishCopy(c), ~\E v \in Data : FinishRebuild(c, v)
    PROVE  pc[c] = pc'[c] /\ fresh'[c] = fresh[c] /\ at'[c] = at[c] /\ indices'[c] = indices[c]
<1> USE DEF IndInv, CountInv, TypeOK
<1>1. ASSUME NEW d \in Cluster, RequestStep(d)
      PROVE  pc[c] = pc'[c] /\ fresh'[c] = fresh[c] /\ at'[c] = at[c] /\ indices'[c] = indices[c]
  <2>1. CASE d = c
    <3>1. \/ \E n \in Name : SkipTarget(c, n) \/ LoadOwned(c, n) \/ \E f \in Obj : LoadShared(c, n, f)
          \/ FailCopy(c) \/ Swap(c) \/ FailApply(c) \/ Install(c) \/ EndClose(c)
          \/ \E f \in Obj : StartRebuild(c, f)
          \/ \E v \in Data : Apply(c, v)
          => pc'[c] \notin {"swap", "install"}
      BY DEF SkipTarget, LoadOwned, LoadShared, FailCopy, Swap, FailApply, Install, EndClose,
             StartRebuild, Apply, FailTarget, NextTarget, Abort
    <3>2. ~(\E n \in Name : CloseReleaseIndex(c, n)) /\ ~(\E p \in Pit : CloseReleasePIT(c, p))
      BY DEF CloseReleaseIndex, CloseReleasePIT, opVars
    <3> QED BY <1>1, <2>1, <3>1, <3>2 DEF RequestStep
  <2>2. CASE d # c
    <3>1. pc'[c] = pc[c] /\ fresh'[c] = fresh[c] /\ at'[c] = at[c]
      BY <1>1, <2>2
      DEF RequestStep, SkipTarget, LoadOwned, LoadShared, FinishCopy, FailCopy, Swap, FailApply, Install,
          EndClose, StartRebuild, Apply, FinishRebuild, FailTarget, NextTarget, Abort,
          CloseReleaseIndex, CloseReleasePIT, opVars
    <3>2. indices'[c] = indices[c]
      BY <1>1, <2>2
      DEF RequestStep, SkipTarget, LoadOwned, LoadShared, FinishCopy, FailCopy, Swap, FailApply, Install,
          EndClose, StartRebuild, Apply, FinishRebuild, CloseReleaseIndex, CloseReleasePIT, clusterVars
    <3> QED BY <3>1, <3>2
  <2> QED BY <2>1, <2>2
<1>2. CASE \/ \E d \in Cluster, k \in Kind, S \in SUBSET Name : Begin(d, k, S)
           \/ \E d \in Cluster : BeginClose(d)
           \/ UNCHANGED vars
  BY <1>2 DEF Begin, BeginClose, vars, clusterVars, opVars
<1>3. CASE \/ \E d, e \in Cluster : Clone(d, e)
           \/ \E d \in Cluster, n \in Name :
                 \/ DeleteIndex(d, n) \/ RemoveIndex(d, n)
                 \/ \E f \in Obj, v \in Data : CreateIndex(d, n, f, v)
  <2>1. UNCHANGED opVars
    BY <1>3 DEF Clone, DeleteIndex, RemoveIndex, CreateIndex
  <2>2. indices'[c] = indices[c]
    BY <1>3, <2>1 DEF Clone, DeleteIndex, RemoveIndex, CreateIndex, Free, Unlocked, RequestOK, opVars
  <2> QED BY <2>1, <2>2 DEF opVars
<1>4. CASE \/ \E p \in Pit : DeletePIT(p) \/ ExpirePIT(p) \/ ReapPIT(p)
           \/ \E p \in Pit, d \in Cluster, S \in SUBSET Name : CreatePIT(p, d, S)
           \/ \E r \in Reader : \/ EndSearch(r) \/ \E d \in Cluster : StartSearch(r, d)
                                \/ \E p \in Pit : StartPITSearch(r, p)
  BY <1>4 DEF DeletePIT, ExpirePIT, ReapPIT, CreatePIT, EndSearch, StartSearch, StartPITSearch, clusterVars, opVars
<1> QED BY <1>1, <1>2, <1>3, <1>4 DEF Next

\* A step writes to one open object at most: a copy under construction or the
\* target of a request past writable.
LEMMA WritesOne ==
    ASSUME CountInv, [Next]_vars
    PROVE  \/ OpenKeep({})
           \/ \E d \in Cluster : /\ pc[d] \in {"copy", "rebuild"}
                                 /\ OpenKeep({fresh[d]})
           \/ \E d \in Cluster : pc[d] = "apply" /\ OpenKeep({Target(d)})
<1>1. ASSUME NEW d \in Cluster, FinishCopy(d) \/ \E v \in Data : FinishRebuild(d, v)
      PROVE  pc[d] \in {"copy", "rebuild"} /\ OpenKeep({fresh[d]})
  BY <1>1 DEF FinishCopy, FinishRebuild, OpenKeep, CountInv, TypeOK
<1>2. ASSUME NEW d \in Cluster, NEW v \in Data, Apply(d, v)
      PROVE  pc[d] = "apply" /\ OpenKeep({Target(d)})
  BY <1>2 DEF Apply, SetContent, OpenKeep, CountInv, TypeOK
<1>3. ASSUME NEW d \in Cluster, RequestStep(d), ~FinishCopy(d), ~\E v \in Data : FinishRebuild(d, v) \/ Apply(d, v)
      PROVE  OpenKeep({})
  BY <1>3, QuietKeeps
  DEF RequestStep, SkipTarget, LoadOwned, LoadShared, FailCopy, Swap, FailApply, Install,
      EndClose, StartRebuild, CloseReleaseIndex, CloseReleasePIT, FreePIT, objVars
<1>4. CASE ~\E d \in Cluster : RequestStep(d)
  BY <1>4, QuietKeeps
  DEF Next, Clone, CreateIndex, DeleteIndex, RemoveIndex, CreatePIT, DeletePIT, ExpirePIT, ReapPIT,
      FreePIT, StartSearch, StartPITSearch, EndSearch, Begin, BeginClose, objVars, vars
<1> QED BY <1>1, <1>2, <1>3, <1>4

\* While a finished copy waits to be installed nothing writes to it or to its source.
LEMMA CopyWaits ==
    ASSUME IndInv, IndInv', [Next]_vars, NEW c \in Cluster, pc'[c] \in {"swap", "install"},
           ~FinishCopy(c), ~\E v \in Data : FinishRebuild(c, v)
    PROVE  /\ pc[c] = pc'[c]
           /\ content'[fresh'[c]] = content[fresh[c]]
           /\ content'[indices'[c][at'[c]]] = content[Target(c)]
<1>1. pc[c] = pc'[c] /\ fresh'[c] = fresh[c] /\ at'[c] = at[c] /\ indices'[c] = indices[c]
  BY SwapWaits
<1>2. /\ fresh[c] \in Obj /\ fresh[c] # Nil /\ at[c] \in Name
      /\ Target(c) \in Obj /\ Target(c) = indices[c][at[c]] /\ Target(c) # Nil
  BY <1>1, FreshUnseen, TargetIsObj, NilIsNothing DEF Target, IndInv, CountInv, RequestOK
<1>3. ~closed[Target(c)] /\ ~closed'[Target(c)]
  BY <1>1, <1>2, RowsOpen, RowsStayOpen DEF Opened
<1>4. ~closed[fresh[c]] /\ ~closed'[fresh[c]]
  BY <1>1, <1>2 DEF IndInv, CountInv, FreshIsPrivate, ClosedIffUnheld
<1>5. \A S : OpenKeep(S) /\ fresh[c] \notin S /\ Target(c) \notin S
             => content'[fresh[c]] = content[fresh[c]] /\ content'[Target(c)] = content[Target(c)]
  BY <1>2, <1>3, <1>4 DEF OpenKeep
<1>6. content'[fresh[c]] = content[fresh[c]] /\ content'[Target(c)] = content[Target(c)]
  <2>1. CASE OpenKeep({})
    BY <1>5, <2>1
  <2>2. ASSUME NEW d \in Cluster, pc[d] \in {"copy", "rebuild"}, OpenKeep({fresh[d]})
        PROVE  content'[fresh[c]] = content[fresh[c]] /\ content'[Target(c)] = content[Target(c)]
    <3>1. d # c /\ fresh[d] # Nil
      BY <1>1, <2>2 DEF IndInv, CountInv, RequestOK
    <3>2. Target(c) # fresh[d]
      BY <1>2, <3>1, FreshUnseen
    <3>3. fresh[c] # fresh[d]
      <4> SUFFICES ASSUME fresh[c] = fresh[d] PROVE FALSE
        OBVIOUS
      <4>1. {<<"fresh", c, Nil>>} = {<<"fresh", d, Nil>>}
        BY <1>2 DEF IndInv, CountInv, FreshIsPrivate
      <4>2. <<"fresh", c, Nil>> = <<"fresh", d, Nil>>
        BY <4>1
      <4> QED BY <3>1, <4>2
    <3> QED BY <1>5, <2>2, <3>2, <3>3
  <2>3. ASSUME NEW d \in Cluster, pc[d] = "apply", OpenKeep({Target(d)})
        PROVE  content'[fresh[c]] = content[fresh[c]] /\ content'[Target(c)] = content[Target(c)]
    <3>1. fresh[c] # Target(d) /\ Target(c) # Target(d)
      BY <1>1, <1>2, <2>3, TargetUnseen
    <3> QED BY <1>5, <2>3, <3>1
  <2> QED BY <2>1, <2>2, <2>3, WritesOne DEF IndInv
<1> QED BY <1>1, <1>2, <1>6

\* Between copyIndex and the swap nothing writes to the copy or its source.
LEMMA CurrentStep ==
    ASSUME IndInv, IndInv', CopyIsCurrent, [Next]_vars
    PROVE  CopyIsCurrent'
<1> SUFFICES ASSUME NEW c \in Cluster, pc'[c] = "swap"
             PROVE  content'[fresh'[c]] = content'[indices'[c][at'[c]]]
  BY DEF CopyIsCurrent, Target
<1>1. CASE FinishCopy(c)
  <2>1. fresh[c] # Nil /\ fresh[c] \in Obj /\ Target(c) # fresh[c]
    BY <1>1, FreshUnseen, TargetIsObj DEF FinishCopy, IndInv, CountInv, RequestOK, Target
  <2>2. content' = [content EXCEPT ![fresh[c]] = content[Target(c)]] /\ UNCHANGED <<indices, at, fresh>>
    BY <1>1 DEF FinishCopy, clusterVars
  <2> QED BY <2>1, <2>2 DEF Target, IndInv, CountInv, TypeOK
<1>2. CASE ~FinishCopy(c)
  <2>1. ~\E v \in Data : FinishRebuild(c, v)
    BY DEF FinishRebuild, IndInv, CountInv, TypeOK
  <2> QED BY <1>2, <2>1, CopyWaits DEF CopyIsCurrent
<1> QED BY <1>1, <1>2

\* What writable installs is what its source holds at that moment, whatever
\* the other holders of the source did since copyIndex read it.
THEOREM CopiesAreCurrent == Spec => []CopyIsCurrent
<1>1. Init => CopyIsCurrent
  BY DEF Init, CopyIsCurrent
<1>2. IndInv /\ IndInv' /\ CopyIsCurrent /\ [Next]_vars => CopyIsCurrent'
  BY CurrentStep
<1> QED BY <1>1, <1>2, Counting, PTL DEF Spec

-----------------------------------------------------------------------------
(* Points in time over an index that is closed. *)

\* A rebuilt copy is closed only if the index it will replace is.
RebuildKeepsState ==
    \A c \in Cluster : pc[c] = "install" /\ content[fresh[c]].shut => content[Target(c)].shut

LEMMA RebuildStep ==
    ASSUME IndInv, IndInv', RebuildKeepsState, [Next]_vars
    PROVE  RebuildKeepsState'
<1> SUFFICES ASSUME NEW c \in Cluster, pc'[c] = "install", content'[fresh'[c]].shut
             PROVE  content'[indices'[c][at'[c]]].shut
  BY DEF RebuildKeepsState, Target
<1>1. ASSUME NEW d \in Data, FinishRebuild(c, d)
      PROVE  content'[indices'[c][at'[c]]].shut
  <2>1. fresh[c] # Nil /\ fresh[c] \in Obj /\ Target(c) # fresh[c] /\ Target(c) \in Obj
    BY <1>1, FreshUnseen, TargetIsObj DEF FinishRebuild, IndInv, CountInv, RequestOK, Target
  <2>2. UNCHANGED <<indices, at, fresh>>
    BY <1>1 DEF FinishRebuild, clusterVars
  <2>3. kind[c] # "open"
    BY <1>1, <2>1, <2>2 DEF FinishRebuild, IndInv, CountInv, TypeOK
  <2>4. content' = [content EXCEPT ![fresh[c]] = [content[Target(c)] EXCEPT !.data = d]]
    BY <1>1, <2>3 DEF FinishRebuild
  <2> QED BY <2>1, <2>2, <2>4 DEF Target, IndInv, CountInv, TypeOK, Content
<1>2. CASE ~\E d \in Data : FinishRebuild(c, d)
  <2>1. ~FinishCopy(c)
    BY DEF FinishCopy, IndInv, CountInv, TypeOK
  <2> QED BY <1>2, <2>1, CopyWaits DEF RebuildKeepsState
<1> QED BY <1>1, <1>2

\* Before the step, p was over n and the index of its cluster was closed.
LostBefore(p, n) ==
    /\ pitOwner[p] # Nil /\ pitOwner'[p] = pitOwner[p] /\ pitObj'[p] = pitObj[p]
    /\ indices[pitOwner[p]][n] # Nil /\ content[indices[pitOwner[p]][n]].shut

\* A step that leaves p and its index alone.
LEMMA LostElsewhere ==
    ASSUME IndInv, IndInv', NEW p \in Pit, NEW n \in Name, NEW S, OpenKeep(S),
           pitOwner'[p] # Nil, pitOwner'[p] = pitOwner[p], pitObj'[p] = pitObj[p],
           indices'[pitOwner[p]][n] # Nil, content'[indices'[pitOwner[p]][n]].shut,
           indices'[pitOwner[p]][n] = indices[pitOwner[p]][n],
           indices[pitOwner[p]][n] \notin S
    PROVE  LostBefore(p, n)
<1>1. PICK c \in Cluster : c = pitOwner[p]
  BY DEF IndInv, CountInv, TypeOK
<1>2. /\ indices[c][n] \in Obj \ S
      /\ ~closed[indices[c][n]] /\ ~closed'[indices[c][n]]
  BY <1>1, RowsOpen, RowsStayOpen DEF Opened
<1> QED BY <1>1, <1>2 DEF OpenKeep, LostBefore

\* What a step does to the points in time it neither makes nor deletes.
LEMMA PitFrame ==
    ASSUME IndInv, [Next]_vars, NEW p \in Pit, pitOwner'[p] # Nil,
           ~\E c \in Cluster, S \in SUBSET Name : CreatePIT(p, c, S)
    PROVE  pitOwner'[p] = pitOwner[p] /\ pitObj'[p] = pitObj[p] /\ pitLost[p] \subseteq pitLost'[p]
<1> USE DEF IndInv, CountInv, TypeOK
<1>1. CASE UNCHANGED pitVars
  BY <1>1 DEF pitVars
<1>2. ASSUME NEW q \in Pit, FreePIT(q)
      PROVE  pitOwner'[p] = pitOwner[p] /\ pitObj'[p] = pitObj[p] /\ pitLost[p] \subseteq pitLost'[p]
  BY <1>2 DEF FreePIT
<1>3. ASSUME NEW q \in Pit, q # p, NEW c \in Cluster, NEW S \in SUBSET Name, CreatePIT(q, c, S)
      PROVE  pitOwner'[p] = pitOwner[p] /\ pitObj'[p] = pitObj[p] /\ pitLost[p] \subseteq pitLost'[p]
  BY <1>3 DEF CreatePIT
<1>4. ASSUME NEW c \in Cluster, NEW n \in Name, DropPITContexts(c, n), UNCHANGED <<pitOwner, pitObj>>
      PROVE  pitOwner'[p] = pitOwner[p] /\ pitObj'[p] = pitObj[p] /\ pitLost[p] \subseteq pitLost'[p]
  BY <1>4 DEF DropPITContexts
<1>5. ASSUME UNCHANGED <<pitOwner, pitObj, pitLost>>
      PROVE  pitOwner'[p] = pitOwner[p] /\ pitObj'[p] = pitObj[p] /\ pitLost[p] \subseteq pitLost'[p]
  BY <1>5
<1>6. ASSUME NEW c \in Cluster, RequestStep(c)
      PROVE  \/ UNCHANGED pitVars \/ UNCHANGED <<pitOwner, pitObj, pitLost>>
             \/ \E q \in Pit : FreePIT(q)
             \/ \E n \in Name : DropPITContexts(c, n) /\ UNCHANGED <<pitOwner, pitObj>>
  <2>1. CASE \E d \in Data : Apply(c, d)
    <3>1. at[c] \in Name
      BY <2>1, TargetIsObj DEF Apply
    <3> QED BY <2>1, <3>1 DEF Apply
  <2>2. CASE ~\E d \in Data : Apply(c, d)
    BY <1>6, <2>2
    DEF RequestStep, SkipTarget, LoadOwned, LoadShared, FinishCopy, FailCopy, Swap, FailApply, Install,
        EndClose, StartRebuild, FinishRebuild, CloseReleaseIndex, CloseReleasePIT
  <2> QED BY <2>1, <2>2
<1>7. CASE \E c \in Cluster : RequestStep(c)
  BY <1>1, <1>2, <1>4, <1>5, <1>6, <1>7
<1>8. CASE \/ \E q \in Pit : DeletePIT(q) \/ ReapPIT(q) \/ ExpirePIT(q)
           \/ \E q \in Pit, c \in Cluster, S \in SUBSET Name : CreatePIT(q, c, S)
           \/ \E c \in Cluster, n \in Name : DeleteIndex(c, n)
  BY <1>2, <1>3, <1>4, <1>5, <1>8 DEF DeletePIT, ReapPIT, ExpirePIT, DeleteIndex
<1>9. CASE \/ \E c, d \in Cluster : Clone(c, d)
           \/ \E c \in Cluster, n \in Name :
                 RemoveIndex(c, n) \/ \E f \in Obj, v \in Data : CreateIndex(c, n, f, v)
           \/ \E c \in Cluster, k \in Kind, S \in SUBSET Name : Begin(c, k, S)
           \/ \E c \in Cluster : BeginClose(c)
           \/ \E q \in Reader : \/ EndSearch(q) \/ \E c \in Cluster : StartSearch(q, c)
                                \/ \E r \in Pit : StartPITSearch(q, r)
           \/ UNCHANGED vars
  BY <1>1, <1>9 DEF Clone, RemoveIndex, CreateIndex, Begin, BeginClose, EndSearch, StartSearch,
                    StartPITSearch, vars
<1> QED BY <1>7, <1>8, <1>9 DEF Next

LEMMA LostRequest ==
    ASSUME IndInv, IndInv', CopyIsCurrent, RebuildKeepsState,
           NEW e \in Cluster, RequestStep(e), NEW p \in Pit, NEW n \in Name,
           pitOwner'[p] # Nil, pitOwner'[p] = pitOwner[p], pitObj'[p] = pitObj[p], pitObj[p][n] # Nil,
           indices'[pitOwner[p]][n] # Nil, content'[indices'[pitOwner[p]][n]].shut
    PROVE  LostBefore(p, n) \/ n \in pitLost'[p]
<1>0. PICK c \in Cluster : c = pitOwner[p]
  BY DEF IndInv, CountInv, TypeOK
<1>1. CASE \/ \E m \in Name : SkipTarget(e, m) \/ LoadOwned(e, m)
           \/ FailApply(e) \/ EndClose(e) \/ FailCopy(e)
           \/ \E m \in Name, f \in Obj : LoadShared(e, m, f)
           \/ \E f \in Obj : StartRebuild(e, f)
           \/ \E q \in Pit : CloseReleasePIT(e, q)
  <2>1. UNCHANGED indices
    BY <1>1 DEF SkipTarget, LoadOwned, FailApply, EndClose, LoadShared, StartRebuild, FailCopy,
                CloseReleasePIT, clusterVars
  <2>2. OpenKeep({})
    BY <1>1, QuietKeeps DEF SkipTarget, LoadOwned, FailApply, EndClose, LoadShared, StartRebuild, FailCopy,
                            CloseReleasePIT, FreePIT, objVars, IndInv
  <2> QED BY <2>1, <2>2, LostElsewhere
<1>2. CASE FinishCopy(e) \/ \E d \in Data : FinishRebuild(e, d)
  <2>1. fresh[e] # Nil /\ UNCHANGED indices
    BY <1>2 DEF FinishCopy, FinishRebuild, IndInv, CountInv, RequestOK, clusterVars
  <2>2. OpenKeep({fresh[e]})
    BY <1>2 DEF FinishCopy, FinishRebuild, OpenKeep, IndInv, CountInv, TypeOK
  <2>3. indices[c][n] # fresh[e]
    BY <2>1, FreshUnseen
  <2> QED BY <1>0, <2>1, <2>2, <2>3, LostElsewhere
<1>3. CASE Swap(e) \/ Install(e)
  <2>1. /\ at[e] \in Name /\ Target(e) # Nil /\ fresh[e] # Nil /\ fresh[e] \in Obj
        /\ Target(e) = indices[e][at[e]]
    BY <1>3, TargetIsObj, FreshUnseen, NilIsNothing
       DEF Swap, Install, IndInv, CountInv, RequestOK, Target
  <2>2. indices' = [indices EXCEPT ![e][at[e]] = fresh[e]]
    BY <1>3 DEF Swap, Install
  <2>3. OpenKeep({})
    BY <1>3, QuietKeeps DEF Swap, Install, IndInv
  <2>4. CASE <<c, n>> = <<e, at[e]>>
    <3>1. indices'[c][n] = fresh[e]
      BY <2>1, <2>2, <2>4 DEF IndInv, CountInv, TypeOK
    <3>2. ~closed[fresh[e]] /\ ~closed'[fresh[e]]
      <4>1. Holders(fresh[e]) = {<<"fresh", e, Nil>>}
        BY <2>1 DEF IndInv, CountInv, FreshIsPrivate
      <4>2. ~closed[fresh[e]]
        BY <2>1, <4>1 DEF IndInv, CountInv, ClosedIffUnheld
      <4>3. fresh[e] # Nil
        BY <2>1
      <4>4. ~closed'[indices'[c][n]]
        BY <3>1, <4>3, RowsStayOpen DEF Opened
      <4> QED BY <3>1, <4>2, <4>4
    <3>3. content'[fresh[e]] = content[fresh[e]]
      BY <2>1, <2>3, <3>2 DEF OpenKeep
    <3>4. content[Target(e)].shut
      BY <1>0, <1>3, <3>1, <3>3 DEF Swap, Install, CopyIsCurrent, RebuildKeepsState
    <3> QED BY <1>0, <2>1, <2>4, <3>4 DEF LostBefore
  <2>5. CASE <<c, n>> # <<e, at[e]>>
    <3>1. indices'[c][n] = indices[c][n]
      BY <2>2, <2>5 DEF IndInv, CountInv, TypeOK
    <3> QED BY <1>0, <2>3, <3>1, LostElsewhere
  <2> QED BY <2>4, <2>5
<1>4. ASSUME NEW m \in Name, CloseReleaseIndex(e, m)
      PROVE  LostBefore(p, n)
  <2>1. indices' = [indices EXCEPT ![e][m] = Nil] /\ OpenKeep({})
    BY <1>4, QuietKeeps DEF CloseReleaseIndex, IndInv
  <2>2. indices'[c][n] = indices[c][n]
    BY <1>0, <2>1 DEF IndInv, CountInv, TypeOK
  <2> QED BY <1>0, <2>1, <2>2, LostElsewhere
<1>5. ASSUME NEW d \in Data, Apply(e, d)
      PROVE  LostBefore(p, n) \/ n \in pitLost'[p]
  <2>1. /\ pc[e] = "apply" /\ at[e] \in Name /\ Target(e) \in Obj /\ UNCHANGED indices
        /\ Target(e) = indices[e][at[e]]
    BY <1>5, TargetIsObj DEF Apply, IndInv, clusterVars, Target
  <2>2. OpenKeep({Target(e)})
    BY <1>5 DEF Apply, SetContent, OpenKeep, IndInv, CountInv, TypeOK
  <2>3. CASE indices[c][n] # Target(e)
    BY <1>0, <2>1, <2>2, <2>3, LostElsewhere
  <2>4. CASE indices[c][n] = Target(e)
    <3>1. c = e /\ n = at[e]
      BY <2>1, <2>4, TargetUnseen
    <3>2. CASE DropPITContexts(e, at[e])
      BY <1>0, <3>1, <3>2 DEF DropPITContexts, IndInv, CountInv, TypeOK
    <3>3. CASE ~DropPITContexts(e, at[e])
      <4>1. content[Target(e)] \in Content
        BY <2>1 DEF IndInv, CountInv, TypeOK
      <4>2. \/ SetContent(e, [content[Target(e)] EXCEPT !.data = d])
            \/ SetContent(e, [content[Target(e)] EXCEPT !.data = d, !.reopen = TRUE])
            \/ SetContent(e, [content[Target(e)] EXCEPT !.shut = FALSE])
        BY <1>5, <3>3 DEF Apply
      <4>3. \A v : SetContent(e, v) => content'[Target(e)] = v
        BY <2>1 DEF SetContent, IndInv, CountInv, TypeOK
      <4>4. content'[Target(e)].shut => content[Target(e)].shut
        BY <4>1, <4>2, <4>3 DEF Content
      <4> QED BY <1>0, <2>1, <2>4, <4>4 DEF LostBefore
    <3> QED BY <3>2, <3>3
  <2> QED BY <2>3, <2>4
<1> QED BY <1>1, <1>2, <1>3, <1>4, <1>5 DEF RequestStep

LEMMA LostStep ==
    ASSUME IndInv, IndInv', CopyIsCurrent, RebuildKeepsState, PITOfClosedIndexIsLost, [Next]_vars
    PROVE  PITOfClosedIndexIsLost'
<1> SUFFICES ASSUME NEW p \in Pit, NEW n \in Name, pitOwner'[p] # Nil, pitObj'[p][n] # Nil,
                    indices'[pitOwner'[p]][n] # Nil, content'[indices'[pitOwner'[p]][n]].shut
             PROVE  n \in pitLost'[p]
  BY DEF PITOfClosedIndexIsLost
<1>1. ASSUME NEW c \in Cluster, NEW S \in SUBSET Name, CreatePIT(p, c, S)
      PROVE  FALSE
  <2>1. pitOwner'[p] = c /\ n \in S /\ UNCHANGED <<indices, content>>
    BY <1>1 DEF CreatePIT, IndInv, CountInv, TypeOK, clusterVars
  <2> QED BY <1>1, <2>1 DEF CreatePIT
<1>2. CASE ~\E c \in Cluster, S \in SUBSET Name : CreatePIT(p, c, S)
  <2>1. /\ pitOwner'[p] = pitOwner[p] /\ pitObj'[p] = pitObj[p]
        /\ pitLost[p] \subseteq pitLost'[p]
    BY <1>2, PitFrame
  <2>2. LostBefore(p, n) => n \in pitLost'[p]
    BY <2>1 DEF LostBefore, PITOfClosedIndexIsLost
  <2>3. PICK c \in Cluster : c = pitOwner[p] /\ phase[c] # "unborn"
    BY <2>1 DEF IndInv, CountInv, TypeOK, ReadersLockOut
  <2>4. CASE \E e \in Cluster : RequestStep(e)
    BY <2>1, <2>2, <2>4, LostRequest
  <2>5. CASE \E a, d \in Cluster : Clone(a, d)
    <3>1. UNCHANGED content
      BY <2>5 DEF Clone
    <3>2. indices'[c][n] = indices[c][n]
      BY <2>3, <2>5 DEF Clone, IndInv, CountInv, TypeOK
    <3> QED BY <2>1, <2>2, <2>3, <3>1, <3>2 DEF LostBefore
  <2>6. ASSUME NEW e \in Cluster, NEW m \in Name, DeleteIndex(e, m) \/ RemoveIndex(e, m)
        PROVE  n \in pitLost'[p]
    <3>1. indices' = [indices EXCEPT ![e][m] = Nil] /\ OpenKeep({})
      BY <2>6, QuietKeeps DEF DeleteIndex, RemoveIndex, IndInv
    <3>2. indices'[c][n] = indices[c][n]
      BY <2>1, <2>3, <3>1 DEF IndInv, CountInv, TypeOK
    <3> QED BY <2>1, <2>2, <2>3, <3>1, <3>2, LostElsewhere
  <2>7. ASSUME NEW e \in Cluster, NEW m \in Name, NEW f \in Obj, NEW v \in Data, CreateIndex(e, m, f, v)
        PROVE  n \in pitLost'[p]
    <3>1. /\ indices' = [indices EXCEPT ![e][m] = f] /\ OpenKeep({})
          /\ content' = [content EXCEPT ![f] = [Blank EXCEPT !.data = v]]
      BY <2>7, QuietKeeps DEF CreateIndex, Allocate, IndInv
    <3>2. ~content'[f].shut
      BY <3>1 DEF Blank, IndInv, CountInv, TypeOK
    <3>3. indices'[c][n] = indices[c][n]
      BY <2>1, <2>3, <3>1, <3>2 DEF IndInv, CountInv, TypeOK
    <3> QED BY <2>1, <2>2, <2>3, <3>1, <3>3, LostElsewhere
  <2>8. CASE \/ \E c1 \in Cluster, k \in Kind, S \in SUBSET Name : Begin(c1, k, S)
             \/ \E c1 \in Cluster : BeginClose(c1)
             \/ \E q \in Pit : DeletePIT(q) \/ ReapPIT(q) \/ ExpirePIT(q)
             \/ \E q \in Pit, c1 \in Cluster, S \in SUBSET Name : CreatePIT(q, c1, S)
             \/ \E q \in Reader : \/ EndSearch(q) \/ \E c1 \in Cluster : StartSearch(q, c1)
                                  \/ \E r \in Pit : StartPITSearch(q, r)
             \/ UNCHANGED vars
    <3>1. UNCHANGED indices
      BY <2>8 DEF Begin, BeginClose, DeletePIT, ReapPIT, ExpirePIT, CreatePIT, EndSearch, StartSearch,
                  StartPITSearch, vars, clusterVars
    <3>2. OpenKeep({})
      BY <2>8, QuietKeeps DEF Begin, BeginClose, DeletePIT, ReapPIT, ExpirePIT, CreatePIT, EndSearch,
                  StartSearch, StartPITSearch, FreePIT, vars, objVars, IndInv
    <3> QED BY <2>1, <2>2, <3>1, <3>2, LostElsewhere
  <2> QED BY <2>4, <2>5, <2>6, <2>7, <2>8 DEF Next
<1> QED BY <1>1, <1>2

\* A point in time does not serve an index that its cluster has closed, also
\* when closing had to copy or rebuild the index first.
THEOREM ClosedIndicesAreLost == Spec => []PITOfClosedIndexIsLost
<1>1. Init => RebuildKeepsState /\ PITOfClosedIndexIsLost
  BY DEF Init, RebuildKeepsState, PITOfClosedIndexIsLost
<1>2. IndInv /\ IndInv' /\ RebuildKeepsState /\ [Next]_vars => RebuildKeepsState'
  BY RebuildStep
<1>3. /\ IndInv /\ IndInv' /\ CopyIsCurrent /\ RebuildKeepsState
      /\ PITOfClosedIndexIsLost /\ [Next]_vars
      => PITOfClosedIndexIsLost'
  BY LostStep
<1> QED BY <1>1, <1>2, <1>3, Counting, CopiesAreCurrent, PTL DEF Spec

-----------------------------------------------------------------------------
(* Scroll pages (ScrollContexts).  A page reads what a scroll context kept,  *)
(* so ReadersSeeTheirCluster is lost, but it holds nothing either: the       *)
(* counting is the same, and so is the lock that keeps writers out.          *)

LEMMA RowsSwept ==
    ASSUME ScrollOK, NEW S, Drop(S)
    PROVE  /\ scrollOwner' \in [Scroll -> Cluster \cup {Nil}]
           /\ scrollObj' \in [Scroll -> [Name -> Obj \cup {Nil}]]
           /\ \A s \in Scroll : scrollOwner'[s] # Nil => scrollOwner'[s] = scrollOwner[s]
  BY DEF ScrollOK, Drop, NoRow

\* A reader that takes no reference starts or ends to read a row.
LEMMA PageCounts ==
    ASSUME CountInv, NEW r \in Reader, ~rHolds[r],
           NEW x \in Cluster \cup {Nil}, NEW row \in [Name -> Obj \cup {Nil}],
           IF x = Nil THEN row = NoRow ELSE pc[x] = "idle" /\ phase[x] # "unborn",
           rCluster' = [rCluster EXCEPT ![r] = x], rObjs' = [rObjs EXCEPT ![r] = row],
           UNCHANGED <<clusterVars, objVars, pitVars, rHolds, opVars>>
    PROVE  CountInv'
<1> USE DEF CountInv
<1>1. TypeOK'
  BY DEF TypeOK, clusterVars, objVars, pitVars, opVars
<1>2. ReadersLockOut'
  BY DEF ReadersLockOut, TypeOK, clusterVars, pitVars, opVars
<1>3. \A q \in Reader : rHolds[q] => rObjs'[q] = rObjs[q]
  BY DEF TypeOK
<1> QED BY <1>1, <1>2, <1>3, UnheldKeeps DEF pitVars

\* A created cluster stays created, and only a free reader takes references.
LEMMA StepFrame ==
    ASSUME CountInv, [Next]_vars
    PROVE  /\ \A c \in Cluster : phase[c] # "unborn" => phase'[c] # "unborn"
           /\ \A r \in Reader : rHolds'[r] => rHolds[r] \/ rCluster[r] = Nil
<1> USE DEF CountInv, TypeOK
<1>1. ASSUME NEW d \in Cluster, RequestStep(d)
      PROVE  UNCHANGED <<phase, rHolds>>
  BY <1>1
  DEF RequestStep, SkipTarget, LoadOwned, LoadShared, FinishCopy, FailCopy, Swap, FailApply, Install,
      EndClose, StartRebuild, Apply, FinishRebuild, CloseReleaseIndex, CloseReleasePIT, clusterVars, readerVars
<1>2. CASE \/ \E d, e \in Cluster : Clone(d, e)
           \/ \E d \in Cluster : BeginClose(d)
  BY <1>2 DEF Clone, BeginClose, readerVars
<1>3. CASE \E q \in Reader : EndSearch(q) \/ \E p \in Pit : StartPITSearch(q, p)
  BY <1>3 DEF EndSearch, StartPITSearch, clusterVars
<1>4. CASE \/ \E d \in Cluster, n \in Name :
                 \/ DeleteIndex(d, n) \/ RemoveIndex(d, n)
                 \/ \E f \in Obj, v \in Data : CreateIndex(d, n, f, v)
           \/ \E d \in Cluster, k \in Kind, S \in SUBSET Name : Begin(d, k, S)
           \/ \E p \in Pit : DeletePIT(p) \/ ExpirePIT(p) \/ ReapPIT(p)
           \/ \E p \in Pit, d \in Cluster, S \in SUBSET Name : CreatePIT(p, d, S)
           \/ \E q \in Reader, d \in Cluster : StartSearch(q, d)
           \/ UNCHANGED vars
  BY <1>4 DEF DeleteIndex, RemoveIndex, CreateIndex, Begin, DeletePIT, ExpirePIT, ReapPIT, CreatePIT,
              StartSearch, vars, clusterVars, readerVars
<1> QED BY <1>1, <1>2, <1>3, <1>4 DEF Next

LEMMA ScrollKeeps ==
    ASSUME CountInv, ScrollOK, [ScrollNext]_allVars
    PROVE  CountInv' /\ ScrollOK'
<1> USE DEF CountInv
<1>1. CASE StoreStep
  <2>1. CountInv'
    BY <1>1, NextKeeps DEF StoreStep
  <2>2. UNCHANGED scrollVars /\ \A r \in Reader : rScroll[r] # Nil => rCluster'[r] # Nil
    BY <1>1 DEF StoreStep
  <2>3. \A s \in Scroll : scrollOwner[s] # Nil => phase'[scrollOwner[s]] # "unborn"
    BY <1>1, StepFrame DEF StoreStep, ScrollOK
  <2>4. \A r \in Reader : rScroll[r] # Nil => ~rHolds'[r]
    BY <1>1, StepFrame DEF StoreStep, ScrollOK, TypeOK
  <2> QED BY <2>1, <2>2, <2>3, <2>4 DEF ScrollOK, scrollVars
<1>2. ASSUME NEW r \in Reader, NEW s \in Scroll, OpenScroll(r, s)
      PROVE  CountInv' /\ ScrollOK'
  <2>1. /\ ~rHolds[r] /\ rCluster' = [rCluster EXCEPT ![r] = Nil]
        /\ rObjs' = [rObjs EXCEPT ![r] = NoRow]
        /\ UNCHANGED <<clusterVars, objVars, pitVars, rHolds, opVars>>
        /\ UNCHANGED rScroll /\ rScroll[r] = Nil /\ rCluster[r] # Nil
    BY <1>2 DEF OpenScroll
  <2>2. CountInv'
    BY <2>1, PageCounts DEF NoRow
  <2>3. phase[rCluster[r]] # "unborn" /\ rCluster[r] \in Cluster /\ rObjs[r] \in [Name -> Obj \cup {Nil}]
    BY <2>1 DEF ReadersLockOut, TypeOK
  <2>4. \A t \in Scroll : scrollOwner'[t] # Nil => scrollOwner'[t] \in {scrollOwner[t], rCluster[r]}
    BY <1>2 DEF OpenScroll
  <2>5. /\ scrollOwner' \in [Scroll -> Cluster \cup {Nil}]
        /\ scrollObj' \in [Scroll -> [Name -> Obj \cup {Nil}]]
    BY <1>2, <2>3 DEF OpenScroll, ScrollOK, NoRow
  <2>6. \A t \in Scroll : scrollOwner'[t] # Nil => phase'[scrollOwner'[t]] # "unborn"
    BY <2>1, <2>3, <2>4 DEF ScrollOK, clusterVars
  <2>7. \A q \in Reader : rScroll'[q] # Nil => rCluster'[q] # Nil /\ ~rHolds'[q]
    BY <2>1 DEF ScrollOK, TypeOK
  <2> QED BY <2>1, <2>2, <2>5, <2>6, <2>7 DEF ScrollOK
<1>3. ASSUME NEW r \in Reader, NEW s \in Scroll, StartPage(r, s)
      PROVE  CountInv' /\ ScrollOK'
  <2>1. PICK c \in Cluster : c = scrollOwner[s] /\ c # Nil /\ phase[c] # "unborn"
    BY <1>3 DEF StartPage, ScrollOK
  <2>2. /\ rCluster[r] = Nil /\ pc[c] = "idle" /\ Drop(Swept(c))
        /\ rCluster' = [rCluster EXCEPT ![r] = c]
        /\ rObjs' = [rObjs EXCEPT ![r] = scrollObj[s]]
        /\ rScroll' = [rScroll EXCEPT ![r] = s]
        /\ UNCHANGED <<clusterVars, objVars, pitVars, rHolds, opVars>>
    BY <1>3, <2>1 DEF StartPage, Unlocked
  <2>3. ~rHolds[r]
    BY <2>2 DEF ReadersLockOut
  <2>4. scrollObj[s] \in [Name -> Obj \cup {Nil}]
    BY DEF ScrollOK
  <2>5. CountInv'
    BY <2>1, <2>2, <2>3, <2>4, PageCounts
  <2>6. \A t \in Scroll : scrollOwner'[t] # Nil => phase'[scrollOwner'[t]] # "unborn"
    BY <2>2, RowsSwept DEF ScrollOK, clusterVars
  <2>7. \A q \in Reader : rScroll'[q] # Nil => rCluster'[q] # Nil /\ ~rHolds'[q]
    <3> TAKE q \in Reader
    <3>1. CASE q = r
      BY <2>1, <2>2, <2>3, <3>1 DEF TypeOK
    <3>2. CASE q # r
      BY <2>2, <3>2 DEF ScrollOK, TypeOK
    <3> QED BY <3>1, <3>2
  <2> QED BY <2>2, <2>5, <2>6, <2>7, RowsSwept DEF ScrollOK
<1>4. ASSUME NEW r \in Reader, EndPage(r)
      PROVE  CountInv' /\ ScrollOK'
  <2>1. /\ ~rHolds[r] /\ rCluster' = [rCluster EXCEPT ![r] = Nil]
        /\ rObjs' = [rObjs EXCEPT ![r] = NoRow]
        /\ rScroll' = [rScroll EXCEPT ![r] = Nil]
        /\ UNCHANGED <<clusterVars, objVars, pitVars, rHolds, opVars, scrollOwner, scrollObj>>
    BY <1>4 DEF EndPage, ScrollOK
  <2>2. CountInv'
    BY <2>1, PageCounts DEF NoRow
  <2>3. \A q \in Reader : rScroll'[q] # Nil => rCluster'[q] # Nil /\ ~rHolds'[q]
    <3> TAKE q \in Reader
    <3>1. CASE q = r
      BY <2>1, <3>1 DEF ScrollOK
    <3>2. CASE q # r
      BY <2>1, <3>2 DEF ScrollOK, TypeOK
    <3> QED BY <3>1, <3>2
  <2> QED BY <2>1, <2>2, <2>3 DEF ScrollOK, clusterVars
<1>5. CASE \/ \E c \in Cluster : MissPage(c)
           \/ \E c \in Cluster, S \in SUBSET Scroll : ClearScroll(c, S)
  <2>1. UNCHANGED vars /\ UNCHANGED rScroll /\ \E S : Drop(S)
    BY <1>5 DEF MissPage, ClearScroll
  <2>2. UNCHANGED <<phase, rCluster, rHolds, rScroll>>
    BY <2>1 DEF vars, clusterVars, readerVars
  <2>3. CountInv'
    BY <2>1, NextKeeps
  <2> QED BY <2>1, <2>2, <2>3, RowsSwept DEF ScrollOK
<1>6. CASE (\E s \in Scroll : ExpireScroll(s)) \/ UNCHANGED allVars
  <2>1. UNCHANGED vars /\ UNCHANGED <<scrollOwner, scrollObj, rScroll>>
    BY <1>6 DEF ExpireScroll, allVars, scrollVars
  <2>2. UNCHANGED <<phase, rCluster, rHolds, scrollOwner, scrollObj, rScroll>>
    BY <2>1 DEF vars, clusterVars, readerVars
  <2>3. CountInv'
    BY <2>1, NextKeeps
  <2> QED BY <2>2, <2>3 DEF ScrollOK
<1> QED BY <1>1, <1>2, <1>3, <1>4, <1>5, <1>6 DEF ScrollNext

\* Scroll pages read objects nobody counts, and still the counter is the
\* number of holders, and a request that passed writable is the only one.
THEOREM ScrollCounting == ScrollSpec => [](CountInv /\ ScrollOK)
<1>1. ScrollInit => CountInv /\ ScrollOK
  BY InitInd DEF ScrollInit, ScrollOK, NoRow
<1>2. CountInv /\ ScrollOK /\ [ScrollNext]_allVars => CountInv' /\ ScrollOK'
  BY ScrollKeeps
<1> QED BY <1>1, <1>2, PTL DEF ScrollSpec

\* An Index registered in a cluster that a reader keeps locked stays as it is.
LEMMA RegisteredKeeps ==
    ASSUME CountInv, CountInv', [Next]_vars, NEW r \in Reader, rCluster[r] # Nil,
           NEW n \in Name, NEW o \in Obj, indices[rCluster[r]][n] = o
    PROVE  content'[o] = content[o] /\ closed'[o] = closed[o]
<1> USE DEF CountInv
<1>1. PICK c \in Cluster : c = rCluster[r]
  BY DEF TypeOK
<1>2. pc[c] = "idle"
  BY <1>1 DEF ReadersLockOut
<1>3. <<"index", c, n>> \in Holders(o)
  BY <1>1 DEF Holders, IndexHolders
<1>4. indices'[c][n] = o
  BY <1>1, SeenRowsKeep
<1>5. <<"index", c, n>> \in Holders(o)'
  BY <1>4 DEF Holders, IndexHolders
<1>6. ~closed[o] /\ ~closed'[o]
  BY <1>3, <1>5 DEF ClosedIffUnheld, TypeOK
<1>7. \A d \in Cluster : pc[d] \in {"copy", "rebuild"} => fresh[d] # o
  BY <1>3 DEF FreshIsPrivate
<1>8. \A d \in Cluster : pc[d] = "apply" => Target(d) # o
  <2> SUFFICES ASSUME NEW d \in Cluster, pc[d] = "apply", Target(d) = o PROVE FALSE
    OBVIOUS
  <2>1. Holders(o) = {<<"index", d, at[d]>>}
    BY DEF WriterIsAlone
  <2>2. <<"index", c, n>> = <<"index", d, at[d]>>
    BY <1>3, <2>1
  <2> QED BY <1>2, <2>2
<1>9. content'[o] = content[o]
  BY <1>6, <1>7, <1>8, WritesOne DEF OpenKeep
<1> QED BY <1>6, <1>9 DEF TypeOK

\* While a page is rendered under c.mu.RLock nobody writes to, or closes, an
\* Index its cluster still has, however many clusters share it.
THEOREM PagesAreStable == ScrollSpec => RegisteredPagesAreStable
<1>1. ASSUME CountInv, CountInv', ScrollOK, [ScrollNext]_allVars, NEW r \in Reader, NEW o \in Obj,
             Renders(r, o), Registered(r, o)
      PROVE  content'[o] = content[o] /\ closed'[o] = closed[o]
  <2>1. PICK n \in Name : indices[rCluster[r]][n] = o
    BY <1>1 DEF Registered, Row
  <2>2. rCluster[r] # Nil
    BY <1>1 DEF Renders, ScrollOK
  <2>3. CASE StoreStep
    BY <1>1, <2>1, <2>2, <2>3, RegisteredKeeps DEF StoreStep
  <2>4. CASE ~StoreStep
    BY <1>1, <2>4 DEF ScrollNext, OpenScroll, StartPage, ExpireScroll, EndPage, MissPage, ClearScroll,
                      allVars, vars, objVars
  <2> QED BY <2>3, <2>4
<1>2. (CountInv /\ ScrollOK) /\ (CountInv /\ ScrollOK)' /\ [ScrollNext]_allVars
      => [\A r \in Reader, o \in Obj : Renders(r, o) /\ Registered(r, o)
              => content'[o] = content[o] /\ closed'[o] = closed[o]]_allVars
  BY <1>1
<1> QED BY <1>2, ScrollCounting, PTL DEF ScrollSpec, RegisteredPagesAreStable
=============================================================================
