---------------------------- MODULE SegmentsProofs ----------------------------
(***************************************************************************)
(* Proofs about Segments, for any documents, requests, merge factor,       *)
(* number of classes and batch size: no merge loses a document, live       *)
(* counters are right, and merges leave alone what they must not touch.    *)
(***************************************************************************)
EXTENDS Segments, FiniteSetTheorems, WellFoundedInduction, TLAPS

\* A merge works on runs it may merge, and its batch on documents in them.
MergeInv ==
    /\ pc # "merge" => batch = {} /\ todo = {}
    /\ \A d \in batch : d \in stored /\ Mergeable(runOf[d])
    /\ \A e \in todo : e[1] \in DOMAIN run => Mergeable(e[1])

IndInv == TypeOK /\ StoredIsHeld /\ LiveCounts /\ MergeInv

-----------------------------------------------------------------------------
(* Counting. *)

LEMMA HeldFinite ==
    ASSUME NEW r, NEW T
    PROVE  /\ IsFiniteSet(Held(r)) /\ IsFiniteSet(Held(r) \cap T) /\ IsFiniteSet(Held(r) \ T)
           /\ Cardinality(Held(r)) \in Nat /\ Cardinality(Held(r) \cap T) \in Nat
           /\ Cardinality(Held(r) \ T) = Cardinality(Held(r)) - Cardinality(Held(r) \cap T)
<1> DEFINE A == Held(r) \ T
           B == Held(r) \cap T
<1>1. Held(r) \subseteq Doc
  BY DEF Held
<1>2. IsFiniteSet(Held(r))
  BY <1>1, DocAssumption, FS_Subset
<1>3. A \in SUBSET Held(r) /\ B \in SUBSET Held(r)
  OBVIOUS
<1>4. IsFiniteSet(A) /\ IsFiniteSet(B)
  BY <1>2, <1>3, FS_Subset
<1>5. A \cup B = Held(r) /\ A \cap B = {}
  OBVIOUS
<1>6. Cardinality(Held(r)) = Cardinality(A) + Cardinality(B) - Cardinality(A \cap B)
  BY <1>4, <1>5, FS_Union
<1>7. Cardinality(A) \in Nat /\ Cardinality(B) \in Nat /\ Cardinality(Held(r)) \in Nat
  BY <1>2, <1>4, FS_CardinalityType
<1>8. Cardinality(A \cap B) = 0
  BY <1>5, FS_EmptySet
<1>9. Cardinality(A) = Cardinality(Held(r)) - Cardinality(B)
  <2> HIDE DEF A, B
  <2> QED BY <1>6, <1>7, <1>8
<1> QED BY <1>2, <1>4, <1>7, <1>9

LEMMA SubsetCount ==
    ASSUME NEW S \in SUBSET Doc
    PROVE  /\ IsFiniteSet(S) /\ Cardinality(S) \in Nat
           /\ S # {} => Cardinality(S) > 0
<1>1. IsFiniteSet(S)
  BY DocAssumption, FS_Subset
<1>2. Cardinality(S) \in Nat
  BY <1>1, FS_CardinalityType
<1>3. Cardinality(S) = 0 <=> S = {}
  BY <1>1, FS_EmptySet
<1> QED BY <1>1, <1>2, <1>3

LEMMA LeastNumber ==
    ASSUME NEW S \in SUBSET Nat, S # {}
    PROVE  \E k \in S : \A j \in S : k <= j
<1>1. PICK k \in S : \A j \in S : <<j, k>> \notin OpToRel(<, Nat)
  BY NatLessThanWellFounded, WFMin
<1>2. \A j \in S : ~(j < k)
  BY <1>1 DEF OpToRel
<1> QED BY <1>2

-----------------------------------------------------------------------------
(* commit: what becomes of runs and documents. *)

\* What commit makes of documents and runs: those in I move to the new run, the
\* others in T leave theirs, the rest stay; a run keeps its mapping and its pin.
Committed(R, T, I) ==
    /\ runOf' \in [Doc -> Nat] /\ next' \in Nat \ {0}
    /\ DOMAIN run' \subseteq 1..next' - 1 /\ run' \in [DOMAIN run' -> Run]
    /\ LiveCounts'
    /\ \A d \in Doc :
        /\ d \in I => runOf'[d] = next /\ next \in DOMAIN run' /\ run'[next].times[d] > 0
        /\ d \in T \ I => runOf'[d] = 0
        /\ d \notin T => /\ runOf'[d] = runOf[d]
                         /\ runOf[d] \in DOMAIN run =>
                              /\ runOf[d] \in DOMAIN run'
                              /\ run'[runOf[d]].times = run[runOf[d]].times
    /\ \A r \in DOMAIN run' :
        \/ r = next /\ run'[r].pinned = FALSE /\ run'[r].gen = gen
        \/ r \in DOMAIN run /\ run'[r].pinned = R[r].pinned /\ run'[r].gen = R[r].gen

LEMMA CommitKeeps ==
    ASSUME TypeOK, StoredIsHeld, LiveCounts,
           NEW T \in SUBSET Doc, NEW I \in SUBSET T, NEW times \in Occurrences, NEW ids \in Nat,
           \A d \in I : times[d] > 0,
           NEW R \in [DOMAIN run -> Run],
           \A r \in DOMAIN run : R[r].live = run[r].live /\ R[r].times = run[r].times,
           Commit(R, T, I, times, ids)
    PROVE  Committed(R, T, I)
<1> DEFINE kept == {r \in DOMAIN R : Left(r, T) > 0}
           D == kept \cup (IF I = {} THEN {} ELSE {next})
<1>0. /\ DOMAIN R = DOMAIN run /\ DOMAIN run \subseteq 1..next - 1 /\ next \in Nat \ {0}
      /\ runOf \in [Doc -> Nat] /\ gen \in Nat /\ run \in [DOMAIN run -> Run]
  BY DEF TypeOK
<1>1. /\ runOf' = RunOfAfter(T, I) /\ next' = next + 1
      /\ run' = [r \in D |-> IF r = next THEN NewRun(I, times, ids)
                             ELSE [R[r] EXCEPT !.live = Left(r, T)]]
  BY DEF Commit
<1>2. next \notin DOMAIN run /\ kept \subseteq DOMAIN run /\ 0 \notin DOMAIN run
  BY <1>0
<1>3. Cardinality(I) \in Nat /\ (I # {} => Cardinality(I) > 0)
  BY SubsetCount
<1>4. ASSUME NEW r \in DOMAIN run
      PROVE  Left(r, T) \in Int /\ Left(r, T) = Cardinality(Held(r) \ T)
  <2>1. run[r].live = Cardinality(Held(r))
    BY <1>4 DEF LiveCounts
  <2>2. /\ Cardinality(Held(r)) \in Nat /\ Cardinality(Held(r) \cap T) \in Nat
        /\ Cardinality(Held(r) \ T) = Cardinality(Held(r)) - Cardinality(Held(r) \cap T)
    BY HeldFinite
  <2> QED BY <2>1, <2>2 DEF Left
<1>5. \A r \in kept : /\ run'[r] = [R[r] EXCEPT !.live = Left(r, T)]
                      /\ R[r] \in Run /\ Left(r, T) \in Nat /\ Left(r, T) > 0
  <2> TAKE r \in kept
  <2>1. r \in DOMAIN run /\ r \in D /\ r # next /\ Left(r, T) > 0
    BY <1>0, <1>2
  <2>2. Left(r, T) \in Nat
    <3>1. Left(r, T) \in Int
      BY <2>1, <1>4
    <3> QED BY ONLY <2>1, <3>1
  <2> QED BY <2>1, <2>2, <1>1
<1>6. I # {} => run'[next] = NewRun(I, times, ids)
  BY <1>1
<1>7. NewRun(I, times, ids) \in Run
  BY <1>0, <1>3 DEF NewRun, Run
<1>8. \A r \in kept : /\ run'[r] \in Run /\ run'[r].live = Left(r, T)
                      /\ run'[r].times = run[r].times
                      /\ run'[r].pinned = R[r].pinned /\ run'[r].gen = R[r].gen
  <2> TAKE r \in kept
  <2>1. /\ run'[r] = [R[r] EXCEPT !.live = Left(r, T)] /\ R[r].times = run[r].times
        /\ R[r] \in Run /\ Left(r, T) \in Nat
    BY <1>2, <1>5
  <2> QED BY <2>1 DEF Run
<1>9. DOMAIN run' = D
  BY <1>1
<1>10. run' \in [DOMAIN run' -> Run]
  <2>1. \A r \in D : run'[r] \in Run
    BY <1>6, <1>7, <1>8
  <2> QED BY <2>1, <1>1, <1>9
<1>11. runOf' \in [Doc -> Nat]
  BY <1>0, <1>1 DEF RunOfAfter
<1>12. D \subseteq 1..next' - 1 /\ next' \in Nat \ {0}
  BY <1>0, <1>1, <1>2
<1>13. ASSUME NEW d \in Doc, d \notin T, runOf[d] \in DOMAIN run
       PROVE  runOf[d] \in kept
  <2>1. d \in Held(runOf[d]) \ T
    BY <1>13 DEF Held
  <2>2. Held(runOf[d]) \ T \in SUBSET Doc
    BY DEF Held
  <2>3. Cardinality(Held(runOf[d]) \ T) > 0
    BY <2>1, <2>2, SubsetCount
  <2> QED BY <2>3, <1>4, <1>13, <1>0
<1>14. \A d \in Doc :
          /\ d \in I => runOf'[d] = next
          /\ d \in T \ I => runOf'[d] = 0
          /\ d \notin T => runOf'[d] = runOf[d]
  BY <1>1, <1>0 DEF RunOfAfter
<1>15. LiveCounts'
  <2> DEFINE NowHeld(r) == {d \in Doc : runOf'[d] = r}
  <2>1. ASSUME NEW r \in kept
        PROVE  NowHeld(r) = Held(r) \ T
    <3>1. r # next /\ r # 0
      BY <1>0, <1>2
    <3> QED BY <3>1, <1>14 DEF Held
  <2>2. I # {} => NowHeld(next) = I
    <3>1. \A d \in Doc : runOf[d] # next
      BY <1>0, <1>2 DEF StoredIsHeld
    <3>2. next # 0
      BY <1>0
    <3>3. \A d \in Doc : runOf'[d] = next <=> d \in I
      BY <3>1, <3>2, <1>14
    <3> QED BY <3>3
  <2>3. ASSUME NEW r \in kept
        PROVE  run'[r].live = Cardinality(NowHeld(r)) /\ run'[r].live > 0
    <3>1. r \in DOMAIN run /\ Left(r, T) > 0
      BY <1>2
    <3>2. Left(r, T) = Cardinality(Held(r) \ T)
      BY <3>1, <1>4
    <3>3. NowHeld(r) = Held(r) \ T
      BY <2>1
    <3>4. run'[r].live = Left(r, T)
      BY <1>8
    <3> QED BY <3>1, <3>2, <3>3, <3>4
  <2>4. I # {} => run'[next].live = Cardinality(NowHeld(next)) /\ run'[next].live > 0
    <3>1. SUFFICES ASSUME I # {}
                   PROVE  run'[next].live = Cardinality(NowHeld(next)) /\ run'[next].live > 0
      OBVIOUS
    <3>2. NowHeld(next) = I
      BY <2>2, <3>1
    <3>3. run'[next].live = Cardinality(I) /\ Cardinality(I) > 0
      BY <1>3, <1>6, <3>1 DEF NewRun
    <3> HIDE DEF NowHeld
    <3> QED BY <3>2, <3>3
  <2>5. \A r \in D : run'[r].live = Cardinality(NowHeld(r)) /\ run'[r].live > 0
    BY <2>3, <2>4
  <2> QED BY <2>5, <1>9 DEF LiveCounts, Held
<1>16. \A d \in I : next \in DOMAIN run' /\ run'[next] = NewRun(I, times, ids)
                    /\ run'[next].times[d] > 0
  BY <1>6, <1>9 DEF NewRun
<1>17. \A r \in DOMAIN run' :
          \/ r = next /\ run'[r].pinned = FALSE /\ run'[r].gen = gen
          \/ /\ r \in DOMAIN run
             /\ run'[r].pinned = R[r].pinned /\ run'[r].gen = R[r].gen
  BY <1>2, <1>6, <1>8, <1>9 DEF NewRun
<1>18. \A d \in Doc : d \notin T /\ runOf[d] \in DOMAIN run =>
          runOf[d] \in DOMAIN run' /\ run'[runOf[d]].times = run[runOf[d]].times
  BY <1>13, <1>8, <1>9
<1> QED BY <1>9, <1>10, <1>11, <1>12, <1>14, <1>15, <1>16, <1>17, <1>18 DEF Committed

-----------------------------------------------------------------------------
(* The steps of a request. *)

USE DEF vars, indexVars, mergeVars

LEMMA InitInv == Init => IndInv
<1> SUFFICES ASSUME Init PROVE IndInv
  OBVIOUS
<1>1. 0 \in 0..BatchDocs - 1
  BY SizeAssumption
<1> QED BY <1>1 DEF Init, IndInv, TypeOK, StoredIsHeld, LiveCounts, MergeInv

\* What a request queues: at least one operation about every document it leaves
\* indexed appends its id to the new run.
LEMMA BatchOf ==
    ASSUME NEW ops \in Request
    PROVE  /\ Touched(ops) \in SUBSET Doc /\ Indexed(ops) \in SUBSET Touched(ops)
           /\ [d \in Doc |-> Times(ops, d)] \in Occurrences
           /\ Listed(ops) \in Nat
           /\ \A d \in Indexed(ops) : Times(ops, d) > 0
<1>1. Touched(ops) \in SUBSET Doc /\ Indexed(ops) \in SUBSET Touched(ops)
  BY DEF Touched, Indexed
<1>2. IsFiniteSet(DOMAIN ops) /\ DOMAIN ops \subseteq Nat
  BY RequestAssumption
<1>3. ASSUME NEW d \in Doc
      PROVE  /\ Times(ops, d) \in Nat
             /\ (\E k \in About(ops, d) : ~ops[k].deleted) => Times(ops, d) > 0
  <2> DEFINE S == {k \in About(ops, d) : Appends(ops, k)}
             P == {k \in About(ops, d) : ~ops[k].deleted}
  <2>1. S \in SUBSET DOMAIN ops /\ P \in SUBSET Nat
    BY <1>2 DEF About
  <2>2. IsFiniteSet(S)
    BY <1>2, <2>1, FS_Subset
  <2>3. Cardinality(S) \in Nat /\ (Cardinality(S) = 0 <=> S = {})
    BY <2>2, FS_CardinalityType, FS_EmptySet
  <2>4. ASSUME P # {}
        PROVE  S # {}
    <3>1. PICK k \in P : \A j \in P : k <= j
      BY <2>1, <2>4, LeastNumber
    <3>2. k \in About(ops, d) /\ ops[k].id = d /\ ~ops[k].deleted
      BY DEF About
    <3>3. ~IndexedBefore(ops, d, k)
      <4> SUFFICES ASSUME NEW j \in About(ops, d), j < k, ~ops[j].deleted PROVE FALSE
        BY DEF IndexedBefore
      <4>1. j \in P /\ j \in Nat /\ k \in Nat
        BY <2>1
      <4> QED BY <4>1, <3>1
    <3> QED BY <3>2, <3>3 DEF Appends
  <2>5. Times(ops, d) = Cardinality(S)
    BY DEF Times
  <2>6. (\E k \in About(ops, d) : ~ops[k].deleted) => P # {}
    OBVIOUS
  <2> HIDE DEF S, P
  <2> QED BY <2>3, <2>4, <2>5, <2>6
<1>4. Listed(ops) \in Nat
  <2> DEFINE S == {k \in DOMAIN ops : Appends(ops, k)}
  <2>1. IsFiniteSet(S)
    BY <1>2, FS_Subset
  <2>2. Cardinality(S) \in Nat
    BY <2>1, FS_CardinalityType
  <2> QED BY <2>2 DEF Listed
<1>5. [d \in Doc |-> Times(ops, d)] \in Occurrences
  BY <1>3 DEF Occurrences
<1>6. \A d \in Indexed(ops) : Times(ops, d) > 0
  BY <1>3 DEF Indexed
<1> QED BY <1>1, <1>4, <1>5, <1>6

LEMMA WriteStep == IndInv /\ (\E ops \in Request : Write(ops)) => IndInv'
<1> SUFFICES ASSUME IndInv, NEW ops \in Request, Write(ops) PROVE IndInv'
  OBVIOUS
<1> DEFINE T == Touched(ops)
           I == Indexed(ops)
           times == [d \in Doc |-> Times(ops, d)]
           ids == Listed(ops)
<1>1. /\ T \in SUBSET Doc /\ I \in SUBSET T /\ times \in Occurrences /\ ids \in Nat
      /\ \A d \in I : times[d] > 0
  BY BatchOf
<1>2. /\ pc = "idle" /\ pc' = "compact" /\ stored' = (stored \ T) \cup I
      /\ Commit(run, T, I, times, ids) /\ writes' = writes + 1
      /\ UNCHANGED <<gen, todo, batch, queued>>
  BY DEF Write
<1>3. /\ TypeOK /\ StoredIsHeld /\ LiveCounts /\ MergeInv /\ run \in [DOMAIN run -> Run]
  BY DEF IndInv, TypeOK
<1> HIDE DEF T, I, times, ids
<1>4. Committed(run, T, I)
  BY <1>1, <1>2, <1>3, CommitKeeps
<1>5. TypeOK'
  <2>1. stored' \subseteq Doc
    BY <1>1, <1>2, <1>3 DEF TypeOK
  <2> QED BY <2>1, <1>2, <1>3, <1>4 DEF TypeOK, Committed
<1>6. StoredIsHeld'
  BY <1>1, <1>2, <1>3, <1>4 DEF StoredIsHeld, Committed
<1>7. MergeInv'
  BY <1>2, <1>3 DEF MergeInv
<1> QED BY <1>4, <1>5, <1>6, <1>7 DEF IndInv, Committed

LEMMA UpdateMappingStep == IndInv /\ UpdateMapping => IndInv'
<1> SUFFICES ASSUME IndInv, UpdateMapping PROVE IndInv'
  OBVIOUS
<1>1. TypeOK'
  BY DEF UpdateMapping, IndInv, TypeOK
<1>2. StoredIsHeld' /\ LiveCounts' /\ MergeInv'
  BY DEF UpdateMapping, IndInv, StoredIsHeld, LiveCounts, MergeInv, Held
<1> QED BY <1>1, <1>2 DEF IndInv

LEMMA CopyStep ==
    ASSUME IndInv,
           NEW f \in [stored -> next..next + Batches(Cardinality(stored)) - 1], Copy(f)
    PROVE  IndInv'
<1> DEFINE part(r) == {d \in stored : f[d] = r}
           limit == next + Batches(Cardinality(stored))
<1>1. /\ stored \subseteq Doc /\ stored # {} /\ pc = "idle" /\ next \in Nat \ {0}
      /\ runOf' = [d \in Doc |-> IF d \in stored THEN f[d] ELSE 0]
      /\ run' = [r \in {f[d] : d \in stored} |->
                    [times |-> [d \in Doc |-> IF d \in stored /\ f[d] = r THEN 1 ELSE 0],
                     ids |-> Cardinality(part(r)),
                     live |-> Cardinality(part(r)), gen |-> 0, pinned |-> FALSE]]
      /\ gen' = 0 /\ next' = limit /\ writes' = writes + 1
      /\ UNCHANGED <<stored, pc, todo, batch, queued>>
  BY DEF Copy, IndInv, TypeOK
<1>2. limit \in Int
  <2>1. Cardinality(stored) \in Nat
    BY <1>1, SubsetCount
  <2>2. Batches(Cardinality(stored)) \in Int
    BY <2>1, SizeAssumption DEF Batches
  <2> QED BY <1>1, <2>2
<1>3. \A d \in stored : f[d] \in 1..limit - 1 /\ f[d] \in Nat /\ f[d] # 0
  <2>1. \A d \in stored : f[d] \in next..limit - 1
    <3>1. \A d \in stored : f[d] \in next..next + Batches(Cardinality(stored)) - 1
      BY DEF Copy, Batching
    <3>2. Cardinality(stored) \in Nat
      BY <1>1, SubsetCount
    <3>3. Batches(Cardinality(stored)) \in Int
      BY <3>2, SizeAssumption DEF Batches
    <3> QED BY <3>1, <3>3, <1>1
  <2> HIDE DEF limit
  <2> QED BY <2>1, <1>1, <1>2
<1>4. limit \in Nat \ {0}
  BY <1>1, <1>2, <1>3
<1>5. \A d \in stored : Cardinality(part(f[d])) \in Nat /\ Cardinality(part(f[d])) > 0
  <2> TAKE d \in stored
  <2>1. part(f[d]) \in SUBSET Doc /\ d \in part(f[d])
    BY <1>1
  <2> QED BY <2>1, SubsetCount
<1>6. TypeOK'
  <2>1. run' \in [DOMAIN run' -> Run]
    BY <1>1, <1>5 DEF Run, Occurrences
  <2>2. DOMAIN run' \subseteq 1..next' - 1
    BY <1>1, <1>3
  <2>3. runOf' \in [Doc -> Nat]
    BY <1>1, <1>3
  <2> HIDE DEF limit, part
  <2> QED BY <2>1, <2>2, <2>3, <1>1, <1>4 DEF TypeOK, IndInv
<1>7. StoredIsHeld'
  BY <1>1, <1>3 DEF StoredIsHeld
<1>8. LiveCounts'
  <2>1. ASSUME NEW d \in stored
        PROVE  {e \in Doc : runOf'[e] = f[d]} = part(f[d])
    BY <1>1, <1>3
  <2> HIDE DEF part
  <2>2. \A r \in DOMAIN run' : \E d \in stored : r = f[d]
    BY <1>1
  <2>3. \A d \in stored : run'[f[d]].live = Cardinality(part(f[d]))
    BY <1>1
  <2>4. \A d \in stored : run'[f[d]].live = Cardinality({e \in Doc : runOf'[e] = f[d]})
    BY <2>1, <2>3
  <2> QED BY <2>2, <2>3, <2>4, <1>5 DEF LiveCounts, Held
<1>9. MergeInv'
  BY <1>1 DEF MergeInv, IndInv
<1> QED BY <1>6, <1>7, <1>8, <1>9 DEF IndInv

-----------------------------------------------------------------------------
(* The steps of a compaction. *)

LEMMA StartMergeStep == IndInv /\ StartMerge => IndInv'
<1> SUFFICES ASSUME IndInv, StartMerge PROVE IndInv'
  OBVIOUS
<1>1. /\ todo' = UNION {{r} \X {d} \X (1..run[r].times[d]) : r \in Group, d \in Doc}
      /\ batch' = {} /\ queued' = 0 /\ pc' = "merge"
      /\ UNCHANGED <<stored, run, runOf, gen, next, writes>>
      /\ Triggers # {}
  BY DEF StartMerge
<1>2. Group \subseteq {r \in DOMAIN run : Mergeable(r)}
  <2>1. CASE First \in Obsolete
    BY <2>1 DEF Group, Obsolete
  <2>2. CASE First \notin Obsolete
    BY <2>2 DEF Group, Small
  <2> QED BY <2>1, <2>2
<1>3. \A e \in todo' : /\ e \in Nat \X Doc \X Nat
                       /\ e[1] \in DOMAIN run /\ Mergeable(e[1])
  <2> TAKE e \in todo'
  <2>1. PICK r \in Group, d \in Doc : e \in {r} \X {d} \X (1..run[r].times[d])
    BY <1>1
  <2>2. e[1] = r /\ e[2] = d /\ e[3] \in 1..run[r].times[d] /\ e = <<e[1], e[2], e[3]>>
    BY <2>1
  <2>3. r \in Nat
    BY <1>2, <2>1 DEF IndInv, TypeOK
  <2> HIDE DEF Mergeable
  <2>4. r \in DOMAIN run /\ Mergeable(r)
    BY <1>2, <2>1
  <2>5. e[3] \in Nat
    <3>1. run[r].times[d] \in Nat
      BY <2>1, <2>4 DEF IndInv, TypeOK, Run, Occurrences
    <3> QED BY <3>1, <2>2
  <2> QED BY <2>2, <2>3, <2>4, <2>5
<1>4. TypeOK'
  <2>1. 0 \in 0..BatchDocs - 1
    BY SizeAssumption
  <2> QED BY <2>1, <1>1, <1>3 DEF IndInv, TypeOK
<1>5. StoredIsHeld' /\ LiveCounts'
  BY <1>1 DEF IndInv, StoredIsHeld, LiveCounts, Held
<1>6. MergeInv'
  BY <1>1, <1>3 DEF MergeInv, Mergeable
<1> QED BY <1>4, <1>5, <1>6 DEF IndInv

LEMMA QuietStep ==
    ASSUME IndInv, EndCompaction \/ (\E e \in todo : Skip(e)) \/ UNCHANGED vars
    PROVE  IndInv'
<1>1. /\ UNCHANGED <<stored, run, runOf, gen, next, batch, queued, writes>>
      /\ todo' \subseteq todo
      /\ pc' \in {"idle", "compact", "merge"} /\ (pc' # "merge" => pc # "merge" \/ pc' = pc)
  BY DEF EndCompaction, Skip, NextUp, IndInv, TypeOK
<1>2. TypeOK'
  BY <1>1 DEF IndInv, TypeOK
<1>3. StoredIsHeld' /\ LiveCounts'
  BY <1>1 DEF IndInv, StoredIsHeld, LiveCounts, Held
<1>4. MergeInv'
  BY <1>1 DEF IndInv, MergeInv, Mergeable
<1> QED BY <1>2, <1>3, <1>4 DEF IndInv

\* commit in mergeRuns: the documents queued move to a new run, or nothing
\* happens but a pin.
LEMMA MergeCommit ==
    ASSUME IndInv, NEW S \in SUBSET stored,
           NEW R \in [DOMAIN run -> Run],
           \A r \in DOMAIN run : /\ R[r].live = run[r].live /\ R[r].times = run[r].times
                                /\ R[r].gen = run[r].gen,
           CommitBatch(R, S), UNCHANGED stored
    PROVE  /\ runOf' \in [Doc -> Nat] /\ next' \in Nat \ {0}
           /\ DOMAIN run' \subseteq 1..next' - 1 /\ run' \in [DOMAIN run' -> Run]
           /\ LiveCounts' /\ StoredIsHeld'
           /\ \A d \in Doc : d \notin S => runOf'[d] = runOf[d]
           /\ \A r \in DOMAIN run' :
                  \/ run'[r].pinned = FALSE /\ run'[r].gen = gen
                  \/ r \in DOMAIN run /\ run'[r].pinned = R[r].pinned /\ run'[r].gen = R[r].gen
<1>0. TypeOK /\ StoredIsHeld /\ LiveCounts /\ stored \subseteq Doc
  BY DEF IndInv, TypeOK
<1>1. CASE S = {}
  <2>1. run' = R /\ UNCHANGED <<runOf, next>>
    BY <1>1 DEF CommitBatch
  <2>2. DOMAIN run' = DOMAIN run /\ run' \in [DOMAIN run' -> Run]
    BY <2>1
  <2>3. LiveCounts' /\ StoredIsHeld'
    BY <1>0, <2>1, <2>2 DEF LiveCounts, StoredIsHeld, Held
  <2> QED BY <1>0, <2>1, <2>2, <2>3 DEF TypeOK
<1>2. CASE S # {}
  <2>1. Commit(R, S, S, Once(S), Cardinality(S))
    BY <1>2 DEF CommitBatch
  <2>2. /\ Once(S) \in Occurrences /\ \A d \in S : Once(S)[d] > 0
        /\ S \in SUBSET Doc
    BY <1>0 DEF Once, Occurrences
  <2>3. Cardinality(S) \in Nat /\ S \in SUBSET S
    BY <2>2, SubsetCount
  <2>4. \A r \in DOMAIN run : R[r].live = run[r].live /\ R[r].times = run[r].times
    OBVIOUS
  <2>5. Committed(R, S, S)
    <3> DEFINE once == Once(S)
               ids == Cardinality(S)
    <3>1. /\ Commit(R, S, S, once, ids) /\ once \in Occurrences /\ ids \in Nat
          /\ \A d \in S : once[d] > 0
      BY <2>1, <2>2, <2>3
    <3> HIDE DEF once, ids
    <3> QED BY <1>0, <2>2, <2>3, <2>4, <3>1, CommitKeeps
  <2>6. StoredIsHeld'
    BY <1>0, <2>5 DEF StoredIsHeld, Committed
  <2> QED BY <2>5, <2>6 DEF Committed
<1> QED BY <1>1, <1>2

LEMMA RequeueStep == ASSUME IndInv, NEW e \in todo, Requeue(e) PROVE IndInv'
<1> DEFINE S == batch \cup {e[2]}
<1>1. /\ pc = "merge" /\ e[2] \in stored /\ runOf[e[2]] = e[1]
      /\ todo' = todo \ {e} /\ UNCHANGED <<stored, gen, pc, writes>>
      /\ IF queued + 1 = BatchDocs
         THEN CommitBatch(run, S) /\ batch' = {} /\ queued' = 0
         ELSE UNCHANGED <<run, runOf, next>> /\ batch' = S /\ queued' = queued + 1
  BY DEF Requeue, NextUp, Gone, Full
<1>2. /\ TypeOK /\ StoredIsHeld /\ LiveCounts /\ MergeInv /\ run \in [DOMAIN run -> Run]
      /\ stored \subseteq Doc
  BY DEF IndInv, TypeOK
<1>3. S \in SUBSET stored
  BY <1>1, <1>2 DEF MergeInv
<1>4. e[1] \in DOMAIN run /\ Mergeable(e[1])
  BY <1>1, <1>2 DEF StoredIsHeld, MergeInv
<1> HIDE DEF S
<1>5. CASE queued + 1 = BatchDocs
  <2>1. /\ runOf' \in [Doc -> Nat] /\ next' \in Nat \ {0}
        /\ DOMAIN run' \subseteq 1..next' - 1 /\ run' \in [DOMAIN run' -> Run]
        /\ LiveCounts' /\ StoredIsHeld'
        /\ \A r \in DOMAIN run' :
               \/ run'[r].pinned = FALSE /\ run'[r].gen = gen
               \/ r \in DOMAIN run /\ run'[r].pinned = run[r].pinned /\ run'[r].gen = run[r].gen
    BY <1>1, <1>2, <1>3, <1>5, MergeCommit
  <2>2. TypeOK'
    <3>1. 0 \in 0..BatchDocs - 1
      BY SizeAssumption
    <3> QED BY <1>1, <1>2, <1>5, <2>1, <3>1 DEF TypeOK
  <2>3. MergeInv'
    <3>1. \A o \in todo' : o[1] \in DOMAIN run' => Mergeable(o[1])'
      BY <1>1, <1>2, <2>1 DEF MergeInv, Mergeable
    <3> QED BY <1>1, <1>5, <3>1 DEF MergeInv
  <2> QED BY <2>1, <2>2, <2>3 DEF IndInv
<1>6. CASE queued + 1 # BatchDocs
  <2>1. UNCHANGED <<run, runOf, next>> /\ batch' = S /\ queued' = queued + 1
    BY <1>1, <1>6
  <2>2. queued' \in 0..BatchDocs - 1
    BY <1>2, <1>6, <2>1, SizeAssumption DEF TypeOK
  <2>3. TypeOK'
    BY <1>1, <1>2, <1>3, <2>1, <2>2 DEF TypeOK
  <2>4. StoredIsHeld' /\ LiveCounts'
    BY <1>1, <1>2, <2>1 DEF StoredIsHeld, LiveCounts, Held
  <2>5. MergeInv'
    BY <1>1, <1>2, <1>4, <2>1 DEF MergeInv, Mergeable, S
  <2> QED BY <2>3, <2>4, <2>5 DEF IndInv
<1> QED BY <1>5, <1>6

\* mergeRuns returns with the runs as they are, but for pins.
LEMMA ReturnRuns ==
    ASSUME IndInv, EndMerge \/ \E e \in todo : Pin(e)
    PROVE  \E R \in [DOMAIN run -> Run] :
               /\ Return(R)
               /\ \A r \in DOMAIN run : /\ R[r].live = run[r].live /\ R[r].times = run[r].times
                                       /\ R[r].gen = run[r].gen
<1>1. run \in [DOMAIN run -> Run]
  BY DEF IndInv, TypeOK
<1>2. CASE EndMerge
  BY <1>1, <1>2 DEF EndMerge
<1>3. CASE \E e \in todo : Pin(e)
  <2>1. PICK e \in todo : Pin(e)
    BY <1>3
  <2> DEFINE R == [r \in DOMAIN run |-> [run[r] EXCEPT !.pinned = @ \/ r = e[1]]]
  <2>2. Return(R)
    BY <2>1 DEF Pin
  <2>3. ASSUME NEW r \in DOMAIN run
        PROVE  /\ R[r] \in Run /\ R[r].live = run[r].live /\ R[r].times = run[r].times
               /\ R[r].gen = run[r].gen
    <3>1. run[r] \in Run
      BY <1>1
    <3> DEFINE p == run[r].pinned \/ r = e[1]
    <3>2. p \in BOOLEAN
      OBVIOUS
    <3>3. R[r] = [run[r] EXCEPT !.pinned = p]
      OBVIOUS
    <3> HIDE DEF p, R
    <3> QED BY <3>1, <3>2, <3>3 DEF Run
  <2>4. R \in [DOMAIN run -> Run]
    BY <2>3
  <2> HIDE DEF R
  <2> QED BY <2>2, <2>3, <2>4
<1> QED BY <1>2, <1>3

LEMMA ReturnStep ==
    ASSUME IndInv, EndMerge \/ \E e \in todo : Pin(e) PROVE IndInv'
<1>2. /\ TypeOK /\ StoredIsHeld /\ LiveCounts /\ MergeInv /\ run \in [DOMAIN run -> Run]
  BY DEF IndInv, TypeOK
<1>3. PICK R \in [DOMAIN run -> Run] :
         /\ Return(R)
         /\ \A r \in DOMAIN run : /\ R[r].live = run[r].live /\ R[r].times = run[r].times
                                 /\ R[r].gen = run[r].gen
  BY ReturnRuns
<1>4. /\ CommitBatch(R, batch) /\ todo' = {} /\ batch' = {} /\ queued' = 0
      /\ pc' = "compact" /\ UNCHANGED <<stored, gen, writes>>
  BY <1>3 DEF Return
<1>5. batch \in SUBSET stored
  BY <1>2 DEF MergeInv
<1>6. /\ runOf' \in [Doc -> Nat] /\ next' \in Nat \ {0}
      /\ DOMAIN run' \subseteq 1..next' - 1 /\ run' \in [DOMAIN run' -> Run]
      /\ LiveCounts' /\ StoredIsHeld'
  BY <1>3, <1>4, <1>5, MergeCommit
<1>7. TypeOK'
  <2>1. 0 \in 0..BatchDocs - 1
    BY SizeAssumption
  <2> QED BY <1>2, <1>4, <1>6, <2>1 DEF TypeOK
<1>8. MergeInv'
  BY <1>4 DEF MergeInv
<1> QED BY <1>6, <1>7, <1>8 DEF IndInv

\* IndInv is an invariant: by cases on the step.
LEMMA Inductive == IndInv /\ [Next]_vars => IndInv'
<1> SUFFICES ASSUME IndInv, [Next]_vars PROVE IndInv'
  OBVIOUS
<1>1. CASE \E ops \in Request : Write(ops)
  BY <1>1, WriteStep
<1>2. CASE UpdateMapping
  BY <1>2, UpdateMappingStep
<1>3. CASE \E f \in [stored -> next..next + Batches(Cardinality(stored)) - 1] : Copy(f)
  BY <1>3, CopyStep
<1>4. CASE StartMerge
  BY <1>4, StartMergeStep
<1>5. CASE EndCompaction \/ (\E e \in todo : Skip(e)) \/ UNCHANGED vars
  BY <1>5, QuietStep
<1>6. CASE \E e \in todo : Requeue(e)
  BY <1>6, RequeueStep
<1>7. CASE EndMerge \/ \E e \in todo : Pin(e)
  BY <1>7, ReturnStep
<1> QED BY <1>1, <1>2, <1>3, <1>4, <1>5, <1>6, <1>7 DEF Next, CompactStep

LEMMA Invariance == Spec => []IndInv
<1> QED BY InitInv, Inductive, PTL DEF Spec

-----------------------------------------------------------------------------

\* Types, for every size of the index and of merges.
THEOREM SegmentTypes == Spec => []TypeOK
<1>1. IndInv => TypeOK
  BY DEF IndInv
<1> QED BY <1>1, Invariance, PTL

\* No merge loses a stored document, whatever fails in it.
THEOREM NoDocumentLost == Spec => []StoredIsHeld
<1>1. IndInv => StoredIsHeld
  BY DEF IndInv
<1> QED BY <1>1, Invariance, PTL

\* The counters by which runs are chosen count the documents they hold.
THEOREM CountersRight == Spec => []LiveCounts
<1>1. IndInv => LiveCounts
  BY DEF IndInv
<1> QED BY <1>1, Invariance, PTL

\* Documents of an older mapping and of pinned runs stay where they are.
THEOREM OthersLeftAlone == Spec => MergesLeaveOthersAlone
<1> DEFINE Alone == pc = "merge" =>
               \A d \in Doc : runOf'[d] # runOf[d] =>
                   ~run[runOf[d]].pinned /\ run[runOf[d]].gen = gen /\ d \in stored
<1>1. IndInv /\ [Next]_vars => [Alone]_vars
  <2> SUFFICES ASSUME IndInv, [Next]_vars, pc = "merge", runOf' # runOf
               PROVE  \A d \in Doc : runOf'[d] # runOf[d] =>
                          ~run[runOf[d]].pinned /\ run[runOf[d]].gen = gen /\ d \in stored
    OBVIOUS
  <2>1. /\ TypeOK /\ StoredIsHeld /\ MergeInv /\ run \in [DOMAIN run -> Run]
    BY DEF IndInv, TypeOK
  <2>2. \A d \in batch : d \in stored /\ Mergeable(runOf[d])
    BY <2>1 DEF MergeInv
  <2>3. CASE \E e \in todo : Requeue(e)
    <3>1. PICK e \in todo : Requeue(e)
      BY <2>3
    <3>2. e[2] \in stored /\ runOf[e[2]] = e[1] /\ UNCHANGED stored
      BY <3>1 DEF Requeue, Gone
    <3>3. Mergeable(runOf[e[2]])
      BY <2>1, <3>2 DEF StoredIsHeld, MergeInv, TypeOK
    <3>4. CommitBatch(run, batch \cup {e[2]})
      BY <3>1 DEF Requeue
    <3>5. batch \cup {e[2]} \in SUBSET stored
      BY <2>2, <3>2
    <3>6. \A d \in Doc : d \notin batch \cup {e[2]} => runOf'[d] = runOf[d]
      BY <2>1, <3>2, <3>4, <3>5, MergeCommit
    <3> QED BY <2>2, <3>2, <3>3, <3>6 DEF Mergeable
  <2>4. CASE EndMerge \/ \E e \in todo : Pin(e)
    <3>1. PICK R \in [DOMAIN run -> Run] :
             /\ Return(R)
             /\ \A r \in DOMAIN run : /\ R[r].live = run[r].live /\ R[r].times = run[r].times
                                     /\ R[r].gen = run[r].gen
      BY <2>4, ReturnRuns
    <3>3. CommitBatch(R, batch) /\ UNCHANGED stored /\ batch \in SUBSET stored
      BY <3>1, <2>2 DEF Return
    <3>4. \A d \in Doc : d \notin batch => runOf'[d] = runOf[d]
      BY <3>1, <3>3, MergeCommit
    <3> QED BY <2>2, <3>4 DEF Mergeable
  <2>5. CASE \/ (\E ops \in Request : Write(ops)) \/ UpdateMapping \/ StartMerge
             \/ EndCompaction \/ (\E e \in todo : Skip(e)) \/ UNCHANGED vars
             \/ \E f \in [stored -> next..next + Batches(Cardinality(stored)) - 1] : Copy(f)
    BY <2>5 DEF Write, UpdateMapping, StartMerge, EndCompaction, Skip, Copy
  <2> QED BY <2>3, <2>4, <2>5 DEF Next, CompactStep
<1> QED BY <1>1, Invariance, PTL DEF Spec, MergesLeaveOthersAlone
-----------------------------------------------------------------------------
(* Nothing to merge at rest: no run is of a mapping to come, and the batches of *)
(* a rebuild are too large to be merged, but the last.                          *)

GensInThePast == \A r \in DOMAIN run : run[r].gen <= gen

LEMMA NoTriggerWhenStale ==
    ASSUME \A r \in DOMAIN run : ~Mergeable(r)
    PROVE  Triggers = {}
<1> QED BY DEF Triggers, Obsolete, FillsClass, Small

LEMMA FullBatchClass == SizeClass(BatchDocs) = Classes
<1>1. {c \in 1..Classes : BatchDocs >= MergeFactor ^ c} = 1..Classes
  BY SizeAssumption
<1>2. Classes \in Nat /\ 1 \in Int /\ 1 <= Classes
  BY SizeAssumption
<1>3. Cardinality(1..Classes) = Classes
  BY <1>2, FS_Interval
<1> QED BY <1>1, <1>3 DEF SizeClass

\* Runs that list what they hold, all but one as large as a batch.
Rebuilt ==
    \E last \in Int : \A r \in DOMAIN run :
        /\ run[r].live \in Nat /\ run[r].ids = run[r].live
        /\ r # last => run[r].live = BatchDocs

LEMMA NoTriggerAfterRebuild == Rebuilt => Triggers = {}
<1> SUFFICES ASSUME NEW last \in Int,
                    \A r \in DOMAIN run : run[r].live \in Nat /\ run[r].ids = run[r].live,
                    \A r \in DOMAIN run : r # last => run[r].live = BatchDocs
             PROVE  Triggers = {}
  BY DEF Rebuilt
<1>1. Obsolete = {}
  <2>1. ASSUME NEW r \in DOMAIN run
        PROVE  ~(2 * run[r].live < run[r].ids)
    BY <2>1
  <2> QED BY <2>1 DEF Obsolete
<1>2. ASSUME NEW r \in DOMAIN run, NEW c \in 0..Classes - 1, FillsClass(r, c)
      PROVE  FALSE
  <2>1. c # Classes
    BY SizeAssumption
  <2>2. \A q \in Small(c) : q = last
    BY <2>1, FullBatchClass DEF Small
  <2> DEFINE S == {q \in Small(c) : q <= r}
  <2>3. S = {} \/ S = {last}
    BY <2>2
  <2>4. Cardinality(S) = 0 \/ Cardinality(S) = 1
    BY <2>3, FS_EmptySet, FS_Singleton
  <2>5. Cardinality(S) = MergeFactor
    BY <1>2 DEF FillsClass
  <2> HIDE DEF S
  <2> QED BY <2>4, <2>5, SizeAssumption
<1> QED BY <1>1, <1>2 DEF Triggers

LEMMA NoTriggerAfterStep == Rebuilt' => (Triggers = {})'
<1> QED BY NoTriggerAfterRebuild, PTL

LEMMA CopyAtRest ==
    ASSUME IndInv,
           NEW f \in [stored -> next..next + Batches(Cardinality(stored)) - 1], Copy(f)
    PROVE  Triggers' = {} /\ GensInThePast'
<1> DEFINE part(r) == {d \in stored : f[d] = r}
           last == next + Batches(Cardinality(stored)) - 1
<1>1. /\ stored \subseteq Doc /\ next \in Nat \ {0}
      /\ run' = [r \in {f[d] : d \in stored} |->
                    [times |-> [d \in Doc |-> IF d \in stored /\ f[d] = r THEN 1 ELSE 0],
                     ids |-> Cardinality(part(r)),
                     live |-> Cardinality(part(r)), gen |-> 0, pinned |-> FALSE]]
      /\ gen' = 0 /\ Batching(f)
  BY DEF Copy, IndInv, TypeOK
<1>2. last \in Int
  <2>1. Cardinality(stored) \in Nat
    BY <1>1, SubsetCount
  <2>2. Batches(Cardinality(stored)) \in Int
    BY <2>1, SizeAssumption DEF Batches
  <2> QED BY <1>1, <2>2
<1>3. \A r \in next..last - 1 : Cardinality(part(r)) = BatchDocs
  BY <1>1 DEF Batching
<1>4. \A r \in DOMAIN run' : /\ r \in next..last
                            /\ run'[r].live = Cardinality(part(r))
                            /\ run'[r].ids = Cardinality(part(r)) /\ run'[r].gen = 0
                            /\ Cardinality(part(r)) \in Nat
  <2> TAKE r \in DOMAIN run'
  <2>1. PICK d \in stored : r = f[d]
    BY <1>1
  <2>2. part(r) \in SUBSET Doc
    BY <1>1
  <2>3. Cardinality(part(r)) \in Nat
    BY <2>2, SubsetCount
  <2> QED BY <1>1, <2>1, <2>3
<1> HIDE DEF part, last
<1>5. \A r \in DOMAIN run' : r # last => run'[r].live = BatchDocs
  <2> TAKE r \in DOMAIN run'
  <2>0. next \in Int
    BY DEF IndInv, TypeOK
  <2>1. r \in next..last /\ next \in Int /\ last \in Int /\ run'[r].live = Cardinality(part(r))
    BY <2>0, <1>2, <1>4
  <2>2. r # last => r \in next..last - 1
    BY ONLY <2>1
  <2> QED BY <2>1, <2>2, <1>3
<1>6. \A r \in DOMAIN run' : run'[r].live \in Nat /\ run'[r].ids = run'[r].live
  <2> TAKE r \in DOMAIN run'
  <2>1. /\ run'[r].live = Cardinality(part(r)) /\ run'[r].ids = Cardinality(part(r))
        /\ Cardinality(part(r)) \in Nat
    BY <1>4
  <2> QED BY <2>1
<1>7. Triggers' = {}
  BY <1>2, <1>5, <1>6, NoTriggerAfterStep DEF Rebuilt
<1>8. GensInThePast'
  BY <1>1, <1>4 DEF GensInThePast
<1> QED BY <1>7, <1>8

\* When no request is under way no size class is full and no large run mostly
\* obsolete: compaction had its last word, and neither a new mapping nor a rebuild
\* makes work.
THEOREM RestIsMerged == Spec => []NothingToMergeAtRest
<1> DEFINE Rest == GensInThePast /\ NothingToMergeAtRest
<1>1. Init => Rest
  BY NoTriggerWhenStale DEF Init, GensInThePast, NothingToMergeAtRest
<1>2. IndInv /\ Rest /\ [Next]_vars => Rest'
  <2> SUFFICES ASSUME IndInv, Rest, [Next]_vars PROVE Rest'
    OBVIOUS
  <2>1. CASE \E ops \in Request : Write(ops)
    <3>1. PICK ops \in Request : Write(ops)
      BY <2>1
    <3> DEFINE T == Touched(ops)
               I == Indexed(ops)
               times == [d \in Doc |-> Times(ops, d)]
               ids == Listed(ops)
    <3>2. /\ T \in SUBSET Doc /\ I \in SUBSET T /\ times \in Occurrences /\ ids \in Nat
          /\ \A d \in I : times[d] > 0
      BY BatchOf
    <3>3. pc' = "compact" /\ Commit(run, T, I, times, ids) /\ UNCHANGED gen
      BY <3>1 DEF Write
    <3>4. TypeOK /\ StoredIsHeld /\ LiveCounts /\ run \in [DOMAIN run -> Run]
      BY DEF IndInv, TypeOK
    <3> HIDE DEF T, I, times, ids
    <3>5. Committed(run, T, I)
      BY <3>2, <3>3, <3>4, CommitKeeps
    <3>6. GensInThePast'
      BY <3>3, <3>4, <3>5 DEF GensInThePast, Committed, TypeOK
    <3> QED BY <3>3, <3>6 DEF NothingToMergeAtRest
  <2>2. CASE UpdateMapping
    <3>1. /\ run' = run /\ gen' = gen + 1 /\ gen \in Nat /\ pc' = pc
          /\ \A r \in DOMAIN run : run[r] \in Run
      BY <2>2 DEF UpdateMapping, IndInv, TypeOK
    <3>2. \A r \in DOMAIN run : run[r].gen \in Nat /\ run[r].gen <= gen
      BY <3>1 DEF GensInThePast, Run
    <3>3. \A r \in DOMAIN run' : run'[r].gen <= gen' /\ run'[r].gen # gen'
      BY <3>1, <3>2
    <3>4. Triggers' = {}
      BY <3>3 DEF Triggers, Obsolete, FillsClass, Small, Mergeable
    <3> QED BY <3>3, <3>4 DEF GensInThePast, NothingToMergeAtRest
  <2>3. CASE \E f \in [stored -> next..next + Batches(Cardinality(stored)) - 1] : Copy(f)
    BY <2>3, CopyAtRest DEF NothingToMergeAtRest
  <2>4. CASE StartMerge \/ EndCompaction \/ UNCHANGED vars
    <3>1. UNCHANGED <<run, gen>> /\ (pc' = "idle" => Triggers = {})
      BY <2>4 DEF StartMerge, EndCompaction, NothingToMergeAtRest
    <3>2. Triggers' = Triggers
      BY <3>1 DEF Triggers, Obsolete, FillsClass, Small, Mergeable
    <3> QED BY <3>1, <3>2 DEF GensInThePast, NothingToMergeAtRest
  <2>5. CASE \E e \in todo : Skip(e)
    BY <2>5 DEF Skip, NextUp, GensInThePast, NothingToMergeAtRest
  <2>6. CASE \E e \in todo : Requeue(e)
    <3>1. PICK e \in todo : Requeue(e)
      BY <2>6
    <3>2. e[2] \in stored /\ pc' = "merge" /\ UNCHANGED <<stored, gen>>
      BY <3>1 DEF Requeue, NextUp, Gone
    <3>3. CASE Full
      <4>1. CommitBatch(run, batch \cup {e[2]}) /\ batch \cup {e[2]} \in SUBSET stored
        BY <3>1, <3>2, <3>3 DEF Requeue, IndInv, MergeInv
      <4>2. run \in [DOMAIN run -> Run] /\ gen \in Nat
        BY DEF IndInv, TypeOK
      <4>3. \A r \in DOMAIN run' :
               \/ run'[r].pinned = FALSE /\ run'[r].gen = gen
               \/ r \in DOMAIN run /\ run'[r].pinned = run[r].pinned /\ run'[r].gen = run[r].gen
        BY <4>1, <4>2, <3>2, MergeCommit
      <4> QED BY <4>2, <4>3, <3>2 DEF GensInThePast, NothingToMergeAtRest
    <3>4. CASE ~Full
      BY <3>1, <3>2, <3>4 DEF Requeue, GensInThePast, NothingToMergeAtRest
    <3> QED BY <3>3, <3>4
  <2>7. CASE EndMerge \/ \E e \in todo : Pin(e)
    <3>1. PICK R \in [DOMAIN run -> Run] :
             /\ Return(R)
             /\ \A r \in DOMAIN run : /\ R[r].live = run[r].live /\ R[r].times = run[r].times
                                     /\ R[r].gen = run[r].gen
      BY <2>7, ReturnRuns
    <3>2. /\ CommitBatch(R, batch) /\ UNCHANGED <<stored, gen>> /\ pc' = "compact"
          /\ batch \in SUBSET stored /\ gen \in Nat
      BY <3>1 DEF Return, IndInv, MergeInv, TypeOK
    <3>3. \A r \in DOMAIN run' :
             \/ run'[r].pinned = FALSE /\ run'[r].gen = gen
             \/ r \in DOMAIN run /\ run'[r].pinned = R[r].pinned /\ run'[r].gen = R[r].gen
      BY <3>1, <3>2, MergeCommit
    <3> QED BY <3>1, <3>2, <3>3 DEF GensInThePast, NothingToMergeAtRest
  <2> QED BY <2>1, <2>2, <2>3, <2>4, <2>5, <2>6, <2>7 DEF Next, CompactStep
<1> QED BY <1>1, <1>2, Invariance, PTL DEF Spec
=============================================================================
