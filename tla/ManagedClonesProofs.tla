------------------------- MODULE ManagedClonesProofs -------------------------
(***************************************************************************)
(* Proofs about ManagedClones, for any number of requests and clones and   *)
(* any limit: no clone leaks or is closed twice, ids name one clone, listed *)
(* clones serve, and how far the limit can be overrun.                     *)
(***************************************************************************)
EXTENDS ManagedClones, FiniteSetTheorems, TLAPS

-----------------------------------------------------------------------------
(* The overrun of the limit. *)

\* The registry has finitely many entries, and finitely many requests create.
LEMMA Finite ==
    ASSUME TypeOK
    PROVE  /\ IsFiniteSet(DOMAIN registry) /\ IsFiniteSet(Creating)
           /\ Cardinality(DOMAIN registry) \in Nat /\ Cardinality(Creating) \in Nat
           /\ Cardinality(Request) \in Nat
           /\ Cardinality(Creating) <= Cardinality(Request)
<1>1. IsFiniteSet(1..seq)
  <2>1. seq \in Int /\ 1 \in Int
    BY DEF TypeOK
  <2> QED BY ONLY <2>1, FS_Interval
<1>2. IsFiniteSet(DOMAIN registry)
  BY <1>1, FS_Subset DEF TypeOK
<1>3. IsFiniteSet(Creating) /\ Cardinality(Creating) <= Cardinality(Request)
  BY Limits, FS_Subset DEF Creating
<1> QED BY <1>2, <1>3, FS_CardinalityType, Limits

\* Neither more entries nor more requests that create: the bound is kept.
LEMMA FewerKeepBound ==
    ASSUME TypeOK, TypeOK', OverrunIsBounded,
           DOMAIN registry' \subseteq DOMAIN registry, Creating' \subseteq Creating
    PROVE  OverrunIsBounded'
<1>1. /\ Cardinality(DOMAIN registry') <= Cardinality(DOMAIN registry)
      /\ Cardinality(Creating') <= Cardinality(Creating)
  BY Finite, FS_Subset
<1>2. /\ Cardinality(DOMAIN registry') \in Nat /\ Cardinality(Creating') \in Nat
      /\ Cardinality(DOMAIN registry) \in Nat /\ Cardinality(Creating) \in Nat
      /\ Cardinality(Request) \in Nat
  <2>1. IsFiniteSet(DOMAIN registry') /\ IsFiniteSet(Creating')
    BY Finite, FS_Subset
  <2> QED BY <2>1, Finite, FS_CardinalityType
<1> QED BY <1>1, <1>2, Limits DEF OverrunIsBounded

-----------------------------------------------------------------------------
(* The steps. *)

USE DEF vars, cloneVars, regVars, baseVars, endVars, Goto, Begins, Step, Phase

LEMMA InitInv == Init => CloneInv
<1> SUFFICES ASSUME Init PROVE CloneInv
  OBVIOUS
<1>1. TypeOK
  BY DEF Init, TypeOK, NoEntries
<1>2. OwnersApart /\ HandsOK /\ ListedClonesServe /\ IdsNameOneClone /\ IdsFollowSeq
  BY DEF Init, OwnersApart, Entries, HandsOK, ListedClonesServe, IdsNameOneClone, IdsFollowSeq,
         NoEntries
<1>3. OverrunIsBounded
  <2>1. DOMAIN registry = {} /\ Creating = {}
    BY DEF Init, NoEntries, Creating
  <2>2. Cardinality({}) = 0
    BY FS_EmptySet
  <2>3. Cardinality(Request) \in Nat /\ Cardinality(Request) # 0
    BY Limits, FS_CardinalityType, FS_EmptySet
  <2> QED BY <2>1, <2>2, <2>3, Limits DEF OverrunIsBounded
<1> QED BY <1>1, <1>2, <1>3 DEF CloneInv

\* Steps that leave the clones and the registry alone, and start no creation.
LEMMA QuietKeeps ==
    ASSUME CloneInv, TypeOK', UNCHANGED <<cloneVars, regVars, hands>>,
           \A r \in Request :
              \/ pc'[r] = pc[r]
              \/ /\ pc[r] \in {"idle", "freeze", "takeAll", "handle"} /\ pc'[r] \in Step
                 /\ pc'[r] \notin {"serve", "discard", "register", "stop"}
                 /\ pc'[r] \in {"freeze", "clone"} => pc[r] = "freeze"
    PROVE  CloneInv'
<1>1. OwnersApart' /\ HandsOK' /\ ListedClonesServe' /\ IdsNameOneClone' /\ IdsFollowSeq'
  <2>1. OwnersApart'
    BY DEF CloneInv, OwnersApart, Entries
  <2>2. HandsOK'
    BY DEF CloneInv, HandsOK
  <2>3. ListedClonesServe' /\ IdsNameOneClone' /\ IdsFollowSeq'
    BY DEF CloneInv, ListedClonesServe, IdsNameOneClone, IdsFollowSeq
  <2> QED BY <2>1, <2>2, <2>3
<1>2. Creating' \subseteq Creating
  BY DEF Creating
<1>3. OverrunIsBounded'
  BY <1>2, FewerKeepBound DEF CloneInv
<1> QED BY <1>1, <1>3 DEF CloneInv

LEMMA CheckLimitKeeps ==
    ASSUME CloneInv, NEW r \in Request, CheckLimit(r)
    PROVE  CloneInv'
<1>1. TypeOK'
  BY DEF CloneInv, TypeOK, CheckLimit
<1>2. OwnersApart' /\ HandsOK' /\ ListedClonesServe' /\ IdsNameOneClone' /\ IdsFollowSeq'
  <2>1. OwnersApart'
    BY DEF CheckLimit, CloneInv, OwnersApart, Entries
  <2>2. HandsOK'
    BY DEF CheckLimit, CloneInv, TypeOK, HandsOK
  <2>3. ListedClonesServe' /\ IdsNameOneClone' /\ IdsFollowSeq'
    BY DEF CheckLimit, CloneInv, ListedClonesServe, IdsNameOneClone, IdsFollowSeq
  <2> QED BY <2>1, <2>2, <2>3
<1>3. OverrunIsBounded'
  <2>1. Cardinality(DOMAIN registry) < MaxManagedClones /\ registry' = registry
    BY DEF CheckLimit
  <2>2. Cardinality(Creating') <= Cardinality(Request) /\ Cardinality(Creating') \in Nat
    <3>1. Creating' \subseteq Request
      BY DEF Creating
    <3> QED BY <3>1, Limits, FS_Subset, FS_CardinalityType
  <2>3. Cardinality(DOMAIN registry) \in Nat /\ Cardinality(Request) \in Nat
    BY Finite DEF CloneInv
  <2> QED BY <2>1, <2>2, <2>3, Limits DEF OverrunIsBounded
<1> QED BY <1>1, <1>2, <1>3 DEF CloneInv

LEMMA CloneBaseKeeps ==
    ASSUME CloneInv, NEW r \in Request, NEW k \in Clone, CloneBase(r, k)
    PROVE  CloneInv'
<1>1. TypeOK'
  BY DEF CloneInv, TypeOK, CloneBase
<1>2. k \notin Entries /\ \A t \in Request : k \notin hands[t]
  BY DEF CloneInv, OwnersApart, CloneBase
<1>3. hands[r] = {}
  BY DEF CloneInv, HandsOK, CloneBase
<1>4. OwnersApart'
  <2>1. \A i, j \in DOMAIN registry' : registry'[i] = registry'[j] => i = j
    BY DEF CloneInv, OwnersApart, CloneBase
  <2>2. \A t \in Request : hands'[t] = IF t = r THEN {k} ELSE hands[t]
    BY DEF CloneInv, TypeOK, CloneBase
  <2>3. Entries' = Entries
    BY DEF Entries, CloneBase
  <2>4. \A s, t \in Request : hands'[s] \cap hands'[t] # {} => s = t
    BY <1>2, <2>2 DEF CloneInv, OwnersApart
  <2>5. \A t \in Request : Entries' \cap hands'[t] = {}
    BY <1>2, <2>2, <2>3 DEF CloneInv, OwnersApart
  <2>6. \A x \in Clone : cluster'[x] = IF x = k THEN "open" ELSE cluster[x]
    BY DEF CloneInv, TypeOK, CloneBase
  <2>7. \A x \in Clone :
           cluster'[x] = "open" <=> x \in Entries' \/ \E t \in Request : x \in hands'[t]
    BY <1>3, <2>2, <2>3, <2>6 DEF CloneInv, OwnersApart
  <2> QED BY <2>1, <2>4, <2>5, <2>7 DEF OwnersApart
<1>5. HandsOK'
  BY DEF CloneInv, TypeOK, HandsOK, CloneBase
<1>6. ListedClonesServe' /\ IdsNameOneClone' /\ IdsFollowSeq'
  BY DEF CloneInv, TypeOK, ListedClonesServe, IdsNameOneClone, IdsFollowSeq, CloneBase
<1>7. OverrunIsBounded'
  <2>1. Creating' \subseteq Creating
    BY DEF Creating, CloneBase, CloneInv, TypeOK
  <2> QED BY <1>1, <2>1, FewerKeepBound DEF CloneInv, CloneBase
<1> QED BY <1>1, <1>4, <1>5, <1>6, <1>7 DEF CloneInv

\* The clone in hand gets a server, or the port fails.
LEMMA ServeKeeps ==
    ASSUME CloneInv, NEW r \in Request, Serve(r) \/ FailServe(r)
    PROVE  CloneInv'
<1>1. TypeOK'
  BY DEF CloneInv, TypeOK, Serve, FailServe
<1>2. PICK k \in Clone : hands[r] = {k} /\ server[k] = "missing"
  BY DEF CloneInv, HandsOK, Serve, FailServe
<1>3. cluster[k] = "open" /\ k \notin Entries /\ \A t \in Request \ {r} : k \notin hands[t]
  BY <1>2 DEF CloneInv, OwnersApart
<1>4. OwnersApart'
  BY DEF CloneInv, OwnersApart, Entries, Serve, FailServe
<1>5. HandsOK'
  BY <1>2, <1>3 DEF CloneInv, TypeOK, HandsOK, Serve, FailServe
<1>6. ListedClonesServe'
  BY <1>2, <1>3 DEF CloneInv, TypeOK, ListedClonesServe, Serve, FailServe
<1>7. IdsNameOneClone' /\ IdsFollowSeq'
  BY DEF CloneInv, IdsNameOneClone, IdsFollowSeq, Serve, FailServe
<1>8. OverrunIsBounded'
  <2>1. Creating' \subseteq Creating
    BY DEF Creating, Serve, FailServe, CloneInv, TypeOK
  <2> QED BY <1>1, <2>1, FewerKeepBound DEF CloneInv, Serve, FailServe
<1> QED BY <1>1, <1>4, <1>5, <1>6, <1>7, <1>8 DEF CloneInv

LEMMA DiscardKeeps ==
    ASSUME CloneInv, NEW r \in Request, Discard(r)
    PROVE  CloneInv'
<1>1. TypeOK'
  BY DEF CloneInv, TypeOK, Discard
<1>2. PICK k \in Clone : hands[r] = {k} /\ server[k] = "missing"
  BY DEF CloneInv, HandsOK, Discard
<1>3. k \notin Entries /\ \A t \in Request \ {r} : k \notin hands[t]
  BY <1>2 DEF CloneInv, OwnersApart
<1>4. \A t \in Request : hands'[t] = IF t = r THEN {} ELSE hands[t]
  BY DEF CloneInv, TypeOK, Discard
<1>5. \A x \in Clone : cluster'[x] = IF x = k THEN "closed" ELSE cluster[x]
  BY <1>2 DEF CloneInv, TypeOK, Discard
<1>6. OwnersApart'
  <2>1. Entries' = Entries /\ registry' = registry
    BY DEF Entries, Discard
  <2>2. \A s, t \in Request : hands'[s] \cap hands'[t] # {} => s = t
    BY <1>4 DEF CloneInv, OwnersApart
  <2>3. \A t \in Request : Entries' \cap hands'[t] = {}
    BY <1>4, <2>1 DEF CloneInv, OwnersApart
  <2>4. \A x \in Clone :
           cluster'[x] = "open" <=> x \in Entries' \/ \E t \in Request : x \in hands'[t]
    BY <1>2, <1>3, <1>4, <1>5, <2>1 DEF CloneInv, OwnersApart
  <2> QED BY <2>1, <2>2, <2>3, <2>4 DEF CloneInv, OwnersApart
<1>7. HandsOK'
  BY <1>5 DEF CloneInv, TypeOK, HandsOK, Discard
<1>8. ListedClonesServe' /\ IdsNameOneClone' /\ IdsFollowSeq'
  BY <1>2, <1>5 DEF CloneInv, ListedClonesServe, IdsNameOneClone, IdsFollowSeq, Discard
<1>9. OverrunIsBounded'
  <2>1. Creating' \subseteq Creating
    BY DEF Creating, Discard, CloneInv, TypeOK
  <2> QED BY <1>1, <2>1, FewerKeepBound DEF CloneInv, Discard
<1> QED BY <1>1, <1>6, <1>7, <1>8, <1>9 DEF CloneInv

\* The clone in hand is entered under an id that was never used.
LEMMA RegisterKeeps ==
    ASSUME CloneInv, NEW r \in Request, Register(r)
    PROVE  CloneInv'
<1> DEFINE id == seq + 1
<1>1. PICK k \in Clone : hands[r] = {k} /\ server[k] = "open"
  BY DEF CloneInv, HandsOK, Register, RegisterAs
<1>2. /\ registry' = [i \in DOMAIN registry \cup {id} |-> IF i = id THEN k ELSE registry[i]]
      /\ issued' = issued \cup {<<id, k>>} /\ seq' = id
      /\ hands' = [hands EXCEPT ![r] = {}] /\ pc' = [pc EXCEPT ![r] = "idle"]
      /\ UNCHANGED <<cloneVars, baseVars, endVars, route>> /\ pc[r] = "register"
  BY <1>1 DEF Register, RegisterAs
<1>3. seq \in Nat /\ id \in Nat /\ id \notin DOMAIN registry /\ DOMAIN registry \subseteq 1..seq
  BY DEF CloneInv, TypeOK
<1>4. k \notin Entries /\ \A t \in Request \ {r} : k \notin hands[t]
  BY <1>1 DEF CloneInv, OwnersApart
<1>5. /\ DOMAIN registry' = DOMAIN registry \cup {id} /\ registry'[id] = k
      /\ \A i \in DOMAIN registry : registry'[i] = registry[i]
  BY <1>2, <1>3
<1>6. TypeOK'
  <2>1. registry' \in [DOMAIN registry' -> Clone]
    BY <1>2 DEF CloneInv, TypeOK
  <2>2. DOMAIN registry' \subseteq 1..seq' /\ seq' \in Nat /\ issued' \subseteq Nat \X Clone
    BY <1>2, <1>3, <1>5 DEF CloneInv, TypeOK
  <2> QED BY <1>2, <2>1, <2>2 DEF CloneInv, TypeOK
<1>7. \A t \in Request : hands'[t] = IF t = r THEN {} ELSE hands[t]
  BY <1>2 DEF CloneInv, TypeOK
<1>8. Entries' = Entries \cup {k}
  BY <1>5 DEF Entries
<1>9. OwnersApart'
  <2>1. \A i, j \in DOMAIN registry' : registry'[i] = registry'[j] => i = j
    BY <1>4, <1>5 DEF CloneInv, OwnersApart, Entries
  <2>2. \A s, t \in Request : hands'[s] \cap hands'[t] # {} => s = t
    BY <1>7 DEF CloneInv, OwnersApart
  <2>3. \A t \in Request : Entries' \cap hands'[t] = {}
    BY <1>4, <1>7, <1>8 DEF CloneInv, OwnersApart
  <2>4. \A x \in Clone :
           cluster'[x] = "open" <=> x \in Entries' \/ \E t \in Request : x \in hands'[t]
    BY <1>1, <1>2, <1>7, <1>8 DEF CloneInv, OwnersApart
  <2> QED BY <2>1, <2>2, <2>3, <2>4 DEF OwnersApart
<1>10. HandsOK'
  BY <1>2, <1>7 DEF CloneInv, TypeOK, HandsOK
<1>11. ListedClonesServe'
  BY <1>1, <1>2, <1>5 DEF CloneInv, ListedClonesServe
<1>12. IdsNameOneClone'
  <2>1. \A x \in issued : x[1] # id /\ x = <<x[1], x[2]>>
    BY <1>3 DEF CloneInv, IdsFollowSeq, TypeOK
  <2>2. \A x, y \in issued' : x[1] = y[1] => x = y
    BY <1>2, <2>1 DEF CloneInv, IdsNameOneClone
  <2>3. \A i \in DOMAIN registry' : <<i, registry'[i]>> \in issued'
    BY <1>2, <1>5 DEF CloneInv, IdsNameOneClone
  <2> QED BY <2>2, <2>3 DEF IdsNameOneClone
<1>13. IdsFollowSeq'
  BY <1>2, <1>3 DEF CloneInv, IdsFollowSeq
<1>14. OverrunIsBounded'
  <2>1. r \in Creating /\ Creating' = Creating \ {r}
    BY <1>2 DEF Creating, CloneInv, TypeOK
  <2>2. Cardinality(Creating') = Cardinality(Creating) - 1
    BY <2>1, Finite, FS_RemoveElement DEF CloneInv
  <2>3. Cardinality(DOMAIN registry') = Cardinality(DOMAIN registry) + 1
    BY <1>3, <1>5, Finite, FS_AddElement DEF CloneInv
  <2> QED BY <2>2, <2>3, Finite, Limits DEF CloneInv, OverrunIsBounded
<1> QED BY <1>6, <1>9, <1>10, <1>11, <1>12, <1>13, <1>14 DEF CloneInv

\* An entry moves from the registry to the request.
LEMMA TakeOneKeeps ==
    ASSUME CloneInv, NEW r \in Request, NEW id \in DOMAIN registry, TakeOne(r, id)
    PROVE  CloneInv'
<1> DEFINE k == registry[id]
<1>1. /\ DOMAIN registry' = DOMAIN registry \ {id}
      /\ \A i \in DOMAIN registry' : registry'[i] = registry[i]
  BY DEF TakeOne, Restrict
<1>2. k \in Clone /\ k \in Entries /\ hands[r] = {}
  BY DEF CloneInv, TypeOK, HandsOK, Entries, TakeOne
<1>3. TypeOK'
  <2>1. registry' \in [DOMAIN registry' -> Clone]
    BY <1>1 DEF CloneInv, TypeOK, TakeOne, Restrict
  <2>2. hands' \in [Request -> SUBSET Clone]
    BY <1>2 DEF CloneInv, TypeOK, TakeOne
  <2> QED BY <1>1, <2>1, <2>2 DEF CloneInv, TypeOK, TakeOne
<1>4. \A t \in Request : hands'[t] = IF t = r THEN {k} ELSE hands[t]
  BY DEF CloneInv, TypeOK, TakeOne
<1>5. Entries' = Entries \ {k}
  BY <1>1 DEF Entries, CloneInv, OwnersApart
<1>6. OwnersApart'
  <2>1. \A i, j \in DOMAIN registry' : registry'[i] = registry'[j] => i = j
    BY <1>1 DEF CloneInv, OwnersApart
  <2>2. \A s, t \in Request : hands'[s] \cap hands'[t] # {} => s = t
    BY <1>2, <1>4 DEF CloneInv, OwnersApart
  <2>3. \A t \in Request : Entries' \cap hands'[t] = {}
    BY <1>4, <1>5 DEF CloneInv, OwnersApart
  <2>4. cluster' = cluster
    BY DEF TakeOne
  <2>5. \A x \in Clone :
           cluster'[x] = "open" <=> x \in Entries' \/ \E t \in Request : x \in hands'[t]
    BY <1>2, <1>4, <1>5, <2>4 DEF CloneInv, OwnersApart
  <2> QED BY <2>1, <2>2, <2>3, <2>5 DEF OwnersApart
<1>7. HandsOK'
  BY <1>4 DEF CloneInv, TypeOK, HandsOK, TakeOne
<1>8. ListedClonesServe' /\ IdsNameOneClone' /\ IdsFollowSeq'
  BY <1>1 DEF CloneInv, ListedClonesServe, IdsNameOneClone, IdsFollowSeq, TakeOne
<1>9. OverrunIsBounded'
  <2>1. Creating' \subseteq Creating
    BY DEF Creating, TakeOne, CloneInv, TypeOK
  <2> QED BY <1>1, <1>3, <2>1, FewerKeepBound DEF CloneInv
<1> QED BY <1>3, <1>6, <1>7, <1>8, <1>9 DEF CloneInv

\* All entries move to the request, or to the call that closes the base.
LEMMA TakeEntriesKeeps ==
    ASSUME CloneInv, NEW r \in Request, TakeAll(r) \/ CloseBase(r)
    PROVE  CloneInv'
<1>1. /\ hands' = [hands EXCEPT ![r] = Entries] /\ registry' = NoEntries
      /\ pc' = [pc EXCEPT ![r] = IF Entries = {} THEN "idle" ELSE "stop"]
      /\ UNCHANGED <<cloneVars, seq, issued, baseVars, route>>
      /\ pc[r] \in {"takeAll", "idle"} /\ closer' \in {closer, {r}}
      /\ UNCHANGED <<stopped, ended>>
  BY DEF TakeAll, CloseBase, TakeEntries
<1>2. hands[r] = {}
  BY <1>1 DEF CloneInv, HandsOK
<1>3. Entries \subseteq Clone /\ DOMAIN registry' = {} /\ Entries' = {}
  BY <1>1 DEF CloneInv, TypeOK, Entries, NoEntries
<1>4. TypeOK'
  <2>1. registry' \in [DOMAIN registry' -> Clone] /\ DOMAIN registry' \subseteq 1..seq'
    BY <1>1, <1>3 DEF NoEntries
  <2>2. hands' \in [Request -> SUBSET Clone] /\ pc' \in [Request -> Step]
    BY <1>1, <1>3 DEF CloneInv, TypeOK
  <2> QED BY <1>1, <2>1, <2>2 DEF CloneInv, TypeOK
<1>5. \A t \in Request : hands'[t] = IF t = r THEN Entries ELSE hands[t]
  BY <1>1 DEF CloneInv, TypeOK
<1>6. OwnersApart'
  <2>1. \A s, t \in Request : hands'[s] \cap hands'[t] # {} => s = t
    BY <1>5 DEF CloneInv, OwnersApart
  <2>2. \A x \in Clone :
           cluster'[x] = "open" <=> x \in Entries' \/ \E t \in Request : x \in hands'[t]
    BY <1>1, <1>2, <1>3, <1>5 DEF CloneInv, OwnersApart
  <2> QED BY <1>3, <2>1, <2>2 DEF OwnersApart
<1>7. HandsOK'
  <2>1. \A t \in Request : pc'[t] = IF t = r THEN IF Entries = {} THEN "idle" ELSE "stop" ELSE pc[t]
    BY <1>1 DEF CloneInv, TypeOK
  <2> QED BY <1>1, <1>5, <2>1 DEF CloneInv, HandsOK
<1>8. ListedClonesServe' /\ IdsNameOneClone' /\ IdsFollowSeq'
  BY <1>1, <1>3 DEF CloneInv, ListedClonesServe, IdsNameOneClone, IdsFollowSeq
<1>9. OverrunIsBounded'
  <2>1. Creating' \subseteq Creating
    BY <1>1 DEF Creating, CloneInv, TypeOK
  <2> QED BY <1>3, <1>4, <2>1, FewerKeepBound DEF CloneInv
<1> QED BY <1>4, <1>6, <1>7, <1>8, <1>9 DEF CloneInv

\* The server of a clone in hand, which is not listed any more, stops.
LEMMA StopServerKeeps ==
    ASSUME CloneInv, NEW r \in Request, NEW k \in Clone, StopServer(r, k)
    PROVE  CloneInv'
<1>1. TypeOK'
  BY DEF CloneInv, TypeOK, StopServer
<1>2. cluster[k] = "open" /\ k \notin Entries /\ \A t \in Request \ {r} : k \notin hands[t]
  BY DEF CloneInv, OwnersApart, StopServer
<1>3. \A x \in Clone : server'[x] = IF x = k THEN "closed" ELSE server[x]
  BY DEF CloneInv, TypeOK, StopServer
<1>4. OwnersApart'
  BY DEF CloneInv, OwnersApart, Entries, StopServer
<1>5. HandsOK'
  BY <1>2, <1>3 DEF CloneInv, HandsOK, StopServer
<1>6. ListedClonesServe'
  <2>1. \A id \in DOMAIN registry : registry[id] \in Clone /\ registry[id] # k
    BY <1>2 DEF CloneInv, TypeOK, Entries
  <2> QED BY <1>3, <2>1 DEF CloneInv, ListedClonesServe, StopServer
<1>7. IdsNameOneClone' /\ IdsFollowSeq'
  BY DEF CloneInv, IdsNameOneClone, IdsFollowSeq, StopServer
<1>8. OverrunIsBounded'
  BY DEF CloneInv, OverrunIsBounded, Creating, StopServer
<1> QED BY <1>1, <1>4, <1>5, <1>6, <1>7, <1>8 DEF CloneInv

\* The engine of a clone in hand is closed after its server.
LEMMA CloseCloneKeeps ==
    ASSUME CloneInv, NEW r \in Request, NEW k \in Clone, CloseClone(r, k)
    PROVE  CloneInv'
<1>1. TypeOK'
  BY DEF CloneInv, TypeOK, CloseClone
<1>2. k \notin Entries /\ \A t \in Request \ {r} : k \notin hands[t]
  BY DEF CloneInv, OwnersApart, CloseClone
<1>3. \A t \in Request : hands'[t] = IF t = r THEN hands[r] \ {k} ELSE hands[t]
  BY DEF CloneInv, TypeOK, CloseClone
<1>4. \A x \in Clone : cluster'[x] = IF x = k THEN "closed" ELSE cluster[x]
  BY DEF CloneInv, TypeOK, CloseClone
<1>5. OwnersApart'
  <2>1. Entries' = Entries /\ registry' = registry
    BY DEF Entries, CloseClone
  <2>2. \A s, t \in Request : hands'[s] \cap hands'[t] # {} => s = t
    BY <1>3 DEF CloneInv, OwnersApart
  <2>3. \A t \in Request : Entries' \cap hands'[t] = {}
    BY <1>3, <2>1 DEF CloneInv, OwnersApart
  <2>4. \A x \in Clone :
           cluster'[x] = "open" <=> x \in Entries' \/ \E t \in Request : x \in hands'[t]
    BY <1>2, <1>3, <1>4, <2>1 DEF CloneInv, OwnersApart
  <2> QED BY <2>1, <2>2, <2>3, <2>4 DEF CloneInv, OwnersApart
<1>6. HandsOK'
  <2>1. \A t \in Request :
           pc'[t] = IF t = r THEN IF hands[r] = {k} THEN "idle" ELSE "stop" ELSE pc[t]
    BY DEF CloneInv, TypeOK, CloseClone
  <2>2. hands[r] = {k} => hands'[r] = {}
    BY <1>3
  <2>3. server' = server
    BY DEF CloseClone
  <2> QED BY <1>3, <1>4, <2>1, <2>2, <2>3 DEF CloneInv, HandsOK
<1>7. ListedClonesServe' /\ IdsNameOneClone' /\ IdsFollowSeq'
  BY <1>4 DEF CloneInv, ListedClonesServe, IdsNameOneClone, IdsFollowSeq, CloseClone
<1>8. OverrunIsBounded'
  <2>1. Creating' \subseteq Creating
    BY DEF Creating, CloseClone, CloneInv, TypeOK
  <2> QED BY <1>1, <2>1, FewerKeepBound DEF CloneInv, CloseClone
<1> QED BY <1>1, <1>5, <1>6, <1>7, <1>8 DEF CloneInv

-----------------------------------------------------------------------------
(* The steps that leave the clones alone. *)

LEMMA RequestQuietKeeps ==
    ASSUME CloneInv, NEW r \in Request,
           FreezeBase(r) \/ CountClones(r) \/ EndClose(r) \/ Handle(r)
    PROVE  CloneInv'
<1>1. TypeOK'
  <2>1. CASE FreezeBase(r)
    BY <2>1 DEF FreezeBase, CloneInv, TypeOK
  <2>2. CASE CountClones(r)
    BY <2>2 DEF CountClones, CloneInv, TypeOK
  <2>3. CASE EndClose(r)
    BY <2>3 DEF EndClose, CloneInv, TypeOK
  <2>4. CASE Handle(r)
    BY <2>4 DEF Handle, CloneInv, TypeOK
  <2> QED BY <2>1, <2>2, <2>3, <2>4
<1>2. UNCHANGED <<cloneVars, regVars, hands>>
  BY DEF FreezeBase, CountClones, EndClose, Handle
<1>3. \A t \in Request :
         \/ pc'[t] = pc[t]
         \/ /\ pc[t] \in {"idle", "freeze", "takeAll", "handle"} /\ pc'[t] \in Step
            /\ pc'[t] \notin {"serve", "discard", "register", "stop"}
            /\ pc'[t] \in {"freeze", "clone"} => pc[t] = "freeze"
  BY DEF FreezeBase, CountClones, EndClose, Handle, CloneInv, TypeOK
<1> QED BY <1>1, <1>2, <1>3, QuietKeeps

LEMMA AdmitKeeps ==
    ASSUME CloneInv, NEW r \in Request, NEW q \in Route, Admit(r, q)
    PROVE  CloneInv'
<1>1. TypeOK'
  BY DEF CloneInv, TypeOK, Admit
<1>2. UNCHANGED <<cloneVars, regVars, hands>>
  BY DEF Admit
<1>3. \A t \in Request :
         \/ pc'[t] = pc[t]
         \/ /\ pc[t] \in {"idle", "freeze", "takeAll", "handle"} /\ pc'[t] \in Step
            /\ pc'[t] \notin {"serve", "discard", "register", "stop"}
            /\ pc'[t] \in {"freeze", "clone"} => pc[t] = "freeze"
  BY DEF Admit, CloneInv, TypeOK
<1> QED BY <1>1, <1>2, <1>3, QuietKeeps

LEMMA BaseQuietKeeps ==
    ASSUME CloneInv, StopBase \/ Freeze \/ Unfreeze \/ UNCHANGED vars
    PROVE  CloneInv'
<1>1. TypeOK'
  <2>1. CASE StopBase
    BY <2>1 DEF StopBase, CloneInv, TypeOK
  <2>2. CASE Freeze
    BY <2>2 DEF Freeze, CloneInv, TypeOK
  <2>3. CASE Unfreeze
    BY <2>3 DEF Unfreeze, CloneInv, TypeOK
  <2>4. CASE UNCHANGED vars
    BY <2>4 DEF CloneInv, TypeOK
  <2> QED BY <2>1, <2>2, <2>3, <2>4
<1>2. UNCHANGED <<cloneVars, regVars, hands>> /\ pc' = pc
  BY DEF StopBase, Freeze, Unfreeze
<1> QED BY <1>1, <1>2, QuietKeeps

-----------------------------------------------------------------------------
(* The invariant and what follows from it. *)

LEMMA NextKeeps == CloneInv /\ [Next]_vars => CloneInv'
<1> SUFFICES ASSUME CloneInv, [Next]_vars PROVE CloneInv'
  OBVIOUS
<1>1. ASSUME NEW r \in Request, CheckLimit(r) PROVE CloneInv'
  BY <1>1, CheckLimitKeeps
<1>2. ASSUME NEW r \in Request, CloseBase(r) PROVE CloneInv'
  BY <1>2, TakeEntriesKeeps
<1>3. ASSUME NEW r \in Request, CountClones(r) PROVE CloneInv'
  BY <1>3, RequestQuietKeeps
<1>4. ASSUME NEW r \in Request, RequestStep(r) PROVE CloneInv'
  <2>1. CASE FreezeBase(r) \/ EndClose(r) \/ Handle(r)
    BY <2>1, RequestQuietKeeps
  <2>2. CASE Serve(r) \/ FailServe(r)
    BY <2>2, ServeKeeps
  <2>3. CASE Discard(r)
    BY <2>3, DiscardKeeps
  <2>4. CASE Register(r)
    BY <2>4, RegisterKeeps
  <2>5. CASE TakeAll(r)
    BY <2>5, TakeEntriesKeeps
  <2>6. ASSUME NEW k \in Clone, CloneBase(r, k) PROVE CloneInv'
    BY <2>6, CloneBaseKeeps
  <2>7. ASSUME NEW k \in Clone, StopServer(r, k) PROVE CloneInv'
    BY <2>7, StopServerKeeps
  <2>8. ASSUME NEW k \in Clone, CloseClone(r, k) PROVE CloneInv'
    BY <2>8, CloseCloneKeeps
  <2> QED BY <1>4, <2>1, <2>2, <2>3, <2>4, <2>5, <2>6, <2>7, <2>8 DEF RequestStep
<1>5. ASSUME NEW r \in Request, NEW id \in DOMAIN registry, TakeOne(r, id) PROVE CloneInv'
  BY <1>5, TakeOneKeeps
<1>6. ASSUME NEW r \in Request, NEW q \in Route, Admit(r, q) PROVE CloneInv'
  BY <1>6, AdmitKeeps
<1>7. CASE StopBase \/ Freeze \/ Unfreeze \/ UNCHANGED vars
  BY <1>7, BaseQuietKeeps
<1> QED BY <1>1, <1>2, <1>3, <1>4, <1>5, <1>6, <1>7 DEF Next

\* The registry of managed clones is kept in order by every interleaving of the
\* steps of admin.go: the inductive invariant of ManagedClones.
THEOREM RegistryInOrder == Spec => []CloneInv
BY InitInv, NextKeeps, PTL DEF Spec

\* The variables keep their types.
THEOREM ClonesTypes == Spec => []TypeOK
<1>1. CloneInv => TypeOK
  BY DEF CloneInv
<1> QED BY <1>1, RegistryInOrder, PTL

\* Every open clone is owned by one entry or by one request, and a closed one
\* by none (ManagedClone, CloseManagedClone, closeManagedClones).
THEOREM NoCloneLeaks == Spec => []OneOwner
<1>1. ASSUME CloneInv PROVE OneOwner
  <2> SUFFICES ASSUME NEW k \in Clone
               PROVE  IF cluster[k] = "open"
                        THEN \E x \in Owners(k) : Owners(k) = {x} ELSE Owners(k) = {}
    BY DEF OneOwner
  <2>1. ASSUME NEW x \in Owners(k)
        PROVE  \/ \E id \in DOMAIN registry : x = <<"entry", id>> /\ registry[id] = k
               \/ \E r \in Request : x = <<"hands", r>> /\ k \in hands[r]
    BY <2>1 DEF Owners
  <2>2. \A id \in DOMAIN registry : registry[id] = k => <<"entry", id>> \in Owners(k)
    BY DEF Owners
  <2>3. \A r \in Request : k \in hands[r] => <<"hands", r>> \in Owners(k)
    BY DEF Owners
  <2>4. \A x, y \in Owners(k) : x = y
    BY <1>1, <2>1 DEF CloneInv, OwnersApart, Entries
  <2>5. CASE cluster[k] = "open"
    <3>1. k \in Entries \/ \E r \in Request : k \in hands[r]
      BY <1>1, <2>5 DEF CloneInv, OwnersApart
    <3>2. Owners(k) # {}
      BY <2>2, <2>3, <3>1 DEF Entries
    <3> QED BY <2>4, <2>5, <3>2
  <2>6. CASE cluster[k] # "open"
    BY <1>1, <2>1, <2>6 DEF CloneInv, OwnersApart, Entries
  <2> QED BY <2>5, <2>6
<1> QED BY <1>1, RegistryInOrder, PTL

\* A clone that is listed serves, and an engine is closed after its server.
THEOREM ListedServe == Spec => []ListedClonesServe
<1>1. CloneInv => ListedClonesServe
  BY DEF CloneInv
<1> QED BY <1>1, RegistryInOrder, PTL

\* An id that a client was told never names another clone.
THEOREM IdsAreFresh == Spec => []IdsNameOneClone
<1>1. CloneInv => IdsNameOneClone
  BY DEF CloneInv
<1> QED BY <1>1, RegistryInOrder, PTL

\* The limit is overrun by fewer clones than there are concurrent requests.
THEOREM OverrunBound == Spec => []OverrunIsBounded
<1>1. CloneInv => OverrunIsBounded
  BY DEF CloneInv
<1> QED BY <1>1, RegistryInOrder, PTL

\* A write that isReadOnlyRequest lets through has a misleading name in its path.
LEMMA LetThrough ==
    ASSUME NEW q \in Route, q.writes, IsReadOnly(q)
    PROVE  Misread(q)
<1>1. PICK i \in DOMAIN q.path :
         /\ q.path[i] \in ReadingSegments
         /\ \A j \in 1..(i - 1) : q.path[j] \notin ReadingSegments \cup MetadataSegments
  BY RouteTable DEF IsReadOnly
<1>2. i # q.api
  BY <1>1, RouteTable
<1> QED BY <1>1, <1>2 DEF Misread

\* A write becomes admitted by Admit only, which looks at the flag.
LEMMA AdmittedDrain ==
    ASSUME TypeOK, Next, frozen, NEW r \in Admitted' \ Admitted
    PROVE  Misread(route'[r])
<1>0. r \in Request /\ pc'[r] = "handle" /\ route'[r].writes
  BY DEF Admitted
<1> SUFFICES ASSUME ~Misread(route'[r])
             PROVE  pc[r] = "handle" /\ route'[r] = route[r]
  BY <1>0 DEF Admitted
<1> USE <1>0
<1> USE DEF TypeOK, Goto
<1>1. CASE UNCHANGED <<pc, route>>
  BY <1>1
<1>2. ASSUME NEW t \in Request, NEW step, step # "handle", Goto(t, step), UNCHANGED route
      PROVE  pc[r] = "handle" /\ route'[r] = route[r]
  BY <1>2
<1>3. ASSUME NEW t \in Request, CheckLimit(t) \/ CountClones(t) \/ CloseBase(t)
      PROVE  pc[r] = "handle" /\ route'[r] = route[r]
  BY <1>2, <1>3 DEF CheckLimit, CountClones, CloseBase, TakeEntries
<1>4. ASSUME NEW t \in Request, RequestStep(t)
      PROVE  pc[r] = "handle" /\ route'[r] = route[r]
  <2>1. CASE \/ FreezeBase(t) \/ Serve(t) \/ FailServe(t) \/ Discard(t) \/ Register(t)
             \/ TakeAll(t) \/ EndClose(t)
    BY <1>1, <1>2, <2>1 DEF FreezeBase, Serve, FailServe, Discard, Register, RegisterAs, TakeAll,
                            TakeEntries, EndClose
  <2>2. CASE \E k \in Clone : CloneBase(t, k) \/ StopServer(t, k) \/ CloseClone(t, k)
    BY <1>1, <1>2, <2>2 DEF CloneBase, StopServer, CloseClone
  <2>3. CASE Handle(t)
    <3>1. t # r
      BY <2>3 DEF Handle
    <3> QED BY <2>3, <3>1 DEF Handle
  <2> QED BY <1>4, <2>1, <2>2, <2>3 DEF RequestStep
<1>5. ASSUME NEW t \in Request, NEW q \in Route, Admit(t, q)
      PROVE  pc[r] = "handle" /\ route'[r] = route[r]
  <2>1. CASE t = r
    <3>1. route'[r] = q /\ IsReadOnly(q)
      BY <1>5, <2>1 DEF Admit
    <3> QED BY <3>1, LetThrough
  <2>2. CASE t # r
    BY <1>5, <2>2 DEF Admit
  <2> QED BY <2>1, <2>2
<1>6. ASSUME NEW t \in Request, NEW id \in DOMAIN registry, TakeOne(t, id)
      PROVE  pc[r] = "handle" /\ route'[r] = route[r]
  BY <1>2, <1>6 DEF TakeOne
<1>7. CASE StopBase \/ Freeze \/ Unfreeze
  BY <1>1, <1>7 DEF StopBase, Freeze, Unfreeze
<1> QED BY <1>3, <1>4, <1>5, <1>6, <1>7 DEF Next

\* A change of the base is an admitted write that is over, and no other begins.
LEMMA WritesAreAdmitted ==
    ASSUME TypeOK, Next, base' # base
    PROVE  Admitted' # Admitted /\ Admitted' \subseteq Admitted
<1>1. PICK r \in Request : Handle(r)
  BY DEF Next, RequestStep, CheckLimit, CountClones, CloseBase, FreezeBase, Serve, FailServe, Discard,
         Register, RegisterAs, TakeAll, TakeEntries, EndClose, CloneBase, StopServer, CloseClone,
         TakeOne, Admit, StopBase, Freeze, Unfreeze, baseVars
<1>2. pc[r] = "handle" /\ route[r].writes /\ pc'[r] = "idle"
  BY <1>1 DEF Handle, Goto, TypeOK
<1>3. r \in Admitted /\ r \notin Admitted'
  BY <1>2 DEF Admitted
<1>4. \A t \in Request : t # r => pc'[t] = pc[t] /\ route'[t] = route[t]
  BY <1>1 DEF Handle, Goto, TypeOK
<1> QED BY <1>3, <1>4 DEF Admitted

\* A base that stays frozen admits no writes but misread ones, and is changed
\* only by writes that were admitted, each of them once: the flag is read at
\* admission, and nothing looks at it again.  Assumed of the routes is only
\* that reading APIs and reading methods have no handlers that write.
THEOREM FrozenSettles == Spec => FrozenBaseSettles
<1>1. TypeOK /\ [Next]_vars
      => [frozen /\ frozen' =>
            /\ \A r \in Admitted' \ Admitted : Misread(route'[r])
            /\ base' # base => Admitted' # Admitted /\ Admitted' \subseteq Admitted]_vars
  BY AdmittedDrain, WritesAreAdmitted
<1> QED BY <1>1, ClonesTypes, PTL DEF Spec, FrozenBaseSettles
=============================================================================
