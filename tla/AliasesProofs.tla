--------------------------- MODULE AliasesProofs ---------------------------
(***************************************************************************)
(* Proofs about Aliases and IndexExpressions: the type invariant, the      *)
(* consistency of the aliases, the disjointness of names, that writes are  *)
(* redirected only on request and read through the name they went through, *)
(* and that a search reads what the elements of its expression ask for.    *)
(***************************************************************************)
EXTENDS IndexExpressions, FiniteSetTheorems, TLAPS

(* An entry after some actions is one that an action added, the one before *)
(* the request, or none.                                                   *)
LEMMA EntryCases ==
    ASSUME NEW req, NEW n, NEW i, NEW a
    PROVE  \/ \E k \in 1..n : Adds(req[k], i, a) /\ Entry(req, n, i, a) = req[k].def
           \/ Entry(req, n, i, a) = None
           \/ Entry(req, n, i, a) = aliases[i][a]
  <1> DEFINE added == {k \in 1..n : Adds(req[k], i, a) /\ \A j \in (k + 1)..n : ~Touches(req[j], i, a)}
  <1>1. CASE added # {}
    <2> DEFINE last == CHOOSE k \in added : TRUE
    <2>1. last \in added BY <1>1
    <2>2. Entry(req, n, i, a) = req[last].def BY <1>1 DEF Entry
    <2> QED BY <2>1, <2>2
  <1>2. CASE added = {} BY <1>2 DEF Entry
  <1> QED BY <1>1, <1>2

(* An action only looks at existing indices. *)
LEMMA ActionOnIndices ==
    ASSUME NEW act PROVE ActionIndices(act) \subseteq indices
  BY DEF ActionIndices

(* A pair that no action touches keeps its entry. *)
LEMMA Untouched ==
    ASSUME NEW req, NEW i, NEW a, \A k \in 1..Len(req) : ~Touches(req[k], i, a)
    PROVE  Entry(req, Len(req), i, a) = aliases[i][a]
  BY DEF Entry, Touches

(* The tables after an accepted request are well formed. *)
LEMMA ResultTyped ==
    ASSUME TypeOK, NEW req \in Requests
    PROVE  /\ Result(req) \in [IndexName -> [AliasName -> Def \union {None}]]
           /\ \A i \in IndexName \ indices : Result(req)[i] = NoAliases
           /\ \A i \in RemovedIndices(req) \intersect IndexName : Result(req)[i] = NoAliases
           /\ \A i \in IndexName \ (Changed(req) \union RemovedIndices(req)) : Result(req)[i] = aliases[i]
  <1>1. ASSUME NEW i \in IndexName, NEW a \in AliasName
        PROVE  Entry(req, Len(req), i, a) \in Def \union {None}
    <2>1. aliases[i][a] \in Def \union {None} BY DEF TypeOK
    <2>2. ASSUME NEW k \in 1..Len(req) PROVE req[k].def \in Def
      <3>1. req \in Seq(Actions) BY RequestAssumption
      <3>2. req[k] \in Actions BY <3>1
      <3> QED BY <3>2 DEF Actions
    <2> QED BY <2>1, <2>2, EntryCases
  <1>2. NoAliases \in [AliasName -> Def \union {None}] BY DEF NoAliases
  <1>3. ASSUME NEW i \in IndexName, i \notin RemovedIndices(req), i \notin Changed(req)
        PROVE  Result(req)[i] = aliases[i]
    <2>1. ASSUME NEW a \in AliasName PROVE Entry(req, Len(req), i, a) = aliases[i][a]
      <3>1. ASSUME NEW k \in 1..Len(req) PROVE ~Touches(req[k], i, a)
        BY <1>3, ActionOnIndices DEF Changed, Touches, Adds, Removes
      <3> QED BY <3>1, Untouched
    <2>2. aliases[i] \in [AliasName -> Def \union {None}] BY DEF TypeOK
    <2>3. Result(req)[i] = [a \in AliasName |-> Entry(req, Len(req), i, a)] BY <1>3 DEF Result
    <2>4. Result(req)[i] = [a \in AliasName |-> aliases[i][a]] BY <2>1, <2>3
    <2> QED BY <2>2, <2>4
  <1>4. ASSUME NEW i \in IndexName \ indices PROVE Result(req)[i] = NoAliases
    <2>1. i \notin Changed(req) BY DEF Changed
    <2>2. CASE i \in RemovedIndices(req) BY <2>2 DEF Result
    <2>3. CASE i \notin RemovedIndices(req) BY <2>1, <2>3, <1>3 DEF TypeOK
    <2> QED BY <2>2, <2>3
  <1>5. Result(req) \in [IndexName -> [AliasName -> Def \union {None}]]
    BY <1>1, <1>2 DEF Result
  <1>6. \A i \in RemovedIndices(req) \intersect IndexName : Result(req)[i] = NoAliases BY DEF Result
  <1> QED BY <1>3, <1>4, <1>5, <1>6

----------------------------------------------------------------------------
(* Type correctness *)

LEMMA InitTyped == Init => TypeOK
  BY DEF Init, TypeOK, NoAliases

LEMMA BuildTyped ==
    ASSUME TypeOK, NEW n \in IndexName, NEW defs, Build(n, defs),
           DOMAIN defs \subseteq AliasName, \A a \in DOMAIN defs : defs[a] \in Def,
           UNCHANGED <<closed, shared, torn>>
    PROVE  TypeOK'
  <1> DEFINE entries == [a \in AliasName |-> IF a \in DOMAIN defs THEN defs[a] ELSE None]
  <1>1. aliases' = [aliases EXCEPT ![n] = entries] BY DEF Build
  <1>2. entries \in [AliasName -> Def \union {None}] OBVIOUS
  <1> HIDE DEF entries
  <1>3. indices' = indices \union {n} BY DEF Build
  <1> QED BY <1>1, <1>2, <1>3 DEF TypeOK, NoAliases

LEMMA TemplateTyped ==
    ASSUME NEW request \in Creations, NEW template \in Creations
    PROVE  LET defs == WithTemplate(request, template)
           IN DOMAIN defs \subseteq AliasName /\ \A a \in DOMAIN defs : defs[a] \in Def
  BY CreationAssumption DEF WithTemplate

LEMMA UpdateTyped ==
    ASSUME TypeOK, NEW req \in Requests, UpdateAliases(req)
    PROVE  TypeOK'
  <1> DEFINE gone == RemovedIndices(req)
             res == Result(req)
  <1>1. PICK done \in SUBSET Changed(req) :
           /\ aliases' = [i \in IndexName |-> IF i \in gone \union done THEN res[i] ELSE aliases[i]]
           /\ shared' = shared \ (gone \union done)
           /\ torn' = (torn \/ done # Changed(req))
    BY DEF UpdateAliases
  <1>2. indices' = indices \ gone /\ closed' = closed \ gone BY DEF UpdateAliases
  <1>3. /\ res \in [IndexName -> [AliasName -> Def \union {None}]]
        /\ \A i \in IndexName \ indices : res[i] = NoAliases
        /\ \A i \in gone \intersect IndexName : res[i] = NoAliases
    BY ResultTyped
  <1> HIDE DEF gone, res
  <1>4. aliases' \in [IndexName -> [AliasName -> Def \union {None}]] BY <1>1, <1>3 DEF TypeOK
  <1>5. \A i \in IndexName \ indices' : aliases'[i] = NoAliases
    BY <1>1, <1>2, <1>3 DEF TypeOK
  <1>6. NoAliases' = NoAliases BY DEF NoAliases
  <1> QED BY <1>1, <1>2, <1>4, <1>5, <1>6 DEF TypeOK

LEMMA StepTyped == TypeOK /\ [Next]_vars => TypeOK'
  <1> SUFFICES ASSUME TypeOK, [Next]_vars PROVE TypeOK'
    OBVIOUS
  <1>1. CASE UNCHANGED vars BY <1>1 DEF vars, TypeOK, NoAliases
  <1>2. ASSUME NEW req \in Requests, UpdateAliases(req) PROVE TypeOK'
    BY <1>2, UpdateTyped
  <1>3. ASSUME NEW n \in IndexName, NEW request \in Creations, NEW template \in Creations,
               CreateIndex(n, request, template)
        PROVE  TypeOK'
    BY <1>3, BuildTyped, TemplateTyped DEF CreateIndex
  <1>4. ASSUME NEW n \in Name, NEW template \in Creations, EnsureIndex(n, template) PROVE TypeOK'
    <2>1. CASE n \in IndexName \ indices /\ Build(n, template) /\ UNCHANGED <<closed, shared, torn>>
      BY <2>1, BuildTyped, CreationAssumption
    <2>2. CASE shared' = shared \ {WriteIndex(n)} /\ UNCHANGED <<indices, aliases, closed, torn>>
      BY <2>2 DEF TypeOK, NoAliases
    <2> QED BY <1>4, <2>1, <2>2 DEF EnsureIndex
  <1>5. ASSUME NEW gone \in SUBSET indices, DeleteIndex(gone) PROVE TypeOK'
    <2>1. NoAliases \in [AliasName -> Def \union {None}] BY DEF NoAliases
    <2>2. NoAliases' = NoAliases BY DEF NoAliases
    <2> QED BY <1>5, <2>1, <2>2 DEF DeleteIndex, TypeOK
  <1>6. ASSUME NEW todo \in SUBSET indices, NEW done \in SUBSET todo, CloseIndex(todo, done) \/ OpenIndex(todo, done)
        PROVE  TypeOK'
    BY <1>6 DEF CloseIndex, OpenIndex, TypeOK, NoAliases
  <1>7. CASE Clone BY <1>7 DEF Clone, TypeOK, NoAliases
  <1>8. ASSUME NEW i \in IndexName, CloneLetsGo(i) PROVE TypeOK'
    BY <1>8 DEF CloneLetsGo, TypeOK, NoAliases
  <1> QED BY <1>1, <1>2, <1>3, <1>4, <1>5, <1>6, <1>7, <1>8 DEF Next

(* The tables of indices and aliases are well formed in every reachable    *)
(* state.                                                                  *)
THEOREM AliasTypes == Spec => []TypeOK
  BY InitTyped, StepTyped, PTL DEF Spec

----------------------------------------------------------------------------
(* What a step does to the tables *)

(* The tables lose entries and gain none, except that the entries of the   *)
(* aliases in `of' may be anything.                                        *)
Shrinks(old, new, of) ==
    \A i \in IndexName, a \in AliasName \ of : new[i][a] = None \/ new[i][a] = old[i][a]

(* An alias that a step leaves alone or takes away stays consistent. *)
LEMMA ShrinkingIsConsistent ==
    ASSUME NEW old, NEW new, NEW of, Shrinks(old, new, of),
           NEW a \in AliasName, a \notin of, Consistent(old, a)
    PROVE  Consistent(new, a)
  BY DEF Shrinks, Consistent

(* An accepted request gains entries only for the aliases it adds, and     *)
(* those become consistent if no copy fails.                               *)
LEMMA UpdateShrinks ==
    ASSUME TypeOK, NEW req \in Requests, UpdateAliases(req)
    PROVE  /\ Shrinks(aliases, aliases', Added(req))
           /\ ~torn' => \A a \in Added(req) : Consistent(aliases', a)
           /\ torn => torn'
  <1> DEFINE gone == RemovedIndices(req)
             res == Result(req)
  <1>1. PICK done \in SUBSET Changed(req) :
           /\ aliases' = [i \in IndexName |-> IF i \in gone \union done THEN res[i] ELSE aliases[i]]
           /\ torn' = (torn \/ done # Changed(req))
    BY DEF UpdateAliases
  <1>2. ASSUME NEW i \in IndexName, NEW a \in AliasName \ Added(req)
        PROVE  res[i][a] = None \/ res[i][a] = aliases[i][a]
    <2>1. CASE i \in gone BY <2>1 DEF Result, NoAliases
    <2>2. CASE i \notin gone
      <3>1. ASSUME NEW k \in 1..Len(req) PROVE ~Adds(req[k], i, a)
        BY RequestAssumption, ActionOnIndices DEF Added, Adds
      <3>2. Entry(req, Len(req), i, a) = None \/ Entry(req, Len(req), i, a) = aliases[i][a]
        BY <3>1, EntryCases
      <3> QED BY <2>2, <3>2 DEF Result
    <2> QED BY <2>1, <2>2
  <1>3. Shrinks(aliases, aliases', Added(req)) BY <1>1, <1>2 DEF Shrinks
  <1>4. ASSUME ~torn' PROVE aliases' = res
    <2>1. done = Changed(req) BY <1>1, <1>4
    <2>2. /\ res \in [IndexName -> [AliasName -> Def \union {None}]]
          /\ \A i \in IndexName \ (Changed(req) \union gone) : res[i] = aliases[i]
      BY ResultTyped
    <2> HIDE DEF gone, res
    <2>3. \A i \in IndexName : aliases'[i] = res[i] BY <1>1, <2>1, <2>2
    <2> QED BY <1>1, <2>2, <2>3
  <1>5. \A a \in Added(req) : Consistent(res, a) BY DEF UpdateAliases, Accepted
  <1>6. torn => torn' BY <1>1
  <1> QED BY <1>3, <1>4, <1>5, <1>6

(* A new index gains entries for its own aliases, which are consistent.    *)
LEMMA BuildShrinks ==
    ASSUME TypeOK, NEW n \in IndexName, NEW defs, Build(n, defs), DOMAIN defs \subseteq AliasName
    PROVE  /\ Shrinks(aliases, aliases', DOMAIN defs)
           /\ \A a \in DOMAIN defs : Consistent(aliases', a)
           /\ indices' = indices \union {n}
           /\ DOMAIN defs \intersect indices = {}
           /\ \A i \in IndexName \ {n} : aliases'[i] = aliases[i]
           /\ \A a \in AliasName \ DOMAIN defs : aliases'[n][a] = None
  <1> DEFINE entries == [a \in AliasName |-> IF a \in DOMAIN defs THEN defs[a] ELSE None]
  <1>1. aliases' = [aliases EXCEPT ![n] = entries] /\ indices' = indices \union {n}
    BY DEF Build
  <1>2. \A a \in AliasName \ DOMAIN defs : entries[a] = None OBVIOUS
  <1>3. \A a \in DOMAIN defs : Consistent(aliases', a) BY DEF Build
  <1>4. DOMAIN defs \intersect indices = {} BY DEF Build
  <1> HIDE DEF entries
  <1>5. aliases'[n] = entries /\ \A i \in IndexName \ {n} : aliases'[i] = aliases[i]
    BY <1>1 DEF TypeOK
  <1>6. Shrinks(aliases, aliases', DOMAIN defs) BY <1>2, <1>5 DEF Shrinks
  <1> QED BY <1>1, <1>2, <1>3, <1>4, <1>5, <1>6

(* The other steps gain nothing. *)
Others ==
    \/ \E gone \in SUBSET indices : DeleteIndex(gone)
    \/ \E todo \in SUBSET indices : \E done \in SUBSET todo : CloseIndex(todo, done) \/ OpenIndex(todo, done)
    \/ Clone
    \/ \E i \in IndexName : CloneLetsGo(i)
    \/ UNCHANGED vars
    \/ UNCHANGED <<indices, aliases, closed, torn>>

LEMMA OthersShrink ==
    ASSUME TypeOK, Others
    PROVE  /\ Shrinks(aliases, aliases', {})
           /\ indices' \subseteq indices
           /\ torn' = torn
  <1>1. ASSUME NEW gone \in SUBSET indices, DeleteIndex(gone)
        PROVE  /\ Shrinks(aliases, aliases', {})
               /\ indices' \subseteq indices
               /\ torn' = torn
    BY <1>1 DEF DeleteIndex, Shrinks, NoAliases, TypeOK
  <1>2. CASE aliases' = aliases /\ indices' = indices /\ torn' = torn
    BY <1>2 DEF Shrinks
  <1> QED BY <1>1, <1>2 DEF Others, CloseIndex, OpenIndex, Clone, CloneLetsGo, vars

(* Every step is one of three kinds. *)
LEMMA Kinds ==
    ASSUME TypeOK, [Next]_vars
    PROVE  \/ \E req \in Requests : UpdateAliases(req)
           \/ \E n \in IndexName, defs \in {WithTemplate(r, t) : r, t \in Creations} \union Creations :
                /\ AliasTargets(n) = {}
                /\ n \notin indices
                /\ Build(n, defs)
                /\ torn' = torn
           \/ Others
  <1>1. ASSUME NEW n \in IndexName, NEW request \in Creations, NEW template \in Creations,
               CreateIndex(n, request, template)
        PROVE  \E m \in IndexName, defs \in {WithTemplate(r, t) : r, t \in Creations} \union Creations :
                AliasTargets(m) = {} /\ m \notin indices /\ Build(m, defs) /\ torn' = torn
    BY <1>1 DEF CreateIndex
  <1>2. ASSUME NEW n \in Name, NEW template \in Creations, EnsureIndex(n, template)
        PROVE  \/ \E m \in IndexName, defs \in {WithTemplate(r, t) : r, t \in Creations} \union Creations :
                     AliasTargets(m) = {} /\ m \notin indices /\ Build(m, defs) /\ torn' = torn
               \/ Others
    BY <1>2 DEF EnsureIndex, Others
  <1> QED BY <1>1, <1>2 DEF Next, Others

LEMMA CreatedTyped ==
    ASSUME NEW defs \in {WithTemplate(r, t) : r, t \in Creations} \union Creations
    PROVE  DOMAIN defs \subseteq AliasName
  <1>1. CASE defs \in Creations BY <1>1, CreationAssumption
  <1>2. ASSUME NEW r \in Creations, NEW t \in Creations, defs = WithTemplate(r, t)
        PROVE  DOMAIN defs \subseteq AliasName
    <2>1. DOMAIN defs = DOMAIN r \union DOMAIN t BY <1>2 DEF WithTemplate
    <2> QED BY <2>1, CreationAssumption
  <1> QED BY <1>1, <1>2

----------------------------------------------------------------------------
(* Consistent aliases *)

LEMMA StepConsistent == TypeOK /\ AliasesConsistent /\ [Next]_vars => AliasesConsistent'
  <1> SUFFICES ASSUME TypeOK, AliasesConsistent, [Next]_vars, ~torn', NEW a \in AliasName
               PROVE  Consistent(aliases', a)
    BY DEF AliasesConsistent, Consistent
  <1>1. ASSUME NEW req \in Requests, UpdateAliases(req) PROVE Consistent(aliases', a)
    <2>1. /\ Shrinks(aliases, aliases', Added(req))
          /\ \A b \in Added(req) : Consistent(aliases', b)
          /\ ~torn
      BY <1>1, UpdateShrinks
    <2>2. Consistent(aliases, a) BY <2>1 DEF AliasesConsistent
    <2> QED BY <2>1, <2>2, ShrinkingIsConsistent
  <1>2. ASSUME NEW n \in IndexName, NEW defs \in {WithTemplate(r, t) : r, t \in Creations} \union Creations,
               Build(n, defs), torn' = torn
        PROVE  Consistent(aliases', a)
    <2>1. /\ Shrinks(aliases, aliases', DOMAIN defs)
          /\ \A b \in DOMAIN defs : Consistent(aliases', b)
      BY <1>2, BuildShrinks, CreatedTyped
    <2>2. Consistent(aliases, a) BY <1>2 DEF AliasesConsistent
    <2> QED BY <2>1, <2>2, ShrinkingIsConsistent
  <1>3. ASSUME Others PROVE Consistent(aliases', a)
    <2>1. Shrinks(aliases, aliases', {}) /\ ~torn BY <1>3, OthersShrink
    <2>2. Consistent(aliases, a) BY <2>1 DEF AliasesConsistent
    <2> QED BY <2>1, <2>2, ShrinkingIsConsistent
  <1> QED BY <1>1, <1>2, <1>3, Kinds

(* Unless a copy failed in the middle of a request, an alias has one write *)
(* index at most and is hidden everywhere or nowhere.                      *)
THEOREM OneWriteIndex == Spec => []AliasesConsistent
  <1>1. Init => AliasesConsistent BY DEF Init, AliasesConsistent, Consistent, NoAliases
  <1> QED BY <1>1, StepConsistent, AliasTypes, PTL DEF Spec

----------------------------------------------------------------------------
(* Disjoint names *)

LEMMA StepDisjoint == TypeOK /\ NamesDisjoint /\ [Next]_vars => NamesDisjoint'
  <1> SUFFICES ASSUME TypeOK, NamesDisjoint, [Next]_vars,
                      NEW i \in indices', NEW n \in indices', n \in AliasName, aliases'[i][n] # None
               PROVE  i = n
    BY DEF NamesDisjoint
  <1>0. /\ indices \subseteq IndexName
        /\ \A j \in IndexName \ indices : \A a \in AliasName : aliases[j][a] = None
    BY DEF TypeOK, NoAliases
  <1>1. ASSUME NEW req \in Requests, UpdateAliases(req) PROVE i = n
    <2> DEFINE gone == RemovedIndices(req)
    <2>1. i \in indices \ gone /\ n \in indices \ gone BY <1>1 DEF UpdateAliases
    <2>2. Shrinks(aliases, aliases', Added(req)) BY <1>1, UpdateShrinks
    <2>3. n \notin Added(req)
      <3> SUFFICES ASSUME NEW k \in DOMAIN req, NEW j \in indices, Adds(req[k], j, n) PROVE FALSE
        BY DEF Added
      <3>1. req[k].kind = "add" /\ n \in req[k].aliases.of BY DEF Adds
      <3>2. ActionAllowed(req, k) BY <1>1 DEF UpdateAliases, Accepted
      <3>3. req[k].aliases.of \intersect (indices \ gone) = {} BY <3>1, <3>2 DEF ActionAllowed
      <3> QED BY <2>1, <3>1, <3>3
    <2>4. aliases[i][n] # None BY <1>0, <2>1, <2>2, <2>3 DEF Shrinks
    <2> QED BY <2>1, <2>4 DEF NamesDisjoint
  <1>2. ASSUME NEW m \in IndexName, NEW defs \in {WithTemplate(r, t) : r, t \in Creations} \union Creations,
               AliasTargets(m) = {}, m \notin indices, Build(m, defs)
        PROVE  i = n
    <2>1. /\ indices' = indices \union {m}
          /\ DOMAIN defs \intersect indices = {}
          /\ \A j \in IndexName \ {m} : aliases'[j] = aliases[j]
          /\ \A a \in AliasName \ DOMAIN defs : aliases'[m][a] = None
      BY <1>2, BuildShrinks, CreatedTyped
    <2>2. CASE i = m BY <2>1, <2>2
    <2>3. CASE i # m
      <3>1. i \in indices /\ aliases[i][n] # None BY <1>0, <2>1, <2>3
      <3>2. n # m BY <1>2, <3>1 DEF AliasTargets
      <3> QED BY <2>1, <3>1, <3>2 DEF NamesDisjoint
    <2> QED BY <2>2, <2>3
  <1>3. ASSUME Others PROVE i = n
    <2>1. Shrinks(aliases, aliases', {}) /\ indices' \subseteq indices BY <1>3, OthersShrink
    <2>2. aliases[i][n] # None BY <1>0, <2>1 DEF Shrinks
    <2> QED BY <2>1, <2>2 DEF NamesDisjoint
  <1> QED BY <1>1, <1>2, <1>3, Kinds

(* No alias ever has the name of an index, except that of the index that   *)
(* was created with its own name as an alias.                              *)
THEOREM DisjointNames == Spec => []NamesDisjoint
  <1>1. Init => NamesDisjoint BY DEF Init, NamesDisjoint
  <1> QED BY <1>1, StepDisjoint, AliasTypes, PTL DEF Spec

----------------------------------------------------------------------------
(* Redirected writes *)

(* A name that becomes an index was no alias before. *)
LEMMA NewIndexIsNoAlias ==
    ASSUME TypeOK, [Next]_vars, NEW a \in indices' \ indices
    PROVE  AliasTargets(a) = {}
  <1>1. ASSUME NEW req \in Requests, UpdateAliases(req) PROVE FALSE
    BY <1>1 DEF UpdateAliases
  <1>2. ASSUME NEW m \in IndexName, NEW defs \in {WithTemplate(r, t) : r, t \in Creations} \union Creations,
               AliasTargets(m) = {}, Build(m, defs)
        PROVE  AliasTargets(a) = {}
    BY <1>2 DEF Build
  <1>3. ASSUME Others PROVE FALSE BY <1>3, OthersShrink
  <1> QED BY <1>1, <1>2, <1>3, Kinds

(* The write index of an alias is one of its indices, and designated or    *)
(* alone.                                                                  *)
WriteIndexDesignated ==
    \A a \in AliasName :
        (a \notin indices /\ WriteIndex(a) # None) =>
            /\ WriteIndex(a) \in indices
            /\ aliases[WriteIndex(a)][a] # None
            /\ aliases[WriteIndex(a)][a].write = TRUE \/ AliasTargets(a) = {WriteIndex(a)}

LEMMA WriteIndexOfAlias == TypeOK => WriteIndexDesignated
  <1> SUFFICES ASSUME TypeOK, NEW a \in AliasName, a \notin indices, WriteIndex(a) # None
               PROVE  /\ WriteIndex(a) \in indices
                      /\ aliases[WriteIndex(a)][a] # None
                      /\ aliases[WriteIndex(a)][a].write = TRUE \/ AliasTargets(a) = {WriteIndex(a)}
    BY DEF WriteIndexDesignated
  <1> DEFINE on == AliasTargets(a)
             takes == {i \in on : aliases[i][a].write = TRUE \/ (on = {i} /\ aliases[i][a].write = Unset)}
  <1>1. takes # {} /\ WriteIndex(a) = CHOOSE i \in takes : TRUE BY DEF WriteIndex
  <1>2. WriteIndex(a) \in takes BY <1>1
  <1> QED BY <1>2 DEF AliasTargets

LEMMA StepRedirects ==
    ASSUME TypeOK, TypeOK', AliasesConsistent, [Next]_vars, NEW a \in AliasName,
           WriteIndex(a) # None, WriteIndex(a)' # None, WriteIndex(a) # WriteIndex(a)',
           WriteIndex(a) \in indices', ~torn
    PROVE  \E i \in {WriteIndex(a), WriteIndex(a)'} : aliases'[i][a] # aliases[i][a]
  <1> DEFINE old == WriteIndex(a)
             new == WriteIndex(a)'
  <1> SUFFICES ASSUME aliases'[old][a] = aliases[old][a], aliases'[new][a] = aliases[new][a]
               PROVE  FALSE
    OBVIOUS
  <1>1. CASE a \in indices
    <2>1. old = a BY <1>1 DEF WriteIndex
    <2>2. new = a BY <2>1 DEF WriteIndex
    <2> QED BY <2>1, <2>2
  <1>2. CASE a \in indices' \ indices
    <2>1. AliasTargets(a) = {} BY <1>2, NewIndexIsNoAlias
    <2> QED BY <1>2, <2>1 DEF WriteIndex
  <1>3. CASE a \notin indices /\ a \notin indices'
    <2>1. /\ old \in indices
          /\ aliases[old][a] # None
          /\ aliases[old][a].write = TRUE \/ AliasTargets(a) = {old}
      BY <1>3, WriteIndexOfAlias DEF WriteIndexDesignated
    <2>2. /\ new \in indices'
          /\ aliases'[new][a] # None
          /\ aliases'[new][a].write = TRUE \/ AliasTargets(a)' = {new}
      <3>1. TypeOK' => WriteIndexDesignated' BY WriteIndexOfAlias, PTL
      <3> QED BY <1>3, <3>1 DEF WriteIndexDesignated
    <2>3. new \in AliasTargets(a)
      <3>1. new \in IndexName BY <2>2 DEF TypeOK
      <3>2. aliases[new][a] # None BY <2>2
      <3>3. new \in indices BY <3>1, <3>2 DEF TypeOK, NoAliases
      <3> QED BY <3>2, <3>3 DEF AliasTargets
    <2>4. old \in AliasTargets(a)' BY <2>1 DEF AliasTargets
    <2>5. aliases[old][a].write = TRUE BY <2>1, <2>3
    <2>6. aliases[new][a].write = TRUE BY <2>2, <2>4
    <2>7. Consistent(aliases, a) BY DEF AliasesConsistent
    <2>8. old \in IndexName /\ new \in IndexName BY <2>1, <2>2 DEF TypeOK
    <2>9. aliases[new][a] # None BY <2>2
    <2> QED BY <2>1, <2>5, <2>6, <2>7, <2>8, <2>9 DEF Consistent
  <1> QED BY <1>1, <1>2, <1>3

(* Writes through an alias are redirected from an index that stays only by *)
(* a request that changes the alias on the old or on the new index.        *)
THEOREM NoSilentRedirect == Spec => RedirectedOnlyOnRequest
  <1>1. TypeOK /\ TypeOK' /\ AliasesConsistent /\ [Next]_vars
        => [\A a \in AliasName :
              LET old == WriteIndex(a)
                  new == WriteIndex(a)'
              IN old # None /\ new # None /\ old # new /\ old \in indices'
                 => torn \/ \E i \in {old, new} : aliases'[i][a] # aliases[i][a]]_vars
    BY StepRedirects
  <1> QED BY <1>1, OneWriteIndex, AliasTypes, PTL DEF Spec, RedirectedOnlyOnRequest

----------------------------------------------------------------------------
(* Writes and reads through one name *)

(* A cluster has finitely many indices: a request adds one at most. *)
FinitelyMany == IsFiniteSet(indices)

LEMMA StepFinite == FinitelyMany /\ [Next]_vars => FinitelyMany'
  <1> SUFFICES ASSUME FinitelyMany, [Next]_vars PROVE FinitelyMany'
    OBVIOUS
  <1>1. \/ indices' \subseteq indices
        \/ \E n \in IndexName : indices' = indices \union {n}
    BY DEF Next, UpdateAliases, CreateIndex, EnsureIndex, Build, DeleteIndex, CloseIndex, OpenIndex,
           Clone, CloneLetsGo, vars
  <1> QED BY <1>1, FS_Subset, FS_AddElement DEF FinitelyMany

(* A document that is written through a name is read through that name: of *)
(* an alias with several indices nothing is read at all, so no document is *)
(* ever read from another index than the one it was written to.            *)
THEOREM SameIndex == Spec => []ReadsWhatItWrites
  <1>1. ASSUME IsFiniteSet(indices), NEW n \in Name, WriteIndex(n) # None, ReadIndex(n) # None
        PROVE  WriteIndex(n) = ReadIndex(n)
    <2> DEFINE on == AliasTargets(n)
               takes == {i \in on : aliases[i][n].write = TRUE \/ (on = {i} /\ aliases[i][n].write = Unset)}
    <2>1. CASE n \in indices
      BY <1>1, <2>1 DEF WriteIndex, ReadIndex
    <2>2. CASE n \notin indices
      <3>1. takes # {} /\ WriteIndex(n) = CHOOSE i \in takes : TRUE
        BY <1>1, <2>2 DEF WriteIndex
      <3>2. WriteIndex(n) \in on
        BY <3>1
      <3>3. Cardinality(on) = 1 /\ ReadIndex(n) = CHOOSE i \in on : TRUE
        BY <1>1, <2>2 DEF ReadIndex
      <3>4. IsFiniteSet(on)
        BY <1>1, FS_Subset DEF AliasTargets
      <3>5. PICK i : on = {i}
        <4> HIDE DEF on
        <4> QED BY <3>3, <3>4, FS_Singleton
      <3> QED BY <3>2, <3>3, <3>5
    <2> QED BY <2>1, <2>2
  <1>2. Init => FinitelyMany
    BY FS_EmptySet DEF Init, FinitelyMany
  <1>3. FinitelyMany => ReadsWhatItWrites
    BY <1>1 DEF ReadsWhatItWrites, FinitelyMany
  <1> QED BY <1>2, <1>3, StepFinite, PTL DEF Spec

----------------------------------------------------------------------------
(* What searches read *)

(* The names that stand for an index that exists: its own and those of its *)
(* aliases, unless another index hides them.                               *)
LEMMA NamesOfIndex ==
    ASSUME TypeOK, NEW ix \in indices, NEW n
    PROVE  /\ Known(n) /\ ix \in IndicesOf(n) <=> n = ix \/ (IsAlias(n) /\ ix \in AliasTargets(n))
           /\ Known(n) => n \in Name
           /\ IsAlias(n) => ~IsIndex(n)
           /\ IsIndex(ix) /\ IndicesOf(ix) = {ix}
  BY NameAssumption DEF TypeOK, Known, IsIndex, IsAlias, IndicesOf, AliasTargets

LEMMA IndicesExist == ASSUME NEW n PROVE IndicesOf(n) \subseteq indices
  BY DEF IndicesOf, IsIndex, AliasTargets

(* What a pattern stands for, seen from an open index: the index, if the   *)
(* pattern matches a visible name of it ...                                *)
LEMMA PatternReaches ==
    ASSUME TypeOK, NEW ix \in indices \ closed, NEW e, NEW o
    PROVE  ix \in ExpandMatches(e, o, FALSE) <=>
              \E n \in e.of : /\ n = ix \/ (IsAlias(n) /\ ix \in AliasTargets(n))
                              /\ ~Hidden(n) \/ o.expandHidden
                              /\ Expands(ix, o)
  <1>1. ix \in ExpandMatches(e, o, FALSE) <=>
           \E n \in e.of : /\ Known(n) /\ ix \in IndicesOf(n)
                           /\ ~Hidden(n) \/ o.expandHidden
                           /\ Expands(ix, o)
    BY DEF ExpandMatches, Matches
  <1> QED BY <1>1, NamesOfIndex

LEMMA PatternReachesIndices ==
    ASSUME NEW e, NEW o PROVE ExpandMatches(e, o, FALSE) \subseteq indices
  BY IndicesExist DEF ExpandMatches

(* ... and, when aliases are kept, the visible names themselves.           *)
LEMMA PatternKeeps ==
    ASSUME TypeOK, NEW ix \in indices \ closed, NEW e, NEW n,
           n = ix \/ (IsAlias(n) /\ ix \in AliasTargets(n))
    PROVE  n \in ExpandMatches(e, lenientExpandOpenOptions, TRUE) <=> n \in e.of /\ ~Hidden(n)
  <1> DEFINE seen == {m \in Matches(e) : ~Hidden(m)}
             kept == {m \in seen : IsAlias(m)}
  <1>1. ~lenientExpandOpenOptions.expandHidden /\ lenientExpandOpenOptions.expandOpen
    BY DEF lenientExpandOpenOptions, searchIndicesOptions
  <1>2. ExpandMatches(e, lenientExpandOpenOptions, TRUE) =
           kept \union {jx \in UNION {IndicesOf(m) : m \in seen \ kept} : Expands(jx, lenientExpandOpenOptions)}
    BY <1>1 DEF ExpandMatches
  <1>3. Expands(ix, lenientExpandOpenOptions) BY <1>1 DEF Expands
  <1>4. \A m \in seen \ kept : IsIndex(m) /\ IndicesOf(m) = {m}
    BY DEF Matches, Known, IndicesOf
  <1>5. n \in Matches(e) <=> n \in e.of BY NamesOfIndex DEF Matches
  <1>6. n \in seen <=> n \in e.of /\ ~Hidden(n) BY <1>5
  <1>7. \A m : m \in kept <=> m \in seen /\ IsAlias(m) OBVIOUS
  <1> HIDE DEF seen, kept
  <1>8. \A jx : jx \in ExpandMatches(e, lenientExpandOpenOptions, TRUE) <=>
                   jx \in kept \/ (jx \in seen \ kept /\ Expands(jx, lenientExpandOpenOptions))
    <2> DEFINE rest == seen \ kept
    <2>1. \A jx : jx \in UNION {IndicesOf(m) : m \in rest} => jx \in rest BY <1>4
    <2>2. \A jx : jx \in rest => jx \in UNION {IndicesOf(m) : m \in rest} BY <1>4
    <2> QED BY <1>2, <2>1, <2>2
  <1>9. CASE n = ix
    <2>1. ~IsAlias(ix) BY NamesOfIndex
    <2> QED BY <1>3, <1>6, <1>7, <1>8, <1>9, <2>1
  <1>10. CASE IsAlias(n) BY <1>6, <1>7, <1>8, <1>10
  <1> QED BY <1>9, <1>10

(* Without exclusions an element means the same wherever it stands.        *)
LEMMA PlainElements ==
    ASSUME NEW es, NEW o, NEW keep, \A k \in DOMAIN es : ~es[k].minus
    PROVE  \A k \in DOMAIN es :
              /\ ~Excludes(es, k)
              /\ ElementNames(es, k, o, keep) = IF es[k].wild THEN ExpandMatches(es[k], o, keep) ELSE es[k].of
  BY DEF Excludes, Literally, ElementNames

(* The names resolved for the filters: the expression with its aliases     *)
(* kept, which cannot fail.                                                *)
LEMMA ResolvedNames ==
    ASSUME TypeOK, NEW es \in Exprs, NEW ix \in indices \ closed, NEW n,
           \A k \in DOMAIN es : ~es[k].minus, ~IsEverything(es),
           n = ix \/ (IsAlias(n) /\ ix \in AliasTargets(n))
    PROVE  n \in Resolved(es) <=> \E k \in DOMAIN es : n \in es[k].of /\ (es[k].wild => ~Hidden(n))
  <1> DEFINE lenient == lenientExpandOpenOptions
  <1>1. lenient.expandOpen /\ lenient.allowNoIndices /\ lenient.ignoreUnavailable
    BY DEF lenientExpandOpenOptions, searchIndicesOptions
  <1>2. \A k \in DOMAIN es : ~Missing(es, k, lenient) BY <1>1 DEF Missing
  <1>3. Resolved(es) = ExpandedNames(es, lenient, TRUE) BY <1>1, <1>2 DEF Resolved, Expand
  <1>4. n \in Name BY NamesOfIndex
  <1>5. es \in Seq([minus : BOOLEAN, wild : BOOLEAN, of : SUBSET Name]) BY ExprsAssumption
  <1>6. \A k \in DOMAIN es : ~Excludes(es, k) BY DEF Excludes
  <1>7. n \in Resolved(es) <=> \E k \in DOMAIN es : n \in ElementNames(es, k, lenient, TRUE)
    <2>1. \A k \in DOMAIN es : \A j \in (k + 1)..Len(es) : j \in DOMAIN es
      <3>1. Len(es) \in Nat /\ DOMAIN es = 1..Len(es) BY <1>5
      <3> QED BY <3>1
    <2> QED BY <1>3, <1>4, <1>6, <2>1 DEF ExpandedNames
  <1>8. ASSUME NEW k \in DOMAIN es
        PROVE  n \in ElementNames(es, k, lenient, TRUE) <=> n \in es[k].of /\ (es[k].wild => ~Hidden(n))
    <2>1. ElementNames(es, k, lenient, TRUE) =
             IF es[k].wild THEN ExpandMatches(es[k], lenient, TRUE) ELSE es[k].of
      BY PlainElements
    <2>2. n \in ExpandMatches(es[k], lenient, TRUE) <=> n \in es[k].of /\ ~Hidden(n)
      BY PatternKeeps
    <2> QED BY <2>1, <2>2
  <1> QED BY <1>7, <1>8

(* An open index is among the indices of a search exactly when one of its  *)
(* names is asked for.                                                     *)
LEMMA OpenIndexReached ==
    ASSUME TypeOK, NEW es \in Exprs, NEW o \in Options, ExpandsAlike(es, o),
           Concrete(es, o) # Failed, NEW ix \in indices \ closed
    PROVE  ix \in Concrete(es, o) <=> Reaching(es, o, ix) # {}
  <1> DEFINE names == Expand(es, o, FALSE)
             reached == UNION {IF Known(n) THEN IndicesOf(n) ELSE {} : n \in names}
  <1>1. /\ \A k \in DOMAIN es : ~es[k].minus
        /\ ~o.expandHidden
        /\ o.expandOpen \/ (~o.expandClosed /\ ~o.ignoreUnavailable)
    BY DEF ExpandsAlike
  <1>2. es \in Seq([minus : BOOLEAN, wild : BOOLEAN, of : SUBSET Name]) BY ExprsAssumption
  <1>3. ix \in Concrete(es, o) <=> \E n \in names : Known(n) /\ ix \in IndicesOf(n)
    <2>1. ix \in Concrete(es, o) <=> ix \in reached BY DEF Concrete
    <2> QED BY <2>1
  <1>4. ~Known(NoSuchName) BY ExprsAssumption, NamesOfIndex
  <1>5. Expands(ix, o) <=> o.expandOpen BY DEF Expands
  <1>6. CASE IsEverything(es) /\ o.expandOpen
    <2>1. names = AllIndices(o) BY <1>6 DEF Expand
    <2>2. \A n \in names : IsIndex(n) /\ IndicesOf(n) = {n} BY <2>1 DEF AllIndices, IsIndex, IndicesOf
    <2>3. ix \in Concrete(es, o) <=> ix \in AllIndices(o) BY <1>3, <2>1, <2>2 DEF Known
    <2>4. ix \in AllIndices(o) <=> ~Hidden(ix) BY <1>1, <1>5, <1>6, NamesOfIndex DEF AllIndices, Hidden
    <2>5. Reaching(es, o, ix) = {n \in {ix} : ~Hidden(n)} BY <1>1, <1>5, <1>6 DEF Reaching
    <2> QED BY <2>3, <2>4, <2>5
  <1>7. CASE ~IsEverything(es) /\ o.expandOpen
    <2>1. names = ExpandedNames(es, o, FALSE) BY <1>7 DEF Expand, Concrete
    <2>2. \A n : n \in names <=> /\ n \in Name \union {NoSuchName}
                                 /\ \E k \in DOMAIN es : n \in ElementNames(es, k, o, FALSE)
      <3>1. \A k \in DOMAIN es : ~Excludes(es, k) BY <1>1 DEF Excludes
      <3>2. \A k \in DOMAIN es : \A j \in (k + 1)..Len(es) : j \in DOMAIN es BY <1>2
      <3> QED BY <2>1, <3>1, <3>2 DEF ExpandedNames
    <2>3. ix \in Concrete(es, o) <=>
             \E k \in DOMAIN es : \E n \in ElementNames(es, k, o, FALSE) : Known(n) /\ ix \in IndicesOf(n)
      BY <1>3, <2>2, NamesOfIndex
    <2>4. ASSUME NEW k \in DOMAIN es
          PROVE  (\E n \in ElementNames(es, k, o, FALSE) : Known(n) /\ ix \in IndicesOf(n)) <=>
                 \E n \in es[k].of : /\ n = ix \/ (IsAlias(n) /\ ix \in AliasTargets(n))
                                     /\ es[k].wild => ~Hidden(n)
      <3>1. CASE es[k].wild
        <4>1. ElementNames(es, k, o, FALSE) = ExpandMatches(es[k], o, FALSE) BY <1>1, <3>1, PlainElements
        <4>2. \A n \in ExpandMatches(es[k], o, FALSE) : IsIndex(n) /\ IndicesOf(n) = {n}
          BY PatternReachesIndices DEF IsIndex, IndicesOf
        <4>3. (\E n \in ElementNames(es, k, o, FALSE) : Known(n) /\ ix \in IndicesOf(n)) <=>
              ix \in ExpandMatches(es[k], o, FALSE)
          <5>1. ASSUME NEW n \in ExpandMatches(es[k], o, FALSE)
                PROVE  Known(n) /\ (ix \in IndicesOf(n) <=> ix = n)
            BY <4>2 DEF Known
          <5> QED BY <4>1, <5>1
        <4> QED BY <1>1, <1>5, <1>7, <3>1, <4>3, PatternReaches
      <3>2. CASE ~es[k].wild
        <4>1. ElementNames(es, k, o, FALSE) = es[k].of BY <1>1, <3>2, PlainElements
        <4>2. \A n : Known(n) /\ ix \in IndicesOf(n) <=> n = ix \/ (IsAlias(n) /\ ix \in AliasTargets(n))
          BY NamesOfIndex
        <4> QED BY <3>2, <4>1, <4>2
      <3> QED BY <3>1, <3>2
    <2>5. Reaching(es, o, ix) # {} <=>
             \E k \in DOMAIN es : \E n \in es[k].of : /\ n = ix \/ (IsAlias(n) /\ ix \in AliasTargets(n))
                                                      /\ es[k].wild => ~Hidden(n)
      BY <1>1, <1>5, <1>7, NamesOfIndex DEF Reaching
    <2> QED BY <2>3, <2>4, <2>5
  <1>8. CASE ~o.expandOpen
    <2>1. names = AsNames(es) BY <1>1, <1>8 DEF Expand
    <2>2. ix \in Concrete(es, o) <=>
             \E k \in DOMAIN es : ~es[k].wild /\ \E n \in es[k].of : Known(n) /\ ix \in IndicesOf(n)
      BY <1>1, <1>3, <1>4, <2>1 DEF AsNames
    <2>3. Reaching(es, o, ix) # {} <=>
             \E k \in DOMAIN es : ~es[k].wild /\ \E n \in es[k].of : Known(n) /\ ix \in IndicesOf(n)
      <3>1. CASE IsEverything(es)
        <4>1. Reaching(es, o, ix) = {} BY <1>5, <1>8, <3>1 DEF Reaching
        <4>2. \A k \in DOMAIN es : es[k].wild BY <1>2, <3>1 DEF IsEverything
        <4> QED BY <4>1, <4>2
      <3>2. CASE ~IsEverything(es) BY <1>5, <1>8, <3>2, NamesOfIndex DEF Reaching
      <3> QED BY <3>1, <3>2
    <2> QED BY <2>2, <2>3
  <1> QED BY <1>6, <1>7, <1>8

(* With nothing to expand to, a search that goes through names its indices *)
(* one by one.                                                             *)
LEMMA NothingExpanded ==
    ASSUME TypeOK, NEW es \in Exprs, NEW o \in Options, ExpandsAlike(es, o), ~o.expandOpen,
           Concrete(es, o) # Failed, NEW ix \in indices \ closed, Reaching(es, o, ix) # {}
    PROVE  ~IsEverything(es) /\ \A k \in DOMAIN es : ~es[k].wild
  <1>1. ~o.expandClosed /\ ~o.ignoreUnavailable BY DEF ExpandsAlike
  <1>2. ~Expands(ix, o) BY DEF Expands
  <1>3. ~IsEverything(es) BY <1>2 DEF Reaching
  <1>4. PICK j \in DOMAIN es : ~es[j].wild BY <1>2, <1>3 DEF Reaching
  <1>5. ASSUME NEW k \in DOMAIN es, es[k].wild PROVE FALSE
    <2>1. es \in Seq([minus : BOOLEAN, wild : BOOLEAN, of : SUBSET Name]) BY ExprsAssumption
    <2>2. Len(es) \in Nat /\ DOMAIN es = 1..Len(es) BY <2>1
    <2>3. ~(Len(es) <= 1) BY <1>4, <1>5, <2>2
    <2>4. NoSuchName \in AsNames(es) BY <1>5 DEF AsNames
    <2>5. Expand(es, o, FALSE) = AsNames(es) BY <1>1 DEF Expand
    <2>6. ~Known(NoSuchName) BY ExprsAssumption, NamesOfIndex
    <2> QED BY <1>1, <2>3, <2>4, <2>5, <2>6 DEF Concrete
  <1> QED BY <1>3, <1>5

(* The filter of an open index: without a name of its own among those      *)
(* resolved, that of its aliases.                                          *)
LEMMA FilteredReads ==
    ASSUME TypeOK, NamesDisjoint, NEW es \in Exprs, NEW o \in Options, ExpandsAlike(es, o),
           Concrete(es, o) # Failed, NEW ix \in indices \ closed, ~OwnNameFiltered(ix),
           Reaching(es, o, ix) # {}
    PROVE  Filtered(ix, es) = UNION {ReadThrough(ix, n) : n \in Reaching(es, o, ix)}
  <1>1. /\ \A k \in DOMAIN es : ~es[k].minus
        /\ ~o.expandHidden
        /\ o.expandOpen \/ (~o.expandClosed /\ ~o.ignoreUnavailable)
    BY DEF ExpandsAlike
  <1>2. ix \in Name BY NameAssumption DEF TypeOK
  <1>3. ASSUME NEW n \in Reaching(es, o, ix) PROVE ReadThrough(ix, n) \subseteq Doc
    <2>1. CASE n = ix BY <2>1 DEF ReadThrough
    <2>2. CASE n # ix
      <3>1. IsAlias(n) /\ ix \in AliasTargets(n) BY <2>2 DEF Reaching
      <3>2. aliases[ix][n] \in Def BY <3>1 DEF AliasTargets, TypeOK
      <3>3. aliases[ix][n].filter \in (SUBSET Doc) \union {Unset} BY <3>2, DefAssumption
      <3>4. CASE aliases[ix][n].filter = Unset BY <3>4 DEF ReadThrough
      <3>5. CASE aliases[ix][n].filter # Unset
        <4>1. ReadThrough(ix, n) = aliases[ix][n].filter BY <2>2, <3>5 DEF ReadThrough
        <4>2. aliases[ix][n].filter \in SUBSET Doc BY <3>3, <3>5
        <4> QED BY <4>1, <4>2
      <3> QED BY <3>4, <3>5
    <2> QED BY <2>1, <2>2
  <1>4. ASSUME NEW n \in Through(ix, es), n # ix
        PROVE  IsAlias(n) /\ ix \in AliasTargets(n)
    BY <1>4 DEF Through, IsAlias, AliasTargets, NamesDisjoint
  <1>5. ASSUME ~IsEverything(es), NEW n, n = ix \/ (IsAlias(n) /\ ix \in AliasTargets(n))
        PROVE  n \in Resolved(es) <=> n \in Reaching(es, o, ix)
    <2>1. n \in Name BY <1>5, <1>2, NamesOfIndex
    <2>2. CASE o.expandOpen
      <3>1. Expands(ix, o) BY <2>2 DEF Expands
      <3>2. n \in Reaching(es, o, ix) <=> \E k \in DOMAIN es : n \in es[k].of /\ (es[k].wild => ~Hidden(n))
        BY <1>1, <1>5, <2>1, <3>1 DEF Reaching
      <3> QED BY <1>1, <1>5, <3>2, ResolvedNames
    <2>3. CASE ~o.expandOpen
      <3>1. \A k \in DOMAIN es : ~es[k].wild BY <2>3, NothingExpanded
      <3>2. n \in Reaching(es, o, ix) <=> \E k \in DOMAIN es : n \in es[k].of
        BY <1>5, <2>1, <3>1 DEF Reaching
      <3> QED BY <1>1, <1>5, <3>1, <3>2, ResolvedNames
    <2> QED BY <2>2, <2>3
  <1>6. CASE ix \in Resolved(es)
    <2>1. ix \in Reaching(es, o, ix)
      <3>1. CASE IsEverything(es) BY <3>1 DEF Reaching
      <3>2. CASE ~IsEverything(es) BY <1>5, <1>6, <3>2
      <3> QED BY <3>1, <3>2
    <2>2. ReadThrough(ix, ix) = Doc BY DEF ReadThrough
    <2>3. UNION {ReadThrough(ix, n) : n \in Reaching(es, o, ix)} = Doc BY <1>3, <2>1, <2>2
    <2>4. CASE OwnNameAlone(ix, es)
      <3>1. Through(ix, es) \subseteq {ix} BY <2>4 DEF OwnNameAlone, Through
      <3>2. \A n \in Through(ix, es) : aliases[ix][n].filter = Unset
        BY <3>1 DEF OwnNameFiltered, Through
      <3>3. Filtered(ix, es) = Doc BY <3>2 DEF Filtered
      <3> QED BY <2>3, <3>3
    <2>5. CASE ~OwnNameAlone(ix, es) BY <1>6, <2>3, <2>5 DEF Filtered
    <2> QED BY <2>4, <2>5
  <1>7. CASE ix \notin Resolved(es)
    <2>1. ~IsEverything(es)
      <3> SUFFICES ASSUME IsEverything(es) PROVE FALSE
        OBVIOUS
      <3>1. ~Hidden(ix) BY <1>1 DEF Reaching
      <3>2. /\ ~lenientExpandOpenOptions.expandHidden
            /\ lenientExpandOpenOptions.expandOpen
        BY DEF lenientExpandOpenOptions, searchIndicesOptions
      <3>3. Resolved(es) = AllIndices(lenientExpandOpenOptions) BY <3>2 DEF Resolved, Expand
      <3>4. ix \in AllIndices(lenientExpandOpenOptions)
        BY <3>1, <3>2, NamesOfIndex DEF AllIndices, Hidden, Expands
      <3> QED BY <1>7, <3>3, <3>4
    <2>2. ix \notin Reaching(es, o, ix) BY <1>5, <1>7, <2>1
    <2>3. Through(ix, es) \subseteq Reaching(es, o, ix)
      <3> SUFFICES ASSUME NEW n \in Through(ix, es) PROVE n \in Reaching(es, o, ix)
        OBVIOUS
      <3>1. n \in Resolved(es) /\ n # ix BY <1>7 DEF Through
      <3>2. IsAlias(n) /\ ix \in AliasTargets(n) BY <1>4, <3>1
      <3> QED BY <1>5, <2>1, <3>1, <3>2
    <2>4. Reaching(es, o, ix) \subseteq Through(ix, es)
      <3> SUFFICES ASSUME NEW n \in Reaching(es, o, ix) PROVE n \in Through(ix, es)
        OBVIOUS
      <3>1. IsAlias(n) /\ ix \in AliasTargets(n) BY <2>1, <2>2 DEF Reaching
      <3>2. n \in Resolved(es) BY <1>5, <2>1, <3>1
      <3> QED BY <3>1, <3>2 DEF Through, AliasTargets
    <2>5. Through(ix, es) = Reaching(es, o, ix) BY <2>3, <2>4
    <2>6. CASE \E n \in Through(ix, es) : aliases[ix][n].filter = Unset
      <3>1. PICK n \in Reaching(es, o, ix) : ReadThrough(ix, n) = Doc BY <2>5, <2>6 DEF ReadThrough
      <3>2. UNION {ReadThrough(ix, m) : m \in Reaching(es, o, ix)} = Doc BY <1>3, <3>1
      <3>3. Filtered(ix, es) = Doc BY <2>6 DEF Filtered
      <3> QED BY <3>2, <3>3
    <2>7. CASE \A n \in Through(ix, es) : aliases[ix][n].filter # Unset
      <3>1. \A n \in Reaching(es, o, ix) : ReadThrough(ix, n) = aliases[ix][n].filter
        BY <2>2, <2>5, <2>7 DEF ReadThrough
      <3>2. Filtered(ix, es) = UNION {aliases[ix][n].filter : n \in Reaching(es, o, ix)}
        BY <1>7, <2>5, <2>7 DEF Filtered
      <3> QED BY <3>1, <3>2
    <2> QED BY <2>6, <2>7
  <1> QED BY <1>6, <1>7

(* In every state whose names are disjoint ...                             *)
LEMMA ReadsWhatItNames == TypeOK /\ NamesDisjoint => SearchReadsWhatItNames
  <1> SUFFICES ASSUME TypeOK, NamesDisjoint, NEW es \in Exprs, NEW o \in Options,
                      ExpandsAlike(es, o), Search(es, o) # Failed,
                      NEW ix \in IndexName, ~OwnNameFiltered(ix)
               PROVE  {d \in Doc : <<ix, d>> \in Search(es, o)} =
                      IF ix \notin indices \/ ix \in closed THEN {}
                      ELSE UNION {ReadThrough(ix, n) : n \in Reaching(es, o, ix)}
    BY DEF SearchReadsWhatItNames
  <1> DEFINE reached == Concrete(es, o)
  <1>1. reached # Failed BY DEF Search
  <1>2. Search(es, o) = UNION {{jx} \X Filtered(jx, es) : jx \in reached} BY <1>1 DEF Search
  <1>3. reached \subseteq indices \ closed
    <2>1. o.forbidClosed BY OptionsAssumption
    <2>2. UNION {IF Known(n) THEN IndicesOf(n) ELSE {} : n \in Expand(es, o, FALSE)} \subseteq indices
      BY IndicesExist
    <2> QED BY <1>1, <2>1, <2>2 DEF Concrete
  <1> HIDE DEF reached
  <1>4. {d \in Doc : <<ix, d>> \in Search(es, o)} =
           IF ix \in reached THEN {d \in Doc : d \in Filtered(ix, es)} ELSE {}
    BY <1>2
  <1>5. CASE ix \notin indices \/ ix \in closed BY <1>3, <1>4, <1>5
  <1>6. CASE ix \in indices \ closed
    <2>1. ix \in reached <=> Reaching(es, o, ix) # {} BY <1>1, <1>6, OpenIndexReached DEF reached
    <2>2. CASE Reaching(es, o, ix) = {} BY <1>4, <1>6, <2>1, <2>2
    <2>3. CASE Reaching(es, o, ix) # {}
      <3>1. Filtered(ix, es) = UNION {ReadThrough(ix, n) : n \in Reaching(es, o, ix)}
        BY <1>1, <1>6, <2>3, FilteredReads DEF reached
      <3>2. Filtered(ix, es) \subseteq Doc
        <4>1. \A n \in Through(ix, es) : aliases[ix][n] \in Def BY DEF Through, TypeOK
        <4>2. \A n \in Through(ix, es) : aliases[ix][n].filter \in (SUBSET Doc) \union {Unset}
          BY <4>1, DefAssumption
        <4>3. CASE \E n \in Through(ix, es) : aliases[ix][n].filter = Unset BY <4>3 DEF Filtered
        <4>4. CASE \A n \in Through(ix, es) : aliases[ix][n].filter # Unset
          <5>1. \A n \in Through(ix, es) : aliases[ix][n].filter \in SUBSET Doc BY <4>2, <4>4
          <5>2. UNION {aliases[ix][n].filter : n \in Through(ix, es)} \subseteq Doc BY <5>1
          <5> QED BY <5>2 DEF Filtered
        <4> QED BY <4>3, <4>4
      <3> QED BY <1>4, <1>6, <2>1, <2>3, <3>1, <3>2
    <2> QED BY <2>2, <2>3
  <1> QED BY <1>5, <1>6

(* ... which is every state: a search reads of each index exactly what     *)
(* some element of its expression asks for, through the filters of the     *)
(* aliases it is reached by (targets, filteringAliases and aliasFilter).   *)
THEOREM SearchesReadWhatTheyName == Spec => []SearchReadsWhatItNames
  BY AliasTypes, DisjointNames, ReadsWhatItNames, PTL

============================================================================
