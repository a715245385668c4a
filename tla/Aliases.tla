------------------------------ MODULE Aliases ------------------------------
(***************************************************************************)
(* The names of one cluster: its indices, the aliases each index carries,  *)
(* the requests that change them, and the resolution of names and          *)
(* expressions by writes, document reads and searches.                     *)
(* (engine/alias.go, engine/resolve.go, engine/docresolve.go and the name  *)
(* resolution of engine/cluster.go)                                        *)
(*                                                                         *)
(* Every request holds c.mu, so a request is one step.  An index that is   *)
(* shared with a clone is copied before it is changed, and the copy may    *)
(* fail: a request that changes several indices then stops half way.  An   *)
(* alias definition keeps its write flag, its hidden flag and its filter;  *)
(* routing values, which no resolution below looks at, are left out.       *)
(***************************************************************************)
EXTENDS FiniteSets, Sequences, Integers

CONSTANTS
    Name,           \* names an index or an alias may have
    IndexName,      \* the names that are tried for indices
    AliasName,      \* the names that are tried for aliases; may overlap IndexName
    HiddenIndex,    \* the indices that are created with index.hidden
    Doc,            \* document ids
    Def,            \* alias definitions: [write, hidden, filter]
    Unset,          \* a flag or an option that a request does not give
    None,           \* no alias, no index
    Requests,       \* the _aliases requests: sequences of actions
    Creations       \* the aliases given to a new index: functions from sets of names to Def

ASSUME NameAssumption ==
    /\ IndexName \subseteq Name
    /\ AliasName \subseteq Name
    /\ HiddenIndex \subseteq IndexName
    /\ None \notin Name
    /\ None \notin Def

ASSUME DefAssumption ==
    Def \subseteq [write : {TRUE, FALSE, Unset}, hidden : BOOLEAN, filter : (SUBSET Doc) \union {Unset}]

ASSUME CreationAssumption ==
    \A defs \in Creations : DOMAIN defs \subseteq AliasName /\ \A a \in DOMAIN defs : defs[a] \in Def

Elements == [wild : BOOLEAN, of : SUBSET Name]

Actions == [kind : {"add", "remove", "remove_index"}, on : Elements, aliases : Elements,
            def : Def, mustExist : {TRUE, FALSE, Unset}]

ASSUME RequestAssumption == Requests \subseteq Seq(Actions)

VARIABLES
    indices,    \* the names of the existing indices
    aliases,    \* aliases[i][a]: the definition of alias a on index i, or None
    closed,     \* the indices in the CLOSE state
    shared,     \* the indices that a clone holds as well
    torn        \* a copy failed in the middle of an _aliases request (history)

vars == <<indices, aliases, closed, shared, torn>>

NoAliases == [a \in AliasName |-> None]

TypeOK ==
    /\ indices \subseteq IndexName
    /\ aliases \in [IndexName -> [AliasName -> Def \union {None}]]
    /\ \A i \in IndexName \ indices : aliases[i] = NoAliases
    /\ closed \subseteq indices
    /\ shared \subseteq indices
    /\ torn \in BOOLEAN

Init ==
    /\ indices = {}
    /\ aliases = [i \in IndexName |-> NoAliases]
    /\ closed = {}
    /\ shared = {}
    /\ torn = FALSE

(* The indices that carry alias a: aliasTargets. *)
AliasTargets(a) == {i \in indices : a \in AliasName /\ aliases[i][a] # None}

----------------------------------------------------------------------------
(* A set of indices that a request changes, one after the other: a shared  *)
(* index is copied first.  `done' is the part that was changed when a copy *)
(* failed, or everything.                                                  *)
Stopped(todo, done) ==
    \/ done = todo
    \/ /\ done \subseteq todo
       /\ (todo \ done) \intersect shared # {}

(* An alias has one write index at most, and is hidden on all of its       *)
(* indices or on none (validateAliasProperties), in the tables `tab'.      *)
Consistent(tab, a) ==
    LET on == {i \in IndexName : tab[i][a] # None}
    IN /\ \A i, j \in on : tab[i][a].write = TRUE /\ tab[j][a].write = TRUE => i = j
       /\ \A i, j \in on : tab[i][a].hidden = tab[j][a].hidden

----------------------------------------------------------------------------
(* The _aliases request: a sequence of actions                             *)
(*   [kind, on, aliases, def, mustExist]                                   *)
(* `on' and `aliases' are elements [wild, of]: a name, or a pattern with   *)
(* the set of the names it matches.                                        *)

(* The concrete indices of an action (aliasActionIndices): a name must be  *)
(* an index, a pattern must match a visible one; aliases are not accepted. *)
ActionIndices(act) ==
    IF act.on.wild THEN {i \in indices \ HiddenIndex : i \in act.on.of}
                   ELSE indices \intersect act.on.of

(* What an action does to an index and an alias: adds it, removes it.  The *)
(* names to remove are those the index had before the request, unless      *)
(* must_exist is false: then they are taken literally.                     *)
Adds(act, i, a) == act.kind = "add" /\ i \in ActionIndices(act) /\ a \in act.aliases.of

Removes(act, i, a) ==
    /\ act.kind = "remove"
    /\ i \in ActionIndices(act)
    /\ a \in act.aliases.of
    /\ IF act.mustExist = FALSE THEN ~act.aliases.wild ELSE aliases[i][a] # None

Touches(act, i, a) == Adds(act, i, a) \/ Removes(act, i, a)

(* The entry of an index and an alias after the first n actions: that of   *)
(* the last action that touches it.                                        *)
Entry(req, n, i, a) ==
    LET added == {k \in 1..n : Adds(req[k], i, a) /\ \A j \in (k + 1)..n : ~Touches(req[j], i, a)}
    IN IF added # {} THEN req[CHOOSE k \in added : TRUE].def
       ELSE IF \E k \in 1..n : Removes(req[k], i, a) THEN None
       ELSE aliases[i][a]

RemovedIndices(req) ==
    UNION {IF req[k].kind = "remove_index" THEN ActionIndices(req[k]) ELSE {} : k \in DOMAIN req}

(* The tables after the request, if it is accepted. *)
Result(req) ==
    [i \in IndexName |-> IF i \in RemovedIndices(req)
                         THEN NoAliases
                         ELSE [a \in AliasName |-> Entry(req, Len(req), i, a)]]

Added(req) == {a \in AliasName : \E k \in DOMAIN req, i \in indices : Adds(req[k], i, a)}

(* The indices that the commit writes. *)
Changed(req) ==
    {i \in indices \ RemovedIndices(req) :
        \E k \in DOMAIN req, a \in AliasName : Touches(req[k], i, a)}

(* The checks of an action of an accepted request. *)
ActionAllowed(req, k) ==
    LET act == req[k]
        on == ActionIndices(act)
    IN /\ on # {}
       /\ \A i \in on \intersect RemovedIndices(req), a \in AliasName : ~Touches(act, i, a)
       /\ act.kind = "add" => act.aliases.of \intersect (indices \ RemovedIndices(req)) = {}
       /\ act.kind = "remove" /\ act.mustExist = TRUE =>
             \A i \in on : /\ \E a \in act.aliases.of : aliases[i][a] # None
                           /\ \A a \in AliasName : Removes(act, i, a) => Entry(req, k - 1, i, a) # None

AcceptedAgainstOld(req) ==      \* mutant: validates what the aliases were
    /\ \A k \in DOMAIN req : ActionAllowed(req, k)
    /\ RemovedIndices(req) # {} \/ Changed(req) # {}
    /\ \A a \in Added(req) : Consistent(aliases, a)

Accepted(req) ==
    /\ \A k \in DOMAIN req : ActionAllowed(req, k)
    /\ RemovedIndices(req) # {} \/ Changed(req) # {}
    /\ \A a \in Added(req) : Consistent(Result(req), a)

(* The commit (applyAliasActions): the removed indices go first, then the  *)
(* changed ones are written one by one.  The failure of a copy ends it.    *)
UpdateAliases(req) ==
    /\ Accepted(req)
    /\ indices' = indices \ RemovedIndices(req)
    /\ closed' = closed \ RemovedIndices(req)
    /\ \E done \in SUBSET Changed(req) :
          /\ Stopped(Changed(req), done)
          /\ aliases' = [i \in IndexName |-> IF i \in RemovedIndices(req) \union done
                                             THEN Result(req)[i]
                                             ELSE aliases[i]]
          /\ shared' = shared \ (RemovedIndices(req) \union done)
          /\ torn' = (torn \/ done # Changed(req))

----------------------------------------------------------------------------
(* Indices come and go *)

(* The aliases of a new index: those of the request win over those of its  *)
(* templates (resolveIndexAliases).                                        *)
WithTemplate(request, template) ==
    [a \in DOMAIN request \union DOMAIN template |->
        IF a \in DOMAIN request THEN request[a] ELSE template[a]]

(* buildIndex and applyIndexAliases: no alias may have the name of an      *)
(* index that exists, and the aliases must stay consistent with the new    *)
(* index.  The name of the new index itself is not refused.  A build that  *)
(* fails changes nothing.                                                  *)
Build(n, defs) ==
    LET tab == [aliases EXCEPT ![n] = [a \in AliasName |-> IF a \in DOMAIN defs THEN defs[a] ELSE None]]
    IN /\ DOMAIN defs \intersect indices = {}
       /\ \A a \in DOMAIN defs : Consistent(tab, a)
       /\ indices' = indices \union {n}
       /\ aliases' = tab

CreateOverAlias(n, request, template) ==    \* mutant: looks only for an index of the name
    /\ n \notin indices
    /\ Build(n, WithTemplate(request, template))
    /\ UNCHANGED <<closed, shared, torn>>

(* CreateIndex: refused if the name is taken by an index or an alias. *)
CreateIndex(n, request, template) ==
    /\ n \notin indices
    /\ AliasTargets(n) = {}
    /\ Build(n, WithTemplate(request, template))
    /\ UNCHANGED <<closed, shared, torn>>

WriteAnyOpen(n) ==              \* mutant: without a write index, an open one takes the write
    LET on == AliasTargets(n)
        takes == {i \in on : aliases[i][n].write = TRUE}
        open == {i \in on \ closed : aliases[i][n].write = Unset}
    IN IF n \in indices THEN n
       ELSE IF takes # {} THEN CHOOSE i \in takes : TRUE
       ELSE IF open # {} THEN CHOOSE i \in open : TRUE
       ELSE None

(* The index of a write through a name (writeIndex): an index, or the      *)
(* write index of an alias, which is its only index unless that index      *)
(* declines.                                                               *)
WriteIndex(n) ==
    LET on == AliasTargets(n)
        takes == {i \in on : aliases[i][n].write = TRUE \/ (on = {i} /\ aliases[i][n].write = Unset)}
    IN IF n \in indices THEN n
       ELSE IF takes # {} THEN CHOOSE i \in takes : TRUE
       ELSE None

ReadFirst(n) ==                 \* mutant: reads the first of several indices
    LET on == AliasTargets(n)
    IN IF n \in indices THEN IF n \in closed THEN None ELSE n
       ELSE IF on # {} THEN CHOOSE i \in on : TRUE
       ELSE None

(* The index of a document read (resolveDocIndex); a closed index rejects  *)
(* its own name, not its alias.                                            *)
ReadIndex(n) ==
    LET on == AliasTargets(n)
    IN IF n \in indices THEN IF n \in closed THEN None ELSE n
       ELSE IF Cardinality(on) = 1 THEN CHOOSE i \in on : TRUE
       ELSE None

(* A document write (ensureIndex): the write index is copied if it is      *)
(* shared; a name that is neither an index nor an alias is created, with   *)
(* the aliases of its templates.                                           *)
EnsureIndex(n, template) ==
    \/ /\ WriteIndex(n) \in indices \ closed
       /\ WriteIndex(n) \in shared
       /\ shared' = shared \ {WriteIndex(n)}
       /\ UNCHANGED <<indices, aliases, closed, torn>>
    \/ /\ n \in IndexName \ indices
       /\ AliasTargets(n) = {}
       /\ Build(n, template)
       /\ UNCHANGED <<closed, shared, torn>>

(* DeleteIndex of the indices an expression resolves to. *)
DeleteIndex(gone) ==
    /\ gone # {}
    /\ indices' = indices \ gone
    /\ aliases' = [i \in IndexName |-> IF i \in gone THEN NoAliases ELSE aliases[i]]
    /\ closed' = closed \ gone
    /\ shared' = shared \ gone
    /\ UNCHANGED torn

(* CloseIndex and OpenIndex of several indices: a copy that fails leaves   *)
(* the others in their old state.                                          *)
CloseIndex(todo, done) ==
    /\ todo \subseteq indices \ closed
    /\ Stopped(todo, done)
    /\ done # {}
    /\ closed' = closed \union done
    /\ shared' = shared \ done
    /\ UNCHANGED <<indices, aliases, torn>>

OpenIndex(todo, done) ==
    /\ todo \subseteq closed
    /\ Stopped(todo, done)
    /\ done # {}
    /\ closed' = closed \ done
    /\ shared' = shared \ done
    /\ UNCHANGED <<indices, aliases, torn>>

(* A clone takes all the indices (Cluster.Clone); it lets go of them, one  *)
(* by one by writing, or all at once.                                      *)
Clone ==
    /\ indices # shared
    /\ shared' = indices
    /\ UNCHANGED <<indices, aliases, closed, torn>>

CloneLetsGo(i) ==
    /\ i \in shared
    /\ shared' = shared \ {i}
    /\ UNCHANGED <<indices, aliases, closed, torn>>

Next ==
    \/ \E req \in Requests : UpdateAliases(req)
    \/ \E n \in IndexName, request, template \in Creations : CreateIndex(n, request, template)
    \/ \E n \in Name, template \in Creations : EnsureIndex(n, template)
    \/ \E gone \in SUBSET indices : DeleteIndex(gone)
    \/ \E todo \in SUBSET indices : \E done \in SUBSET todo : CloseIndex(todo, done) \/ OpenIndex(todo, done)
    \/ Clone
    \/ \E i \in IndexName : CloneLetsGo(i)

Spec == Init /\ [][Next]_vars

----------------------------------------------------------------------------
(* Properties *)

(* Whatever requests, templates and deletions come one after the other, an *)
(* alias has one write index at most and one hidden flag, as long as no    *)
(* copy failed in the middle of a request (validateAliasProperties).       *)
AliasesConsistent == ~torn => \A a \in AliasName : Consistent(aliases, a)

(* No alias takes the name of an index: only a new index can carry its own *)
(* name as an alias (from its request, or from a template that says        *)
(* {index}).  Three places keep it, each for its own case: the add action, *)
(* the creation of an index and the aliases of a new index.                *)
NamesDisjoint ==
    \A i, n \in indices : n \in AliasName /\ aliases[i][n] # None => i = n

(* A document that is written through a name is read through that name:    *)
(* whenever both have an index, it is the same one.                        *)
ReadsWhatItWrites ==
    ~torn => \A n \in Name : WriteIndex(n) # None /\ ReadIndex(n) # None => WriteIndex(n) = ReadIndex(n)

(* Writes through an alias are redirected from an index that stays to      *)
(* another one only by a request that changes the alias on one of the two; *)
(* deletions, creations, closings and clones redirect nothing.             *)
RedirectedOnlyOnRequest ==
    [][\A a \in AliasName :
          LET old == WriteIndex(a)
              new == WriteIndex(a)'
          IN old # None /\ new # None /\ old # new /\ old \in indices'
             => torn \/ \E i \in {old, new} : aliases'[i][a] # aliases[i][a]]_vars
=============================================================================
