-------------------------- MODULE IndexExpressions --------------------------
(***************************************************************************)
(* The resolution of index expressions ("logs-*,-logs-old,current") by     *)
(* searches: the concrete indices an expression reaches under the options  *)
(* of the request, and the alias filter each of them is searched with.     *)
(* (exprResolver of engine/resolve.go)                                     *)
(*                                                                         *)
(* An expression is a sequence of elements [minus, wild, of]: a name       *)
(* (`of' holds it alone) or a pattern with the set of the names it         *)
(* matches; the pattern of every name is "*", which as a whole expression  *)
(* means all the visible indices.  Names that start with "." or "_" are    *)
(* left out.                                                               *)
(***************************************************************************)
EXTENDS Aliases

CONSTANTS
    Exprs,      \* the expressions that are resolved
    Failed,     \* the failure of a resolution
    NoSuchName, \* a name that nothing has, such as the "-logs" of an exclusion
                \* without a wildcard before it
    Options     \* searchIndicesOptions with the parameters of the requests applied

ResolveOptions ==
    [ignoreUnavailable : BOOLEAN, allowNoIndices : BOOLEAN, expandOpen : BOOLEAN,
     expandClosed : BOOLEAN, expandHidden : BOOLEAN, forbidClosed : BOOLEAN]

ASSUME ExprsAssumption ==
    /\ Exprs \subseteq Seq([minus : BOOLEAN, wild : BOOLEAN, of : SUBSET Name])
    /\ NoSuchName \notin Name

ASSUME OptionsAssumption == \A o \in Options : o \in ResolveOptions /\ o.forbidClosed

searchIndicesOptions ==
    [ignoreUnavailable |-> FALSE, allowNoIndices |-> TRUE, expandOpen |-> TRUE,
     expandClosed |-> FALSE, expandHidden |-> FALSE, forbidClosed |-> TRUE]

lenientExpandOpenOptions ==
    [searchIndicesOptions EXCEPT !.ignoreUnavailable = TRUE, !.forbidClosed = FALSE]

----------------------------------------------------------------------------
(* What a name stands for (newExprResolver): an index hides an alias of    *)
(* the same name; an alias is hidden if one of its definitions says so.    *)

IsIndex(n) == n \in indices
IsAlias(n) == n \notin indices /\ AliasTargets(n) # {}
Known(n) == IsIndex(n) \/ IsAlias(n)
IndicesOf(n) == IF IsIndex(n) THEN {n} ELSE AliasTargets(n)

Hidden(n) ==
    IF IsIndex(n) THEN n \in HiddenIndex
                  ELSE \E ix \in AliasTargets(n) : aliases[ix][n].hidden

Expands(ix, o) == IF ix \in closed THEN o.expandClosed ELSE o.expandOpen

(* The names a pattern stands for (expandMatches): the open or closed      *)
(* indices of what it matches, or with `keep' the aliases themselves.      *)
Matches(e) == {n \in e.of : Known(n)}

ExpandMatches(e, o, keep) ==
    LET seen == {n \in Matches(e) : ~Hidden(n) \/ o.expandHidden}
        kept == IF keep THEN {n \in seen : IsAlias(n)} ELSE {}
    IN kept \union {ix \in UNION {IndicesOf(n) : n \in seen \ kept} : Expands(ix, o)}

AllIndices(o) == {ix \in indices : (ix \notin HiddenIndex \/ o.expandHidden) /\ Expands(ix, o)}

IsEverything(es) == es = <<>> \/ (Len(es) = 1 /\ es[1].wild /\ ~es[1].minus /\ es[1].of = Name)

(* One element (WildcardExpressionResolver.resolve): "-name" and           *)
(* "-pattern" exclude only after a wildcard; before it they are a name and *)
(* a pattern like others, that nothing has or matches.                     *)
Excludes(es, k) == es[k].minus /\ \E j \in 1..(k - 1) : es[j].wild

Literally(es, k) == es[k].minus /\ ~Excludes(es, k)

ElementNames(es, k, o, keep) ==
    IF es[k].wild THEN IF Literally(es, k) THEN {} ELSE ExpandMatches(es[k], o, keep)
                  ELSE IF Literally(es, k) THEN {NoSuchName} ELSE es[k].of

Missing(es, k, o) ==
    IF es[k].wild THEN ~o.allowNoIndices /\ (Literally(es, k) \/ Matches(es[k]) = {})
                  ELSE ~o.ignoreUnavailable /\ \E n \in ElementNames(es, k, o, FALSE) : ~Known(n)

(* The names that an element adds and no later one excludes. *)
ExpandedNames(es, o, keep) ==
    {n \in Name \union {NoSuchName} :
        \E k \in DOMAIN es :
            /\ ~Excludes(es, k) /\ n \in ElementNames(es, k, o, keep)
            /\ \A j \in (k + 1)..Len(es) : Excludes(es, j) => n \notin ElementNames(es, j, o, keep)}

(* A pattern without a wildcard option to expand it is a name like another. *)
AsNames(es) ==
    UNION {IF es[k].wild \/ es[k].minus THEN {NoSuchName} ELSE es[k].of : k \in DOMAIN es}

Expand(es, o, keep) ==
    LET names == ExpandedNames(es, o, keep)
    IN IF ~o.expandOpen /\ ~o.expandClosed THEN AsNames(es)
       ELSE IF IsEverything(es) THEN AllIndices(o)
       ELSE IF (\E k \in DOMAIN es : Missing(es, k, o)) \/ (names = {} /\ ~o.allowNoIndices) THEN Failed
       ELSE names

(* The concrete indices of an expression, or a failure (concrete). *)
Concrete(es, o) ==
    LET names == Expand(es, o, FALSE)
        failNoIndices == IF Len(es) <= 1 THEN ~o.allowNoIndices ELSE ~o.ignoreUnavailable
        reached == UNION {IF Known(n) THEN IndicesOf(n) ELSE {} : n \in names}
        out == IF o.forbidClosed THEN reached \ closed ELSE reached
    IN IF names = Failed THEN Failed
       ELSE IF names = {} THEN IF o.allowNoIndices THEN {} ELSE Failed
       ELSE IF failNoIndices /\ ~\A n \in names : Known(n) THEN Failed
       ELSE IF o.forbidClosed /\ ~o.ignoreUnavailable /\ reached \intersect closed # {} THEN Failed
       ELSE IF out = {} /\ ~o.allowNoIndices THEN Failed
       ELSE out

(* The aliases of an index among the names of an expression, with the      *)
(* aliases kept, under the options that searches look filters up with.     *)
Resolved(es) == Expand(es, lenientExpandOpenOptions, TRUE)

Through(ix, es) == {n \in Resolved(es) \intersect AliasName : aliases[ix][n] # None}

(* Only the name of the index was resolved, once: its filter is then that  *)
(* of its alias of the same name, should it have one.                      *)
OwnNameAlone(ix, es) == Resolved(es) = {ix} /\ (Len(es) <= 1 \/ \E k \in DOMAIN es : es[k].wild)

FilteredByAll(ix, es) ==        \* mutant: an alias without a filter lifts no filter
    LET through == {n \in Through(ix, es) : aliases[ix][n].filter # Unset}
    IN IF (ix \in Resolved(es) /\ ~OwnNameAlone(ix, es)) \/ through = {} THEN Doc
       ELSE UNION {aliases[ix][n].filter : n \in through}

(* The documents of an index that a search reads (filteringAliases and     *)
(* aliasFilter): all of them if the resolved names have the index among    *)
(* others, an alias of it without a filter, or nothing of it at all;       *)
(* otherwise those that the filter of one of the aliases lets through.     *)
Filtered(ix, es) ==
    IF \/ ix \in Resolved(es) /\ ~OwnNameAlone(ix, es)
       \/ Through(ix, es) = {}
       \/ \E n \in Through(ix, es) : aliases[ix][n].filter = Unset
    THEN Doc
    ELSE UNION {aliases[ix][n].filter : n \in Through(ix, es)}

(* A search (targets). *)
Search(es, o) ==
    LET reached == Concrete(es, o)
    IN IF reached = Failed THEN Failed
       ELSE UNION {{ix} \X Filtered(ix, es) : ix \in reached}

----------------------------------------------------------------------------
(* What an expression asks for *)

(* The names an index is reached by: those of its own name and of its      *)
(* aliases that an element has; a pattern does not reach what is hidden,   *)
(* and "*" alone does not look at aliases.                                 *)
Reaching(es, o, ix) ==
    LET seen(n) == (~Hidden(n) \/ o.expandHidden) /\ Expands(ix, o)
    IN IF IsEverything(es) THEN {n \in {ix} : seen(n)}
       ELSE {n \in Name :
                /\ n = ix \/ (IsAlias(n) /\ ix \in AliasTargets(n))
                /\ \E k \in DOMAIN es : n \in es[k].of /\ (es[k].wild => seen(n))}

ReadThrough(ix, n) == IF n = ix \/ aliases[ix][n].filter = Unset THEN Doc ELSE aliases[ix][n].filter

(* The searches whose indices and filters come from two expansions that    *)
(* see the same names: without exclusions and expand_wildcards=hidden, and *)
(* with open indices among what wildcards expand to, or nothing at all     *)
(* and no pattern ignored.                                                 *)
ExpandsAlike(es, o) ==
    /\ \A k \in DOMAIN es : ~es[k].minus
    /\ ~o.expandHidden
    /\ o.expandOpen \/ (~o.expandClosed /\ ~o.ignoreUnavailable)

(* Only an index that was created with an alias of its own name.           *)
OwnNameFiltered(ix) ==
    ix \in AliasName /\ aliases[ix][ix] # None /\ aliases[ix][ix].filter # Unset

(* A search reads of every index exactly the documents that some element   *)
(* of its expression asks for: no filter is lost when an index is reached  *)
(* by several aliases, by its name and an alias, or by patterns, although  *)
(* the indices and the filters are computed by two expansions of the       *)
(* expression under different options.  The README tells what the searches *)
(* and the indices that are left out here do.                              *)
SearchReadsWhatItNames ==
    \A es \in Exprs, o \in Options :
        LET found == Search(es, o)
        IN (ExpandsAlike(es, o) /\ found # Failed) =>
            \A ix \in IndexName :
                ~OwnNameFiltered(ix) =>
                    {d \in Doc : <<ix, d>> \in found} =
                    IF ix \notin indices \/ ix \in closed THEN {}
                    ELSE UNION {ReadThrough(ix, n) : n \in Reaching(es, o, ix)}

=============================================================================
