--------------------------- MODULE IndexTemplates ---------------------------
(***************************************************************************)
(* The templates of a cluster (src/internal/engine/template.go) and the    *)
(* indices that are created from them (cluster.go, buildIndex): component  *)
(* templates, the composable templates composed of them, the legacy        *)
(* templates they replace, and the check a write makes against the         *)
(* templates before it creates its index (docresolve.go).                  *)
(*                                                                         *)
(* Settings and aliases are partial functions. A pattern is known by the   *)
(* texts it matches and by its text without stars. Every handler holds     *)
(* c.mu from its checks to its last assignment, so it is one action, and a *)
(* refused request changes nothing.                                        *)
(***************************************************************************)
EXTENDS Naturals, Sequences, FiniteSets, SequencesExt, Functions

CONSTANTS
    ComponentName, TemplateName, LegacyName, IndexName,
    Key, Value,           \* of settings
    AliasName,            \* in templates, "{index}" included
    Resolve(_, _),        \* the alias name an index gets from one
    Pattern,
    Matching,             \* [Pattern -> the texts it matches]
    Stripped,             \* [Pattern -> its text without stars]
    Priority,             \* of composable templates, orders of legacy ones
    Bucket,               \* [TemplateName -> its place in a java.util.HashSet]
    DefaultPipeline,      \* the settings that name an ingest pipeline
    FinalPipeline,
    NoPipeline,           \* the value "_none"
    Unset,                \* a parameter that is not given, a null
    ComponentBodies,      \* the bodies that requests give
    ComposableBodies,
    LegacyBodies,
    IndexBodies

VARIABLES
    componentTemplates,   \* name -> section
    templates,            \* name -> composable template
    legacyTemplates,      \* name -> legacy template
    indices               \* name -> the settings and aliases it was built with

itVars == <<componentTemplates, templates, legacyTemplates, indices>>

Partial(S, T) == UNION {[D -> T] : D \in SUBSET S}

\* aliases: whether the index is to be the alias's write index
Section == [settings : Partial(Key, Value), aliases : Partial(AliasName, BOOLEAN)]

ComposableTemplate == [patterns : SUBSET Pattern, priority : Priority,
                       composedOf : Seq(ComponentName), section : Section]

LegacyTemplate == [patterns : SUBSET Pattern, priority : Priority, section : Section]

ASSUME TemplateAssumption ==
    /\ ComponentBodies \subseteq Section
    /\ \A t \in ComposableBodies : t \in ComposableTemplate
    /\ LegacyBodies \subseteq LegacyTemplate
    /\ IndexBodies \subseteq [settings : Partial(Key, Value \union {Unset}), aliases : Partial(AliasName, BOOLEAN)]
    /\ Priority \subseteq Nat

\* no index has "{index}" in its name, which is gone from the names it gives
ASSUME PlaceholderAssumption ==
    \A n \in IndexName, a \in AliasName : Resolve(Resolve(a, n), n) = Resolve(a, n)

----------------------------------------------------------------------------
(* Patterns *)

Matches(t, text) == \E p \in t.patterns : text \in Matching[p]

\* one pattern matches the other one without its stars: logs* and *26 do not overlap
templatePatternsOverlap(p, q) == Stripped[q] \in Matching[p] \/ Stripped[p] \in Matching[q]

patternsOverlap(P, Q) == \E p \in P, q \in Q : templatePatternsOverlap(p, q)

conflictingV2Templates(name, t) ==
    {o \in DOMAIN templates \ {name} : /\ patternsOverlap(t.patterns, templates[o].patterns)
                                       /\ templates[o].priority = t.priority}

----------------------------------------------------------------------------
(* What a template gives to an index *)

\* g laid over f
Over(f, g) == [x \in DOMAIN f \union DOMAIN g |-> IF x \in DOMAIN g THEN g[x] ELSE f[x]]

OverAll(layers) ==
    LET laid[k \in 0..Len(layers)] == IF k = 0 THEN <<>> ELSE Over(laid[k - 1], layers[k])
    IN laid[Len(layers)]

EmptyBody == [settings |-> <<>>, aliases |-> <<>>]

\* the sections of a composable template, the later ones winning: those of its
\* components in order, a missing one giving nothing, then its own
Layers(t) ==
    Append([i \in DOMAIN t.composedOf |-> IF t.composedOf[i] \in DOMAIN componentTemplates
                                          THEN componentTemplates[t.composedOf[i]]
                                          ELSE EmptyBody],
           t.section)

ComposedSettings(layers) == OverAll([i \in DOMAIN layers |-> layers[i].settings])

\* aliases under the names the index gives them
Resolved(aliases, n) ==
    [a \in {Resolve(b, n) : b \in DOMAIN aliases} |->
        aliases[CHOOSE b \in DOMAIN aliases : Resolve(b, n) = a]]

\* mutant: only the replaced names are compared
UnnamedWhenReplaced(aliases, names) == aliases

\* an alias of a template whose name, "{index}" not yet replaced, is among these is skipped
Unnamed(aliases, names) == [b \in DOMAIN aliases \ names |-> aliases[b]]

\* the request's aliases, then those of the lists in their order: a name that
\* an earlier list gave is skipped, and so is one that the request has before
\* its "{index}" is replaced (the names that lists give hold none any more)
resolveIndexAliases(n, request, lists) ==
    LET out[k \in 0..Len(lists)] ==
            IF k = 0 THEN request ELSE Over(Resolved(Unnamed(lists[k], DOMAIN request), n), out[k - 1])
    IN out[Len(lists)]

\* mutant: the lists in the order of the components
AliasListsInOrder(layers) == [i \in DOMAIN layers |-> layers[i].aliases]

\* the lists of composeTemplate, its own aliases first
AliasLists(layers) == Reverse([i \in DOMAIN layers |-> layers[i].aliases])

\* legacy templates keep no is_write_index flag
WithoutFlags(aliases) == [a \in DOMAIN aliases |-> FALSE]

MatchingTemplates(n) == {t \in DOMAIN templates : Matches(templates[t], n)}

MatchingLegacy(n) == {t \in DOMAIN legacyTemplates : Matches(legacyTemplates[t], n)}

Highest(names) == {t \in names : \A o \in names : templates[o].priority <= templates[t].priority}

\* highest priority, ties in the order of a HashSet
matchingComposableTemplate(n) ==
    {t \in Highest(MatchingTemplates(n)) : \A o \in Highest(MatchingTemplates(n)) : Bucket[t] <= Bucket[o]}

\* ascending order; equal orders as the map's iteration leaves them
LegacyChains(n) ==
    {chain \in SetToSeqs(MatchingLegacy(n)) :
        \A i, j \in DOMAIN chain :
            i < j => legacyTemplates[chain[i]].priority <= legacyTemplates[chain[j]].priority}

LegacyLayers(chain) == [i \in DOMAIN chain |-> legacyTemplates[chain[i]].section]

\* what the templates may give to a new index: a composable template replaces
\* the whole chain of legacy ones
FromTemplates(n) ==
    IF MatchingTemplates(n) # {}
    THEN {[settings |-> ComposedSettings(Layers(templates[t])), lists |-> AliasLists(Layers(templates[t]))]
            : t \in matchingComposableTemplate(n)}
    ELSE {[settings |-> ComposedSettings(LegacyLayers(chain)),
           lists |-> [i \in DOMAIN chain |-> WithoutFlags(AliasLists(LegacyLayers(chain))[i])]]
            : chain \in LegacyChains(n)}

\* the request's settings: a null removes the template's
Requested(settings, request) ==
    LET kept == DOMAIN Over(settings, request) \ {k \in DOMAIN request : request[k] = Unset}
    IN [k \in kept |-> Over(settings, request)[k]]

\* an alias names no index, and has one write index
AliasesAccepted(n, aliases) ==
    /\ DOMAIN aliases \intersect DOMAIN indices = {}
    /\ \A a \in DOMAIN aliases : aliases[a] =>
         \A i \in DOMAIN indices : a \in DOMAIN indices[i].aliases => ~indices[i].aliases[a]

buildIndex(n, body) ==
    \E given \in FromTemplates(n) :
        LET aliases == resolveIndexAliases(n, body.aliases, given.lists)
            built == [settings |-> Requested(given.settings, body.settings), aliases |-> aliases]
        IN /\ AliasesAccepted(n, aliases)
           /\ indices' = Over(indices, [x \in {n} |-> built])
           /\ UNCHANGED <<componentTemplates, templates, legacyTemplates>>

----------------------------------------------------------------------------
(* Requests on templates *)

ITInit ==
    /\ componentTemplates = <<>>
    /\ templates = <<>>
    /\ legacyTemplates = <<>>
    /\ indices = <<>>

Stored(store, name, x) == Over(store, [n \in {name} |-> x])

Without(store, names) == [n \in DOMAIN store \ names |-> store[n]]

validateComposableTemplate(name, t, create) ==
    /\ create => name \notin DOMAIN templates
    /\ conflictingV2Templates(name, t) = {}
    /\ \A i \in DOMAIN t.composedOf : t.composedOf[i] \in DOMAIN componentTemplates

PutIndexTemplate(name, t, create) ==
    /\ validateComposableTemplate(name, t, create)
    /\ templates' = Stored(templates, name, t)
    /\ UNCHANGED <<componentTemplates, legacyTemplates, indices>>

\* the names that the expression of the request matches
DeleteIndexTemplate(names) ==
    /\ names \subseteq DOMAIN templates
    /\ templates' = Without(templates, names)
    /\ UNCHANGED <<componentTemplates, legacyTemplates, indices>>

\* the templates composed of it are not validated again
PutComponentTemplate(name, section, create) ==
    /\ create => name \notin DOMAIN componentTemplates
    /\ componentTemplates' = Stored(componentTemplates, name, section)
    /\ UNCHANGED <<templates, legacyTemplates, indices>>

Users(names) == {t \in DOMAIN templates : Range(templates[t].composedOf) \intersect names # {}}

\* mutant: refused only when every one of the matched ones is in use
DeleteUnlessAllInUse(names) ==
    /\ names \subseteq DOMAIN componentTemplates
    /\ names # {} => \E c \in names : Users({c}) = {}
    /\ componentTemplates' = Without(componentTemplates, names)
    /\ UNCHANGED <<templates, legacyTemplates, indices>>

\* all of the matched ones or none
DeleteComponentTemplate(names) ==
    /\ names \subseteq DOMAIN componentTemplates
    /\ Users(names) = {}
    /\ componentTemplates' = Without(componentTemplates, names)
    /\ UNCHANGED <<templates, legacyTemplates, indices>>

PutLegacyTemplate(name, t, create) ==
    /\ create => name \notin DOMAIN legacyTemplates
    /\ legacyTemplates' = Stored(legacyTemplates, name, t)
    /\ UNCHANGED <<componentTemplates, templates, indices>>

DeleteLegacyTemplate(names) ==
    /\ names \subseteq DOMAIN legacyTemplates
    /\ legacyTemplates' = Without(legacyTemplates, names)
    /\ UNCHANGED <<componentTemplates, templates, indices>>

----------------------------------------------------------------------------
(* Requests that create an index *)

CreateIndex(n, body) ==
    /\ n \notin DOMAIN indices
    /\ buildIndex(n, body)

\* mutant: without the legacy templates
SettingsOfComposables(n) ==
    IF n \in DOMAIN indices THEN {indices[n].settings}
    ELSE IF MatchingTemplates(n) # {}
    THEN {templates[t].section.settings : t \in Highest(MatchingTemplates(n))}
    ELSE {<<>>}

\* what a write finds for its pipelines: the settings of its index, or those of
\* a template of the highest priority, whichever the map's iteration meets
\* first, without its components
writeIndexSettings(n) ==
    IF n \in DOMAIN indices THEN {indices[n].settings}
    ELSE IF MatchingTemplates(n) # {}
    THEN {templates[t].section.settings : t \in Highest(MatchingTemplates(n))}
    ELSE {ComposedSettings(LegacyLayers(chain)) : chain \in LegacyChains(n)}

Names(settings, key) == key \in DOMAIN settings /\ settings[key] # NoPipeline

\* no pipeline exists, so a write that is to run through one fails; the request
\* may replace the default one
pipelineFailure(settings, requested) ==
    \/ requested = Unset /\ Names(settings, DefaultPipeline)
    \/ Names(settings, FinalPipeline)

\* a write into an index that does not exist: ensureIndex creates it
IndexDoc(n, requested) ==
    /\ \E settings \in writeIndexSettings(n) : ~pipelineFailure(settings, requested)
    /\ n \notin DOMAIN indices
    /\ buildIndex(n, EmptyBody)

DeleteIndex(n) ==
    /\ n \in DOMAIN indices
    /\ indices' = Without(indices, {n})
    /\ UNCHANGED <<componentTemplates, templates, legacyTemplates>>

ITNext ==
    \/ \E name \in TemplateName, t \in ComposableBodies, create \in BOOLEAN : PutIndexTemplate(name, t, create)
    \/ \E names \in SUBSET TemplateName : DeleteIndexTemplate(names)
    \/ \E name \in ComponentName, section \in ComponentBodies, create \in BOOLEAN :
          PutComponentTemplate(name, section, create)
    \/ \E names \in SUBSET ComponentName : DeleteComponentTemplate(names)
    \/ \E name \in LegacyName, t \in LegacyBodies, create \in BOOLEAN : PutLegacyTemplate(name, t, create)
    \/ \E names \in SUBSET LegacyName : DeleteLegacyTemplate(names)
    \/ \E n \in IndexName, body \in IndexBodies : CreateIndex(n, body)
    \/ \E n \in IndexName, requested \in {Unset, NoPipeline} : IndexDoc(n, requested)
    \/ \E n \in IndexName : DeleteIndex(n)

ITSpec == ITInit /\ [][ITNext]_itVars

----------------------------------------------------------------------------
(* Properties *)

(* Every component template that a stored composable template is composed  *)
(* of exists: an index of it is never built without a part it names, in    *)
(* whatever order templates and components are put, replaced and deleted   *)
(* (validateComposableTemplate, DeleteComponentTemplate).                  *)
ComponentsExist ==
    \A t \in DOMAIN templates : Range(templates[t].composedOf) \subseteq DOMAIN componentTemplates

(* No two stored composable templates of one priority have overlapping     *)
(* patterns, the stars left aside: which one an index is built from does   *)
(* not hang on the order of a map (conflictingV2Templates).                *)
NoRivals ==
    \A t, o \in DOMAIN templates :
        (t # o /\ templates[t].priority = templates[o].priority)
            => ~patternsOverlap(templates[t].patterns, templates[o].patterns)

(* Stored templates are complete and tell apart the indices they are for.  *)
TemplatesConsistent == ComponentsExist /\ NoRivals

\* the sections an index of this name is made of, the least important first
SectionsFor(n) ==
    IF MatchingTemplates(n) # {} THEN {Layers(templates[t]) : t \in matchingComposableTemplate(n)}
    ELSE {LegacyLayers(chain) : chain \in LegacyChains(n)}

\* f has at x what the last of the layers that know x has there, or nothing
LastSays(f, x, layers) ==
    LET givers == {i \in DOMAIN layers : x \in DOMAIN layers[i]}
    IN IF givers = {} THEN x \notin DOMAIN f
       ELSE x \in DOMAIN f /\ f[x] = layers[Max(givers)][x]

\* an index built with this body: each setting as the request says, and else the sections
SettingsLayered(built, body, sections) ==
    \A k \in Key :
       IF k \in DOMAIN body.settings /\ body.settings[k] = Unset
       THEN k \notin DOMAIN built.settings
       ELSE LastSays(built.settings, k, Append([i \in DOMAIN sections |-> sections[i].settings], body.settings))

\* the aliases likewise, a template's own spelling of a name of the request
\* aside; legacy templates do not say whether they are write aliases
AliasesLayered(n, built, body, sections) ==
    LET left(i) == Restrict(sections[i].aliases, DOMAIN sections[i].aliases \ DOMAIN body.aliases)
        layers == Append([i \in DOMAIN sections |-> Resolved(left(i), n)], body.aliases)
        names == [i \in DOMAIN layers |-> [x \in DOMAIN layers[i] |-> TRUE]]
        given == [x \in DOMAIN built.aliases |-> TRUE]
    IN \A a \in AliasName : \A x \in {a, Resolve(a, n)} :
          /\ LastSays(given, x, names)
          /\ MatchingTemplates(n) # {} => LastSays(built.aliases, x, layers)

(* A new index has each setting as the request gives it, not at all when   *)
(* the request gives null, and else as the last template section that      *)
(* mentions it: its components in order, then the composable template      *)
(* itself, or the legacy templates in ascending order. Each alias comes    *)
(* from the request or else from the last section that has it, under the   *)
(* index's own name for it, although aliases are resolved in the opposite  *)
(* order, the first list winning (buildIndex, resolveIndexAliases). An     *)
(* alias that the request names as the template does, "{index}" included,  *)
(* is the request's only.                                                  *)
CreatedAsLayered ==
    [][\A n \in DOMAIN indices' \ DOMAIN indices, body \in IndexBodies : CreateIndex(n, body) =>
         \E sections \in SectionsFor(n) : /\ SettingsLayered(indices'[n], body, sections)
                                          /\ AliasesLayered(n, indices'[n], body, sections)]_itVars

(* Templates that a write and the index it creates see alike: one          *)
(* composable template of the highest priority with no pipelines in its    *)
(* components, or legacy templates of distinct orders.                     *)
PlainTemplates(n) ==
    /\ Cardinality(Highest(MatchingTemplates(n))) <= 1
    /\ \A t \in Highest(MatchingTemplates(n)) :
         \A c \in Range(templates[t].composedOf) \intersect DOMAIN componentTemplates :
           \A k \in {DefaultPipeline, FinalPipeline} : ~Names(componentTemplates[c].settings, k)
    /\ \A t, o \in MatchingLegacy(n) :
         t # o => legacyTemplates[t].priority # legacyTemplates[o].priority

(* The write that creates an index is not let through pipelines that the   *)
(* next write to the index is refused for: the settings a write looks up   *)
(* before its index exists are "those of the templates an auto-created     *)
(* index would get" (docresolve.go, writeIndexSettings). Without           *)
(* PlainTemplates it fails: a write ignores the components of a template,  *)
(* and resolves ties in another order than the creation does.              *)
PipelinesForeseen ==
    [][\A n \in DOMAIN indices' \ DOMAIN indices, requested \in {Unset, NoPipeline} :
         (IndexDoc(n, requested) /\ PlainTemplates(n))
            => ~pipelineFailure(indices'[n].settings, requested)]_itVars
=============================================================================
