----------------------------- MODULE MCAliases -----------------------------
EXTENDS IndexExpressions, TLC

CONSTANTS i, x, a, d1, d2

\* x is tried as the name of an index and as the name of an alias
MCName == {i, x, a}
MCIndexName == {i, x}
MCAliasName == {a, x}
MCDoc == {d1, d2}

D(w, h, f) == [write |-> w, hidden |-> h, filter |-> f]
Plain == D(Unset, FALSE, Unset)
MCDef == {Plain, D(TRUE, FALSE, Unset), D(FALSE, FALSE, {d1}), D(Unset, TRUE, {d2})}

One(n) == [wild |-> FALSE, of |-> {n}]
Wild(s) == [wild |-> TRUE, of |-> s]

Add(on, n, def) == [kind |-> "add", on |-> on, aliases |-> One(n), def |-> def, mustExist |-> Unset]
Drop(on, ns, must) == [kind |-> "remove", on |-> on, aliases |-> ns, def |-> Plain, mustExist |-> must]
RemoveIndex(on) == [kind |-> "remove_index", on |-> on, aliases |-> Wild({}), def |-> Plain, mustExist |-> Unset]

Adds1 == {Add(on, n, def) : on \in {One(i), One(x), Wild({i, x})}, n \in MCAliasName, def \in MCDef}
Removes1 == {Drop(on, ns, must) : on \in {One(i), One(x), Wild({i, x})},
                                    ns \in {One(a), One(x), Wild({a, x})}, must \in {TRUE, FALSE, Unset}}

\* every single action; the switch of an alias or of its write index from one
\* index to the other; the replacement of an index by an alias; a name that is
\* added and removed in one request
MCRequests ==
    {<<act>> : act \in Adds1 \union Removes1 \union {RemoveIndex(One(i)), RemoveIndex(Wild({i, x}))}}
    \union {<<Add(One(i), a, D(TRUE, FALSE, Unset)), Add(One(x), a, def)>> : def \in MCDef}
    \union {<<Add(One(x), a, D(TRUE, FALSE, Unset)), Drop(One(i), One(a), must)>> : must \in {TRUE, FALSE}}
    \union {<<RemoveIndex(One(x)), Add(One(i), x, def)>> : def \in MCDef}
    \union {<<Add(One(i), a, Plain), Drop(One(i), ns, must)>> : ns \in {One(a), Wild({a, x})}, must \in {TRUE, FALSE, Unset}}
    \union {<<Drop(One(i), One(a), TRUE), Drop(One(i), Wild({a, x}), TRUE)>>}

MCElements == {[minus |-> FALSE, wild |-> FALSE, of |-> {n}] : n \in MCName}
                \union {[minus |-> m, wild |-> TRUE, of |-> s] : m \in BOOLEAN, s \in {{i, x}, {a, x}, {i, x, a}}}
                \union {[minus |-> TRUE, wild |-> FALSE, of |-> {i}]}

MCExprs == {<<>>} \union {<<e>> : e \in MCElements} \union {<<e, f>> : e \in MCElements, f \in MCElements}

MCOptions ==
    {searchIndicesOptions,
     [searchIndicesOptions EXCEPT !.ignoreUnavailable = TRUE],
     [searchIndicesOptions EXCEPT !.expandClosed = TRUE, !.ignoreUnavailable = TRUE],
     [searchIndicesOptions EXCEPT !.expandOpen = FALSE, !.allowNoIndices = FALSE]}

MCCreations == {n :> def : n \in MCAliasName, def \in MCDef} \union {<<>>}
=============================================================================
