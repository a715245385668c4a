\* Two names of indices, one of which is an alias name as well; one index is created
\* hidden, and what requests ask for is in MCAliases.
CONSTANTS
    i = i
    x = x
    a = a
    d1 = d1
    d2 = d2
    Unset = Unset
    None = None
    Failed = Failed
    NoSuchName = NoSuchName
    Exprs <- MCExprs
    Options <- MCOptions
    Name <- MCName
    IndexName <- MCIndexName
    AliasName <- MCAliasName
    HiddenIndex = {x}
    Doc <- MCDoc
    Def <- MCDef
    Requests <- MCRequests
    Creations <- MCCreations
SPECIFICATION Spec
INVARIANTS
    AliasesConsistent
    NamesDisjoint
    ReadsWhatItWrites
    SearchReadsWhatItNames
PROPERTIES
    RedirectedOnlyOnRequest
