\* ByQuery: two sources of two documents, any part of which a search may find; batches and
\* slices of one or two, and limits that cut both.  Requests are bounded: CHECK_DEADLOCK FALSE.
\* IndexTemplates: two templates of each kind, two names of indices, one of which all
\* patterns match, and bodies that fight over the pipelines and an alias.
CONSTANTS
    x = x
    y = y
    None = None
    Own = Own
    Id <- MCId
    Source = {x, y}
    Shards = 2
    Kinds = {"delete", "create", "update", "reindex"}
    MaxDocs <- MCMaxDocs
    BatchSizes = {0, 1, 2}
    Slices = {0, 1, 2}
    DefaultBatch = 3
    MaxTaskResults = 1
    MaxRequests = 2
    MaxHits = 3
    c1 = c1
    c2 = c2
    t1 = t1
    t2 = t2
    l1 = l1
    l2 = l2
    log26 = log26
    other = other
    ownOfOther = ownOfOther
    own = own
    shared = shared
    ownOfLog26 = ownOfLog26
    pipe = pipe
    logStar = logStar
    star26 = star26
    log = log
    n26 = n26
    DefaultPipeline = DefaultPipeline
    FinalPipeline = FinalPipeline
    NoPipeline = NoPipeline
    Unset = Unset
    ComponentName = {c1, c2}
    TemplateName = {t1, t2}
    LegacyName = {l1, l2}
    IndexName = {log26, other}
    Key = {DefaultPipeline, FinalPipeline}
    Value = {pipe, NoPipeline}
    AliasName = {own, shared, ownOfLog26, ownOfOther}
    Resolve <- MCResolve
    Pattern = {logStar, star26}
    Matching <- MCMatching
    Stripped <- MCStripped
    Priority = {0, 1}
    Bucket <- MCBucket
    ComponentBodies <- MCComponentBodies
    ComposableBodies <- MCComposableBodies
    LegacyBodies <- MCLegacyBodies
    IndexBodies <- MCIndexBodies
SPECIFICATION RequestsSpec
CHECK_DEADLOCK FALSE
INVARIANTS
    MaxDocsRespected
    EachHitOnce
    NothingMissed
    TemplatesConsistent
PROPERTIES
    RequestEnds
    CreatedAsLayered
    PipelinesForeseen
