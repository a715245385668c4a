\* Cursors: two requests, two contexts and a clock: one keep-alive is beyond the limit,
\* one is negative, and a scroll of three hits has two pages.
\* SearchPages: two indices of up to three documents, every way to page through them,
\* and a write while the client reads.
SPECIFICATION PagingSpec
CONSTANTS
    r1 = r1
    r2 = r2
    None = None
    Request = {r1, r2}
    KeepAlives <- MCKeepAlives
    MaxKeepAlive = 1
    Sizes = {2}
    HitCounts = {0, 3}
    MaxContexts = 2
    MaxNow = 2
    i = i
    j = j
    Index = {i, j}
    IndexOrder <- MCIndexOrder
    Id <- MCId
    Value <- MCValue
    Missing = Missing
    NoTuple = NoTuple
    Requests <- MCRequests
    ShardCounts = {1, 2, 3}
    ShardHash <- MCShardHash
    RoutingFactor = 4
    SliceHash <- MCSliceHash
    Coarse <- MCCoarse
    Loads <- MCLoads
    MaxWrites = 1
SYMMETRY Symmetric
INVARIANTS
    HitsInOrder
    KeepAliveHonoured
    ReadExactlyOnce
    PagesInOrder
PROPERTIES
    NothingAnswersTooLate
    GoneForGood
