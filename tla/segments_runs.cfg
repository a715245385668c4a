\* One index, five documents, three write requests and a mapping update.  Two size
\* classes: below 2 and below 4 documents; two runs of a class are merged, four
\* documents fill a batch.  The bounds stop every step: CHECK_DEADLOCK FALSE.
SPECIFICATION FairSpec
CONSTANTS
    d1 = d1
    d2 = d2
    d3 = d3
    d4 = d4
    d5 = d5
    Doc = {d1, d2, d3, d4, d5}
    Request <- Requests
    MergeFactor = 2
    Classes = 2
    BatchDocs = 4
    MaxWrites = 3
    MaxGen = 1
CHECK_DEADLOCK FALSE
INVARIANTS
    StoredIsHeld
    LiveCounts
    NothingToMergeAtRest
PROPERTIES
    CompactionEnds
