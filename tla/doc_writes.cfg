\* Two documents on two shards, single and bulk requests, a client that reads before it
\* writes, one external version, and a bleve that may refuse a batch.
SPECIFICATION Spec
CONSTANTS
    Id = {d1, d2}
    Shard = {s1, s2}
    Client = {c1}
    ExternalVersions = {2}
    GcDeletes = 1
    Failures = {"commit", "flush"}
    MaxSeqNo = 3
    MaxVersion = 3
    MaxTime = 2
    None = None
    Same = Same
SYMMETRY Symmetry
INVARIANTS
    StoredIsSearchable
PROPERTIES
    CompareAndSetIsSound
    VersionsNeverGoBack
    ImplementsRegister
