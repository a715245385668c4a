\* Document requests and index-level writes of two clusters; one copy may inherit
\* nothing, and the clock may leave the window of one deletion.
\* Bounded counters may stop every step: CHECK_DEADLOCK FALSE.
SPECIFICATION Spec
CONSTANTS
    c1 = c1
    c2 = c2
    c3 = c3
    i1 = i1
    i2 = i2
    o1 = o1
    o2 = o2
    o3 = o3
    o4 = o4
    Nil = Nil
    Cluster = {c1, c2}
    Obj = {o1, o2, o3}
    Id = {i1}
    MapId = {1, 2, 3, 4}
    MaxVersion = 3
    MaxSeqNo = 2
    MaxCopies = 1
    MaxTime = 1
    GcDeletes = 0
    History = 2
    MaxBypasses = 1
SYMMETRY Symmetric
CHECK_DEADLOCK FALSE
INVARIANTS
    RemembersDeletions
    InventsNoDeletion
PROPERTIES
    SharedMapsFrozen
