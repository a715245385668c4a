\* Two clusters share the Indexes of one name, a point in time and a search of
\* theirs; two contents tell apart what each of them sees.
SPECIFICATION Spec
CONSTANTS
    c1 = c1
    c2 = c2
    n1 = n1
    n2 = n2
    o1 = o1
    o2 = o2
    o3 = o3
    o4 = o4
    o5 = o5
    p1 = p1
    r1 = r1
    empty = empty
    written = written
    Nil = Nil
    Pit = {p1}
    Reader = {r1}
    Empty = empty
    Cluster = {c1, c2}
    Name = {n1}
    Obj = {o1, o2, o3, o4}
    Data = {empty, written}
SYMMETRY Symmetric
INVARIANTS
    IndInv
    NoReadOfClosed
    PITOfClosedIndexIsLost
    CopyIsCurrent
PROPERTIES
    InPlaceOnlyByOwner
    ImplementsStore
