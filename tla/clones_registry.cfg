\* Two requests create, delete and close three clones, and use the base; the
\* limit is two.  No symmetry, which temporal properties do not allow.
\* Everything may be closed in the end: CHECK_DEADLOCK FALSE.
SPECIFICATION FairSpec
CONSTANTS
    r1 = r1
    r2 = r2
    k1 = k1
    k2 = k2
    k3 = k3
    Request = {r1, r2}
    Clone = {k1, k2, k3}
    Route <- Routes
    MaxManagedClones = 2
    MaxWrites = 1
CHECK_DEADLOCK FALSE
INVARIANTS
    CloneInv
PROPERTIES
    FrozenBaseSettles
    ClonesAreListedOrClosed
