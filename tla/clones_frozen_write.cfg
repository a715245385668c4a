\* What isReadOnlyRequest says of itself, over the same routes as clones_registry.
\* Everything may be closed in the end: CHECK_DEADLOCK FALSE.
SPECIFICATION Spec
CONSTANTS
    r1 = r1
    r2 = r2
    k1 = k1
    k2 = k2
    k3 = k3
    Request = {r1, r2}
    Clone = {k1}
    Route <- Routes
    MaxManagedClones = 2
    MaxWrites = 1
CHECK_DEADLOCK FALSE
PROPERTIES
    ReadOnlyRequestsChangeNothing
