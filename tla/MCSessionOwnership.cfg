CONSTANTS
    x1 = x1
    x2 = x2
    y = y
    k1 = k1
    k2 = k2
    None = None
    Conns = {x1, x2, y}
    Containers = {k1, k2}
    Home <- MCHome
SPECIFICATION Spec
SYMMETRY MCSymmetry
INVARIANTS
    TypeOK
    RouteAgrees
    Counters
    OneDevice
PROPERTIES
    OwnerFenced
CHECK_DEADLOCK FALSE
