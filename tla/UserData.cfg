SPECIFICATION Spec
CONSTANTS
    a1 = a1
    a2 = a2
    a3 = a3
    u1 = u1
    u2 = u2
    u3 = u3
    u4 = u4
    Addr = {a1, a2, a3}
    UD = {u1, u2, u3, u4}
    NoData = NoData
INVARIANTS
    CountExact
    ValuesPaired
    NothingPersists
PROPERTIES
    BufferOwned
SYMMETRY Symmetry
CHECK_DEADLOCK FALSE
