SPECIFICATION FairSpec
CONSTANTS
    Client = {c1}
    NoClient = NoClient
    Route = {k1, k2}
    Exch = {e1, e2}
    Resp = {p1, p2}
    MaxNest = 2
    Script = {"destroy", "keep"}
INVARIANTS
    PreparedExact
    OnlyMismatchFails
    HeldToPassOn
PROPERTIES
    QueueSpec
    LookupEnds
CHECK_DEADLOCK FALSE
