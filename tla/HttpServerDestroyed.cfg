SPECIFICATION Spec
CONSTANTS
    Req = {r1, r2}
    r1 = r1
    r2 = r2
    PoolSize = 2
    MaxDepth = 1
    Script = {}
INVARIANTS
    DestroyedMeansStopped
CHECK_DEADLOCK FALSE
