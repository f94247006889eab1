SPECIFICATION Spec
CONSTANTS
    Req = {r1, r2, r3}
    r1 = r1
    r2 = r2
    r3 = r3
    PoolSize = 2
    MaxDepth = 2
    Script = {"think", "destroy", "remark"}
INVARIANTS
    RequestOutlivesWorker
CHECK_DEADLOCK FALSE
PROPERTIES
    ExchangeSpec
