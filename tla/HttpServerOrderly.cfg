SPECIFICATION FairSpec
CONSTANTS
    Req = {r1, r2, r3}
    r1 = r1
    r2 = r2
    r3 = r3
    PoolSize = 2
    MaxDepth = 1
    Script = {}
INVARIANTS
    QueueExact
    OnlyRacesFault
    NonePassedOver
PROPERTIES
    HandledIsAnswered
    SecondUnsticksFirst
    ThinkEnds
CHECK_DEADLOCK FALSE
