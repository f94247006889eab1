SPECIFICATION FairSpec
CONSTANTS
    Requests <- EachKind
    KeepAliveMax = 2
    MaxAsked = 3
INVARIANTS
    InStep
    CloseIsAnnounced
PROPERTIES
    PromiseKept
    WorkBounded
    ChannelSpec
    Heard
    ThreadReturns
CHECK_DEADLOCK FALSE
