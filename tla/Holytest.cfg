SPECIFICATION Spec
CONSTANTS
    Event = {vote, other}
    VoteCast = vote
    LuaListener = lua
    ServerSide = {}
    ClientSide = {hud}
    NoListener = NoListener
    Buf = {b1, b2}
    Byte = {x}
    Junk = junk
    MinSize = 1
    MaxSize = 2
    MaxText = 3
SYMMETRY Alike
INVARIANTS
    ListenersExact
    TextKept
CHECK_DEADLOCK FALSE
