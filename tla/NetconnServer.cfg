SPECIFICATION Spec
CONSTANTS
    Conns = {c1, c2}
    Queues = 2
    BoxSize = 2
    Netbufs = 2
    Writes = 2
    BusyLimit = 2
    MaxClients = 3
    MaxSends = 2
    ClientStalls = TRUE
INVARIANTS
    TypeOK
    NetconnsKept
    CommandsInOrder
PROPERTIES
    ServesInTurn
    FatalStays
    PoolsShrinkTwoWays
    LostLetGo
    ClosedLetGo
CHECK_DEADLOCK FALSE
