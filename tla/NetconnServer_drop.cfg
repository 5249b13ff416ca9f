SPECIFICATION Spec
CONSTANTS
    Conns = {c1, c2}
    Queues = 2
    BoxSize = 2
    Netbufs = 2
    Writes = 1
    BusyLimit = 2
    MaxClients = 1
    MaxSends = 3
    ClientStalls = FALSE
PROPERTIES
    DropsOnlyDeleted
