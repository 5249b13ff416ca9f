SPECIFICATION Spec
CONSTANTS
    Blocks = 11
    Program <- Pointers
    EthMemory <- Driver
    LwipMemory <- Stack
    Console <- Notes
    Size <- Pieces
    RecLen = 3
    Lines <- TypedLines
    MaxLines = 2
    MaxRetry = 1
    MaxMailboxes = 1
INVARIANTS
    BlocksOwned
    NullNeverUsed
PROPERTIES
    ExecutedAsSent
    LinkUsed
CHECK_DEADLOCK FALSE
