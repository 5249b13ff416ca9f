SPECIFICATION Spec
CONSTANTS
    BufWords = 6
    MaxFrameWords = 4
    Traced = TRUE
    FrameTags = 2
    LateIsr = FALSE
    Lossy = FALSE
    ChunkWords = 2
    WriteErrors = {"ERR_RST", "other"}
INVARIANTS
    DeliveredExactly
