SPECIFICATION Spec
CONSTANTS
    BufWords = 2
    MaxFrameWords = 2
    Traced = FALSE
    FrameTags = 1
    LateIsr = TRUE
    Lossy = TRUE
    ChunkWords = 2
    WriteErrors = {"ERR_RST", "other"}
INVARIANTS
    TypeOK
    SenderTakesIdleBuffer
    RecordedFrameKept
    SentFromRecordedRun
PROPERTIES
    ConsumedBySending
    FrameHandled
    NextFrameRecorded
