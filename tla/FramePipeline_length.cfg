SPECIFICATION Spec
CONSTANTS
    BufWords = 4
    MaxFrameWords = 3
    Traced = TRUE
    FrameTags = 2
    LateIsr = FALSE
    Lossy = FALSE
    ChunkWords = 2
    WriteErrors = {}
PROPERTIES
    AnnouncedLengthIsBuffers
