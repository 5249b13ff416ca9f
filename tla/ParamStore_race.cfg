SPECIFICATION Spec
CONSTANTS
    Tasks = {"tcp", "key"}
    Fields = {"mode", "iphi", "iplo", "port", "size"}
    Words <- TwoWords
    Values = {dflt, v1}
    Default = dflt
    Erased = erased
    Garbage = garbage
    FlashFails = TRUE
    MaxSets = 1
    MaxCuts = 0
    MaxPresses = 1
    Concurrent = TRUE
INVARIANTS
    TypeOK
    LeavesLocked
    ProgramsErasedOnly
PROPERTIES
    LongPressRestarts
