SPECIFICATION Spec
CONSTANTS
    Tasks = {"tcp", "key"}
    Fields = {"mode", "iphi", "iplo", "port", "size"}
    Words <- ThreeWords
    Values = {dflt, v1}
    Default = dflt
    Erased = erased
    Garbage = garbage
    FlashFails = FALSE
    MaxSets = 0
    MaxCuts = 0
    MaxPresses = 1
    Concurrent = TRUE
INVARIANTS
    DefaultsRestored
