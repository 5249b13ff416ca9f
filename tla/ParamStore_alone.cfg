SPECIFICATION Spec
CONSTANTS
    Tasks = {"tcp", "key"}
    Fields = {"mode", "iphi", "iplo", "port", "size"}
    Words <- ThreeWords
    Values = {dflt, v1}
    Default = dflt
    Erased = erased
    Garbage = garbage
    FlashFails = FALSE
    MaxSets = 2
    MaxCuts = 2
    MaxPresses = 1
    Concurrent = FALSE
INVARIANTS
    FrameSizes
    AddressStored
    NeverRunsBlank
PROPERTIES
    AtomicStore
