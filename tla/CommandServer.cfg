SPECIFICATION Spec
CONSTANTS
    Residues <- SomeResidues
    Commands <- TypicalCommands
    DefaultList <- Defaults
    Garbage <- SomeInts
    MaxSegments = 3
    MaxRestarts = 2
INVARIANTS TypeOK  SizeSupported
PROPERTIES ReplyFramed RepliesAnswer
