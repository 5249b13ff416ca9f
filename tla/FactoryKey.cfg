SPECIFICATION Spec
CONSTANTS
    Short = 1
    Medium = 2
    Long = 5
    Wrap = 7
    MaxTime = 8
    MaxMoves = 5
INVARIANT ClassRight
PROPERTY LongPressActs
