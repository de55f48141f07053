SPECIFICATION FairSpec
CONSTANTS
    NumCores = 2
    Depth = 4
    MaxPressed = 4
    Capacity = 2
INVARIANTS
    SoleReader
PROPERTIES
    KeyMissedOnlyBehindWait
