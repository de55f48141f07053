SPECIFICATION Spec
CONSTANTS
    NumCores = 2
    MaxThreads = 4
    NumBlocks = 4
    BootThreads = 1
    MaxCreated = 5
INVARIANTS
    DeadStackUntouched
