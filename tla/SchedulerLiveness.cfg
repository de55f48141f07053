SPECIFICATION FairSpec
CONSTANTS
    NumCores = 2
    MaxThreads = 6
    NumBlocks = 6
    BootThreads = 4
    MaxCreated = 6
PROPERTIES
    ZombieReaped
    ReadyThreadRuns
