SPECIFICATION Spec
CONSTANTS
    NumCores = 2
    MaxThreads = 5
    NumBlocks = 5
    BootThreads = 2
    MaxCreated = 6
INVARIANTS
    OneCorePerThread
    ResumesSavedContext
    OnOwnStack
    ZombieIsBeingReaped
    StackConservation
    ExitCodeOutIsLive
    NoSelfDeadlock
PROPERTIES
    WaitReturnsChildsCode
