SPECIFICATION StartupSpec
CONSTANTS
    Madt <- FiveCpus
    BspId = 0
    SMP_MAX_CPUS = 4
    PromptAps = TRUE
    FirmwareMap <- EightPages
    Segments <- TwoSegments
    ConfigTables <- SomeTables
    Headroom = 1
    Attempts = 3
INVARIANTS
    OwnStackAndIndex
    SchedulesUnderOwnTss
    CountsRunningCores
    HandoverIsCurrent
PROPERTIES
    BootEnds
    ApLeftOutOnlyBySignalLost
