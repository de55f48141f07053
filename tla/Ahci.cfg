\* Three threads on two cores: one calls the driver directly, two through vfs.c
SPECIFICATION FairSpec
CONSTANTS
    Threads = {t1, t2, t3}
    Cores = {c1, c2}
    Direct = {t3}
    Sectors = 2
    MaxCount = 2
    Commands <- SomeCommands
    Buffers <- SomeBuffers
    Disks <- BlankDisk
    Buses <- SomeBuses
    Controllers <- SomeControllers
    None = None
PROPERTIES
    ImplementsBlockDevice
    CallsReturn
