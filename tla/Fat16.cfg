SPECIFICATION Spec
CONSTANTS
    Images <- BothImages
    Procs = {p1, p2}
    Writes <- SomeWrites
    Reads <- SomeReads
    cluster_size_bytes = 2
    fat_cache_entries = 9
    DataClusters = 7
    entries_per_sector = 2
    fat_per_sector = 3
    MaxPath = 7
    Lower = "a"
    Upper = "A"
    BASE = 2
    EXT = 1
    MaxWrites = 3
    MaxCrashes = 1
INVARIANTS
    ReadsLastWrite
    ClustersOwnedOnce
    DiskKeepsOtherFiles
    PathsOpenWhatTheySpell
