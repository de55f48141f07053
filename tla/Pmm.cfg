SPECIFICATION Spec
CONSTANTS
    MemoryMaps <- GoodMaps
    PMM_PAGE_SIZE = 1
    HEAP_BASE = 6
    HEAP_SIZE = 2
    BootTables = 2
    IdentityPages = 9
INVARIANTS
    FreeCountExact
    BitmapExact
PROPERTIES
    ImplementsPageAllocator
