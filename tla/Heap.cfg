SPECIFICATION Spec
CONSTANTS
    HEAP_SIZE = 26
    HEADER = 3
    HEAP_ALIGN = 2
    Requests = {1, 2, 4, 5}
INVARIANTS
    HeapConsistent
    LifoRestoresHeap
