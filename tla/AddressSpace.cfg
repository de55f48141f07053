SPECIFICATION Spec
CONSTANTS
    Processes = {p1, p2}
    NumFrames = 21
    PAGE = 2
    Window = 9
    IdentityPages = 3
    ExecLimit = 1
    Private = 4
    SPACE = 14
    Aliases = 2
    TableSpan = 2
    Segments <- CodeAndData
    HeapPage = 4
    FbPage = 6
    FbPages = 1
    StackTopPage = 9
    StackMaxPages = 2
    Increments = {3}
    Lengths = {1, 2, 3, 17}
INVARIANTS
    FramesAccountedOnce
    BrkBacked
    
SYMMETRY ProcessSymmetry
