\* A ring of one character, two keys, two packets, the state read on any core
SPECIFICATION Ps2Spec
CONSTANTS
    KEYBOARD_BUFFER_SIZE = 2
    Readers = {r1}
    MaxKeys = 2
    Width = 3
    Height = 2
    Moves <- SomeMoves
    MaxMoves = 2
    Config = 97
    Characters = {30}
    LatchedEdges = FALSE
INVARIANTS
    PointerFollowsPackets
    BootCoreCopyIsSettled
    AnswerNotStolen
PROPERTIES
    ImplementsBoundedQueue
    MouseInitReturns
