SPECIFICATION Spec
CONSTANTS
    RX_DESC_COUNT = 3
    TX_DESC_COUNT = 2
    RETRY_COUNT = 2
    SPINS_PER_RETRY = 2
    Calls <- MCCalls
    Noise <- MCNoise
    MaxFrames = 4
INVARIANTS
    WireCarriesSends
    ResultMeansAnswered
PROPERTIES
    RingIsBoundedQueue
