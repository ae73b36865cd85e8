\* Any block, alone and followed by a block of a usual form.
SPECIFICATION Spec
CONSTANTS
    Graphs <- MCGraphs
    Supported <- Transports
CHECK_DEADLOCK FALSE
INVARIANTS
    NeverSilentlyLegacy
    SoundGraphsAreInjected
    EndpointsReachTheirBlocks
    StreamsNameTheirBlocks
