CONSTANTS
    Frame <- MCFrame
    Noise <- MCNoise
    WRITEBUF_SIZE = 4
    MAX_PACKET_SIZE = 4
    MaxFrames = 2
    MaxFaults = 1
SPECIFICATION Spec
INVARIANTS
    TypeOK
    NothingInvented
    FaultsContained
    LossIsAnswered
CHECK_DEADLOCK FALSE
