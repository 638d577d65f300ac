CONSTANTS
    SFPpacket = {p, q}
    Capacity = 4
    SEQ_RANGE = 5
    HISTORY_CAPACITY = 3
    Window = 4
    MaxWritten = 7
    MaxFaults = 2
SPECIFICATION FairSfp
INVARIANTS
    DeliveredInOrder
PROPERTIES
    ImplementsHistoryQueue
    ResyncOnlyIfForgotten
    ImplementsReliableStream
    CatchesUp
CHECK_DEADLOCK FALSE
