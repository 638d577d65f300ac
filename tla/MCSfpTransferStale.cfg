CONSTANTS
    SEQ_RANGE = 64
    HISTORY_CAPACITY = 8
    Window = 63
    MaxWritten = 9
    MaxFaults = 1
SPECIFICATION Spec
PROPERTIES
    ResyncOnlyAfterLoss
CHECK_DEADLOCK FALSE
