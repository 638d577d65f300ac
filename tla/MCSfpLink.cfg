CONSTANTS
    SEQ_RANGE = 3
    HISTORY_CAPACITY = 2
    MaxWritten = 2
    MaxFaults = 1
    MaxUpsets = 1
SPECIFICATION FairLink
INVARIANTS
    SessionInOrder
PROPERTIES
    EventuallyConnected
    HostHeard
