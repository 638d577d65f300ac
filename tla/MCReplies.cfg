CONSTANTS
    Base = 32
    Stray = Stray
    SFP_CONFIG_MAX_PACKET_SIZE = 32
    RPC_SUB_MAX = 2
    kVexMotorNum = 1
    CASSETTE_MAX = 1
    ChunkSize = 2
    Recording <- MCRecording
    ReqId = {1, 2}
    Readable <- MCReadable
    Subscribable <- MCSubscribable
    Writable <- MCWritable
    MaxMessages = 3
    MaxLine = 2
SPECIFICATION Spec
CHECK_DEADLOCK FALSE
INVARIANTS
    Understood
    EndIsLast
    SubscriptionsAgree
    CassetteWhole
    OneAnswer
