CONSTANTS
    Motor = {m1}
    Value <- MCValue
    ReqId = {r1, r2}
    Cassette = {c1}
    RPC_SUB_MAX = 2
    MaxMessages = 2
    MaxUpsets = 2
    MaxLine = 3
SPECIFICATION FairSpec
INVARIANTS
    OneFile
    NothingHidden
    NothingInherited
    AcceptedIsActive
PROPERTIES
    DeparturesNoticed
    HostGetsThrough
