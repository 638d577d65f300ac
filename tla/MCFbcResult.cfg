CONSTANTS
    Controllers = 1
    MaxPosition = 1
    Output <- MCOutput
    NegDeadband <- MCNegDeadband
    PosDeadband = 2
    AcceptableTolerance = 1
    AcceptableConfidence = 2
    MaxTimeout = 1
    Calls <- MCCalls
SPECIFICATION Spec
INVARIANTS
    ResultTellsTimeout
CHECK_DEADLOCK FALSE
