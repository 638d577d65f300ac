CONSTANTS
    Controllers = 1
    MaxPosition = 1
    Output <- MCOutput
    NegDeadband <- MCNegDeadband
    PosDeadband = 2
    AcceptableTolerance = 1
    AcceptableConfidence = 2
    MaxTimeout = 1
    Calls <- MCCalls
SPECIFICATION FairSpec
INVARIANTS
    ConfidenceEarned
    StallIsReal
    LoneStallIsNoticed
PROPERTIES
    CompletionReturns
    ReturnsOnTarget
CHECK_DEADLOCK FALSE
