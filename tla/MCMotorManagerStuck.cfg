CONSTANTS
    Task = {server}
    MaxSpeed = 1
    Slew = 1
    Sign = 1
    Recalculations = {}
    MaxElapsed = 2
    MaxCalls = 1
    MayImmediate = TRUE
    MaxForeign = 0
SPECIFICATION FairSpec
PROPERTIES
    Settles
CHECK_DEADLOCK FALSE
