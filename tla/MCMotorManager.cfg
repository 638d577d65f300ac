CONSTANTS
    Task = {server, operator}
    MaxSpeed = 3
    Slew = 2
    Sign <- Reversed
    Recalculations <- OnlyHalved
    MaxElapsed = 2
    MaxCalls = 2
    MayImmediate = TRUE
    MaxForeign = 1
SPECIFICATION FairSpec
PROPERTIES
    SlewLimited
    TowardsCommand
    SettlesIfPlain
    ComesToRest
CHECK_DEADLOCK FALSE
