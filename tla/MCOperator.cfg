CONSTANTS
    Callers <- MCCallers
    Address = {"10.0.0.1"}
    HostWrites <- MCHostWrites
    Cuts <- MCCuts
SPECIFICATION Spec
INVARIANTS
    OnlyAsRecorded
    PressReportedOnce
PROPERTIES
    ScreenCatchesUp
