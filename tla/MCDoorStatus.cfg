CONSTANTS
    Door = {"front"}
    Offsets <- ClockOffsets
    ClockSkew = 1
    StatusStale = 1
    ControllerTimeout = 1
    ApiTimeout = 1
    ReportDelay = 1
    MaxTime = 6
    MaxSteps = 1

SPECIFICATION Spec
INVARIANT TypeOK
INVARIANT OpenIsRecent
INVARIANT NewestStatusIsShown
CHECK_DEADLOCK FALSE
