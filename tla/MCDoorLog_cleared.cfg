CONSTANTS
    LogSlots = 4
    Divisor = 3
    Tag = {0, 4}
    MaxLogged = 6
    MaxFaults = 1

SPECIFICATION Spec
PROPERTY ClearedOnlyIfTaken
CHECK_DEADLOCK FALSE
