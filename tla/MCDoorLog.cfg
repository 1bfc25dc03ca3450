CONSTANTS
    LogSlots = 4
    Divisor = 3
    Tag = {0, 4}
    MaxLogged = 6
    MaxFaults = 1

SPECIFICATION FairSpec
INVARIANT TypeOK
INVARIANT ReadsAreReal
INVARIANT RepeatsNeedFaults
PROPERTY WholePairsAreReported
PROPERTY ReadEntriesAreTakenFirst
PROPERTY EveryEntryLeavesTheBoard
CHECK_DEADLOCK FALSE
