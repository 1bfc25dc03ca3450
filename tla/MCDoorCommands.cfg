CONSTANTS
    d1 = d1
    d2 = d2
    Drain = {d1, d2}
    NoDrain = NoDrain
    MemberCommands = {"unlock", "unlock-front"}
    LocalCommands = {"unlock", "lock"}
    CommandTtl = 0
    StatusStale = 3
    ApiTimeout = 1
    ControllerTimeout = 1
    MaxCommands = 2
    MaxTime = 4
    MaxFaults = 1

SPECIFICATION FairSpec
INVARIANT TypeOK
INVARIANT AtMostOnce
INVARIANT NeverRanIsTrue
PROPERTY RunsInTime
PROPERTY RunsInOrder
PROPERTY RearStaysLocked
PROPERTY EveryCommandSettles
CHECK_DEADLOCK FALSE
