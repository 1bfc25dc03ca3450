CONSTANTS
    m1 = m1
    m2 = m2
    a = a
    b = b
    Member = {m1, m2}
    CardNumber = {a, b}
    Permission = {1, 300}
    CardSlotCount = 2
    Upper <- MCUpper
    EmptyTag = {}
    InitialCards <- MCSafetyCards
    InitialBoards <- MCInitialBoards
    Recoveries = {"runbook"}
    MaxEdits = 3
    MaxOutages = 2
    MaxFaults = 2

SPECIFICATION Spec
INVARIANTS TypeOK CompletePassAgrees
PROPERTIES OnlyRevokedCardsAreCleared BoardAsPromised
CHECK_DEADLOCK FALSE
