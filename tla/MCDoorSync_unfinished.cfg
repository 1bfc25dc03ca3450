CONSTANTS
    m1 = m1
    m2 = m2
    a = a
    b = b
    Member = {m1}
    CardNumber = {a, b}
    Permission = {1}
    CardSlotCount = 2
    Upper <- MCUpper
    EmptyTag = {}
    InitialCards <- MCImportedOnly
    InitialBoards <- MCBoardAgrees
    Recoveries = {"serving"}
    MaxEdits = 0
    MaxOutages = 1
    MaxFaults = 0

SPECIFICATION Spec
PROPERTY OnlyRevokedCardsAreCleared
CHECK_DEADLOCK FALSE
