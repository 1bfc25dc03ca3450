CONSTANTS
    m1 = m1
    m2 = m2
    a = a
    b = b
    Member = {m1}
    CardNumber = {a, b}
    Permission = {1}
    CardSlotCount = 2
    Upper <- MCUpper
    EmptyTag = {}
    InitialCards <- MCInitialCards
    InitialBoards <- MCInitialBoards
    Recoveries = {"runbook", "serving", "import"}
    MaxEdits = 2
    MaxOutages = 2
    MaxFaults = 1

SPECIFICATION FairSpec
PROPERTY Converges
CHECK_DEADLOCK FALSE
