SPECIFICATION Spec
CONSTANTS
    ada = ada
    ben = ben
    new = new
    null = null
    n1 = n1
    n2 = n2
    n3 = n3
    Member = {ada, ben, new}
    Nobody = null
    Request = {r1, r2}
    CardNumber = {n1, n2, n3}
    SlotCount = 2
    Fields = {"admin", "instructor", "orientation"}
    InitialUsers <- MCUsers
    InitialCards <- MCCards
    InitialGrants <- MCGrants
    InitialReleases <- MCReleases
    MaxRequests = 3
    MaxFaults = 1
INVARIANTS TypeOK ChosenSlotStaysFree RemovalIsAllOrNothing HoldersAreOnRecord NoRequestIsStuck
PROPERTY CardTableAsPromised
CHECK_DEADLOCK FALSE
