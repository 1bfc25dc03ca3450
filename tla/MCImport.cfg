CONSTANTS
    i1 = i1
    i2 = i2
    null = null
    text = text
    bad = bad
    Importer = {i1, i2}
    Null = null
    Email <- MCEmail
    CanonicalEmail <- MCCanonicalEmail
    BlankEmail = ""
    Number <- MCNumber
    Canonical <- MCCanonical
    Unreadable = bad
    NotDecimal = text
    IntegerLimit = 10
    HighestSlot = 2
    WebEmail = {"ada", "cat"}
    Starts <- MCStarts
    MaxEdits = 1
    MaxSignUps = 1
    MaxFaults = 1
SPECIFICATION FairSpec
INVARIANTS TypeOK AllOrNothing DoorIsAsItWas NothingIsLostUnreported PreflightIsEnough
PROPERTIES EveryImportEnds
CHECK_DEADLOCK FALSE
