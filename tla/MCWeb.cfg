CONSTANTS
    ada = ada
    ben = ben
    email = email
    card = card
    None = None
    Member = {ada, ben}
    MaxClicks = 2
    MaxEnds = 1
    Email = {email}
    MaxSends = 2
    Role = {"instructor"}
    MaxRequests = 3
    MaxOthers = 1
    Poll = 2
    Timeout = 3
    Stale = 0
    Card = {card}
    MaxLost = 1

SPECIFICATION FairSpec
INVARIANT ShownMemberHoldsTheCookie
INVARIANT ScreenIsEarned
INVARIANT TilesAreRecent
PROPERTY OnlyAskedIsWritten
PROPERTY NothingWaitsForEver
CHECK_DEADLOCK FALSE
