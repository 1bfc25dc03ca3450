CONSTANTS
    CardSlotCount = 2
    CardNumber <- MCCardNumber
    Permission = {1, 255}
    Upper <- MCUpper
    EmptyTag = {"0"}
    DatabaseTables <- MCDatabaseTables
    BoardTables <- MCBoardTables
    SlotSets <- MCSlotSets

SPECIFICATION Spec
INVARIANT SecondPassWritesNothing
PROPERTY PassMatchesExpected
CHECK_DEADLOCK FALSE
