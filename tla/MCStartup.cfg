SPECIFICATION FairStartSpec
CONSTANTS
    Names = {1, 2, 3, 4, 5}
    MaxEntries = 4
    Levels = {1, 4}
INVARIANTS
    StartTypeOK
    NeverCallsNull
    RefusalReported
    LogsAtLevel
    TableSorted
    SearchSound
    LookupCorrect
    StartsOnGoodConfigOnly
PROPERTIES
    StartEnds
    LookupReturns
