SPECIFICATION FairSpec
CONSTANTS
    NULL = NULL
    NoDb = NoDb
    d1 = d1
    d2 = d2
    d3 = d3
    Databases = {d1, d2, d3}
    Length <- NameLength
    ConnLengths = {0, 2}
    MaxRows = 3
    Slack = 3
INVARIANTS
    StaysInBlock
    ConnectsAsMeant
    VisitsEveryDatabase
PROPERTIES
    ImplementsWalk
