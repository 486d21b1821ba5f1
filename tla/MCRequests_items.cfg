SPECIFICATION FairSpec
CONSTANTS
    Workers = {w1}
    Silent = {}
    Databases = {d1, d2}
    Versions = {90000, 90200, 90600}
    MaxConnections = 2
    Addresses = {"address"}
    HolesIn <- Queries
    Items <- EveryItem
INVARIANTS
    TypeOK
    OneConnection
    PointersSafe
    LeakLedger
    AnswerWellFormed
    WideComplete
    BindMatches
    StatementFitsVersion
    CountsApplications
PROPERTIES
    ImplementsService
    ImplementsWalk
    EveryRequestAnswered
