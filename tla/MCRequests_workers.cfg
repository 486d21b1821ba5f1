SPECIFICATION FairSpec
CONSTANTS
    w1 = w1
    w2 = w2
    Workers = {w1, w2}
    Silent = {w2}
    Databases = {d1}
    Versions = {90200}
    MaxConnections = 2
    Addresses = {"address"}
    HolesIn <- Queries
    Items <- FewItems
INVARIANTS
    CountsApplications
PROPERTIES
    EveryRequestAnswered
