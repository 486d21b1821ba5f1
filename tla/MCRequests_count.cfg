SPECIFICATION Spec
CONSTANTS
    Workers = {w1}
    Silent = {}
    Databases = {d1}
    Versions = {90200}
    MaxConnections = 2
    Addresses = {"address"}
    HolesIn <- Queries
    Items <- CountItems
INVARIANT MonitoringNotCounted
