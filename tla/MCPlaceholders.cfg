SPECIFICATION Spec
CONSTANTS
    NULL = NULL
    Oids <- MCOids
    HolesIn <- MCHolesIn
    Addresses <- MCAddresses
    Requests <- MCRequestsOf
    Backends <- MCBackends
INVARIANTS
    ParamsTypeOK
    FindsWhatIsAsked
    QueryParamsInOrder
    ScriptAgrees
