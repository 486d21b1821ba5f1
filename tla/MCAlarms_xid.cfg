SPECIFICATION AlarmSpec
CONSTANTS
    NULL = NULL
    IntBits = 4
    LongBits = 10
    FloatDigits = 2
    Figures <- MCFigures
    PG_PXACT_WARN = 80
    PG_PXACT_CRIT = 90
    PG_XID_WARN = 500
    PG_XID_CRIT = 510
INVARIANT
    XidsNearExhaustionWatched
