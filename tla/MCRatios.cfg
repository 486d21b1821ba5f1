SPECIFICATION Spec
CONSTANTS
    Assets = {a1, a2, a3}
    MaxCount = 2
    NULL = NULL
INVARIANTS
    RatioIsShare
    TotalBetween
PROPERTIES
    HitsRaiseMissesLower
