SPECIFICATION Spec
CONSTANTS
    r1 = r1
    r2 = r2
    Id <- MCId
    MaxUse = 3
    MaxLost = 1
INVARIANTS
    TablesConsistent
    RightCost
PROPERTY
    ImplementsPairing
CHECK_DEADLOCK FALSE
