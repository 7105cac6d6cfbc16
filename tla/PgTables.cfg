SPECIFICATION Spec
CONSTANTS
    p1 = p1
    p2 = p2
    Pid <- MCPid
    Category <- MCEvery
    MaxStatement = 3
    MaxExpiry = 1
    MaxLost = 1
INVARIANTS
    TablesConsistent
    WrongCostExplained
PROPERTY
    ImplementsPairing
CHECK_DEADLOCK FALSE
