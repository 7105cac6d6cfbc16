SPECIFICATION FairSpec
CONSTANTS
    t1 = t1
    t2 = t2
    Task <- MCTask
    Attempts = 3
    Candidates = 2
    MaxCrashes = 1
    MaxFaults = 1
INVARIANTS
    RowConsistent
    WorkersMatch
    LinkKept
PROPERTIES
    ImplementsLifecycle
    EndsUnlessBroken
CHECK_DEADLOCK FALSE
