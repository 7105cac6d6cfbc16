SPECIFICATION Spec
CONSTANTS
    t1 = t1
    t2 = t2
    t3 = t3
    Task <- MCTask
    Newest <- MCNewest
    Matching <- MCMatching
    TimeField = "today"
    QuickFilter = {"today"}
    Size = {1, 2}
    DefaultSize = 2
    NoTask = NoTask
    MaxLoads = 4
    MaxHides = 1
    MaxFailures = 1
INVARIANTS
    PageConsistent
    ShownIsCurrent
    EmptyPageNeedsCrossing
    RemovedNotSelected
CHECK_DEADLOCK FALSE
