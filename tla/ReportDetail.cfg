SPECIFICATION FairSpec
CONSTANTS
    t1 = t1
    t2 = t2
    Task <- MCTask
    ReportsOf <- MCReportsOf
    NoDetail = NoDetail
    MaxInFlight = 2
    MaxFailures = 1
    MaxJumps = 1
INVARIANTS
    PageConsistent
    WrongReportNeedsLateAnswer
    
    RiskOfItsStatement
PROPERTY
    EndArrives
CHECK_DEADLOCK FALSE
