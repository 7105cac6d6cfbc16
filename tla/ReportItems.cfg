SPECIFICATION FairSpec
CONSTANTS
    t1 = t1
    t2 = t2
    Task <- MCTask
    ReportsOf <- MCReportsOf
    NoDetail = NoDetail
    MaxInFlight = 1
    MaxFailures = 0
    MaxJumps = 0
INVARIANT ItemsShown
CHECK_DEADLOCK FALSE
