SPECIFICATION SubmitFairSpec
CONSTANTS
    MaxAttempts = 2
    MaxPolls = 2
    MaxLost = 1
INVARIANTS
    AttemptsApart
    StuckNeedsFailure
PROPERTIES
    TaskFollowed
    PollingEnds
CHECK_DEADLOCK FALSE
