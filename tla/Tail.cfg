SPECIFICATION TailFairSpec
CONSTANTS
    MaxFiles = 2
    MaxSize = 2
    MaxCrashes = 2
    MaxSaveFaults = 1
    MaxSendFaults = 1
INVARIANTS
    SkipsExplained
PROPERTY
    LineSent
CHECK_DEADLOCK FALSE
