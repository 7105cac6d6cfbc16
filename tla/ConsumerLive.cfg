SPECIFICATION FairSpec
CONSTANTS
    pg = pg
    udal = udal
    Consumer <- MCConsumer
    Topic <- MCShort
    BatchSize = 2
    MaxCrashes = 1
    MaxFailures = 0
PROPERTIES
    BufferDrains
    HeldReleased
CHECK_DEADLOCK FALSE
