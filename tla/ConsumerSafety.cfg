SPECIFICATION Spec
CONSTANTS
    pg = pg
    udal = udal
    Consumer <- MCConsumer
    Topic <- MCTopics
    BatchSize = 2
    MaxCrashes = 1
    MaxFailures = 1
INVARIANTS
    TypeOK
    ConsumedAccounted
    ClearDropsNothingElse
    BufferedOnceAndWritten
PROPERTY
    CommittedNeverRewinds
CHECK_DEADLOCK FALSE
