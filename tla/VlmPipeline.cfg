CONSTANTS
    FailureThreshold = 2
    HalfOpenMax = 1
    MaxQueue = 2
    MaxBatch = 3
    MaxItems = 5
SPECIFICATION FairSpec
INVARIANTS UnfinishedExact HalfOpenHasTrial OpensOnRecordedFailures DrainedWhenJoined
PROPERTIES ItemsSettle DrainEnds
CHECK_DEADLOCK FALSE
