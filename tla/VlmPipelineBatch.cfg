CONSTANTS
    FailureThreshold = 2
    HalfOpenMax = 1
    MaxQueue = 2
    MaxBatch = 3
    MaxItems = 5
SPECIFICATION Spec
INVARIANT OpensOnFailures
CHECK_DEADLOCK FALSE
