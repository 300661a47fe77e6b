CONSTANTS
    pipeline = pipeline
    NoResult = NoResult
    Threads <- PipelineThread
    Callers = {"coordinator"}
    Controls = {}
    CorruptResults = {}
    CacheEntries = 3
    MaxAttempts = 2
    Flaky = TRUE
    MaxResults = 5
    MaxOutages = 3
SPECIFICATION UFairSpec
PROPERTY BufferDrains
CHECK_DEADLOCK FALSE
