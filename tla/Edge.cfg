CONSTANTS
    small = small
    large = large
    oversized = oversized
    NoItem = NoItem
    Items <- MCItems
    Bytes <- MCBytes
    Unparsable <- MCUnparsable
    MaxEntries = 3
    MaxBytes = 4
    MaxEnqueues = 6
    pipeline = pipeline
    NoResult = NoResult
    Threads <- PipelineThread
    Callers = {"coordinator", "other"}
    Controls = {}
    CorruptResults = {}
    CacheEntries = 3
    MaxAttempts = 3
    Flaky = TRUE
    MaxResults = 8
    MaxOutages = 4
    MaxSources = 2
    Buffers = {"b1", "b2"}
    Slots = {"m1", "m2"}
    NoFrame = NoFrame
    MaxBuffered = 2
    PostFrames = 2
SPECIFICATION EdgeSpec
INVARIANTS BytesExact WithinLimits HoldsNewest NoSilentLoss DrainedWhenStreaming
    BuffersReturned
PROPERTIES ImplementsLossyBuffer EnqueueReturns LocalModeIsFinal
    InferenceUndisturbed SourcesTakeTurns RecordingsEnd
CHECK_DEADLOCK FALSE
