CONSTANTS
    t1 = t1
    t2 = t2
    NoResult = NoResult
    Threads <- TwoThreads
    Controls <- AllControls
    CorruptResults <- SomeCorrupt
    CacheEntries = 2
    MaxAttempts = 1
    Flaky = TRUE
    MaxResults = 3
    MaxOutages = 2
    d1 = d1
    d2 = d2
    NoCommand = NoCommand
    Devices <- TwoDevices
    MaxCommands = 3
    Stays = {TRUE, FALSE}
SPECIFICATION ClientSpec
INVARIANTS NoDuplicate ChannelUnderStream StreamOutlivesReader ExecutedOnceInOrder
PROPERTIES CallReturns QuietOnceStopped ExitsOnceServerStops
CHECK_DEADLOCK FALSE
