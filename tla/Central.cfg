CONSTANTS
    d1 = d1
    d2 = d2
    d3 = d3
    Devices <- TwoDevices
    MaxDevices = 1
    Expiry = 2
    Stale = 1
    CleanupInterval = 1
    MaxStreams <- OneReconnects
    MaxFrames = 2
    Paths = {"p", "q"}
    SyncCallbacks = {"s", "t"}
    AsyncCallbacks = {"a", "b", "g", "h"}
    AnyCallbacks = {"g", "h", "t"}
    AnyPath = "any path"
    Nowhere = "nowhere"
    Debounce = 1
    Unwatched = 98
    Never = 99
    MaxEdits = 2
    MaxClock = 1
    MaxCalls = 4
    Contents <- MCContents
    Levels <- MCLevels
    Info = "info"
    Unknown = "verbose"
    Rules <- MCValues
    Limits <- MCValues
    Alerts <- MCValues
    NoRules = "none"
    Defaults <- MCDefaults
    Off = Off
    Missing = Missing
    NotSet = "notset"
    NoRead = NoRead
    Models = {"m1", "m2", "m3"}
    Targets = {"t1", "all"}
    Versions = {"1", "2"}
    MaxPerDevice = 1
    NoVersion = "none"
    ABDevices = {d1, d2, d3}
    MaxSessions = 2
    NoGroup = "none"
    NoSession = "absent"
    Keys = {"k1", "k2"}
    LimitPairs <- MCLimitPairs
    Cost = 2
    MaxElapsed = 3
    Retries = 1
    RecentMax = 2
    ListenerMax = 1
    Listeners = {"l1", "l2"}
    MaxEvents = 3
    Publishers = {1, 2}
    Handlers = {"h1", "h2"}
    MaxHistory = 1
    MaxPublications = 2
    Plugins = {"a", "b", "c"}
    Priority <- MCPriority
    Enabled = {"a", "b"}
    Critical = 50
    Disabled = {"cloud_storage", "reid_engine"}
    WithDashboard = {TRUE, FALSE}
    MaxServed = 2
    VisionPaths = {"v1", "v2"}
    NoPath = "none"
    Talkers = {d1}
    MaxTurns = 2
    MaxSteps = 2
    AlertTypes = {"q", "c"}
    Cooldowns = {1, 2}
    NoRule = 99
    MaxPosting = 2
    DownloadRuns = 3
    Cameras = {d1, d2}
    ClassNames = {"person", "car"}
    Vectors = {"u", "v"}
    Cosine <- MCCosine
    Similarity = 85
    TimeWindow = 1
    MaxTime = 4
    MaxFeatures = 3
SPECIFICATION CentralSpec
INVARIANTS SilentSessionsExpire StreamKeepsSession
    NothingMissed ReloadIsRestart LimitPassedByRollbackOnly WithinEnvelope
    StoreFollowsEvents EveryHandlerOnce InitializedAreReady ServingNeedsAll
    EngineAnswers TracksCrossCameras
PROPERTIES GroupsSticky CooldownKept WholeStaysWhole
CHECK_DEADLOCK FALSE
