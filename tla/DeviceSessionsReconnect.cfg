CONSTANTS
    d1 = d1
    d2 = d2
    Devices <- TwoDevices
    MaxDevices = 2
    Expiry = 2
    Stale = 1
    CleanupInterval = 1
    MaxStreams <- OneReconnects
    MaxFrames = 2
SPECIFICATION Spec
INVARIANT ActiveDevicesListed
CHECK_DEADLOCK FALSE
