CONSTANTS
    Places = {1, 2, 3}
    Iou <- MCIou
    ObjectClasses = {"person", "car"}
    TrackIou = 30
    CacheIou = 50
    MaxLost = 1
    Ttl = 1
    MaxDetections = 2
    MaxFrameCount = 3
SPECIFICATION TrackingSpec
INVARIANT BoxesCarryOwnTrack
CHECK_DEADLOCK FALSE
