CONSTANTS
    MaxSources = 2
    Buffers = {"b1", "b2"}
    Slots = {"m1"}
    NoFrame = NoFrame
    MaxBuffered = 1
    PostFrames = 1
SPECIFICATION LoopFairSpec
PROPERTY LivingSourcesServed
CHECK_DEADLOCK FALSE
