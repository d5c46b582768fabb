CONSTANTS
    QUEUE_LIMIT = 1
    SharedInput = TRUE
    MaxFrames = 5
SPECIFICATION SegFairSpec
INVARIANTS
    IPTypeOK
    ResultOwnership
    InputNotOlderThanFrame
    LoneFrameIsExact
    PictureNotOlder
    OverlaysAreEarlier
PROPERTIES
    PipelineIsOrderedChannel
    QueuedFrameWakesInference
    ResultIsTaken
CHECK_DEADLOCK FALSE
