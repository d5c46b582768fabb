CONSTANTS
    QUEUE_LIMIT = 1
    SharedInput = TRUE
    MaxFrames = 4
SPECIFICATION IPFairSpec
PROPERTIES
    QueuedFrameIsDealtWith
CHECK_DEADLOCK FALSE
