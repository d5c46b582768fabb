CONSTANTS
    QUEUE_SIZE = 2
    SKIP_N_FRAMES = 0
    Formats <- MCFormats
    QUEUE_LIMIT = 1
    SharedInput = FALSE
    MaxFrames = 3
SPECIFICATION ServerSpec
INVARIANTS
    HelperOutlivesItsThreads
PROPERTIES
    ResultsInCameraOrder
    ServerImplementsRing
    ServerImplementsPipeline
CHECK_DEADLOCK FALSE
