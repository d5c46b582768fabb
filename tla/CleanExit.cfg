CONSTANTS
    QUEUE_SIZE = 2
    SKIP_N_FRAMES = 0
    Formats <- MCFormats
    QUEUE_LIMIT = 1
    SharedInput = FALSE
    MaxFrames = 2
SPECIFICATION ServerFairSpec
PROPERTIES
    ExitsCleanly
CHECK_DEADLOCK FALSE
