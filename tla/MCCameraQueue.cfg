CONSTANTS
    QUEUE_SIZE = 3
    SKIP_N_FRAMES = 1
    MaxFrames = 5
    Formats <- MCFormats
SPECIFICATION CQFairSpec
INVARIANTS
    CQTypeOK
    ImageIsTheFrame
    FormatNotStale
PROPERTIES
    ChannelUntilRace
    MetadataOfALap
    ClaimsIncrease
    NothingSkippedBelowCapacity
    AcceptedFramesSpaced
    AcceptedFrameWakesWorker
CHECK_DEADLOCK FALSE
