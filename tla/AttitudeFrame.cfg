CONSTANTS
    Places <- MCPlaces
    Attitudes <- MCAttitudes
    MaxTime = 3
    MaxOffset = 1
    MaxDelay = 1
SPECIFICATION VBSpec
INVARIANTS
    AttitudeInFrameOfPosition
CHECK_DEADLOCK FALSE
