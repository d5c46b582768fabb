CONSTANTS
    Places <- MCPlaces
    Attitudes <- MCAttitudes
    MaxTime = 3
    MaxOffset = 1
    MaxDelay = 1
SPECIFICATION VBSpec
INVARIANTS
    MeasuredFromOrigin
    SpeedPlausible
    AttitudeFromReference
CHECK_DEADLOCK FALSE
