CONSTANTS
    InSizes <- MCInSizes
    OutSizes <- MCOutSizes
    K = 256
SPECIFICATION ResizeSpec
INVARIANTS
    BlankOnlyForLines
    RampPreserved
    RedAsGrey
CHECK_DEADLOCK FALSE
