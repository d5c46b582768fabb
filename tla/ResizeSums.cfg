CONSTANTS
    InSizes <- MCInSizes
    OutSizes <- MCOutSizes
    K = 256
SPECIFICATION ResizeSpec
INVARIANTS
    SumBelow256
CHECK_DEADLOCK FALSE
