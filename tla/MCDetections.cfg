CONSTANTS
    RowValues <- MCRowValues
    Rows = 3
    MaxFrames = 3
SPECIFICATION DetSpec
INVARIANTS
    KeptDoNotOverlap
    LostOnlyToBetter
    ConfidenceNotOverstated
    BatchOfThisFrame
    FrameIdsInOrder
CHECK_DEADLOCK FALSE
