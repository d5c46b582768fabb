CONSTANTS
    Modes <- MCModes
    Helpers = {"YoloV8", "Detection", "Classification", "PoseNet", "FastDepth", "DeepLab", "Gate"}
    Inputs <- MCInputs
    YOLO_SIDE = 2
    BORDER = 1
    MaxReconnects = 2
SPECIFICATION FmtSpec
INVARIANTS
    AccessesFit
    PublishedIsWholeImage
CHECK_DEADLOCK FALSE
