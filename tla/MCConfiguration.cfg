SPECIFICATION ConfSpec
CONSTANTS
    InitialFiles <- MCInitialFiles
    InstalledSets <- MCInstalledSets
    TypedModels <- MCTypedModels
    Pipes = { "tracking" }
    MaxRuns = 3
    MaxCrashes = 1
    BurstLimit = 1
INVARIANTS
    OwnFileStaysParsable
    LostOnlyFromIncomplete
    FileStaysCoherent
    ServesItsFamily
PROPERTIES
    ChosenModelServes
CHECK_DEADLOCK FALSE
