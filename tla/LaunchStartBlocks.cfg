SPECIFICATION FairSpec
CONSTANTS
    Configs <- NativeDeferred
    Kills <- None
    MayCrash = FALSE
    CliStarts = FALSE
PROPERTIES
    StartReturns
CHECK_DEADLOCK FALSE
