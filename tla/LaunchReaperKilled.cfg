SPECIFICATION FairSpec
CONSTANTS
    Configs <- NativeRun
    Kills <- ChildKill
    MayCrash = FALSE
    CliStarts = FALSE
PROPERTIES
    ChildDeathDetected
CHECK_DEADLOCK FALSE
