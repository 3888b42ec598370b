SPECIFICATION Spec
CONSTANTS
    Configs <- Admitted
    Kills <- BothKills
    MayCrash = TRUE
    CliStarts = TRUE
INVARIANTS
    TypeOK
    Confined
    FailedCreateLeavesNoProcess
    NoOrphanAfterStart
    NativeWaitsForStart
    IInv
CHECK_DEADLOCK FALSE
