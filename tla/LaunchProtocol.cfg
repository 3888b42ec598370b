SPECIFICATION FairSpec
CONSTANTS
    Configs <- FewConfigs
    Kills <- InitKill
    MayCrash = TRUE
    CliStarts = FALSE
INVARIANTS
    NetworkOutlivesWorkload
    Recorded
PROPERTIES
    RefinesLifecycle
    CreateReturns
    RunReturns
    
CHECK_DEADLOCK FALSE
