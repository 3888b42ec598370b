SPECIFICATION Spec
CONSTANTS
    Configs <- GVisorDeferred
    Kills <- None
    MayCrash = FALSE
    CliStarts = FALSE
INVARIANTS
    ExecWaitsForStart
CHECK_DEADLOCK FALSE
