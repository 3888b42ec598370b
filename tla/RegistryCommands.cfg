SPECIFICATION FairSpec
CONSTANTS
    a = a
    b = b
    m1 = m1
    p1 = p1
    p2 = p2
    NoPid = NoPid
    Ids <- TwoIds
    NameOf <- OneName
    Split <- OnlyA
    EagerReuse = FALSE
    Pids <- OnePid
    Cmds <- OneCmd
    MaxForks = 3
INVARIANTS
    TypeOK
    NoStaleSignal
    
    RemovedOnlyDead
    
PROPERTIES
    CommandsReturn
CHECK_DEADLOCK FALSE
