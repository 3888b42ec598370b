SPECIFICATION Spec
CONSTANTS
    a = a
    b = b
    m1 = m1
    p1 = p1
    p2 = p2
    NoPid = NoPid
    Ids <- TwoIds
    NameOf <- OneName
    Split <- OnlyA
    EagerReuse = FALSE
    Pids <- TwoPids
    Cmds <- NoCmd
    MaxForks = 2
INVARIANTS
    UniqueNames
CHECK_DEADLOCK FALSE
