SPECIFICATION Spec
CHECK_DEADLOCK FALSE
CONSTANTS
    Parts = {"supervise"}
    Workload = w
    Procs = {w, p1, p2}
    MaxTries = 2
    Requests <- MemoryAndPids
    MaxPolls = 2
    MaxForwards = 2
    Supervisions <- ServiceAccount
    MaxAttempts = 2
    Retries = 2
    MaxProbeRounds = 2
    MaxSent = 1
    HookLists <- SmallHooks
    BusyRetries = 2
    HookTimeout = 2
    Target <- LogTarget
    LogPids <- SmallPids
    StalePidTtl = 1
    MaxClock = 3
    MaxRecords = 2
    Containers = {c1, c2}
    Addresses = {"a1", "a2"}
    MaxFaults = 2
    HostValue = "0"
INVARIANTS
    HealthyIsLeftAlone
