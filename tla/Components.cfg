SPECIFICATION Spec
CHECK_DEADLOCK FALSE
CONSTANTS
    Parts = {"launch", "seccomp", "usermap", "devices", "workspace", "topology", "checkpoint", "image", "record"}
    LaunchRequests <- SmallRequests
    Hosts <- SmallHosts
    Links <- HostLinks
    MaxMappedId = 2
    MaxTolerated = 1
    RootfsDirs = {"bin", "usr", "etc"}
    WordShift = 2
    BitmapWords = 5
    ArgValues = {0, 1, 2, 3}
    Policies <- SmallPolicies
    MapCases <- SmallMapCases
    IdSpace = 10
    MaxMapping = 3
    RemapBase = 5
    RemapCount = 3
    HostDevices <- SmallDevices
    GpuConfigs <- SmallGpus
    MaxHotplugs = 1
    WorkspacePaths <- SmallPaths
    HostTrees <- SmallHostTrees
    WorkTrees <- SmallWorkTrees
    MaxHostEdits = 1
    Topologies <- SmallTopologies
    TopologyName <- AppName
    ServiceOrder <- SmallOrder
    Elsewhere = {}
    HostSymlinks <- HostLinkPaths
    Digests = {1, 2}
    MaxUpsets = 1
    MaxCheckpoints = 2
    MaxKeys = 2
    Limits <- TwoLimitSets
    DiffFiles <- SmallDiff
    SkippedFiles = {"dev/x"}
    MaxCommits = 2
    MaxWrites = 2
    Starters = {h, s1, s2}
    Holder = h
INVARIANTS
    AdmittedFitsRuntime
    AdmissionFailsClosed
    
    
    ContextAsSnapshotted
    
    
    
    MappingServes
    
    WorkspaceKept
    
    RestoreSound
    ImageFaithful
    
PROPERTIES
    TransitionsLegal
