\* Five clusters, three lists of up to two pages, two changes and one failure anywhere.
SPECIFICATION Spec
CONSTANTS
    Pods = {1, 2}
    Claims = {1, 2, 3}
    Volumes = {1, 2, 3, 4, 5}
    Uses <- Mounted
    Namespace <- Spaces
    PathOf <- Located
    Nodes <- HostNodes
    Above <- HostAbove
    Dirs = {1, 2, 3, 4, 5, 6, 7, 9, 10, 11}
    Device <- HostDevice
    Roots = {1, 9}
    Starts <- SomeStarts
    LimitChoices <- SomeLimits
    PageSize = 2
    MaxChurn = 2
    MaxFaults = 1
    None = None
INVARIANTS TypeOK CompleteCoversVolumes EachByteOnce RollupHoldsItsVolumes
CHECK_DEADLOCK FALSE
