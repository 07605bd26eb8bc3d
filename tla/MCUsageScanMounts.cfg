\* A container scans the host at ROOTFS; the host has its root file system mounted twice.
SPECIFICATION Spec
CONSTANTS
    Nodes <- TreeNodes
    Above <- TreeAbove
    Dirs <- TreeDirs
    Inode <- TreeInode
    Size <- TreeSize
    Devices = {"disk", "overlay"}
    Roots = {"/", "/3"}
    None = None
    Late = {}
    Scenarios <- ContainerScenarios
    HasDeadline = FALSE
    MaxChurn = 0
INVARIANTS MountsCountOnce
CHECK_DEADLOCK FALSE
