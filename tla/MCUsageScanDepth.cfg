\* Two or three reported levels over a tree that does not change.
SPECIFICATION Spec
CONSTANTS
    Nodes <- TreeNodes
    Above <- TreeAbove
    Dirs <- TreeDirs
    Inode <- TreeInode
    Size <- TreeSize
    Devices = {"disk", "other"}
    Roots = {"/", "/3"}
    None = None
    Late = {}
    Scenarios <- DeepScenarios
    HasDeadline = FALSE
    MaxChurn = 0
INVARIANTS DepthChangesNoCount
CHECK_DEADLOCK FALSE
