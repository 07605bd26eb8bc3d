\* Profiles that report one level, two or three; mount tables of every kind; files come and go,
\* calls fail, time runs out.
SPECIFICATION FairSpec
CONSTANTS
    Nodes <- TreeNodes
    Above <- TreeAbove
    Dirs <- TreeDirs
    Inode <- TreeInode
    Size <- TreeSize
    Devices = {"disk", "other"}
    Roots = {"/", "/3"}
    None = None
    Late = {5}
    Scenarios <- EveryScenario
    HasDeadline = TRUE
    MaxChurn = 1
INVARIANTS TypeOK CompleteIsExact CountedOnce FlatHardlinksCountOnce
PROPERTIES ScanEnds
CHECK_DEADLOCK FALSE
