\* Two roots of which one is configured twice over; every cap; files come and go, calls fail
\* and a link may lead nowhere.
SPECIFICATION Spec
CONSTANTS
    Nodes <- TreeNodes
    Above <- TreeAbove
    Dirs = {1, 3, 6, 7}
    Links = {9}
    Configured = {1, 3, 6}
    Foreign = {7, 8}
    Late = {5}
    FaultChoices <- OneFault
    LimitChoices <- EveryLimit
    MaxChurn = 1
    None = None
INVARIANTS TypeOK TotalBudgetKept NoChildIsStarved RootIsExact
CHECK_DEADLOCK FALSE
