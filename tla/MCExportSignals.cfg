\* The points of real snapshots, above and below the point cap, and every room for them.
SPECIFICATION SignalsSpec
CONSTANTS
    MaxListed = 110
    MaxMetricPoints = 60
    HealthPoints = 18
    Windows <- OneWindow
    Collections <- EveryCollection
INVARIANTS PayloadTypeOK NothingUncounted CutIsShallow HealthSurvives EverySourceTold OneSeriesOnePoint
PROPERTIES TrimEnds
CHECK_DEADLOCK FALSE
