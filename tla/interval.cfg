CONSTANTS
    Requests = {0, 1, 2, 5, 9, 17}
    Unit = 4
    Half = 32
    Default = 3
    MaxSets = 3
SPECIFICATION FairSpec
INVARIANTS IntervalTypeOK LatestIntervalWins IntervalAtLeastMinimum
PROPERTIES NewIntervalTakesEffect
CHECK_DEADLOCK FALSE
