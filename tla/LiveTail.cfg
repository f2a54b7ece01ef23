SPECIFICATION FairSpec
CONSTANTS
    MaxLog = 2
    MaxText = 3
    Limit = 2
    Full = 2
    MaxRuns = 2
    MaxFaults = 1
INVARIANTS
    TypeOK
    LogIsShownOnce
PROPERTIES
    PercentFallsOnlyWhenReportsCross
    LinesArrive
CHECK_DEADLOCK FALSE
