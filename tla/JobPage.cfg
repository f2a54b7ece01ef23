SPECIFICATION FairSpec
CONSTANTS
    MaxLoads = 2
    MaxRuns = 1
    MaxArrivals = 1
    MaxFaults = 1
INVARIANTS
    TypeOK
    LinksAgreeWithZip
    StatsComeWithTheEnd
PROPERTIES
    PageCatchesUp
CHECK_DEADLOCK FALSE
