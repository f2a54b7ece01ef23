SPECIFICATION FairSpec
CONSTANTS
    Requests = {r1, r2, r3}
    N = 3
    Free = {3}
INVARIANTS
    StatsBalance
    FallbackIsEarned
    ExhaustedIsNotCompleted
PROPERTY RequestsEnd
CHECK_DEADLOCK FALSE
