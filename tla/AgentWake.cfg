SPECIFICATION FairSpec
CONSTANTS
    Jobs = {a, b, c}
    MaxFaults = 2
INVARIANTS
    NoLostWakeup
PROPERTY QueuedIsClaimed
CHECK_DEADLOCK FALSE
