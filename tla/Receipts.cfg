SPECIFICATION FairReceipts
CONSTANTS
    Jobs = {j1, j2}
    Polls = {p1, p2}
INVARIANTS
    LossNeedsRace
PROPERTY DeadArePruned
CHECK_DEADLOCK FALSE
