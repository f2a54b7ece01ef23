SPECIFICATION Spec
CONSTANTS
    Requests = {r1, r2}
    N = 3
    Free = {2}
INVARIANT TriedFromTheTop
CHECK_DEADLOCK FALSE
