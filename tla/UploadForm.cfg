SPECIFICATION FairSpec
CONSTANTS
    Logins = {l1}
    MaxMoves = 2
    Batches = {b1, b2}
    MaxFiles = 2
    MaxFaults = 1
INVARIANTS
    TypeOK
    OneJobPerFile
    JobsStayPrivate
    SpinnerIsTrue
PROPERTIES
    BatchesEnd
    GuestGetsToken
    HeaderComesBack
CHECK_DEADLOCK FALSE
