SPECIFICATION FairSpec
CONSTANTS
    j1 = j1
    j2 = j2
    user = user
    guest = guest
    Jobs = {j1}
    Agents = {a1, a2}
    Subjects = {guest}
    SubjectOf <- GuestSubjectOf
    Public = {j1}
    Smoke = {}
    ExemptSubjects = {}
    MaxJobsPerDay <- GuestLimits
    MaxFaults = 3
    None = None
INVARIANTS
    TypeOK
PROPERTIES
    LeaseIsExclusive
    NothingDeadRequeued
    ImplementsBoard
    EveryJobSettles
CHECK_DEADLOCK FALSE
