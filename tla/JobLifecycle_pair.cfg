SPECIFICATION Spec
CONSTANTS
    j1 = j1
    j2 = j2
    user = user
    guest = guest
    Jobs = {j1, j2}
    Agents = {a1}
    Subjects = {user}
    SubjectOf <- PairSubjectOf
    Public = {}
    Smoke = {}
    ExemptSubjects = {user}
    MaxJobsPerDay <- PairLimits
    MaxFaults = 1
    None = None
SYMMETRY PairSymmetry
INVARIANTS
    SnapshotsMatchRows
    QuotaAccounting
    QuotaCeiling
    RetentionConsistent
CHECK_DEADLOCK FALSE
