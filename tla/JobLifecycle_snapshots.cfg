SPECIFICATION Spec
CONSTANTS
    j1 = j1
    j2 = j2
    user = user
    guest = guest
    Jobs = {j1}
    Agents = {a1}
    Subjects = {guest}
    SubjectOf <- GuestSubjectOf
    Public = {j1}
    Smoke = {}
    ExemptSubjects = {}
    MaxJobsPerDay <- GuestLimits
    MaxFaults = 0
    None = None
INVARIANT ClaimCarriesSnapshots
CHECK_DEADLOCK FALSE
