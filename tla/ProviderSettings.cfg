SPECIFICATION Spec
CONSTANTS
    k1 = k1
    None = None
    Calls = {c1, c2}
    Keys = {k1}
    Adds <- MCAdds
    Edits <- MCEdits
    Configs <- MCConfigs
    Starts <- MCStarts
    MaxRows = 3
    MaxCalls = 3
INVARIANTS
    TypeOK
    ShownIsSaved
    ChainFollowsPage
PROPERTIES
    LoneRequestsAreAtomic
    AddedLast
    MigrationIsFaithful
SYMMETRY Interchangeable
CHECK_DEADLOCK FALSE
