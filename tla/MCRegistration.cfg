SPECIFICATION FairSpec
CONSTANTS
    MaxRuns = 3
    MaxArg = 2
    UserIds = {"User-01", "User-02"}
INVARIANTS
    UserFileMeansComplete
    ParamsAreNewest
PROPERTIES
    RunsComplete
CHECK_DEADLOCK FALSE
