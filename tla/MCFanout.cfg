SPECIFICATION Spec
CONSTANTS
    MaxAny = 3
    MaxLong = 14
    Health <- MCHealth
    Second = 5
    MaxDelay = 1
INVARIANTS
    OneSilentIsTolerated
    VerifiedHasAll
    DataIsRead
    StaleOnlyAfterAbort
CHECK_DEADLOCK FALSE
