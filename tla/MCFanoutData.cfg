SPECIFICATION Spec
CONSTANTS
    MaxAny = 2
    MaxLong = 1
    Health <- MCHealth
    Second = 5
    MaxDelay = 1
INVARIANTS
    SleepIsEnough
CHECK_DEADLOCK FALSE
