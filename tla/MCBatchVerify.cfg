SPECIFICATION FairSpec
CONSTANTS
    DIDs = {d1, d2}
    MaxLen = 5
    MaxLong = 8
    MaxMixed = 4
    OneDid = d1
    Batches <- MCBatches
    WeightsMayCancel = TRUE
INVARIANTS
    TypeOK
    VerdictPartitions
    HonestNeverBlamed
    FaultyIsolated
    ChecksBounded
    ChecksLogarithmic
    BlamedGetNoSession
PROPERTIES
    Terminates
    ImplementsClassification
CHECK_DEADLOCK FALSE
