SPECIFICATION Spec
CONSTANTS
    Drones = {d1, d2}
    User = user
    UserHost = h1
    DroneHost = h1
    MaxUsers = 1
    MaxIncarnations = 2
    MaxRestarts = 0
    Crashes = TRUE
    Timeouts = FALSE
    NumDronesArg = 2
SYMMETRY DroneSymmetry
INVARIANTS
    TypeOK
    ZipAligned
    Mu2ReachesItsDrone
    AcknowledgedIsKnown
    OneResponsePerDrone
    WokenMeansAllAnswered
CHECK_DEADLOCK FALSE
