SPECIFICATION Spec
CONSTANTS
    Drones = {d1, d2}
    User = user
    UserHost = h1
    DroneHost = h1
    MaxUsers = 1
    MaxIncarnations = 1
    MaxRestarts = 0
    Crashes = TRUE
    Timeouts = FALSE
    NumDronesArg = 2
INVARIANTS
    NoLostWakeup
CHECK_DEADLOCK FALSE
