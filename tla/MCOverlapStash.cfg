SPECIFICATION Spec
CONSTANTS
    Drones = {d1}
    User = user
    UserHost = h1
    DroneHost = h1
    MaxUsers = 2
    MaxIncarnations = 1
    MaxRestarts = 0
    Crashes = FALSE
    Timeouts = TRUE
    NumDronesArg = 1
INVARIANTS
    DataDecrypts
CHECK_DEADLOCK FALSE
