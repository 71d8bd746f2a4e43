SPECIFICATION FairSpec
CONSTANTS
    Drones = {d1, d2}
    User = user
    UserHost = h1
    DroneHost = h1
    MaxUsers = 1
    MaxIncarnations = 1
    MaxRestarts = 1
    Crashes = TRUE
    Timeouts = FALSE
    NumDronesArg = 2
PROPERTIES
    RequestsAnswered
    AllDronesGetSessions
    FailsOnlyByRestart
CHECK_DEADLOCK FALSE
