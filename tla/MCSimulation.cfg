SPECIFICATION FairSpec
CONSTANTS
    NumDrones = 2
    EnrollPort = 0
    BaseDronePort = 2
    UserPort = 4
INVARIANTS
    PortsReachTheirOwners
PROPERTIES
    LoggerSettles
    SimulationEnds
CHECK_DEADLOCK FALSE
