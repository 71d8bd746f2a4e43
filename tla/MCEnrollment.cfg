SPECIFICATION Spec
CONSTANTS
    DroneIds = {d1, d2}
    MaxDrones = 2
    MaxBegins = 2
    MaxReplies = 2
    MaxKeys = 2
    MaxForwards = 2
INVARIANTS
    TablesAgree
    LoginIsSound
    Mu1Accepted
    AcceptedUnlessOvertaken
    KeysAgree
CHECK_DEADLOCK FALSE
