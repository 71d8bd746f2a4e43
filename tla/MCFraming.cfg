SPECIFICATION FairSpec
CONSTANTS
    HeaderSize = 4
    BodySizes = {1, 2, 6}
    MaxMessages = 3
    Window = 5
    Timeouts = TRUE
INVARIANTS
    FramesIntact
    NothingLostAtTheEnd
PROPERTIES
    ImplementsChannel
    MessageArrives
    EndIsNoticed
CHECK_DEADLOCK FALSE
