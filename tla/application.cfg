SPECIFICATION Spec
CONSTANTS
    Count = 4
    Async <- AsyncServices
    Server = 3
    MayFail <- DatabaseAndConfig
    SocketMayFail = TRUE
    MaxRequests = 2
    Slow <- AsyncServices
    MaxLaunches = 2
    MaxCrashes = 1
    RestartOnExit = FALSE
INVARIANTS
    ApplicationTypeOK
    RunsInOrder
    RequestsFindServices
    SignalsAreTrue
PROPERTIES
    ManagerIsFreeAgain
    ExitEnds
CHECK_DEADLOCK FALSE
