\* stop() as the unit test calls it.
SPECIFICATION FairSpec
CONSTANTS
    MinThreads = 1
    MaxThreads = 3
    ScaleUp = 2
    ScaleDown = 1
    ScaleDownDelay = 2
    MaxWorkerId = 4
    MaxConnections = 5
    NoLoop = NoLoop
    MainLoop = MainLoop
    Timely = TRUE
PROPERTIES
    StopReturns
CHECK_DEADLOCK FALSE
