\* One to three workers, timely threads.
SPECIFICATION FairSpec
CONSTANTS
    MinThreads = 1
    MaxThreads = 3
    ScaleUp = 2
    ScaleDown = 1
    ScaleDownDelay = 2
    MaxWorkerId = 4
    MaxConnections = 5
    NoLoop = NoLoop
    MainLoop = MainLoop
    Timely = TRUE
INVARIANTS
    PoolBounds
    HeldLoopAlive
    ReclaimedIdle
    GaugesCurrent
PROPERTIES
    ScaleUpHonored
    DrainingEnds
    StopReturnsOnceRunning
\* The pool ends in "stopped".
CHECK_DEADLOCK FALSE
