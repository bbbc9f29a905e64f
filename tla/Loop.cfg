\* A worker's loop with two posters, and the main loop, which only its own
\* thread posts to and its idle callback stops.
SPECIFICATION FairSpec
CONSTANTS
    p1 = p1
    p2 = p2
    n1 = n1
    n2 = n2
    c1 = c1
    c2 = c2
    Posters <- MCPosters
    Nodes <- MCNodes
    Closures <- MCClosures
    NoTask = NoTask
    MsgBytes = 2
    ReadBytes = 3
    PipeCap = 4
INVARIANTS
    NoLostWakeup
PROPERTIES
    ImplementsService
    StopEnds
    PostersReturn
\* run() returns after requestStop and posters may stop posting.
CHECK_DEADLOCK FALSE
