\* Three connections on two loops, one of which may be deleted.
SPECIFICATION Spec
CONSTANTS
    c1 = c1
    c2 = c2
    c3 = c3
    l1 = l1
    l2 = l2
    None = None
    Connections <- MCConnections
    Loops <- MCLoops
SYMMETRY MCSymmetry
INVARIANTS
    OnlyCutsFail
    FoundAndWatched
    StraysHarmless
\* The process ends when epoll_ctl fails.
CHECK_DEADLOCK FALSE
