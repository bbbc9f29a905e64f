\* A worker is deleted while the main thread accepts connections.
SPECIFICATION Spec
CONSTANTS
    c1 = c1
    c2 = c2
    c3 = c3
    l1 = l1
    l2 = l2
    None = None
    Connections <- MCConnections
    Loops <- MCLoops
INVARIANTS
    ReclaimCutsNone
\* The process ends when epoll_ctl fails.
CHECK_DEADLOCK FALSE
