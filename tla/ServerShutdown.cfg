\* SIGTERM while a connection is open.
SPECIFICATION Spec
CONSTANTS
    c1 = c1
    c2 = c2
    c3 = c3
    c4 = c4
    l1 = l1
    l2 = l2
    None = None
    Connections <- MCConnections
    Loops <- MCLoops
    MaxConnections = 2
    Wrap = 16
INVARIANTS
    DrainBeforeExit
\* The process ends on a signal, and the clients are finitely many.
CHECK_DEADLOCK FALSE
