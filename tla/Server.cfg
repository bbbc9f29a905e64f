\* Three clients, two workers, one connection at a time and one more socket for
\* each worker that is destroying another.
SPECIFICATION FairSpec
CONSTANTS
    c1 = c1
    c2 = c2
    c3 = c3
    c4 = c4
    l1 = l1
    l2 = l2
    None = None
    Connections <- MCFewConnections
    Loops <- MCLoops
    MaxConnections = 1
    Wrap = 16
INVARIANTS
    LoadShown
    RegistryComplete
    ConnectionCap
PROPERTIES
    AdmissionExact
    ConnectionsEnd
\* The process ends on a signal, and the clients are finitely many.
CHECK_DEADLOCK FALSE
