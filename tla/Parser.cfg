\* Every way to cut a few streams of requests, through buffers that have to
\* grow, to be compacted and to start again.
SPECIFICATION BufferedSpec
CONSTANTS
    Scripts <- MCScripts
    MaxLine = 4
    MaxHeaders = 2
    MaxBody = 2
    ReadMax = 12
    MaxPipelined = 2
    Zero = Zero
    TempSize = 3
    BufferSize = 5
    Heads <- MCHeads
    Bodies <- MCBodies
INVARIANTS
    VerdictExact
    Framing
    WaitsOnlyIncomplete
    MemoryBounded
    BuffersInOrder
PROPERTIES
    GrowsOnlyIfFull
\* The stream ends, or the parser gives up.
CHECK_DEADLOCK FALSE
