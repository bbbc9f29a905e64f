\* A pipelined request waits for data the client does not send.
SPECIFICATION FairSpec
CONSTANTS
    Scripts <- MCScripts
    MaxPipelined = 2
    MaxRequests = 3
    IdleTimeout = 2
    ReadMax = 4
    SendCap = 2
PROPERTIES
    BufferedAnswered
\* The connection may be destroyed.
CHECK_DEADLOCK FALSE
