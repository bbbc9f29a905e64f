\* One connection: at most two requests per read, three per connection.
SPECIFICATION FairSpec
CONSTANTS
    Scripts <- MCScripts
    MaxPipelined = 2
    MaxRequests = 3
    IdleTimeout = 2
    ReadMax = 4
    SendCap = 2
INVARIANTS
    AnswersInOrder
    WriteInterest
    FlushBeforeClose
    CloseIsFinal
PROPERTIES
    ConnectionEnds
    AnswersLeave
\* The connection is destroyed in the end.
CHECK_DEADLOCK FALSE
