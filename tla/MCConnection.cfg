SPECIFICATION FairSpec
CONSTANTS
    w1 = w1
    w2 = w2
    Workers <- MCWorkers
    MaxChunks = 4
    SndBuf = 1
    WithZero <- MCNoZero
INVARIANTS TypeOK WatchesOutput ClosedIsQuiet SurvivesWithoutPool
PROPERTIES ImplementsEcho EchoReturned CloseNoticed
\* The server may be at rest: a client that does not send, or has left.
CHECK_DEADLOCK FALSE
