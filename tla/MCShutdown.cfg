SPECIFICATION FairSpec
CONSTANTS
    w1 = w1
    w2 = w2
    io1 = io1
    io2 = io2
    int = int
    Main = Main
    Nobody = Nobody
    MaxTasks = 2
    Workers <- MCWorkers
    IOs <- MCIOs
    Handlers <- MCHandlers
INVARIANTS TypeOK RepliesReachLoop DeletedAtRest OneSignalIsClean
PROPERTIES UnlockedShutdownEnds
\* The process ends.
CHECK_DEADLOCK FALSE
