SPECIFICATION FairSpec
CONSTANTS
    w1 = w1
    w2 = w2
    main = main
    a = a
    b = b
    c = c
    client = client
    Posters <- MCPosters
    Stoppers <- MCStoppers
    Tasks <- MCTasks
    Sources <- MCSources
    WakeFd = WakeFd
    TimerFd = TimerFd
    MaxEvents = 2
    Loop = Loop
    Nobody = Nobody
    NoTask = NoTask
INVARIANTS TypeOK NoLostWakeup StopWakes
PROPERTIES ImplementsTaskQueue QueuedTasksRun TimerRearmed StopEndsRun
\* The system may stop: run() returns once stop() was called.
CHECK_DEADLOCK FALSE
