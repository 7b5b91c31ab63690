SPECIFICATION FairSpec
CONSTANTS
    t1 = t1
    t2 = t2
    io1 = io1
    io2 = io2
    main = main
    a = a
    b = b
    c = c
    Threads <- MCThreads
    Adders <- MCAdders
    Stoppers <- MCStoppers
    Tasks <- MCTasks
    Nobody = Nobody
    NoTask = NoTask
INVARIANTS TypeOK TakeSafe NoIdleWithWork 
PROPERTIES ImplementsTaskQueue QueuedTasksRun EveryThreadUsed
\* The pool may stop: its threads wait for tasks for ever, or have exited.
CHECK_DEADLOCK FALSE
