SPECIFICATION Spec
CONSTANTS
    c1 = c1
    c2 = c2
    c3 = c3
    f1 = f1
    f2 = f2
    l1 = l1
    l2 = l2
    Conns <- MCConns
    Fds <- MCFds
    Loops <- MCLoops
    LoopOf <- MCLoopOf
    None = None
INVARIANTS CallbacksReachServer
\* The server may end.
CHECK_DEADLOCK FALSE
