----------------------------- MODULE TcpServer ------------------------------
(***************************************************************************)
(* TcpServer.cpp with its Acceptor: the main loop's thread accepts clients *)
(* and builds Connection objects, the IO loops' threads handle them, two   *)
(* maps hold them (TcpServer::conns_ and EventLoop::conns_), and each IO   *)
(* loop's alarm looks for idle ones.  What a connection does with the      *)
(* client's bytes is Connection's subject; here a message only shows who   *)
(* refers to whom.                                                         *)
(*                                                                         *)
(* A Connection lives as long as a shared_ptr to it does; its destructor   *)
(* closes the fd.  The epoll set and a queued sendinloop() hold plain      *)
(* pointers.                                                               *)
(***************************************************************************)
EXTENDS Naturals

CONSTANTS Conns,       \* the clients, and the Connection built for each
          Fds,         \* the descriptors the process may still open
          Loops,       \* the IO loops and their threads
          LoopOf,      \* fd % threadnum
          None         \* no connection, no descriptor

ASSUME TcpServerAssumption ==
    /\ None \notin Conns \cup Fds
    /\ LoopOf \in [Fds -> Loops]

VARIABLES
    client,       \* client[c]: "away", "waiting" to be accepted, "open" or "gone"
    fd,           \* fd[c]: the descriptor of c's socket
    mainpc,       \* where the main thread is in TcpServer::newconnection()
    conn,         \* the connection newconnection() is about
    callbacks,    \* the connections whose callbacks are set
    inepoll,      \* the connections whose channel is in its loop's epoll set
    idle,         \* the connections without a message for timeout_ seconds
    disconnect,   \* the connections whose disconnect_ is set
    conns,        \* TcpServer::conns_
    loopconns,    \* EventLoop::conns_ of every loop, by descriptor
    working,      \* the connections with an OnMessage() under way
    queued,       \* the connections with a sendinloop() queued
    sweep,        \* sweep[l]: the entries handletimer() of l has yet to visit
    looppc,       \* "run" or "timer"
    ended         \* why the process has ended: "no" if it has not

clients == <<client, fd>>
main == <<mainpc, conn>>
channels == <<callbacks, inepoll, idle, disconnect>>
maps == <<conns, loopconns>>
tasks == <<working, queued>>
timers == <<sweep, looppc>>
vars == <<clients, main, channels, maps, tasks, timers, ended>>

Init ==
    /\ client = [c \in Conns |-> "away"]
    /\ fd = [c \in Conns |-> None]
    /\ mainpc = "wait"
    /\ conn = None
    /\ callbacks = {} /\ inepoll = {} /\ idle = {} /\ disconnect = {}
    /\ conns = [f \in Fds |-> None]
    /\ loopconns = [f \in Fds |-> None]
    /\ working = {} /\ queued = {}
    /\ sweep = [l \in Loops |-> {}]
    /\ looppc = [l \in Loops |-> "run"]
    /\ ended = "no"

-----------------------------------------------------------------------------
(* Lifetimes.                                                              *)

\* A shared_ptr to c exists: newconnection()'s, the maps', or the one that
\* is bound into a task of the worker pool.
Alive(c) ==
    /\ fd[c] # None
    /\ \/ conn = c
       \/ conns[fd[c]] = c
       \/ loopconns[fd[c]] = c
       \/ c \in working

FreeFds == Fds \ {fd[c] : c \in {x \in Conns : Alive(x)}}

Running == ended = "no"
MainAt(pc) == Running /\ mainpc = pc
LoopAt(l, pc) == Running /\ looppc[l] = pc

\* The IO thread of c's loop handles an event of c or runs a task for it.
LoopFree(c) == LoopAt(LoopOf[fd[c]], "run")

-----------------------------------------------------------------------------
(* The clients.                                                            *)

ClientStep(c, from, to) ==
    /\ Running
    /\ client[c] = from
    /\ client' = [client EXCEPT ![c] = to]
    /\ UNCHANGED <<fd, main, channels, maps, tasks, timers, ended>>

ClientConnect(c) == ClientStep(c, "away", "waiting")
ClientLeave(c) == ClientStep(c, "open", "gone")

BecomeIdle(c) ==
    /\ Running
    /\ c \in inepoll \ idle
    /\ idle' = idle \cup {c}
    /\ UNCHANGED <<clients, main, callbacks, inepoll, disconnect, maps, tasks, timers, ended>>

-----------------------------------------------------------------------------
(* The main thread: Acceptor::newconnection(), TcpServer::newconnection(). *)

\* The constructor of Connection: its last statement puts the channel into the
\* epoll set of the IO loop.
NewConnection(c, f) ==
    /\ fd' = [fd EXCEPT ![c] = f]
    /\ inepoll' = inepoll \cup {c}

\* accept4(), then the constructor, on the main thread.
Accept(c, f) ==
    /\ MainAt("wait")
    /\ client[c] = "waiting"
    /\ f \in FreeFds
    /\ client' = [client EXCEPT ![c] = "open"]
    /\ NewConnection(c, f)
    /\ conn' = c
    /\ mainpc' = "callbacks"
    /\ UNCHANGED <<callbacks, idle, disconnect, maps, tasks, timers, ended>>

\* accept4() returns -1, for want of a descriptor or because the client has
\* aborted, which nobody looks at; the constructor's epoll_ctl() on fd -1 fails and
\* the process exits.
AcceptFails(c) ==
    /\ MainAt("wait")
    /\ client[c] = "waiting"
    /\ ended' = "accept"
    /\ UNCHANGED <<clients, main, channels, maps, tasks, timers>>

\* The shared_ptr takes the object, and the four callbacks are set.
SetCallbacks ==
    /\ MainAt("callbacks")
    /\ callbacks' = callbacks \cup {conn}
    /\ mainpc' = "map"
    /\ UNCHANGED <<clients, conn, inepoll, idle, disconnect, maps, tasks, timers, ended>>

\* conns_[conn->fd()] = conn, with mmutex_ held.
MapInsert ==
    /\ MainAt("map")
    /\ conns' = [conns EXCEPT ![fd[conn]] = conn]
    /\ mainpc' = "loopmap"
    /\ UNCHANGED <<clients, conn, channels, loopconns, tasks, timers, ended>>

\* EventLoop::newconnection(), with the loop's mmutex_ held; newconnection()'s
\* own shared_ptr goes.  handletimer() does not take that mutex: if the loop is
\* iterating, it may or may not come by the new entry, or may crash.
LoopMapInsertWhen(inserts) ==
    /\ MainAt("loopmap")
    /\ loopconns' = IF inserts THEN [loopconns EXCEPT ![fd[conn]] = conn] ELSE loopconns
    /\ conn' = None
    /\ mainpc' = "wait"
    /\ IF LoopFree(conn)
       THEN UNCHANGED <<sweep, ended>>
       ELSE /\ sweep' \in {sweep, [sweep EXCEPT ![LoopOf[fd[conn]]] = @ \cup {fd[conn]}]}
            /\ ended' \in {"no", "race"}
    /\ UNCHANGED <<clients, channels, conns, tasks, looppc>>

\* Mutation of LoopMapInsert: a loop that is busy with its alarm is left alone.
LoopMapInsertUnlessBusy == LoopMapInsertWhen(LoopFree(conn))

LoopMapInsert == LoopMapInsertWhen(TRUE)

-----------------------------------------------------------------------------
(* The IO threads.                                                         *)

\* onmessage(): a message goes to a worker.  With the callbacks not yet set,
\* onmessagecallback_ is empty, shared_from_this() has no owner: it throws.
\* Bound: one message of a connection is under way at a time.
HandleMessage(c) ==
    /\ c \in inepoll
    /\ LoopFree(c)
    /\ client[c] = "open"
    /\ c \notin working \cup queued
    /\ idle' = idle \ {c}
    /\ IF c \in callbacks
       THEN working' = working \cup {c} /\ UNCHANGED ended
       ELSE ended' = "throw" /\ UNCHANGED working
    /\ UNCHANGED <<clients, main, callbacks, inepoll, disconnect, maps, queued, timers>>

\* TcpServer::closeconnection() erases the descriptor from conns_, and so does
\* removeconn() for the alarm.
CloseConnection(c) == conns' = [conns EXCEPT ![fd[c]] = None]
RemoveConn(f) == conns' = [conns EXCEPT ![f] = None]

\* closecallback(): disconnect_, remove(), and closeconnection(), or an empty
\* callback throws.
HandleClose(c) ==
    /\ c \in inepoll
    /\ LoopFree(c)
    /\ client[c] = "gone"
    /\ disconnect' = disconnect \cup {c}
    /\ inepoll' = inepoll \ {c}
    /\ IF c \in callbacks
       THEN CloseConnection(c) /\ UNCHANGED ended
       ELSE ended' = "throw" /\ UNCHANGED conns
    /\ UNCHANGED <<clients, main, callbacks, idle, loopconns, tasks, timers>>

\* A queued sendinloop() runs: enablewriting() on a channel that has been
\* removed makes epoll_ctl() fail and the process exit.
SendInLoop(c) ==
    /\ c \in queued
    /\ LoopFree(c)
    /\ queued' = queued \ {c}
    /\ ended' = IF c \in inepoll THEN ended ELSE "exit"
    /\ UNCHANGED <<clients, main, channels, maps, working, timers>>

\* handletimer() of a loop starts to iterate over conns_, without a lock.
TimerBegin(l) ==
    /\ LoopAt(l, "run")
    /\ looppc' = [looppc EXCEPT ![l] = "timer"]
    /\ sweep' = [sweep EXCEPT ![l] = {f \in Fds : LoopOf[f] = l /\ loopconns[f] # None}]
    /\ UNCHANGED <<clients, main, channels, maps, tasks, ended>>

\* Mutation of Timeout: the test that is commented out in Connection::timeout().
TimeoutIdle(c) == c \in idle

\* Connection::timeout() returns false.
Timeout(c) == FALSE

\* One entry: a timed-out connection leaves both maps (removeconn()).
TimerVisit(l, f) ==
    /\ LoopAt(l, "timer")
    /\ f \in sweep[l]
    /\ sweep' = [sweep EXCEPT ![l] = @ \ {f}]
    /\ IF Timeout(loopconns[f])
       THEN /\ loopconns' = [loopconns EXCEPT ![f] = None]
            /\ RemoveConn(f)
       ELSE UNCHANGED maps
    /\ UNCHANGED <<clients, main, channels, tasks, looppc, ended>>

TimerEndWhen(l, done) ==
    /\ LoopAt(l, "timer")
    /\ done
    /\ looppc' = [looppc EXCEPT ![l] = "run"]
    /\ UNCHANGED <<clients, main, channels, maps, tasks, sweep, ended>>

\* Mutation of TimerEnd: the iteration is given up with entries left.
TimerEndEarly(l) == TimerEndWhen(l, TRUE)

TimerEnd(l) == TimerEndWhen(l, sweep[l] = {})

-----------------------------------------------------------------------------
(* A worker: send() looks at disconnect_ and queues sendinloop(), which    *)
(* keeps a plain pointer; then the task, and its shared_ptr, are gone.     *)

WorkerSend(c) ==
    /\ Running
    /\ c \in working
    /\ working' = working \ {c}
    /\ queued' = IF c \in disconnect THEN queued ELSE queued \cup {c}
    /\ UNCHANGED <<clients, main, channels, maps, timers, ended>>

-----------------------------------------------------------------------------
\* What a running server does on its own.
MainStep == SetCallbacks \/ MapInsert \/ LoopMapInsert
ConnStep(c) == HandleClose(c) \/ SendInLoop(c) \/ WorkerSend(c)
TimerStep(l) == TimerEnd(l) \/ \E f \in Fds : TimerVisit(l, f)

Next ==
    \/ \E c \in Conns :
        \/ ClientConnect(c)
        \/ ClientLeave(c)
        \/ BecomeIdle(c)
        \/ AcceptFails(c)
        \/ HandleMessage(c)
        \/ ConnStep(c)
        \/ \E f \in Fds : Accept(c, f)
    \/ MainStep
    \/ \E l \in Loops : TimerBegin(l) \/ TimerStep(l)

Spec == Init /\ [][Next]_vars

\* Every thread is scheduled; the alarm is not so frequent that a loop does
\* nothing else.
FairSpec ==
    /\ Spec
    /\ WF_vars(MainStep)
    /\ \A c \in Conns : SF_vars(ConnStep(c))
    /\ \A l \in Loops : WF_vars(TimerStep(l))

-----------------------------------------------------------------------------
TypeOK ==
    /\ client \in [Conns -> {"away", "waiting", "open", "gone"}]
    /\ fd \in [Conns -> Fds \cup {None}]
    /\ mainpc \in {"wait", "callbacks", "map", "loopmap"}
    /\ conn \in Conns \cup {None}
    /\ mainpc = "wait" <=> conn = None
    /\ {callbacks, inepoll, idle, disconnect, working, queued} \subseteq SUBSET Conns
    /\ conns \in [Fds -> Conns \cup {None}]
    /\ loopconns \in [Fds -> Conns \cup {None}]
    /\ looppc \in [Loops -> {"run", "timer"}]
    /\ sweep \in [Loops -> SUBSET Fds]
    /\ \A l \in Loops : looppc[l] = "run" => sweep[l] = {}
    /\ ended \in {"no", "accept", "throw", "exit", "race"}

(* A client that is connected can be found: once newconnection() is done   *)
(* with it, both maps have it under its descriptor until it leaves, though *)
(* main thread, IO thread and alarm all write to the maps.                 *)
OpenIsFound ==
    \A c \in inepoll \ {conn} : conns[fd[c]] = c /\ loopconns[fd[c]] = c

(* No plain pointer outlives its Connection: neither the epoll set nor a   *)
(* queued sendinloop() refers to an object that has been destroyed.        *)
NoUseAfterFree == \A c \in inepoll \cup queued : Alive(c)

(* The inductive invariant of the proofs.  No entry ever leaves a loop's   *)
(* map, so an object that was built stays alive (and keeps its fd for ever *)
(* - see FdReleased), and each has an fd of its own.                       *)
Built == {c \in Conns : fd[c] # None}

Progress ==
    /\ \A c \in Conns : c \in Built <=> client[c] \in {"open", "gone"}
    /\ inepoll \cup queued \cup working \subseteq Built
    /\ conn # None => conn \in Built
    /\ mainpc = "loopmap" /\ conn \in inepoll => conns[fd[conn]] = conn

StaysAlive == \A c \in Built : conn = c \/ loopconns[fd[c]] = c

OwnFd == \A c, d \in Built : fd[c] = fd[d] => c = d

IInv == TypeOK /\ Progress /\ StaysAlive /\ OwnFd /\ OpenIsFound

(* What a comment in Channel.h says of a client's descriptor: its life     *)
(* ends with the disconnect.                                               *)
FdReleased == \A c \in Conns : c \in disconnect ~> ~Alive(c) \/ ended # "no"

(* What the comments on the callbacks in Connection.h say: they call       *)
(* TcpServer's functions; so a handler never finds one of them empty.      *)
CallbacksReachServer == ended # "throw"
=============================================================================
