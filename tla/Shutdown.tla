------------------------------ MODULE Shutdown ------------------------------
(***************************************************************************)
(* The life of the server (tcpepoll.cpp, the constructors, the Stop()s of  *)
(* EchoServer, TcpServer and ThreadPool).  main() installs a handler of    *)
(* SIGINT and SIGTERM, builds the server and runs it; the handler stops    *)
(* workers, loops and IO threads, deletes the server and calls exit().  It *)
(* never returns, so the thread it interrupts never goes on, and keeps the *)
(* mutexes it holds.                                                       *)
(*                                                                         *)
(* Linux gives a signal to the main thread; a second one to the main       *)
(* thread again if it is the other of the two, else, as the first is       *)
(* blocked there, to some other thread.                                    *)
(*                                                                         *)
(* The threads of a pool wait for tasks as in ThreadPool: between the test *)
(* of the predicate and the sleep a thread holds the pool's mutex_, but    *)
(* Stop() notifies without it.                                             *)
(***************************************************************************)
EXTENDS Naturals, Sequences, SequencesExt

CONSTANTS Workers,     \* the threads of the worker pool
          IOs,         \* the threads of the IO pool, and their loops
          Main,        \* the main thread, and its loop
          Handlers,    \* the calls of the handler: one for each signal that comes
          Nobody,      \* the holder of a free mutex
          MaxTasks     \* bound: the length of the worker pool's queue

LoopThreads == IOs \cup {Main}
PoolThreads == Workers \cup IOs
Threads == Workers \cup LoopThreads

\* The two pools.
Members(p) == IF p = "works" THEN Workers ELSE IOs
Pool(t) == IF t \in Workers THEN "works" ELSE "io"

ASSUME ShutdownAssumption ==
    /\ Workers \cap IOs = {}
    /\ Main \notin Workers \cup IOs
    /\ Nobody \notin Threads
    /\ MaxTasks \in Nat \ {0}

VARIABLES
    pc,         \* where each thread is in its own code
    tasks,      \* how many tasks the worker pool's queue holds
    mmutex,     \* who holds TcpServer::mmutex_
    stop,       \* the pools whose stop_ is set: "works", "io"
    loopstop,   \* the loops whose stop_ is set
    joined,     \* the pools whose threads have been joined
    stack,      \* the handlers on each thread, the running one last
    hpc,        \* where each handler is: what it does next, and to which part
    deleted,    \* the server has been deleted
    ended       \* "no"; "failed" after exit(-1) in a constructor; "exit" after
                \* exit(0); "abort" after an abort or a crash

stopvars == <<stop, loopstop, joined>>
handlervars == <<stack, hpc, deleted, ended>>
vars == <<pc, tasks, mmutex, stopvars, handlervars>>

\* The handlers are installed, and the construction of the server begins.
Init ==
    /\ pc = [t \in Threads |-> IF t = Main THEN "socket" ELSE "unborn"]
    /\ tasks = 0
    /\ mmutex = Nobody
    /\ stop = {} /\ loopstop = {} /\ joined = {}
    /\ stack = [t \in Threads |-> <<>>]
    /\ hpc = [h \in Handlers |-> <<"none", "server">>]
    /\ deleted = FALSE
    /\ ended = "no"

\* Thread t executes its own code and has come to place.
At(t, place) == ended = "no" /\ stack[t] = <<>> /\ pc[t] = place

\* It goes on, and nothing else changes.
Move(t, from, to) ==
    /\ At(t, from)
    /\ pc' = [pc EXCEPT ![t] = to]
    /\ UNCHANGED <<tasks, mmutex, stopvars, handlervars>>

-----------------------------------------------------------------------------
(* main() builds the server.                                               *)

\* createnonblocking(), bind() and listen() end the process if they fail.
OpenSocket == Move(Main, "socket", "io")

SocketFails ==
    /\ At(Main, "socket")
    /\ ended' = "failed"
    /\ UNCHANGED <<pc, tasks, mmutex, stopvars, stack, hpc, deleted>>

\* The constructor of a ThreadPool starts its threads.
StartThreads(from, to, ts, place) ==
    /\ At(Main, from)
    /\ pc' = [t \in Threads |-> IF t = Main THEN to ELSE IF t \in ts THEN place ELSE pc[t]]
    /\ UNCHANGED <<tasks, mmutex, stopvars, handlervars>>

\* TcpServer's IO pool, with a run() to take for each thread.
StartIOs == StartThreads("io", "works", IOs, "born")

\* EchoServer's pool, and the callbacks it gives to the TcpServer.
StartWorkers == StartThreads("works", "assign", Workers, "while")

\* server = new EchoServer(...)
AssignServer == Move(Main, "assign", "run")

\* server->Start()
StartRun == Move(Main, "run", "loop")

Serving == pc[Main] \in {"loop", "lock", "map"}
Assigned == pc[Main] = "run" \/ Serving

-----------------------------------------------------------------------------
(* A loop's thread, the main one or one of the IO pool.  There are clients *)
(* when the main loop has run.                                             *)

RunBegin(t) == t \in IOs /\ Move(t, "born", "loop")

\* newconnection() on the main thread, closeconnection() on an IO thread, at
\* once or in the read loop: both come to the server's mutex.
MapBegin(t) ==
    /\ Serving
    /\ \/ Move(t, "loop", "lock")
       \/ t \in IOs /\ Move(t, "read", "lock")

MapLock(t) ==
    /\ At(t, "lock")
    /\ mmutex = Nobody
    /\ mmutex' = t
    /\ pc' = [pc EXCEPT ![t] = "map"]
    /\ UNCHANGED <<tasks, stopvars, handlervars>>

\* Mutation of MapUnlock: the mutex is not released.
MapUnlockNot(t) == Move(t, "map", "loop")

MapUnlock(t) ==
    /\ At(t, "map")
    /\ mmutex' = Nobody
    /\ pc' = [pc EXCEPT ![t] = "loop"]
    /\ UNCHANGED <<tasks, stopvars, handlervars>>

\* Connection::onmessage() on an IO thread, which reads until nothing is left.
ReadBegin(t) == Serving /\ t \in IOs /\ Move(t, "loop", "read")

\* Nothing to read and no message.
ReadNothing(t) == Move(t, "read", "loop")

\* Nobody of pool p holds mutex_, which a thread keeps until it sleeps.
MutexFree(p) == \A t \in Members(p) : pc[t] \notin {"block", "late"}

\* Whom notify_one() may wake in pool p.
Asleep(p) == {t \in Members(p) : pc[t] \in {"waiting", "missed"}}
OneOf(ts) == IF ts = {} THEN {{}} ELSE {{t} : t \in ts}

\* Nothing left to read: HandleMessage() hands the message to the workers.
AddMessage(t) ==
    /\ At(t, "read")
    /\ tasks < MaxTasks
    /\ MutexFree("works")
    /\ tasks' = tasks + 1
    /\ \E woken \in OneOf(Asleep("works")) :
          pc' = [x \in Threads |-> IF x = t THEN "loop" ELSE IF x \in woken THEN "test" ELSE pc[x]]
    /\ UNCHANGED <<mmutex, stopvars, handlervars>>

\* run() returns, and the task of the pool's thread is over.
RunEnds(t) == t \in IOs \cap loopstop /\ Move(t, "loop", "while")

-----------------------------------------------------------------------------
(* The threads of both pools between two tasks.  A worker's task is        *)
(* OnMessage(), an IO thread's is run(), which each of them takes once.    *)

\* while (stop_ == false), the first time or after a task.
ThreadWhile(t) ==
    \/ Move(t, "while", IF Pool(t) \in stop THEN "exited" ELSE "test")
    \/ (Pool(t) \in stop /\ Move(t, "born", "exited"))

NothingToTake(t) == t \in Workers => tasks = 0

\* wait() tests its predicate with mutex_ held, and it is false.
ThreadBlock(t) ==
    /\ Pool(t) \notin stop /\ NothingToTake(t)
    /\ MutexFree(Pool(t))
    /\ Move(t, "test", "block")

\* The predicate is true because the pool is stopped.
ThreadReturn(t) ==
    /\ Pool(t) \in stop /\ NothingToTake(t)
    /\ MutexFree(Pool(t))
    /\ Move(t, "test", "exited")

\* There is a task: front() and pop().
WorkerTake(w) ==
    /\ At(w, "test")
    /\ tasks > 0
    /\ MutexFree("works")
    /\ tasks' = tasks - 1
    /\ pc' = [pc EXCEPT ![w] = "reply"]
    /\ UNCHANGED <<mmutex, stopvars, handlervars>>

\* OnMessage() ends with queueinloop(): the reply is queued in its loop.
WorkerReply(w) == Move(w, "reply", "while")

\* mutex_ is given up and the thread sleeps, although notify_all() may just
\* have been called.
ThreadWait(t) == Move(t, "block", "waiting") \/ Move(t, "late", "missed")

\* A wakeup nobody asked for.
SpuriousWakeup(t) == Move(t, "waiting", "test") \/ Move(t, "missed", "test")

-----------------------------------------------------------------------------
(* The handler.                                                            *)

\* A signal is delivered: see the head of the module.
Signal(h, t) ==
    /\ ended = "no"
    /\ hpc[h] = <<"none", "server">>
    /\ stack[Main] = <<>> => t = Main
    /\ pc[t] \notin {"unborn", "exited"}
    /\ stack' = [stack EXCEPT ![t] = Append(@, h)]
    /\ hpc' = [hpc EXCEPT ![h] = <<"test", "works">>]
    /\ UNCHANGED <<pc, tasks, mmutex, stopvars, deleted, ended>>

\* Handler h is the one that runs on thread t; it does what comes next and
\* goes on with then.
Step(h, t, what, p, then) ==
    /\ ended = "no"
    /\ ~deleted
    /\ stack[t] # <<>> /\ Last(stack[t]) = h
    /\ hpc[h] = <<what, p>>
    /\ hpc' = [hpc EXCEPT ![h] = then]
    /\ UNCHANGED <<tasks, mmutex, stack>>

\* Mutation of AfterStop: EchoServer::Stop() without TcpServer::stop().
AfterStopDelete(p) == <<"delete", "server">>

\* What follows the Stop() of pool p.
AfterStop(p) == IF p = "works" THEN <<"stop", "loops">> ELSE <<"delete", "server">>

\* ThreadPool::Stop(): if (stop_) return; or a crash, if server is still null.
StopTest(h, t, p) ==
    /\ Step(h, t, "test", p, IF p \in stop THEN AfterStop(p) ELSE <<"stop", p>>)
    /\ ended' = IF Assigned THEN ended ELSE "abort"
    /\ UNCHANGED <<pc, stopvars, deleted>>

StopSet(h, t, p) ==
    /\ Step(h, t, "stop", p, <<"notify", p>>)
    /\ stop' = stop \cup {p}
    /\ UNCHANGED <<pc, loopstop, joined, deleted, ended>>

\* A thread that has found the predicate false, and does not sleep yet, misses
\* the notification.
StopNotify(h, t, p, woken) ==
    /\ Step(h, t, "notify", p, <<"join", p>>)
    /\ pc' = [x \in Threads |-> IF x \in woken THEN "test"
                               ELSE IF x \in Members(p) /\ pc[x] = "block" THEN "late"
                               ELSE pc[x]]
    /\ UNCHANGED <<stopvars, deleted, ended>>

\* Mutation of StopNotifyAll: notify_one().
StopNotifyOne(h, t, p) == \E woken \in OneOf(Asleep(p)) : StopNotify(h, t, p, woken)

\* condition_.notify_all()
StopNotifyAll(h, t, p) == StopNotify(h, t, p, Asleep(p))

StopJoinWhen(h, t, p, throws, gone) ==
    /\ Step(h, t, "join", p, AfterStop(p))
    /\ joined' = joined \cup {p}
    /\ IF throws THEN ended' = "abort" ELSE gone /\ UNCHANGED ended
    /\ UNCHANGED <<pc, stop, loopstop, deleted>>

Gone(ts) == \A t \in ts : pc[t] = "exited"

\* Mutations of StopJoin: detach() for join(); no join() of the workers.
StopDetach(h, t, p) == StopJoinWhen(h, t, p, FALSE, TRUE)
StopJoinIO(h, t, p) == StopJoinWhen(h, t, p, FALSE, p = "io" => Gone(IOs))

\* join() throws, and the process is aborted, if a thread joins itself or the
\* threads have been joined before.
StopJoin(h, t, p) ==
    StopJoinWhen(h, t, p, t \in Members(p) \/ p \in joined, Gone(Members(p)))

\* TcpServer::stop(): EventLoop::stop() of every loop.
StopLoops(h, t) ==
    /\ Step(h, t, "stop", "loops", <<"test", "io">>)
    /\ loopstop' = LoopThreads
    /\ UNCHANGED <<pc, stop, joined, deleted, ended>>

\* delete server; the destructor of a std::thread that can still be joined aborts
\* the process.
DeleteServer(h, t) ==
    /\ Step(h, t, "delete", "server", <<"exit", "server">>)
    /\ IF joined = {"works", "io"}
       THEN deleted' = TRUE /\ UNCHANGED ended
       ELSE ended' = "abort" /\ UNCHANGED deleted
    /\ UNCHANGED <<pc, stopvars>>

\* exit(0); or another handler goes on with the pointer to the deleted server.
Exit(h) ==
    /\ ended = "no"
    /\ deleted
    /\ hpc[h][1] # "none"
    /\ ended' = IF hpc[h][1] = "exit" THEN "exit" ELSE "abort"
    /\ UNCHANGED <<pc, tasks, mmutex, stopvars, stack, hpc, deleted>>

-----------------------------------------------------------------------------
BuildStep ==
    \/ OpenSocket
    \/ SocketFails
    \/ StartIOs
    \/ StartWorkers
    \/ AssignServer
    \/ StartRun

\* What a thread of a pool does at the predicate of wait(), and elsewhere.
ThreadTest(t) == ThreadBlock(t) \/ ThreadReturn(t) \/ (t \in Workers /\ WorkerTake(t))
ThreadStep(t) == ThreadWhile(t) \/ ThreadWait(t) \/ (t \in Workers /\ WorkerReply(t))

HandlerStep(h) ==
    \/ \E t \in Threads :
        \/ StopLoops(h, t)
        \/ DeleteServer(h, t)
        \/ \E p \in {"works", "io"} :
            StopTest(h, t, p) \/ StopSet(h, t, p) \/ StopNotifyAll(h, t, p) \/ StopJoin(h, t, p)
    \/ Exit(h)

Next ==
    \/ BuildStep
    \/ \E t \in LoopThreads :
        \/ RunBegin(t) \/ MapBegin(t) \/ MapLock(t) \/ MapUnlock(t)
        \/ ReadBegin(t) \/ ReadNothing(t) \/ AddMessage(t) \/ RunEnds(t)
    \/ \E t \in PoolThreads : ThreadTest(t) \/ ThreadStep(t) \/ SpuriousWakeup(t)
    \/ \E h \in Handlers : HandlerStep(h) \/ \E t \in Threads : Signal(h, t)

Spec == Init /\ [][Next]_vars

(* Every thread is scheduled, and gets a mutex that is free often enough.  *)
(* A batch of events is finite, so a loop that comes back from its         *)
(* handlers looks at its stop_ in the end.  That onmessage() comes back is *)
(* not assumed, nor a spurious wakeup.  Nobody has to send a message, a    *)
(* close or a signal.                                                      *)
FairSpec ==
    /\ Spec
    /\ WF_vars(MapUnlock(Main)) /\ SF_vars(MapLock(Main))
    /\ \A w \in Workers : WF_vars(ThreadStep(w)) /\ SF_vars(ThreadTest(w))
    /\ \A i \in IOs :
        /\ WF_vars(RunBegin(i) \/ MapUnlock(i) \/ ThreadStep(i))
        /\ SF_vars(MapLock(i) \/ ThreadTest(i))
        /\ SF_vars(RunEnds(i))
    /\ \A h \in Handlers : WF_vars(HandlerStep(h))

-----------------------------------------------------------------------------
\* One signal has come.
Begun == {h \in Handlers : hpc[h][1] # "none"}
OneSignal == \A g, h \in Begun : g = h

\* Between two tasks, and after the last.
PoolPlaces == {"while", "test", "block", "waiting", "late", "missed", "exited"}

Places == {"socket", "io", "works", "assign", "run", "unborn", "born", "loop", "read", "lock",
           "map", "reply"} \cup PoolPlaces

(* Types, and that mmutex_ is held exactly in the two locked blocks.       *)
TypeOK ==
    /\ pc \in [Threads -> Places]
    /\ tasks \in 0..MaxTasks
    /\ mmutex \in LoopThreads \cup {Nobody}
    /\ \A t \in Threads : pc[t] = "map" <=> mmutex = t
    /\ {stop, joined} \subseteq SUBSET {"works", "io"}
    /\ loopstop \subseteq LoopThreads
    /\ stack \in [Threads -> Seq(Handlers)]
    /\ hpc \in [Handlers -> {"none", "test", "stop", "notify", "join", "delete", "exit"}
                              \X {"works", "loops", "io", "server"}]
    /\ deleted \in BOOLEAN
    /\ ended \in {"no", "failed", "exit", "abort"}

(* EchoServer::Stop() stops the workers first: as long as a worker has a   *)
(* reply in its hands, every loop it may queue it in is running.  A second *)
(* signal breaks that: its Stop() returns at once, and the loops are next. *)
RepliesReachLoop ==
    OneSignal =>
        \A w \in Workers, i \in IOs : pc[w] = "reply" => pc[i] \notin PoolPlaces

(* Nothing runs on in a server that has been deleted.                      *)
DeletedAtRest ==
    OneSignal /\ deleted => \A t \in Workers \cup IOs : pc[t] = "exited"

(* One signal never makes a server abort that has been built: Stop() joins *)
(* each pool once, from a thread outside it, before the destructors come.  *)
(* The handler that runs before main() has assigned server is the only one *)
(* to crash.                                                               *)
OneSignalIsClean == OneSignal /\ Assigned => ended # "abort"

(* The inductive invariant of the proofs: where the one handler is tells   *)
(* which flags it has set and which threads are gone.                      *)
LoopsStopped == {<<"test", "io">>, <<"stop", "io">>, <<"notify", "io">>, <<"join", "io">>,
                 <<"delete", "server">>, <<"exit", "server">>}

QuietBefore ==
    Begun = {} => /\ stop = {} /\ loopstop = {} /\ joined = {} /\ ~deleted /\ ended # "abort"
                  /\ \A t \in Threads : stack[t] = <<>>

Unborn ==
    /\ pc[Main] \in {"socket", "io"} => \A i \in IOs : pc[i] = "unborn"
    /\ pc[Main] \in {"socket", "io", "works"} => \A w \in Workers : pc[w] = "unborn"

LoopsRun ==
    /\ \A i \in IOs : pc[i] \in PoolPlaces => loopstop # {}
    /\ "io" \in stop => loopstop # {}
    /\ \A h \in Handlers : hpc[h] \in LoopsStopped => loopstop # {}

StopOrder(h) ==
    /\ "works" \in stop => hpc[h] \notin {<<"test", "works">>, <<"stop", "works">>}
    /\ loopstop # {} => hpc[h] \in LoopsStopped
    /\ "io" \in stop => hpc[h] \in LoopsStopped \ {<<"test", "io">>, <<"stop", "io">>}
    /\ hpc[h] = <<"stop", "loops">> => Gone(Workers)
    /\ hpc[h] \in LoopsStopped => Gone(Workers)
    /\ hpc[h] = <<"delete", "server">> => Gone(IOs)
    /\ deleted => hpc[h] = <<"exit", "server">> /\ Gone(IOs)

\* The one handler is on the main thread, and joins each pool once.
JoinOrder(h) ==
    /\ \A t \in Threads \ {Main} : stack[t] = <<>>
    /\ "works" \in joined <=> hpc[h] \in LoopsStopped \cup {<<"stop", "loops">>}
    /\ "io" \in joined <=> hpc[h] \in {<<"delete", "server">>, <<"exit", "server">>}

IInv ==
    /\ TypeOK
    /\ QuietBefore
    /\ Unborn
    /\ LoopsRun
    /\ OneSignal => OneSignalIsClean /\ \A h \in Begun : StopOrder(h) /\ JoinOrder(h)

\* No client keeps an IO thread in the read loop of onmessage() for ever.
ClientsPause == \A i \in IOs : []<>(pc[i] # "read")

\* A thread has gone to sleep, or is about to, after the notify_all() for it.
Missed == \E t \in PoolThreads : pc[t] \in {"late", "missed"}

(* The server ends with exit(0) after a signal that finds it built and the *)
(* main thread outside newconnection()'s locked block, if no second signal *)
(* comes and clients pause now and then, except in one way: a pool's       *)
(* thread that was between the predicate and its sleep when Stop() called  *)
(* notify_all() sleeps for ever.  Whatever else workers and IO threads are *)
(* doing, with messages and closes to come, does not keep it from exit().  *)
(* (The locks inside printf and malloc are left out.)                      *)
UnlockedShutdownEnds ==
    ClientsPause =>
        (Begun # {} /\ Assigned /\ pc[Main] # "map" ~> ended = "exit" \/ ~OneSignal \/ []Missed)

(* What the comment at the head of tcpepoll.cpp says: the handler stops    *)
(* the loops and the workers, and the program exits by itself; even if     *)
(* clients pause and no notification is missed.                            *)
ShutdownEnds == ClientsPause => (Begun # {} ~> ended # "no" \/ Missed)
=============================================================================
