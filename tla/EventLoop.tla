----------------------------- MODULE EventLoop -----------------------------
(***************************************************************************)
(* One EventLoop (EventLoop.cpp): the thread that executes run(), the task *)
(* queue that other threads fill with queueinloop(), the eventfd that      *)
(* wakes the thread out of epoll_wait(), the alarm, and stop().            *)
(*                                                                         *)
(* A step is one access to state that two threads share: the mutex, the    *)
(* task queue, the eventfd's counter, stop_.  What a task or the handler   *)
(* of a client's channel does is not modelled here (see Connection and     *)
(* TcpServer): a task is a value, a handled channel stops being ready.     *)
(***************************************************************************)
EXTENDS Naturals, Sequences, FiniteSets, Functions

CONSTANTS Posters,     \* threads that call queueinloop()
          Stoppers,    \* threads that call stop(), each at most once
          Tasks,       \* the closures, each handed in at most once
          Sources,     \* the sockets the loop watches
          WakeFd,      \* the channel of wakeupfd_
          TimerFd,     \* the channel of timerfd_
          MaxEvents,   \* Epoll::MaxEvents, 100 in the code
          Loop,        \* the thread that executes run()
          Nobody,      \* the holder of a free mutex
          NoTask       \* no closure: a caller outside queueinloop()

Callers == Posters \cup Stoppers
Descriptors == Sources \cup {WakeFd, TimerFd}

ASSUME EventLoopAssumption ==
    /\ Posters \cap Stoppers = {}
    /\ Loop \notin Callers
    /\ Nobody \notin Callers \cup {Loop}
    /\ WakeFd \notin Sources /\ TimerFd \notin Sources /\ WakeFd # TimerFd
    /\ MaxEvents \in Nat \ {0}
    /\ NoTask \notin Tasks

VARIABLES
    looppc,     \* where the loop thread is in run() and handlewakeup()
    channels,   \* what epoll_wait() returned and run() has yet to handle
    pc,         \* where each caller is in queueinloop() or stop()
    fn,         \* the argument of the queueinloop() a poster is in
    taskqueue,  \* taskqueue_
    posted,     \* history: the tasks pushed, in order
    ran,        \* history: the tasks executed, in order
    mutex,      \* who holds mutex_
    wakeupfd,   \* the counter of the eventfd wakeupfd_
    timerfd,    \* the one-shot timer: "armed", "expired" or "off"
    ready,      \* the sockets that have an event
    stop        \* stop_

loopvars == <<looppc, channels>>
callervars == <<pc, fn>>
queuevars == <<taskqueue, posted, ran>>
fdvars == <<wakeupfd, timerfd, ready>>

vars == <<loopvars, callervars, queuevars, mutex, fdvars, stop>>

LoopPc == {"new", "check", "wait", "dispatch", "lock", "drain", "exited"}
CallerPc == {"idle", "lock", "push", "wakeup", "done"}

\* timerfd_settime() with a time and no interval: the timer rings once.
ArmedTimer == "armed"

Init ==
    /\ looppc = "new" /\ channels = {}
    /\ pc = [c \in Callers |-> "idle"]
    /\ fn = [p \in Posters |-> NoTask]
    /\ taskqueue = <<>> /\ posted = <<>> /\ ran = <<>>
    /\ mutex = Nobody
    /\ wakeupfd = 0 /\ timerfd = ArmedTimer /\ ready = {}
    /\ stop = FALSE

-----------------------------------------------------------------------------
(* queueinloop(fn): lock, push, unlock, then wakeup().                     *)

QueueInLoop(p) ==
    /\ pc[p] = "idle"
    /\ \E t \in Tasks \ (Range(posted) \cup Range(fn)) : fn' = [fn EXCEPT ![p] = t]
    /\ pc' = [pc EXCEPT ![p] = "lock"]
    /\ UNCHANGED <<loopvars, queuevars, mutex, fdvars, stop>>

QueueLock(p) ==
    /\ pc[p] = "lock"
    /\ mutex = Nobody
    /\ mutex' = p
    /\ pc' = [pc EXCEPT ![p] = "push"]
    /\ UNCHANGED <<loopvars, fn, queuevars, fdvars, stop>>

\* The closing brace of the block releases the mutex.
PushInto(p, queue) ==
    /\ pc[p] = "push"
    /\ taskqueue' = queue
    /\ posted' = Append(posted, fn[p])
    /\ fn' = [fn EXCEPT ![p] = NoTask]
    /\ mutex' = Nobody
    /\ pc' = [pc EXCEPT ![p] = "wakeup"]
    /\ UNCHANGED <<loopvars, ran, fdvars, stop>>

\* Mutation of QueuePush: the newest task goes to the front.
QueuePushFront(p) == PushInto(p, <<fn[p]>> \o taskqueue)

QueuePush(p) == PushInto(p, Append(taskqueue, fn[p]))

\* wakeup(): the eventfd adds up the writes nobody has read yet.
Wakeup(c, next) ==
    /\ pc[c] = "wakeup"
    /\ wakeupfd' = wakeupfd + 1
    /\ pc' = [pc EXCEPT ![c] = next]
    /\ UNCHANGED <<loopvars, fn, queuevars, mutex, timerfd, ready, stop>>

QueueWakeup(p) == Wakeup(p, "idle")

-----------------------------------------------------------------------------
(* stop(): the flag first, then wakeup().                                  *)

StopSetThen(s, next) ==
    /\ pc[s] = "idle"
    /\ stop' = TRUE
    /\ pc' = [pc EXCEPT ![s] = next]
    /\ UNCHANGED <<loopvars, fn, queuevars, mutex, fdvars>>

\* Mutation of StopSet: the flag alone, without the wakeup() after it.
StopSetOnly(s) == StopSetThen(s, "done")

StopSet(s) == StopSetThen(s, "wakeup")

StopWakeup(s) == Wakeup(s, "done")

-----------------------------------------------------------------------------
(* run() and the handlers, executed by the loop thread.                    *)

\* Level triggered: a descriptor is reported for as long as it has something.
Readable ==
    {d \in Descriptors : CASE d = WakeFd -> wakeupfd > 0
                           [] d = TimerFd -> timerfd = "expired"
                           [] OTHER -> d \in ready}

\* The loop thread goes on, and nothing else changes.
Goto(from, to) ==
    /\ looppc = from
    /\ looppc' = to
    /\ UNCHANGED <<channels, callervars, queuevars, mutex, fdvars, stop>>

\* The thread pool starts run().
RunBegin == Goto("new", "check")

\* while (stop_ == false)
RunCheck == Goto("check", IF stop THEN "exited" ELSE "wait")

\* epoll_wait() returns descriptors that are ready, at most MaxEvents of them.
EpollReturn ==
    /\ looppc = "wait"
    /\ channels' \in SUBSET Readable
    /\ channels' # {}
    /\ channels' = Readable \/ Cardinality(channels') = MaxEvents
    /\ Cardinality(channels') <= MaxEvents
    /\ looppc' = "dispatch"
    /\ UNCHANGED <<callervars, queuevars, mutex, fdvars, stop>>

\* Ten seconds without an event: epolltimeoutcallback_, which changes nothing.
EpollTimeout == Readable = {} /\ Goto("wait", "check")

\* handleevent() of the next channel.
Handle(d, next) ==
    /\ looppc = "dispatch"
    /\ d \in channels
    /\ channels' = channels \ {d}
    /\ looppc' = next
    /\ UNCHANGED <<callervars, queuevars, mutex, stop>>

\* A socket's handler accepts a client or reads until EAGAIN.
HandleSource(c) ==
    /\ Handle(c, "dispatch")
    /\ ready' = ready \ {c}
    /\ UNCHANGED <<wakeupfd, timerfd>>

HandleTimerWith(timer) ==
    /\ Handle(TimerFd, "dispatch")
    /\ timerfd' = timer
    /\ UNCHANGED <<wakeupfd, ready>>

\* Mutation of HandleTimer: the expiration is read, the timer not armed again.
HandleTimerRead == HandleTimerWith("off")

\* handletimer() arms the timer first.
HandleTimer == HandleTimerWith(ArmedTimer)

\* handlewakeup() begins by reading the eventfd, which sets its counter to 0.
HandleWakeupRead ==
    /\ Handle(WakeFd, "lock")
    /\ wakeupfd' = 0
    /\ UNCHANGED <<timerfd, ready>>

HandleWakeupLock ==
    /\ looppc = "lock"
    /\ mutex = Nobody
    /\ mutex' = Loop
    /\ looppc' = "drain"
    /\ UNCHANGED <<channels, callervars, queuevars, fdvars, stop>>

\* One round of the while loop: the task runs with the mutex held.
HandleWakeupTask ==
    /\ looppc = "drain"
    /\ taskqueue # <<>>
    /\ ran' = Append(ran, Head(taskqueue))
    /\ taskqueue' = Tail(taskqueue)
    /\ UNCHANGED <<loopvars, callervars, posted, mutex, fdvars, stop>>

\* handlewakeup() returns, releasing the mutex.
HandleWakeupReturn ==
    /\ looppc = "drain"
    /\ mutex' = Nobody
    /\ looppc' = "dispatch"
    /\ UNCHANGED <<channels, callervars, queuevars, fdvars, stop>>

\* Mutation of HandleWakeupEnd: one task a wakeup ("if" for "while").
HandleWakeupOne == HandleWakeupReturn

\* The queue is empty.
HandleWakeupEnd == taskqueue = <<>> /\ HandleWakeupReturn

\* Mutation of BatchEnd: the stop_ flag is looked at inside the for loop.
BatchBreak == (stop \/ channels = {}) /\ Goto("dispatch", "check")

\* The for loop over the returned channels is done.
BatchEnd == channels = {} /\ Goto("dispatch", "check")

-----------------------------------------------------------------------------
(* The environment: time passes, a client connects or sends.               *)

TimerExpires ==
    /\ timerfd = "armed"
    /\ timerfd' = "expired"
    /\ UNCHANGED <<loopvars, callervars, queuevars, mutex, wakeupfd, ready, stop>>

SourceReady(c) ==
    /\ c \notin ready
    /\ ready' = ready \cup {c}
    /\ UNCHANGED <<loopvars, callervars, queuevars, mutex, wakeupfd, timerfd, stop>>

-----------------------------------------------------------------------------
QueueStep(p) == QueueLock(p) \/ QueuePush(p) \/ QueueWakeup(p)

\* What the loop thread does on its own, the time-out of epoll_wait() left out.
LoopStep ==
    \/ RunBegin
    \/ RunCheck
    \/ EpollReturn
    \/ \E c \in Sources : HandleSource(c)
    \/ HandleTimer
    \/ HandleWakeupRead
    \/ HandleWakeupLock
    \/ HandleWakeupTask
    \/ HandleWakeupEnd
    \/ BatchEnd

Next ==
    \/ \E p \in Posters : QueueInLoop(p) \/ QueueStep(p)
    \/ \E s \in Stoppers : StopSet(s) \/ StopWakeup(s)
    \/ LoopStep
    \/ EpollTimeout
    \/ TimerExpires
    \/ \E c \in Sources : SourceReady(c)

Spec == Init /\ [][Next]_vars

(* A thread that can go on does: the operating system schedules it.  No    *)
(* thread has to call queueinloop() or stop(), no timer or socket has to   *)
(* become ready, and nothing is assumed of epoll_wait()'s time-out, so     *)
(* what holds holds because of a wakeup and not because ten seconds have   *)
(* passed.  The kernel puts a descriptor it has reported behind the others *)
(* in its ready list, so one that stays ready is reported in its turn      *)
(* although a call returns MaxEvents at most.                              *)
Fairness ==
    /\ WF_vars(LoopStep)
    /\ \A d \in {WakeFd, TimerFd} : SF_vars(EpollReturn /\ d \in channels')
    /\ \A p \in Posters : WF_vars(QueueStep(p))
    /\ \A s \in Stoppers : WF_vars(StopWakeup(s))

FairSpec == Spec /\ Fairness

-----------------------------------------------------------------------------
(* Types, and that a batch of channels never outlives its round of run():  *)
(* the vector is local to the body of the while loop.                      *)
TypeOK ==
    /\ looppc \in LoopPc
    /\ pc \in [Callers -> CallerPc]
    /\ fn \in [Posters -> Tasks \cup {NoTask}]
    /\ taskqueue \in Seq(Tasks)
    /\ mutex \in Callers \cup {Loop, Nobody}
    /\ wakeupfd \in Nat
    /\ timerfd \in {"armed", "expired", "off"}
    /\ stop \in BOOLEAN
    /\ ready \subseteq Sources
    /\ channels \subseteq Descriptors
    /\ looppc \in {"new", "check", "wait", "exited"} => channels = {}
    /\ posted \in Seq(Tasks)
    /\ ran \in Seq(Tasks)

\* mutex_ is held exactly by the thread inside a block that locked it.
MutexHeld ==
    /\ mutex = Loop <=> looppc = "drain"
    /\ \A c \in Callers : mutex = c <=> pc[c] = "push"

(* No wakeup is lost: while a task is queued, the eventfd is readable, or  *)
(* some queueinloop() has still to write to it, or handlewakeup() has read *)
(* it and has not finished emptying the queue.  So the loop never sleeps   *)
(* in epoll_wait() on a task nobody will wake it for, whatever the order   *)
(* of push, write, read and drain.                                         *)
NoLostWakeup ==
    taskqueue # <<>> =>
        \/ wakeupfd > 0
        \/ \E p \in Posters : pc[p] = "wakeup"
        \/ looppc \in {"lock", "drain"}

(* A loop that went to sleep before it could see stop_ is woken: "without  *)
(* this line the loop would stop only at the next alarm or when            *)
(* epoll_wait() times out" (the comment in EventLoop::stop()).             *)
StopWakes ==
    stop /\ looppc = "wait" =>
        wakeupfd > 0 \/ \E s \in Stoppers : pc[s] = "wakeup"

(* The inductive invariant of the proofs.  The history variables tell what *)
(* the queue holds, which is what makes it first-in first-out; a caller on *)
(* its way to the push carries a task nobody else has handed in.           *)
QueueHistory == posted = ran \o taskqueue

FreshTasks ==
    \A p \in Posters :
        /\ fn[p] # NoTask <=> pc[p] \in {"lock", "push"}
        /\ fn[p] \notin Range(posted)
        /\ \A q \in Posters : p # q /\ fn[p] = fn[q] => fn[p] = NoTask

IInv == TypeOK /\ MutexHeld /\ NoLostWakeup /\ StopWakes /\ QueueHistory /\ FreshTasks

(* The loop's queue is a TaskQueue: every task at most once, in the order  *)
(* of the pushes.                                                          *)
TQ == INSTANCE TaskQueue WITH posted <- posted, ran <- ran
ImplementsTaskQueue == TQ!Spec

(* A task that was queued is executed, without help from a time-out or     *)
(* from another event, unless the loop is stopped.                         *)
QueuedTasksRun ==
    \A t \in Tasks : t \in Range(taskqueue) ~> stop \/ t \in Range(ran)

(* The alarm goes on ringing while the loop runs: handletimer() is reached *)
(* through the batches of a busy loop, and arms the one-shot timer again.  *)
TimerRearmed == timerfd # "armed" ~> stop \/ timerfd = "armed"

(* stop() ends run() although epoll_wait()'s time-out is not fair here.    *)
StopEndsRun == stop ~> looppc = "exited"
=============================================================================
