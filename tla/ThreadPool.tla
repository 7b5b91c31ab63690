----------------------------- MODULE ThreadPool -----------------------------
(***************************************************************************)
(* ThreadPool.cpp: threads that wait on a condition variable for tasks,    *)
(* addtask() and Stop().  The IO pool runs one EventLoop::run() on each of *)
(* its threads, the worker pool runs EchoServer::OnMessage().              *)
(*                                                                         *)
(* condition_variable::wait(lock, pred) is "while (!pred()) wait(lock)":   *)
(* a thread tests pred with the mutex held, gives up the mutex and joins   *)
(* the wait set in one step, leaves the wait set when it is notified or    *)
(* for no reason at all, and takes the mutex again before it tests again.  *)
(* stop_ is atomic and is written without the mutex, so a test of it and   *)
(* what follows the test are two steps.                                    *)
(***************************************************************************)
EXTENDS Naturals, Sequences, Functions, FiniteSets

CONSTANTS Threads,     \* threads_
          Adders,      \* threads that call addtask()
          Stoppers,    \* threads that call Stop(), each at most once
          Tasks,       \* the closures, each handed in at most once
          Nobody,      \* the holder of a free mutex
          NoTask       \* no closure: a caller outside addtask()

ASSUME ThreadPoolAssumption ==
    /\ IsFiniteSet(Threads) /\ IsFiniteSet(Adders)
    /\ Threads \cap Adders = {}
    /\ (Threads \cup Adders) \cap Stoppers = {}
    /\ Nobody \notin Threads \cup Adders \cup Stoppers
    /\ NoTask \notin Tasks

VARIABLES
    pc,         \* where each thread is
    arg,        \* the argument of the addtask() an adder is in
    taskqueue,  \* taskqueue_
    posted,     \* history: the tasks pushed, in order
    ran,        \* history: the tasks taken for execution, in order
    mutex,      \* who holds mutex_
    stop,       \* stop_
    begun       \* history: how many tasks had been taken when stop_ was set

queuevars == <<taskqueue, posted, ran>>
stopvars == <<stop, begun>>

vars == <<pc, arg, queuevars, mutex, stopvars>>

Callers == Adders \cup Stoppers

ThreadPc == {"check", "lock", "test", "block", "waiting", "relock", "take", "run", "exited"}
AdderPc == {"idle", "lock", "push", "notify"}
StopperPc == {"idle", "set", "notify", "join", "done"}

Waiting == {th \in Threads : pc[th] = "waiting"}

Init ==
    /\ pc = [th \in Threads \cup Callers |-> IF th \in Threads THEN "check" ELSE "idle"]
    /\ arg = [a \in Adders |-> NoTask]
    /\ taskqueue = <<>> /\ posted = <<>> /\ ran = <<>>
    /\ mutex = Nobody
    /\ stop = FALSE /\ begun = 0

-----------------------------------------------------------------------------
(* How a thread moves: on its own, by taking mutex_, by giving it up.      *)

Goto(th, from, to) == pc[th] = from /\ pc' = [pc EXCEPT ![th] = to]

Step(th, from, to) == Goto(th, from, to) /\ UNCHANGED <<arg, queuevars, mutex, stopvars>>

Lock(th, from, to) ==
    /\ mutex = Nobody
    /\ mutex' = th
    /\ Goto(th, from, to)
    /\ UNCHANGED <<arg, queuevars, stopvars>>

Unlock(th, from, to) ==
    /\ mutex' = Nobody
    /\ Goto(th, from, to)
    /\ UNCHANGED <<arg, queuevars, stopvars>>

-----------------------------------------------------------------------------
(* The lambda each thread of the pool executes.                            *)

\* Mutation of ThreadCheck: while (true); only line 40 looks at stop_.
ThreadCheckForever(th) == Step(th, "check", "lock")

\* while (stop_ == false)
ThreadCheck(th) == Step(th, "check", IF stop THEN "exited" ELSE "lock")

\* Mutation of ThreadLock: "if" for "while" around the wait.
ThreadLockNoTest(th) == Lock(th, "lock", "test") \/ Lock(th, "relock", "take")

\* unique_lock, and the lock that wait() takes again after a wakeup.
ThreadLock(th) == Lock(th, "lock", "test") \/ Lock(th, "relock", "test")

\* The predicate of wait().
ThreadTest(th) == Step(th, "test", IF stop \/ taskqueue # <<>> THEN "take" ELSE "block")

\* The predicate was false: release the mutex and sleep.
ThreadBlock(th) == Unlock(th, "block", "waiting")

\* A wakeup nobody asked for.
SpuriousWakeup(th) == Step(th, "waiting", "relock")

\* Mutation of ThreadReturn: a return that leaves mutex_ locked.
ThreadReturnLocked(th) == stop /\ taskqueue = <<>> /\ Step(th, "take", "exited")

\* wait() is over: stop_ is set and nothing is queued.
ThreadReturn(th) == stop /\ taskqueue = <<>> /\ Unlock(th, "take", "exited")

\* The end of the block releases the mutex.
Take(th, task, rest) ==
    /\ taskqueue # <<>>
    /\ ran' = Append(ran, task)
    /\ taskqueue' = rest
    /\ mutex' = Nobody
    /\ Goto(th, "take", "run")
    /\ UNCHANGED <<arg, posted, stopvars>>

\* Mutation of ThreadTake: the newest task first.
ThreadTakeNewest(th) ==
    Take(th, taskqueue[Len(taskqueue)], SubSeq(taskqueue, 1, Len(taskqueue) - 1))

\* front() and pop().
ThreadTake(th) == Take(th, Head(taskqueue), Tail(taskqueue))

\* task() returns.
TaskEnd(th) == Step(th, "run", "check")

-----------------------------------------------------------------------------
(* addtask(task): lock, push, unlock, then notify_one().                   *)

AddTask(a) ==
    /\ \E t \in Tasks \ (Range(posted) \cup Range(arg)) : arg' = [arg EXCEPT ![a] = t]
    /\ Goto(a, "idle", "lock")
    /\ UNCHANGED <<queuevars, mutex, stopvars>>

AddLock(a) == Lock(a, "lock", "push")

PushThen(a, next) ==
    /\ taskqueue' = Append(taskqueue, arg[a])
    /\ posted' = Append(posted, arg[a])
    /\ arg' = [arg EXCEPT ![a] = NoTask]
    /\ mutex' = Nobody
    /\ Goto(a, "push", next)
    /\ UNCHANGED <<ran, stopvars>>

\* Mutation of AddPush: notify_one() only for the first task of a queue.
AddPushNotifyFirst(a) == PushThen(a, IF taskqueue = <<>> THEN "notify" ELSE "idle")

AddPush(a) == PushThen(a, "notify")

\* Mutation of AddNotify: nobody is woken.
AddNotifyNobody(a) == Step(a, "notify", "idle")

\* notify_one(): some waiting thread is woken, if there is one.
AddNotify(a) ==
    /\ pc[a] = "notify"
    /\ IF Waiting = {}
       THEN pc' = [pc EXCEPT ![a] = "idle"]
       ELSE \E th \in Waiting : pc' = [pc EXCEPT ![a] = "idle", ![th] = "relock"]
    /\ UNCHANGED <<arg, queuevars, mutex, stopvars>>

-----------------------------------------------------------------------------
(* Stop(), called by the destructor too.                                   *)

\* if (stop_) return;
StopCheck(s) == Step(s, "idle", IF stop THEN "done" ELSE "set")

StopSet(s) ==
    /\ stop' = TRUE
    /\ begun' = IF stop THEN begun ELSE Len(ran)
    /\ Goto(s, "set", "notify")
    /\ UNCHANGED <<arg, queuevars, mutex>>

\* notify_all()
StopNotifyAll(s) ==
    /\ pc[s] = "notify"
    /\ pc' = [th \in DOMAIN pc |-> IF th \in Waiting THEN "relock"
                                   ELSE IF th = s THEN "join" ELSE pc[th]]
    /\ UNCHANGED <<arg, queuevars, mutex, stopvars>>

\* The join() of every thread.
StopJoin(s) == (\A th \in Threads : pc[th] = "exited") /\ Step(s, "join", "done")

-----------------------------------------------------------------------------
\* What a thread of the pool does on its own between two tasks.
ThreadStep(th) ==
    \/ ThreadCheck(th)
    \/ ThreadLock(th)
    \/ ThreadTest(th)
    \/ ThreadBlock(th)
    \/ ThreadReturn(th)
    \/ ThreadTake(th)

AddStep(a) == AddLock(a) \/ AddPush(a) \/ AddNotify(a)

StopStep(s) == StopSet(s) \/ StopNotifyAll(s) \/ StopJoin(s)

Next ==
    \/ \E th \in Threads : ThreadStep(th) \/ TaskEnd(th) \/ SpuriousWakeup(th)
    \/ \E a \in Adders : AddTask(a) \/ AddStep(a)
    \/ \E s \in Stoppers : StopCheck(s) \/ StopStep(s)

Spec == Init /\ [][Next]_vars

(* The operating system schedules every thread, and a mutex that is free   *)
(* again and again is given in the end to each thread that wants it.       *)
(* Nothing makes a caller call, a task end, or a wakeup happen that was    *)
(* not asked for.                                                          *)
Fairness ==
    /\ \A th \in Threads : WF_vars(ThreadStep(th)) /\ SF_vars(ThreadLock(th))
    /\ \A a \in Adders : WF_vars(AddStep(a)) /\ SF_vars(AddLock(a))
    /\ \A s \in Stoppers : WF_vars(StopStep(s))

FairSpec == Spec /\ Fairness

-----------------------------------------------------------------------------
(* Types, and that a thread which has left the pool, or runs a task, has   *)
(* left mutex_ behind: only a thread between wait() and pop() holds it.    *)
TypeOK ==
    /\ pc \in [Threads \cup Callers -> ThreadPc \cup AdderPc \cup StopperPc]
    /\ \A th \in Threads : pc[th] \in ThreadPc
    /\ \A a \in Adders : pc[a] \in AdderPc
    /\ \A s \in Stoppers : pc[s] \in StopperPc
    /\ arg \in [Adders -> Tasks \cup {NoTask}]
    /\ taskqueue \in Seq(Tasks)
    /\ mutex \in Threads \cup Adders \cup {Nobody}
    /\ mutex \in Threads => pc[mutex] \in {"test", "block", "take"}
    /\ stop \in BOOLEAN
    /\ posted \in Seq(Tasks)
    /\ ran \in Seq(Tasks)
    /\ begun \in Nat

\* mutex_ is held exactly by the thread inside a block that locked it.
MutexHeld ==
    /\ \A th \in Threads : mutex = th <=> pc[th] \in {"test", "block", "take"}
    /\ \A a \in Adders : mutex = a <=> pc[a] = "push"

(* front() is never called on an empty queue: whatever woke a thread, and  *)
(* whoever took the task it was woken for, a thread is past wait() only if *)
(* there is a task to take or the pool is being stopped.                   *)
TakeSafe == \A th \in Threads : pc[th] = "take" => stop \/ taskqueue # <<>>

\* Threads that will look at the queue before they sleep again.
Awake == {th \in Threads : pc[th] \in {"check", "lock", "test", "relock", "take"}}
Notifying == {a \in Adders : pc[a] = "notify"}

(* No task waits while a thread of the pool sleeps: as long as some thread *)
(* is in the wait set, every queued task has a thread on its way to the    *)
(* queue or a notify_one() still to come.                                  *)
NoIdleWithWork ==
    ~stop /\ Waiting # {} =>
        Len(taskqueue) <= Cardinality(Awake) + Cardinality(Notifying)

(* Stop() waits for at most one task of each thread, however many are      *)
(* queued: a thread that comes back from its task finds stop_ set in the   *)
(* while, and leaves the rest of the queue to be dropped.                  *)
StopIsPrompt == stop => Len(ran) <= begun + Cardinality(Threads)

(* The inductive invariant of the proofs: a thread about to sleep has seen *)
(* an empty queue and still holds the mutex, the history variables tell    *)
(* what the queue holds, a task on its way in is nobody else's, and every  *)
(* thread past the while has its one task still to take.                   *)
BlockEmpty == \A th \in Threads : pc[th] = "block" => taskqueue = <<>>

QueueHistory == posted = ran \o taskqueue

FreshTasks ==
    \A a \in Adders :
        /\ arg[a] # NoTask <=> pc[a] \in {"lock", "push"}
        /\ arg[a] \notin Range(posted)
        /\ \A b \in Adders : a # b /\ arg[a] = arg[b] => arg[a] = NoTask

PastWhile == {th \in Threads : pc[th] \in {"lock", "test", "block", "waiting", "relock", "take"}}
StopCount == stop => Len(ran) + Cardinality(PastWhile) <= begun + Cardinality(Threads)

IInv ==
    /\ TypeOK
    /\ MutexHeld
    /\ TakeSafe
    /\ BlockEmpty
    /\ NoIdleWithWork
    /\ QueueHistory
    /\ FreshTasks
    /\ StopCount

(* The pool's queue is a TaskQueue: every task is taken at most once, in   *)
(* the order of the pushes, however many threads take.                     *)
TQ == INSTANCE TaskQueue WITH posted <- posted, ran <- ran
ImplementsTaskQueue == TQ!Spec

(* As long as tasks come to an end, every queued task is taken by some     *)
(* thread, unless the pool is stopped.                                     *)
TasksEnd == \A th \in Threads : []<>(pc[th] # "run")
QueuedTasksRun ==
    TasksEnd => \A t \in Tasks : t \in Range(taskqueue) ~> stop \/ t \in Range(ran)

(* A pool of n threads starts the first n tasks although none of them ever *)
(* ends: TcpServer's constructor gives the IO pool one EventLoop::run() a  *)
(* thread, and every one of these loops must start.                        *)
EveryThreadUsed ==
    \A i \in 1..Cardinality(Threads) : Len(posted) >= i ~> stop \/ Len(ran) >= i

(* What a comment on stop_ says: in the destructor it is set, and all the  *)
(* threads exit; that is, if tasks end, Stop() comes to its end.           *)
StopJoins == TasksEnd => (stop ~> \A th \in Threads : pc[th] = "exited")
=============================================================================
