# Reactor_server in TLA+

Reactor_server is a C++ TCP server on epoll: one main thread accepts clients,
IO threads run an event loop each and read and write the clients' sockets, and
worker threads do the application's work (an echo service). This directory
holds TLA+ modules of its parts, TLC configurations that check them on small
instances, and proofs, checked by TLAPS, for every size.

## 1. The system

| Component | State | Operations | Talks to |
|---|---|---|---|
| `EventLoop` | `taskqueue_`, `mutex_`, `wakeupfd_`, `stop_`, `threadid_`, `conns_`, `mmutex_` | `run`, `queueinloop`, `wakeup`, `handlewakeup`, `handletimer`, `newconnection`, `stop` | owns an `Epoll`; other threads hand it closures |
| `ThreadPool` | `threads_`, `taskqueue_`, `mutex_`, `condition_`, `stop_` | constructor, the threads' loop, `addtask`, `Stop` | one pool runs the loops (IO), one runs `EchoServer::OnMessage` (WORKS) |
| `Epoll`, `Channel` | the kernel's set; `inepoll_`, `events_`, `revents_` | `updatechannel`, `removechannel`, `loop`; `enable...`, `disable...`, `remove`, `handleevent` | a channel calls back into its owner |
| `Connection` | `inputbuffer_`, `outputbuffer_`, `disconnect_`, callbacks, socket | `onmessage`, `send`, `sendinloop`, `writecallback`, `closecallback`, `errorcallback`, `timeout` | its loop, and `TcpServer` through callbacks |
| `Acceptor`, `TcpServer` | `conns_`, `mmutex_`, the loops | `newconnection`, `closeconnection`, `errorconnection`, `onmessage`, `removeconn`, `start_run`, `stop` | inserts into the map of the IO loop, on the main thread |
| `EchoServer` | the worker pool | `HandleMessage`, `OnMessage`, `Stop` | `addtask`, `Connection::send` |
| `Buffer` | `buf_`, `sep_` | `append`, `appendwithsep`, `pickmessage`, `erase` | used by `Connection` with `sep_` = 0 |
| `tcpepoll.cpp` | the global server | `main`, the handler of SIGINT and SIGTERM | `EchoServer::Stop`, `delete`, `exit` |

The way of a message: client -> socket -> `onmessage` (IO thread) -> worker
pool's queue -> `OnMessage`, `send` (worker) -> loop's queue and eventfd ->
`sendinloop` (IO thread) -> `outputbuffer_`, EPOLLOUT -> `writecallback` ->
socket -> client. Three kinds of threads meet in two queues with a mutex each,
two maps with a mutex each, and three atomic flags that are tested on one
thread and set on another.

What is hard:

* the wakeup of a sleeping thread: an eventfd read before the queue is drained,
  a condition variable notified after the mutex is released, a `stop_` that is
  set without any mutex;
* a test and its use on different threads: `disconnect_` in `send`, `inepoll_`
  after the removal, callbacks set after the descriptor is live;
* partial reads and writes, a stream that is cut in the middle of a header, and
  an interest in EPOLLOUT that must be on exactly while there is something to
  write;
* replies of one client that are under way on several threads at once;
* lifetimes: two maps and running tasks own a `Connection`, the epoll set and
  queued closures point to it;
* the shutdown, from a signal handler that is installed before there is a server.

What makes each component correct:

* a loop or a pool runs each closure at most once and in order, and at all
  unless it is stopped; a stop is noticed by every thread, the alarm goes on;
* a stream of framed messages comes out of the buffer as the messages sent;
* the server is an echo service: each chunk comes back once, in order unless two
  workers answer the same client, whatever the sizes of the reads and writes,
  and a client that leaves is noticed and does no harm;
* a connected client is found in the maps, no pointer outlives its connection,
  and a client that has left leaves nothing behind.

`PROJECT.json` lists the hazards line by line with the properties that cover
each, the code lines behind every definition, and the findings.

## 2. The modules

| Module | What it is |
|---|---|
| `TaskQueue` | what every queue promises: handed in once, taken at most once, oldest first |
| `EchoService` | what the server promises one client |
| `EventLoop` | `run`, `queueinloop`, `wakeup`, `handlewakeup`, `stop`, the alarm; implements `TaskQueue` |
| `ThreadPool` | the threads' loop with its condition variable, `addtask`, `Stop`; implements `TaskQueue` |
| `Buffer` | `append`, `appendwithsep`, `erase`, `pickmessage` as operators on bytes |
| `Framing` | a client's framed stream, the read loop and `Buffer`; implements `TaskQueue` if there is a separator |
| `Connection` | one client through `Connection`, `Channel`, `Epoll`, the echo service and the two queues; implements `EchoService` |
| `TcpServer` | accept, construction, the two maps, the alarm's sweep, closing, lifetimes |
| `Shutdown` | the construction of the server, the signal handler on an interrupted thread, the two `Stop()`s, the loops' end, the deletion |
| `EventLoopProofs`, `ThreadPoolProofs`, `ConnectionProofs`, `TcpServerProofs`, `ShutdownProofs`, `FramingProofs` | the proofs about each module |
| `EchoProofs` | the proof that `Connection` implements `EchoService` |
| `QueueLemmas` | lemmas about sequences that the proofs share: queues, concatenation, cutting in two |
| `MC...` | the constants of the instances TLC checks |

How they fit: `EventLoop` and `ThreadPool` are checked and proved to implement
`TaskQueue`, and `Connection` uses both queues as what `TaskQueue` describes,
so it need not repeat mutexes, eventfd and condition variable. `Framing` looks
at the bytes of the same read loop and at both modes of the input buffer;
`Connection` takes from it that without a separator a message is what has been
read. `EchoService` closes the chain: `Connection` implements it. `TcpServer`
looks at the same connection from outside: who refers to it and who has set
what, with messages reduced to "one is under way". `Shutdown` takes the loops
and pools down to where they stand in their own loop, and keeps the one mutex
that the main thread and the IO threads share.

### State and actions against the code

`EventLoop`. `looppc` is where the loop's thread is: `check` is the `while` of
`run()`, `wait` is in `epoll_wait()`, `dispatch` is the `for` over the returned
channels, `lock` and `drain` are in `handlewakeup()`, before and after its
mutex. `pc` is where a caller of `queueinloop()` or `stop()` is. Each access to
the mutex, the queue, the eventfd's counter or `stop_` is a step of its own;
the release of a mutex at a closing brace belongs to the last access under it.
Sockets become ready at any time and are quiet after they have been handled;
the timer is one-shot, as `timerfd_settime()` without an interval makes it, and
`handletimer()` arms it again. `epoll_wait()` returns everything that is ready,
or `MaxEvents` of it. `posted` and `ran` are history.

`ThreadPool`. `condition_variable::wait(lock, pred)` is spelled out: test with
the mutex held (`test`), give up the mutex and join the wait set in one step
(`block` to `waiting`), leave the set when notified or spuriously (`relock`),
take the mutex, test again. `stop_` is atomic and not under the mutex, so a
test of it and what follows are two steps, which is where `Stop()` loses its
notification. After `wait()` the code tests `stop_` once more; since only `Stop` writes it
and never back, "stop and empty" (`ThreadReturn`) and "not empty"
(`ThreadTake`) are all that can happen. `begun` remembers how much had been
taken when `stop_` was set.

`Buffer` and `Framing`. A byte is a number below `Base`, an `int` has four of
them and wraps. `pickmessage()` copies four bytes out of the buffer even if it
holds fewer: the string's own, its terminating zero, and then whatever is there
(`HeaderBytes`, a choice); the comparison with the size is unsigned. Messages
are such that an `int` holds the length of the frame (`FramingAssumption`; the
client builds its frames in 1024 bytes). `Framing`
has one action for `read()` with data, one for EAGAIN, one for a round of the
inner loop, and a client that frames as `client.cpp` does. Without a separator
the cuts between messages mean nothing, so `picked` keeps them as one entry.

`Connection`. The client's bytes are chunks 1, 2, 3, ...; a reply is what was
read (the words the service puts in front are left out). `inbound` and
`sndbuf` are the socket's two buffers, `registered` is what the kernel knows,
`inepoll` what the channel thinks. `epoll_wait()` returns a `batch` that is
handled later, when what it reports may have changed. `Read` takes any number of chunks.
`ReadClosed` stands for `read()` returning 0, also after an error: an error
other than EAGAIN and EINTR matches no branch of `onmessage()`, the loop reads
again and gets 0. `exited` becomes `exit` where `epoll_ctl()` fails, and
`signal` where `send()` raises SIGPIPE. `pool` is the workers there are: none,
one or several, chosen at the start; with none `HandleMessage()` answers on the
IO thread. `strdup()` ends at a zero byte and `append()` reads on behind it
(`StrdupCopy`): a chunk that the client never sent, in the place of its chunk
n, is -n, and no answer of `EchoService`; so the refinement is stated for
messages without a zero byte, and `RepliesIntact` refuted with one. `OnTheWay`
is the refinement mapping: the chunks in both socket buffers, both `Buffer`s
and both queues.

`TcpServer`. `newconnection()` takes four steps, because other threads can see
what happens between them: the constructor (`Accept`, the descriptor is live in
the IO loop from here on), the callbacks, the server's map, the loop's map.
`Alive(c)` says that a `shared_ptr` to `c` exists; `queued` and `inepoll` are
the plain pointers. `handletimer()` is a walk over the entries of one map, one
step an entry. Undefined behaviour (an insertion into a map another thread
walks over) is a choice between getting away with it, seeing the new entry and
the end of the process (`ended = "race"`).

`Shutdown`. The main thread starts where the handlers are installed and opens
the socket (which may fail and end the process), starts the IO threads, the
workers, assigns `server` and runs; the threads of a pool are `unborn` before
that, and an IO thread is `born` until it has taken its `run()`. From
then on `pc` is where a thread is in its own code. A loop's thread is in its
`loop`, in the read loop of `onmessage()` (`read`), or before or inside the
block that holds `TcpServer::mmutex_` (`newconnection()` on the main thread,
`closeconnection()` on an IO thread). A thread of a pool, before its first task
and after each, goes through the same places as in `ThreadPool`: `while` tests
`stop_`, `test` takes `mutex_` and tests the predicate of `wait()`, `block` is
between that and the sleep, with the mutex still held, `waiting` is the sleep.
Who is in `block` when `notify_all()` is called misses it: it is `late`, and then
`missed`, asleep with nobody left to wake it (`addtask()` may, while the IO
threads still run). `exited` is the end of the thread. `stack` is the handlers
that run on top of each thread, which stands still below them for good. `hpc`
is the next call of each handler: `StopTest`, `StopSet`, `StopNotifyAll`,
`StopJoin` are the four parts of `ThreadPool::Stop()`, first for the workers,
then for the IO pool, with `StopLoops` in between; then `DeleteServer` and
`Exit`. `join()` waits; on oneself, or a second time, it throws. A `~thread()`
that was not joined, whatever a second handler does in a deleted server, and a
call of `Stop()` while `server` is null, count as `abort`. Linux gives a signal
to the main thread unless it is blocked there, and a handler blocks its own
signal only: so the second signal comes to the main thread or to any other
(`Signal`).

## 3. What the runs check

Runs that pass:

| Run | Instance | Properties |
|---|---|---|
| `event_loop` | 2 posters, 1 stopper, 3 tasks, timer and a socket, 2 events a call | `NoLostWakeup`, `StopWakes`, `ImplementsTaskQueue`, `QueuedTasksRun`, `TimerRearmed`, `StopEndsRun` |
| `thread_pool` | 2 threads, 2 adders, 1 stopper, 3 tasks | `TakeSafe`, `NoIdleWithWork`, `StopIsPrompt`, `ImplementsTaskQueue`, `QueuedTasksRun`, `EveryThreadUsed` |
| `framing` | 3 messages of 0, 1 and 4 bytes, bytes with 4 values, with and without a separator | `BytesKept`, `ImplementsTaskQueue`, `MessagesPicked` |
| `connection` | no worker, 1 or 2, 4 chunks, none with a zero byte, send buffer of 1 | `WatchesOutput`, `ClosedIsQuiet`, `SurvivesWithoutPool`, `ImplementsEcho`, `EchoReturned`, `CloseNoticed` |
| `tcp_server` | 3 clients, 2 descriptors, 2 loops | `OpenIsFound`, `NoUseAfterFree` |
| `shutdown` | 2 workers, 2 IO threads, 1 signal, queue of 2 | `RepliesReachLoop`, `DeletedAtRest`, `OneSignalIsClean`, `UnlockedShutdownEnds` |

Each checks `TypeOK` too, with one structural conjunct: a batch does not
outlive its round of the loop, a mutex is not kept by a thread that has left,
a walk over a map is finished, a mutex is held exactly in its block, no whole
message is left in the buffer when the loop polls again. Each property is shown to have teeth by a
mutation of the code's model (the operators marked "Mutation of") that breaks
it.

Runs that refute what a comment in the code says:

| Run | Property | What happens |
|---|---|---|
| `thread_pool_stop` | `StopJoins` | `Stop()` notifies between a thread's test and its sleep; `join()` waits for ever |
| `connection_exit` | `ServerSurvives` | a client closes while its reply is queued: `EPOLL_CTL_MOD` on a removed descriptor, `exit(-1)` |
| `connection_zero` | `RepliesIntact` | `strdup()` copies up to a zero byte, `append()` goes on behind the copy: the client gets bytes it never sent. The length in front of every short message of `client.cpp` has zero bytes |
| `tcp_server_leak` | `FdReleased` | nothing erases `EventLoop::conns_`, so no descriptor is ever closed |
| `tcp_server_early` | `CallbacksReachServer` | the IO thread handles a client before the main thread has set the callbacks |
| `shutdown_hang` | `ShutdownEnds` | the signal finds the main thread with the map's mutex; an IO thread waits for it, the handler for the IO thread |

### Bounds, and why they suffice

Two callers and two pool threads are the least with which pushes interleave and
a thread can take the task another was woken for; three tasks let a queue hold
two while a third is on its way. One stopper may call at any moment. Two events
a call out of three descriptors leave one behind, the wakeup or the alarm
included. With bytes of four values the length of the longest message needs two
bytes of the header, the empty one ends with its header, and three messages let
a read end in any byte of a header or body with another message behind it. Four
chunks and a send buffer of one make a reply take several writes, leave a
second reply behind the first, and let the client send again before the answer;
partial reads split and join messages in every way four chunks allow, and two
workers let a later reply overtake an earlier one. With
three clients for two descriptors `accept4()` fails, and the two descriptors
belong to two loops. In `TcpServer` one message of a connection is under way at
a time (a guard of `HandleMessage`): lifetimes depend on whether there is one,
not on how many. For the shutdown, two IO threads are the least with which one
waits for a mutex the other holds, two workers the least of which one can miss
a notification that the other gets, and a queue of two leaves a task behind when
a worker goes. The run has one signal, since its properties say nothing of what
comes after a second; that the variables keep their types with any number of
signals is proved. For `connection_zero` two
chunks are enough: the first has a zero byte, and already does not come back.
Clients send at most `MaxChunks` chunks, the worker pool's queue in `Shutdown` holds `MaxTasks`. Nothing else is
bounded: tasks are handed in at most once, which is what makes order and
"at most once" expressible. No symmetry is used, since the runs check liveness.

Deadlock is not checked: in each system everything may come to rest (a stopped
loop, a pool without tasks, a client that does not send), and what must not
come to rest is stated as a liveness property.

### Fairness

A thread that can take a step takes one (weak fairness per thread). Strong
fairness is assumed of mutexes (`ThreadPool`'s `mutex_`, `mmutex_` in
`Shutdown`, where the pools' `mutex_` is taken at the predicate of `wait()`): a
waiter gets a mutex that is free again and again; and of a loop that is stopped: when it comes back from its handlers again and
again it comes to its test of `stop_`, because a batch is finite. That the read
loop of `onmessage()` comes back is no part of `FairSpec` in `Shutdown`; a
client that never pauses keeps the thread there, and the two properties of the
shutdown's end assume, in `ClientsPause`, that none does. In
`EventLoop` a descriptor that stays ready is reported in the end although a call returns `MaxEvents` only (strong fairness
of `EpollReturn` for the wakeup and the timer): the kernel moves what it has
reported behind the rest of its ready list. In `FairSpec` of `TcpServer`, which serves one
refutation, a connection's handlers get their turn between alarms. No fairness
is given to what the code does not control: callers, clients (they read what is
sent to them, but need not send or close), the end of a task, spurious wakeups,
and the ten-second time-out of `epoll_wait()`. `QueuedTasksRun` of the pool and
`StopJoins` assume that tasks end, and say so; `EveryThreadUsed` assumes the
opposite, since the IO pool's tasks never end. `UnlockedShutdownEnds` says
which way of not ending the code leaves open besides the mutex: a thread that
is `Missed` for good.

## 4. What is proved

TLAPS checks, for all values of the constants that satisfy the named
assumptions (disjoint sets of threads, finite sets of pool threads and adders,
room for a chunk in the send buffer, `fd % threadnum` a function into the
loops, bytes with an even number of values above 3, messages whose frame's
length an `int` holds; for `EchoProofs`' `Refinement`, messages without a zero
byte):

| Module | Theorems |
|---|---|
| `EventLoopProofs` | `TypeCorrect`, `NoWakeupLost`, `StopAlwaysWakes`, `Refinement` |
| `ThreadPoolProofs` | `TypeCorrect`, `NeverTakesFromEmpty`, `NoIdleThreadWithWork`, `StopTakesFewTasks`, `Refinement` |
| `ConnectionProofs` | `TypeCorrect`, `OutputIsWatched`, `ClosedStaysQuiet`, `NoPoolNoExit` |
| `EchoProofs` | `Refinement` |
| `FramingProofs` | `HeaderSays`, `PickFirst`, `TypeCorrect`, `NoByteLost`, `Refinement` |
| `TcpServerProofs` | `TypeCorrect`, `ConnectedIsFound`, `NoDanglingPointer` |
| `ShutdownProofs` | `TypeCorrect`, `RepliesFindALoop`, `NobodyLeftBehind`, `CleanEnd` |

The two about `pickmessage()` (`HeaderSays`, `PickFirst`) are facts about its
bytes. Each of the others follows from an inductive invariant, `IInv` (`EchoInv` for the echo
service), defined in the component's module and shown to hold initially and to
be kept by every action, one step an action.

* `EventLoop`: the mutex is held exactly in the locked blocks, which makes a
  push impossible between the drain's last look at the queue and the release:
  without it `NoLostWakeup` is not inductive. `QueueHistory`
  (`posted = ran \o taskqueue`) and `FreshTasks` (a task on its way in is
  nobody else's) carry the refinement.
* `ThreadPool`: besides those, `BlockEmpty`: a thread about to sleep still
  holds the mutex, so the queue it found empty is empty. `NoIdleWithWork`
  counts: each push adds a notification, each notification that finds a sleeper
  turns into an awake thread, each thread that goes away takes a task. The
  lemma `FiniteCounts` lets the cardinalities be computed with. `StopCount`
  makes `StopIsPrompt` inductive: a thread past the `while` has one task still
  to take, and after `stop_` is set none comes past it.
* `Connection`: `Registered` (the kernel knows the descriptor until the close,
  the channel always thinks so) and `BatchValid` (an EPOLLOUT that waits in the
  batch is still asked for, and nothing of the client waits while it is being
  read) make the handlers safe to run on what `epoll_wait()` returned earlier.
  `RepliesNotEmpty` is what lets `sendinloop()` switch EPOLLOUT on without a
  look at the buffer, and `NobodyAtWork` says why a server without workers
  cannot meet the race that `connection_exit` shows.
* The echo service (`EchoProofs`): `EchoInv` adds to that invariant where a
  chunk is on its way. It stands at one of seven stations, from the client's
  end of the road to its start: `sndbuf`, `outputbuffer`, the loop's queue, the
  workers' hands, the pool's queue, `inputbuffer`, `inbound`. `InOrder` says
  that whatever is nearer to the client was sent earlier, within a station and
  across stations (`Chain`), or, with several workers, is at least another
  chunk; what is in one buffer or one message is ascending in either case. Every
  internal step carries a piece from one station over to the next nearer one
  that is not passed by anything, which is the lemma `Move`, and leaves the set
  of chunks under way as it was: a stutter of `EchoService`. The close and the
  client's abort are its `Cut`, what the client reads its `Return`, whose guard
  is `Chain`. `Legible` is about the copy through `strdup()`: a
  damaged chunk is behind one with a zero byte (`BehindZero`), so under the
  theorem's assumption, `WithZero = {}`, there is none. The invariant itself is
  proved with zero bytes too. With several workers the order
  of the replies is lost as soon as two of them answer, and `Before` is exactly
  what is left of it.
* `Framing`: `IInv` is `TypeOK`, `BytesKept` and, with a header, "what was
  picked is what was sent first". The last is not inductive without the bytes:
  `BytesKept` says that the rest of the stream begins with the next frame, hence
  the header that `pickmessage()` reads is that frame's, if there are four bytes
  of it (`HeaderRead`, `HeaderSays`). If there are fewer, `NoHeaderYet` shows
  that whatever lies behind the end of the string cannot make a cut header pass
  for a message: the string's zero is its next byte, and the lengths for which
  the sum with 4 would be at most 3 (-4 to -1) have no zero above their lowest
  byte. So a
  message is picked when its frame is complete (`PickFirst`) and, of a complete
  frame, always (`PickLeavesPart`). `FlattenSeq`, by which the community modules
  join the messages, is a recursive function with a CHOOSE: that it exists and
  is what one expects (`FlatExists`, `FlattenAppend`) is proved by induction on
  a set of numbers that has a least element (`Induction`, from the library's
  well-founded relations), since the library's induction rules take an operator
  as a parameter, which the provers cannot instantiate.
* `TcpServer`: `StaysAlive`, no entry ever leaves a loop's map. It is the
  reason why no pointer dangles, and at the same time the leak `FdReleased`
  shows: whoever repairs the leak loses this proof, and the mutation
  `TimeoutIdle` shows what replaces it. `OwnFd` (no two connections share a
  descriptor) and `Progress` (where `newconnection()` is determines what has
  been inserted) are the rest.
* `Shutdown`: `StopOrder` ties the place of the one handler to what it has
  done: no loop is stopped before every worker is gone, nothing is deleted
  before every IO thread is gone. `LoopsRun` (no thread leaves a loop that has
  not been stopped) turns that into `RepliesReachLoop`. `JoinOrder` (each pool
  is joined once, by a handler on the main thread) and `Unborn` (what the
  constructors have not started cannot be joined) give `OneSignalIsClean`.

Only model-checked: the liveness properties (`QueuedTasksRun`, `TimerRearmed`,
`StopEndsRun`, `EveryThreadUsed`, `MessagesPicked`, `EchoReturned`,
`CloseNoticed`, `UnlockedShutdownEnds`: proofs of liveness need ENABLED, out of
the prover's reach), and the refutations. Every invariant and every refinement
that a run checks is proved.

## 5. What is not modelled, and the limits

* In `Shutdown`: the locks of `printf` and `malloc`, which the interrupted
  thread may hold as it may hold `mmutex_`, with the same consequence (so
  `UnlockedShutdownEnds` speaks of a main thread that holds none of them). A signal
  while `server` is null ends in a crash, which the properties allow; one
  between the assignment and the loop is served as any other. Of what
  follows a second signal the properties say nothing, and no run has one.
* Tasks that are queued when a pool is stopped are dropped: a thread that comes
  back from a task leaves at `while (stop_==false)`, although ThreadPool.cpp:39
  says that they are executed. The model does the same; no run refutes the
  comment, `StopIsPrompt` states what the code does instead.
* The data race between `handletimer()` and `newconnection()` on a loop's map
  is in `TcpServer` as outcomes; no run refutes its absence, since a comment
  (EventLoop.h:45) and the code (EventLoop.cpp:146) already disagree on sight.
* `sep_` = 2, which `pickmessage()` has no code for: its caller's loop would not
  end. `Buffer` has the operators, no run uses the mode. The client's frames
  reach the server of this repository as plain bytes, since `Connection` builds
  its input buffer without a separator; `Framing` has both cases, but no
  composition of the framed mode with `Connection`.
* Messages with a zero byte come back damaged (`connection_zero`), so what the
  echo service promises is stated, and proved, for messages without one. The
  messages of `client.cpp` have zero bytes in the length they begin with: what
  is shown of the service is about clients that send text.
* The words `HandleMessage()` puts in front of a message ("IO thread ", "WORK
  thread "), although `client.cpp` takes the first four bytes of a reply for
  its length.
* A client that sends without a pause keeps the IO thread in the read loop: the
  client of `Connection` sends a bounded amount; in `Shutdown` it may go on,
  and the properties of the end assume that it does not.
* `newconnection()` reads `clientsock->fd()` and moves `clientsock` in one
  argument list, in an order C++ leaves open; `Accept` takes the one that works.
* Real timeouts: `Connection::timeout()` always returns false, so the timeout
  the repository's README names does nothing; `removeconn` is behind that
  guard.
* EINTR in `epoll_wait()`, a `threadnum` of 0 (a
  division by zero), `errorcallback` (every error of a client socket comes with
  EPOLLIN, which is tested first).
* Socket options, addresses, time stamps, the client's own loop, the stand-alone
  pool test (it does not match `ThreadPool.h` any more), the makefile.

## 6. Plan

1. Done: `TaskQueue`, `EventLoop`, `ThreadPool`, `TcpServer`, `Shutdown` and
   `Connection` with proofs; `EchoService`; `Buffer` and `Framing`.
2. Done: the refinements of `EchoService` and, by the framed stream, of `TaskQueue`.
3. `Shutdown` with the lock of the C library's streams.
4. A composition of `TcpServer` with `EchoService`: what is proved of one client
   holds for each, as long as its descriptor is its own (`OwnFd`).
