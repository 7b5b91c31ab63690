----------------------------- MODULE Connection -----------------------------
(***************************************************************************)
(* One client connection from the first byte to the close: Connection.cpp  *)
(* with its Channel, the Epoll of its IO loop, the echo service's workers  *)
(* and the two task queues between them.                                   *)
(*                                                                         *)
(* The client's bytes are the chunks 1, 2, 3, ... in the order it sends    *)
(* them.  inputbuffer_ has no separator (sep_ is 0), so a message is       *)
(* whatever has been read when read() reports EAGAIN (Framing has the      *)
(* other mode); the words the service puts in front of it are left out.    *)
(* Both task queues are used as TaskQueue promises (EventLoop and          *)
(* ThreadPool implement it): a wakeup is pending for as long as the loop's *)
(* queue is not empty.  The maps that own a connection are in TcpServer.   *)
(***************************************************************************)
EXTENDS Integers, FiniteSets, SequencesExt

CONSTANTS Workers,     \* the threads the worker pool may have
          MaxChunks,   \* bound: how much the client sends
          SndBuf,      \* room in the socket's send buffer, in chunks
          WithZero     \* the chunks that contain a zero byte

ASSUME ConnectionAssumption ==
    /\ IsFiniteSet(Workers)
    /\ MaxChunks \in Nat
    /\ SndBuf \in Nat \ {0}
    /\ WithZero \subseteq 1..MaxChunks

VARIABLES
    clientsent,    \* how many chunks the client has sent
    received,      \* the chunks the client has received
    peer,          \* "open"; "fin" after the client closed; "reset" if it aborted,
                   \* "broken" if it did so after it had closed
    inbound,       \* the socket's receive buffer
    sndbuf,        \* the socket's send buffer
    registered,    \* the kernel's epoll set has the fd, with interest events
    inepoll,       \* Channel::inepoll_
    events,        \* Channel::events_
    batch,         \* what run() has yet to handle of what epoll_wait() returned:
                   \* the wakeup channel, and the client's revents_
    looppc,        \* where the IO thread is
    inputbuffer,   \* inputbuffer_
    outputbuffer,  \* outputbuffer_
    disconnect,    \* disconnect_
    taskqueue,     \* EventLoop::taskqueue_: the arguments of sendinloop()
    workqueue,     \* ThreadPool::taskqueue_: the arguments of OnMessage()
    pool,          \* the threads the worker pool was built with; there may be none
    wpc,           \* where each worker is in OnMessage()
    message,       \* the argument of the OnMessage() a worker is in
    exited         \* "no"; "exit" after exit(-1); "signal" if SIGPIPE ended the process

clientvars == <<clientsent, received, peer, inbound, sndbuf>>
channelvars == <<registered, inepoll, events, exited>>
loopvars == <<batch, looppc>>
connvars == <<inputbuffer, outputbuffer, disconnect>>
workvars == <<pool, workqueue, wpc, message>>
servervars == <<channelvars, loopvars, connvars, taskqueue, workvars>>

vars == <<clientvars, servervars>>

Init ==
    /\ clientsent = 0 /\ received = <<>> /\ peer = "open" /\ inbound = <<>> /\ sndbuf = <<>>
    /\ registered = TRUE /\ inepoll = TRUE /\ events = {"in"} /\ exited = "no"
    /\ batch = {} /\ looppc = "poll"
    /\ inputbuffer = <<>> /\ outputbuffer = <<>> /\ disconnect = FALSE
    /\ taskqueue = <<>> /\ workqueue = <<>>
    /\ pool \in SUBSET Workers
    /\ wpc = [w \in Workers |-> "idle"]
    /\ message = [w \in Workers |-> <<>>]

-----------------------------------------------------------------------------
(* A thread takes a step while the process is there.                       *)

Running == exited = "no"
LoopAt(pc) == Running /\ looppc = pc
WorkerAt(w, pc) == Running /\ wpc[w] = pc

-----------------------------------------------------------------------------
(* The client and the network.                                             *)

Reset == peer \in {"reset", "broken"}

ClientSend ==
    /\ Running /\ peer = "open"
    /\ clientsent < MaxChunks
    /\ clientsent' = clientsent + 1
    /\ inbound' = Append(inbound, clientsent + 1)
    /\ UNCHANGED <<received, peer, sndbuf, servervars>>

\* The client takes what the server has sent; it may do so after its own FIN.
ClientReceive ==
    /\ Running /\ ~Reset
    /\ sndbuf # <<>>
    /\ received' = Append(received, Head(sndbuf))
    /\ sndbuf' = Tail(sndbuf)
    /\ UNCHANGED <<clientsent, peer, inbound, servervars>>

ClientClose ==
    /\ Running /\ peer = "open"
    /\ peer' = "fin"
    /\ UNCHANGED <<clientsent, received, inbound, sndbuf, servervars>>

\* RST: what the server has not delivered yet is thrown away.
ClientAbort ==
    /\ Running /\ ~Reset
    /\ peer' = IF peer = "fin" THEN "broken" ELSE "reset"
    /\ sndbuf' = <<>>
    /\ UNCHANGED <<clientsent, received, inbound, servervars>>

-----------------------------------------------------------------------------
(* Channel and Epoll.                                                      *)

\* epoll_ctl() with MOD or DEL fails, and the process exits, if inepoll_ is
\* set and the kernel does not know the fd.
CtlResult == IF inepoll /\ ~registered THEN "exit" ELSE "no"

\* Epoll::updatechannel() with events_ = ev.
UpdateChannel(ev) ==
    /\ events' = ev
    /\ exited' = CtlResult
    /\ registered' = (registered \/ ~inepoll)
    /\ inepoll' = TRUE

EnableWriting == UpdateChannel(events \cup {"out"})
DisableWriting == UpdateChannel(events \ {"out"})

\* Epoll::removechannel(); inepoll_ stays set.
EpollRemove ==
    /\ registered' = FALSE
    /\ exited' = CtlResult
    /\ UNCHANGED inepoll

\* Channel::remove(): disableall() first, which fails if the removal would.
RemoveChannel == events' = {} /\ EpollRemove

-----------------------------------------------------------------------------
(* sendinloop(), on the IO thread.                                         *)

\* strdup() copies up to the first zero byte, append() reads on behind it: a
\* chunk that is not the client's stands for its number with a minus.
StrdupCopy(m) ==
    [i \in 1..Len(m) |-> IF \E j \in 1..i : m[j] \in WithZero THEN -m[i] ELSE m[i]]

SendWith(m, watch) == outputbuffer' = outputbuffer \o StrdupCopy(m) /\ watch

\* Mutation of SendInLoop: enablewriting() left out.
SendInLoopQuiet(m) == SendWith(m, UNCHANGED channelvars)

SendInLoop(m) == SendWith(m, EnableWriting)

-----------------------------------------------------------------------------
(* The IO thread: EventLoop::run() and the handlers it calls.              *)

InReady == inbound # <<>> \/ peer # "open"
OutReady == Len(sndbuf) < SndBuf \/ Reset
ClientEvents == {e \in events : IF e = "in" THEN InReady ELSE OutReady}

\* epoll_wait() returns, and Epoll::loop() stores the events in revents_.
EpollReturn ==
    /\ LoopAt("poll")
    /\ batch' = (IF taskqueue # <<>> THEN {"wake"} ELSE {})
                  \cup (IF registered THEN ClientEvents ELSE {})
    /\ batch' # {}
    /\ looppc' = "dispatch"
    /\ UNCHANGED <<clientvars, channelvars, connvars, taskqueue, workvars>>

\* handlewakeup() takes the loop's mutex_.
HandleWakeup ==
    /\ LoopAt("dispatch")
    /\ "wake" \in batch
    /\ batch' = batch \ {"wake"}
    /\ looppc' = "drain"
    /\ UNCHANGED <<clientvars, channelvars, connvars, taskqueue, workvars>>

HandleWakeupTask ==
    /\ LoopAt("drain")
    /\ taskqueue # <<>>
    /\ SendInLoop(Head(taskqueue))
    /\ taskqueue' = Tail(taskqueue)
    /\ UNCHANGED <<clientvars, loopvars, inputbuffer, disconnect, workvars>>

HandleWakeupEnd ==
    /\ LoopAt("drain")
    /\ taskqueue = <<>>
    /\ looppc' = "dispatch"
    /\ UNCHANGED <<batch, clientvars, channelvars, connvars, taskqueue, workvars>>

\* Channel::handleevent() of the client's channel: EPOLLIN is tested first.
HandleEvent(event) ==
    /\ LoopAt("dispatch")
    /\ event \in batch
    /\ event = "out" => "in" \notin batch
    /\ batch' = batch \ {"in", "out"}

\* onmessage() is entered, whatever else happened.
HandleReadable ==
    /\ HandleEvent("in")
    /\ looppc' = "read"
    /\ UNCHANGED <<clientvars, channelvars, connvars, taskqueue, workvars>>

\* onmessage(): read() returns data; as much as there is, or less.
Read ==
    /\ LoopAt("read")
    /\ \E n \in 1..Len(inbound) :
        /\ inputbuffer' = inputbuffer \o SubSeq(inbound, 1, n)
        /\ inbound' = SubSeq(inbound, n + 1, Len(inbound))
    /\ UNCHANGED <<clientsent, received, peer, sndbuf, channelvars, loopvars, outputbuffer,
                   disconnect, taskqueue, workvars>>

\* EchoServer::HandleMessage(): a worker is to answer, or, if there are none,
\* the IO thread does it on the spot: send() finds that it is in the loop.
HandleMessage(m) ==
    IF pool = {}
    THEN SendInLoop(m) /\ UNCHANGED workqueue
    ELSE workqueue' = Append(workqueue, m) /\ UNCHANGED <<outputbuffer, channelvars>>

\* onmessage(): read() returns EAGAIN, and pickmessage() hands over all there is.
ReadAgain ==
    /\ LoopAt("read") /\ inbound = <<>> /\ peer = "open"
    /\ looppc' = "dispatch"
    /\ inputbuffer' = <<>>
    /\ IF inputbuffer = <<>>
       THEN UNCHANGED <<outputbuffer, channelvars, workqueue>>
       ELSE HandleMessage(inputbuffer)
    /\ UNCHANGED <<batch, clientvars, disconnect, taskqueue, pool, wpc, message>>

CloseCallback == disconnect' = TRUE /\ RemoveChannel

ReadClosedWith(callback, next) ==
    /\ LoopAt("read") /\ inbound = <<>> /\ peer # "open"
    /\ looppc' = next
    /\ callback
    /\ UNCHANGED <<batch, clientvars, inputbuffer, outputbuffer, taskqueue, workvars>>

\* Mutations of ReadClosed: the end of the stream is taken for EAGAIN; the
\* channel stays in the epoll set; the loop is not left and reads 0 again.
ReadClosedIgnored == ReadClosedWith(UNCHANGED <<disconnect, channelvars>>, "dispatch")
ReadClosedKeepChannel == ReadClosedWith(disconnect' = TRUE /\ UNCHANGED channelvars, "dispatch")
ReadClosedNoBreak == ReadClosedWith(CloseCallback, "read")

\* onmessage(): read() returns 0 (after ECONNRESET too, which matches no branch
\* and is read over).
ReadClosed == ReadClosedWith(CloseCallback, "dispatch")

\* What send() takes of the output buffer: nothing after a reset.
Written == IF Reset THEN 0 ELSE Min({Len(outputbuffer), SndBuf - Len(sndbuf)})

\* send() has no MSG_NOSIGNAL: on a broken socket the error is EPIPE, and
\* SIGPIPE is raised.
WriteWith(rest, quiet) ==
    /\ HandleEvent("out")
    /\ sndbuf' = sndbuf \o SubSeq(outputbuffer, 1, Written)
    /\ outputbuffer' = rest
    /\ IF rest = <<>>
       THEN quiet
       ELSE /\ exited' = IF peer = "broken" THEN "signal" ELSE "no"
            /\ UNCHANGED <<registered, inepoll, events>>
    /\ UNCHANGED <<clientsent, received, peer, inbound, looppc, inputbuffer, disconnect, taskqueue, workvars>>

\* What erase() leaves.
Rest == SubSeq(outputbuffer, Written + 1, Len(outputbuffer))

\* Mutations of WriteCallback: erase() forgets the bytes send() did not take;
\* the interest in EPOLLOUT is never given up.
WriteCallbackClear == WriteWith(<<>>, DisableWriting)
WriteCallbackKeepOut == WriteWith(Rest, UNCHANGED channelvars)

\* writecallback(), when there is nothing to read.
WriteCallback == WriteWith(Rest, DisableWriting)

BatchEndWhen(done) ==
    /\ LoopAt("dispatch")
    /\ done
    /\ looppc' = "poll"
    /\ UNCHANGED <<batch, clientvars, channelvars, connvars, taskqueue, workvars>>

\* Mutation of BatchEnd: run() polls again with a channel left to handle.
BatchEndEarly == BatchEndWhen(Cardinality(batch) <= 1)

BatchEnd == BatchEndWhen(batch = {})

-----------------------------------------------------------------------------
(* A worker: OnMessage() calls send().                                     *)

TakeMessage(w) ==
    /\ w \in pool
    /\ WorkerAt(w, "idle")
    /\ workqueue # <<>>
    /\ message' = [message EXCEPT ![w] = Head(workqueue)]
    /\ workqueue' = Tail(workqueue)
    /\ wpc' = [wpc EXCEPT ![w] = "send"]
    /\ UNCHANGED <<clientvars, channelvars, loopvars, connvars, taskqueue, pool>>

\* OnMessage() returns.
Done(w) == wpc' = [wpc EXCEPT ![w] = "idle"] /\ message' = [message EXCEPT ![w] = <<>>]

\* if (disconnect_ == true) return;
SendGiveUp(w) ==
    /\ WorkerAt(w, "send")
    /\ disconnect
    /\ Done(w)
    /\ UNCHANGED <<clientvars, channelvars, loopvars, connvars, taskqueue, pool, workqueue>>

SendGoOn(w) ==
    /\ WorkerAt(w, "send")
    /\ ~disconnect
    /\ wpc' = [wpc EXCEPT ![w] = "queue"]
    /\ UNCHANGED <<clientvars, channelvars, loopvars, connvars, taskqueue, pool, workqueue, message>>

\* queueinloop(); handlewakeup() holds the mutex for as long as it drains.
SendQueue(w) ==
    /\ WorkerAt(w, "queue")
    /\ looppc # "drain"
    /\ taskqueue' = Append(taskqueue, message[w])
    /\ Done(w)
    /\ UNCHANGED <<clientvars, channelvars, loopvars, connvars, pool, workqueue>>

-----------------------------------------------------------------------------
LoopStep ==
    \/ EpollReturn
    \/ HandleWakeup
    \/ HandleWakeupTask
    \/ HandleWakeupEnd
    \/ HandleReadable
    \/ Read
    \/ ReadAgain
    \/ ReadClosed
    \/ WriteCallback
    \/ BatchEnd

WorkerStep(w) == TakeMessage(w) \/ SendGiveUp(w) \/ SendGoOn(w) \/ SendQueue(w)

ClientStep == ClientSend \/ ClientReceive \/ ClientClose \/ ClientAbort

Next == LoopStep \/ (\E w \in Workers : WorkerStep(w)) \/ ClientStep

Spec == Init /\ [][Next]_vars

(* The IO thread and the workers are scheduled, and a client reads what it *)
(* is sent.  No client has to send or to close.  A worker that waits for   *)
(* the loop's mutex gets it: the drain it waits for ends, and there are    *)
(* only so many drains.                                                    *)
FairSpec ==
    /\ Spec
    /\ WF_vars(LoopStep)
    /\ \A w \in Workers : WF_vars(WorkerStep(w))
    /\ WF_vars(ClientReceive)

-----------------------------------------------------------------------------
Sent == 1..MaxChunks
Answers == -MaxChunks..MaxChunks \ {0}

TypeOK ==
    /\ clientsent \in 0..MaxChunks
    /\ peer \in {"open", "fin", "reset", "broken"}
    /\ received \in Seq(Answers) /\ sndbuf \in Seq(Answers) /\ outputbuffer \in Seq(Answers)
    /\ inbound \in Seq(Sent) /\ inputbuffer \in Seq(Sent)
    /\ Len(sndbuf) <= SndBuf
    /\ registered \in BOOLEAN /\ inepoll \in BOOLEAN /\ disconnect \in BOOLEAN
    /\ exited \in {"no", "exit", "signal"}
    /\ events \subseteq {"in", "out"}
    /\ batch \subseteq {"wake", "in", "out"}
    /\ looppc \in {"poll", "dispatch", "drain", "read"}
    /\ taskqueue \in Seq(Seq(Sent) \ {<<>>})
    /\ workqueue \in Seq(Seq(Sent) \ {<<>>})
    /\ pool \subseteq Workers
    /\ wpc \in [Workers -> {"idle", "send", "queue"}]
    /\ message \in [Workers -> Seq(Sent)]
    /\ looppc = "poll" => batch = {}

(* The client's chunks on their way through the server and back: none once *)
(* the client has aborted, and only what the kernel has after the close.   *)
Abs(n) == IF n < 0 THEN -n ELSE n
InServer ==
    UNION {Range(m) : m \in {inbound, inputbuffer, outputbuffer}
                               \cup Range(workqueue) \cup Range(message) \cup Range(taskqueue)}
OnTheWay ==
    CASE Reset -> {}
      [] ~Reset /\ disconnect -> {Abs(n) : n \in Range(sndbuf)}
      [] OTHER -> {Abs(n) : n \in Range(sndbuf) \cup InServer}

(* If no message has a zero byte, the two buffers, the two task queues,    *)
(* partial reads and partial writes, the workers and the close together    *)
(* are an echo service: each chunk comes back as it was sent, once and     *)
(* none lost while the client is there, in order with one worker or none,  *)
(* in any order with more, and a prefix of it if the connection ends.      *)
ES == INSTANCE EchoService WITH ordered <- Cardinality(pool) <= 1,
                                connected <- ~disconnect /\ ~Reset,
                                sent <- clientsent,
                                pending <- OnTheWay
ImplementsEcho == ES!Spec

(* What OnMessage() says: the data in its buffer, a header of four bytes   *)
(* with the length and the message itself, is sent out; so each byte that  *)
(* the client receives is one that it has sent, also behind a zero byte,   *)
(* which the length of every short message contains.                       *)
RepliesIntact == \A n \in Range(received) : n \in 1..clientsent

(* EPOLLOUT is watched exactly while there is something to write: less     *)
(* would leave a reply unsent, more would make the loop spin.              *)
WatchesOutput == registered => ("out" \in events <=> outputbuffer # <<>>)

(* A closed connection is out of the epoll set and has no event left in    *)
(* the batch the loop is working on: no handler of it runs again.          *)
ClosedIsQuiet == disconnect => ~registered /\ batch \subseteq {"wake"} /\ looppc # "read"

(* Every chunk of a client that stays comes back, whatever the sizes of    *)
(* the reads and writes.                                                   *)
EchoReturned ==
    \A n \in 1..MaxChunks : clientsent >= n ~> Len(received) >= n \/ peer # "open"

(* The server notices that a client is gone, also while replies to it are  *)
(* under way or do not fit the send buffer.                                *)
CloseNoticed == peer # "open" ~> disconnect \/ exited # "no"

(* What send() and the comment on inepoll_ say: to a client that is gone   *)
(* send() just returns, and MOD is used only for an fd that is in the set; *)
(* so epoll_ctl() never fails, and never ends the server, because a client *)
(* has left.                                                               *)
ServerSurvives == exited # "exit"

(* Without a worker pool that is so: no reply can be on its way from       *)
(* another thread when the IO thread takes the channel out of the set.     *)
SurvivesWithoutPool == pool = {} => ServerSurvives

(* The inductive invariant of the proofs.  The kernel knows the fd until   *)
(* the close; an event that run() has yet to handle is one the channel     *)
(* still asks for; a reply is never empty; without a worker nothing is     *)
(* under way between the threads.                                          *)
Registered == inepoll /\ (registered <=> ~disconnect)

BatchValid ==
    /\ looppc = "read" => batch \subseteq {"wake"}
    /\ "out" \in batch => "out" \in events

RepliesNotEmpty == \A w \in Workers : wpc[w] # "idle" => message[w] # <<>>

NobodyAtWork ==
    pool = {} => /\ workqueue = <<>> /\ taskqueue = <<>>
                 /\ \A w \in Workers : wpc[w] = "idle"

IInv ==
    /\ TypeOK
    /\ Registered
    /\ BatchValid
    /\ RepliesNotEmpty
    /\ NobodyAtWork
    /\ WatchesOutput
    /\ ClosedIsQuiet
    /\ SurvivesWithoutPool
(* The invariant behind ImplementsEcho.  A chunk that is on its way stands *)
(* at one of seven stations; between two of them, and within each, what is *)
(* nearer to the client came first, or, if several workers answer, is at   *)
(* least another chunk.                                                    *)
Before(p, a, b) == IF Cardinality(p) <= 1 THEN a < b ELSE a # b
Ahead(p, S, T) == \A a \in S, b \in T : Before(p, a, b)
Chain(p, S) == \A i, j \in 1..7 : i < j => Ahead(p, S[i], S[j])
Nums(s) == {Abs(n) : n \in Range(s)}
QueueNums(q) == UNION {Nums(q[i]) : i \in DOMAIN q}

Sorted(p, s) == \A i, j \in DOMAIN s : i < j => Before(p, Abs(s[i]), Abs(s[j]))
Ascending(s) == Sorted({}, s)
QueueSorted(p, q) ==
    /\ \A i \in DOMAIN q : Ascending(q[i])
    /\ \A i, j \in DOMAIN q : i < j => Ahead(p, Nums(q[i]), Nums(q[j]))

Stations == <<Nums(sndbuf), Nums(outputbuffer), QueueNums(taskqueue), QueueNums(message),
              QueueNums(workqueue), Nums(inputbuffer), Nums(inbound)>>

InOrder ==
    /\ Chain(pool, Stations)
    /\ \A i \in 1..7 : Stations[i] \subseteq 1..clientsent
    /\ Sorted(pool, sndbuf) /\ Sorted(pool, outputbuffer)
    /\ QueueSorted(pool, taskqueue) /\ QueueSorted(pool, workqueue)
    /\ \A w \in Workers : Ascending(message[w])
    /\ \A v, w \in Workers : v # w => Ahead(pool, Nums(message[v]), Nums(message[w]))
    /\ Ascending(inputbuffer \o inbound)

\* A damaged chunk is behind a zero byte; a worker that has nothing to do, or
\* that the pool does not have, holds no reply; the close has a reason.
BehindZero(n) == n < 0 => \E z \in WithZero : z <= -n
Legible == \A n \in Range(sndbuf) \cup Range(outputbuffer) : BehindZero(n)
Idlers == \A w \in Workers : wpc[w] = "idle" \/ w \notin pool => wpc[w] = "idle" /\ message[w] = <<>>
CloseHasReason == disconnect => peer # "open"

EchoInv == IInv /\ InOrder /\ Legible /\ Idlers /\ CloseHasReason
=============================================================================
