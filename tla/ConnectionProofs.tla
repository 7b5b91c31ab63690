-------------------------- MODULE ConnectionProofs --------------------------
(***************************************************************************)
(* The safety properties of Connection, for any number of workers, chunks  *)
(* and any size of the send buffer.                                        *)
(***************************************************************************)
EXTENDS Connection, QueueLemmas

LEMMA HeadTail ==
    ASSUME NEW S, NEW s \in Seq(S), s # <<>>
    PROVE  Head(s) \in S /\ Tail(s) \in Seq(S)
OBVIOUS

(* What send() takes is there, and there is room for it.                   *)
LEMMA WrittenFits ==
    ASSUME TypeOK
    PROVE  Written \in 0..Len(outputbuffer) /\ Written <= SndBuf - Len(sndbuf)
<1>1. Len(outputbuffer) \in Nat /\ Len(sndbuf) \in Nat /\ SndBuf \in Nat /\ Len(sndbuf) <= SndBuf
  BY ConnectionAssumption DEF TypeOK
<1>2. CASE Reset
  BY <1>1, <1>2 DEF Written
<1>3. CASE ~Reset
  <2> DEFINE a == Len(outputbuffer)
             b == SndBuf - Len(sndbuf)
  <2>1. Written = Min({a, b})
    BY <1>3 DEF Written
  <2>2. a \in Nat /\ b \in Nat
    BY <1>1
  <2> HIDE DEF a, b
  <2>3. Min({a, b}) \in {a, b} /\ Min({a, b}) <= a /\ Min({a, b}) <= b
    BY <2>2, MinOfTwo
  <2>4. Written \in 0..a /\ Written <= b
    BY <2>1, <2>2, <2>3
  <2> QED
    BY <2>4 DEF a, b
<1> QED
  BY <1>2, <1>3

(* The copy of a message is as long as the message.                        *)
LEMMA CopyType ==
    ASSUME NEW m \in Seq(Sent)
    PROVE  StrdupCopy(m) \in Seq(Answers) /\ Len(StrdupCopy(m)) = Len(m)
<1>1. \A i \in 1..Len(m) : m[i] \in Answers /\ -m[i] \in Answers
  BY ConnectionAssumption DEF Sent, Answers
<1>2. StrdupCopy(m) = [i \in 1..Len(m) |-> IF \E j \in 1..i : m[j] \in WithZero THEN -m[i] ELSE m[i]]
  BY DEF StrdupCopy
<1>3. StrdupCopy(m) \in [1..Len(m) -> Answers]
  BY <1>1, <1>2
<1> QED
  BY <1>3

(* sendinloop() with a message that is not empty: EPOLLOUT is watched, and *)
(* epoll_ctl() fails only if the channel has been removed.                 *)
LEMMA SendInLoopKeeps ==
    ASSUME IInv, NEW m \in Seq(Sent) \ {<<>>}, SendInLoop(m)
    PROVE  /\ outputbuffer' \in Seq(Answers) /\ outputbuffer' # <<>>
           /\ events' \subseteq {"in", "out"} /\ "out" \in events'
           /\ registered' = registered /\ inepoll'
           /\ exited' \in {"no", "exit"} /\ (registered => exited' = "no")
<1>1. /\ StrdupCopy(m) \in Seq(Answers) /\ Len(StrdupCopy(m)) = Len(m)
      /\ m \in Seq(Sent) /\ m # <<>> /\ outputbuffer \in Seq(Answers)
  BY CopyType DEF IInv, TypeOK
<1>2. Len(m) > 0
  BY <1>1
<1>3. outputbuffer' = outputbuffer \o StrdupCopy(m)
  BY DEF SendInLoop, SendWith
<1>4. outputbuffer' \in Seq(Answers) /\ Len(outputbuffer') > 0
  <2> HIDE DEF StrdupCopy
  <2>1. Len(outputbuffer) \in Nat /\ Len(StrdupCopy(m)) > 0
    BY <1>1, <1>2
  <2> QED
    BY <1>1, <1>3, <2>1, Joined
<1>5. outputbuffer' # <<>>
  BY <1>4
<1>6. /\ events' = events \cup {"out"} /\ exited' = CtlResult
      /\ registered' = (registered \/ ~inepoll) /\ inepoll' = TRUE
  BY DEF SendInLoop, SendWith, EnableWriting, UpdateChannel
<1>7. registered \in BOOLEAN /\ inepoll /\ events \subseteq {"in", "out"}
  BY DEF IInv, TypeOK, Registered
<1> QED
  BY <1>4, <1>5, <1>6, <1>7 DEF CtlResult

-----------------------------------------------------------------------------
LEMMA InitIInv == Init => IInv
<1> SUFFICES ASSUME Init PROVE IInv
  OBVIOUS
<1> USE ConnectionAssumption DEF Init
<1>1. wpc \in [Workers -> {"idle", "send", "queue"}] /\ message \in [Workers -> Seq(Sent)]
  OBVIOUS
<1>2. /\ <<>> \in Seq(Answers) /\ <<>> \in Seq(Sent) /\ <<>> \in Seq(Seq(Sent) \ {<<>>})
      /\ Len(<<>>) = 0 /\ 0 <= SndBuf /\ 0 \in 0..MaxChunks
  OBVIOUS
<1>3. TypeOK
  BY <1>1, <1>2 DEF TypeOK
<1> QED
  BY <1>3 DEF IInv, Registered, BatchValid, RepliesNotEmpty, NobodyAtWork, WatchesOutput, ClosedIsQuiet,
          SurvivesWithoutPool, ServerSurvives

(* Every step keeps IInv.  The client's steps.                             *)
LEMMA ClientSteps == ASSUME IInv, ClientStep PROVE IInv'
<1> USE DEF IInv, Running, Reset, clientvars, servervars, channelvars, loopvars, connvars, workvars
<1>1. /\ UNCHANGED <<channelvars, loopvars, connvars, taskqueue, workvars>>
      /\ exited = "no"
  BY DEF ClientStep, ClientSend, ClientReceive, ClientClose, ClientAbort
<1>2. TypeOK'
  <2> USE DEF TypeOK
  <2>1. CASE ClientSend
    <3>1. clientsent + 1 \in Sent /\ clientsent' \in 0..MaxChunks /\ inbound' = Append(inbound, clientsent + 1)
      BY <2>1, ConnectionAssumption DEF ClientSend, Sent
    <3>2. inbound' \in Seq(Sent)
      BY <3>1, Added
    <3> QED
      BY <1>1, <2>1, <3>1, <3>2 DEF ClientSend
  <2>2. CASE ClientReceive
    <3>1. Head(sndbuf) \in Answers /\ Tail(sndbuf) \in Seq(Answers) /\ Len(Tail(sndbuf)) <= Len(sndbuf)
      BY <2>2 DEF ClientReceive
    <3>2. received' \in Seq(Answers) /\ sndbuf' \in Seq(Answers) /\ Len(sndbuf') <= SndBuf
      BY <2>2, <3>1, Added, ConnectionAssumption DEF ClientReceive
    <3> QED
      BY <1>1, <2>2, <3>2 DEF ClientReceive
  <2>3. CASE ClientClose
    BY <1>1, <2>3 DEF ClientClose
  <2>4. CASE ClientAbort
    BY <1>1, <2>4, ConnectionAssumption DEF ClientAbort
  <2> QED
    BY <2>1, <2>2, <2>3, <2>4 DEF ClientStep
<1> QED
  BY <1>1, <1>2 DEF Registered, BatchValid, RepliesNotEmpty, NobodyAtWork, WatchesOutput, ClosedIsQuiet,
                    SurvivesWithoutPool, ServerSurvives

(* The workers' steps.                                                     *)
LEMMA WorkerSteps == ASSUME IInv, NEW w \in Workers, WorkerStep(w) PROVE IInv'
<1> USE DEF WorkerAt, Done, clientvars, channelvars, loopvars, connvars, workvars
<1>1. UNCHANGED <<clientvars, channelvars, loopvars, connvars, pool>>
  BY DEF WorkerStep, TakeMessage, SendGiveUp, SendGoOn, SendQueue
<1>2. pool # {}
  BY DEF IInv, NobodyAtWork, WorkerStep, TakeMessage, SendGiveUp, SendGoOn, SendQueue
<1>3. /\ workqueue \in Seq(Seq(Sent) \ {<<>>}) /\ taskqueue \in Seq(Seq(Sent) \ {<<>>})
      /\ wpc \in [Workers -> {"idle", "send", "queue"}] /\ message \in [Workers -> Seq(Sent)]
      /\ RepliesNotEmpty
  BY DEF IInv, TypeOK
<1>4. /\ workqueue' \in Seq(Seq(Sent) \ {<<>>}) /\ taskqueue' \in Seq(Seq(Sent) \ {<<>>})
      /\ wpc' \in [Workers -> {"idle", "send", "queue"}] /\ message' \in [Workers -> Seq(Sent)]
      /\ RepliesNotEmpty'
  <2> USE DEF RepliesNotEmpty
  <2>1. CASE TakeMessage(w)
    <3>1. Head(workqueue) \in Seq(Sent) \ {<<>>} /\ Tail(workqueue) \in Seq(Seq(Sent) \ {<<>>})
      BY <1>3, <2>1, HeadTail DEF TakeMessage
    <3> QED
      BY <1>3, <2>1, <3>1 DEF TakeMessage
  <2>2. CASE SendGiveUp(w)
    <3>1. <<>> \in Seq(Sent)
      OBVIOUS
    <3> QED
      BY <1>3, <2>2, <3>1 DEF SendGiveUp
  <2>3. CASE SendGoOn(w)
    BY <1>3, <2>3 DEF SendGoOn
  <2>4. CASE SendQueue(w)
    <3>1. <<>> \in Seq(Sent)
      OBVIOUS
    <3>2. message[w] \in Seq(Sent) \ {<<>>}
      BY <1>3, <2>4 DEF SendQueue
    <3>3. Append(taskqueue, message[w]) \in Seq(Seq(Sent) \ {<<>>})
      BY <1>3, <3>2, Added
    <3> QED
      BY <1>3, <2>4, <3>1, <3>3 DEF SendQueue
  <2> QED
    BY <2>1, <2>2, <2>3, <2>4 DEF WorkerStep
<1>5. TypeOK'
  BY <1>1, <1>4 DEF IInv, TypeOK
<1> QED
  BY <1>1, <1>2, <1>4, <1>5 DEF IInv, Registered, BatchValid, NobodyAtWork, WatchesOutput, ClosedIsQuiet,
                                SurvivesWithoutPool, ServerSurvives

(* The IO thread's steps.  Those that run no handler of the connection.    *)
LEMMA PollSteps ==
    ASSUME IInv, EpollReturn \/ HandleWakeup \/ HandleWakeupEnd \/ HandleReadable \/ BatchEnd
    PROVE  IInv'
<1> USE DEF LoopAt, HandleEvent, BatchEndWhen
<1>1. UNCHANGED <<clientvars, channelvars, connvars, taskqueue, workvars>>
  BY DEF EpollReturn, HandleWakeup, HandleWakeupEnd, HandleReadable, BatchEnd
<1> USE DEF clientvars, channelvars, connvars, workvars
<1>2. /\ batch \subseteq {"wake", "in", "out"} /\ BatchValid /\ ClosedIsQuiet
      /\ events \subseteq {"in", "out"} /\ (registered <=> ~disconnect)
  BY DEF IInv, TypeOK, Registered
<1>3. /\ batch' \subseteq {"wake", "in", "out"} /\ looppc' \in {"poll", "dispatch", "drain", "read"}
      /\ looppc' = "poll" => batch' = {}
      /\ BatchValid' /\ ClosedIsQuiet'
  <2> USE DEF BatchValid, ClosedIsQuiet
  <2>1. CASE EpollReturn
    <3>1. ClientEvents \subseteq events
      BY DEF ClientEvents
    <3>2. looppc' = "dispatch" /\ batch' \subseteq {"wake"} \cup events
      BY <2>1, <3>1 DEF EpollReturn
    <3>3. ~registered => batch' \subseteq {"wake"}
      BY <2>1 DEF EpollReturn
    <3>4. batch' \subseteq {"wake", "in", "out"} /\ ("out" \in batch' => "out" \in events')
      BY <1>1, <1>2, <3>2
    <3>5. disconnect' => ~registered' /\ batch' \subseteq {"wake"}
      BY <1>1, <1>2, <3>3
    <3> QED
      BY <3>2, <3>4, <3>5
  <2>2. CASE HandleWakeup
    BY <1>1, <1>2, <2>2 DEF HandleWakeup
  <2>3. CASE HandleWakeupEnd
    BY <1>1, <1>2, <2>3 DEF HandleWakeupEnd
  <2>4. CASE HandleReadable
    BY <1>1, <1>2, <2>4 DEF HandleReadable
  <2>5. CASE BatchEnd
    BY <1>1, <1>2, <2>5 DEF BatchEnd
  <2> QED
    BY <2>1, <2>2, <2>3, <2>4, <2>5
<1>4. TypeOK'
  BY <1>1, <1>3 DEF IInv, TypeOK
<1> QED
  BY <1>1, <1>3, <1>4 DEF IInv, Registered, RepliesNotEmpty, NobodyAtWork, WatchesOutput,
                          SurvivesWithoutPool, ServerSurvives

(* A queued reply, which only a pool's thread can have queued.             *)
LEMMA TaskStep == ASSUME IInv, HandleWakeupTask PROVE IInv'
<1> USE DEF clientvars, loopvars, workvars, LoopAt
<1>1. /\ UNCHANGED <<clientvars, loopvars, inputbuffer, disconnect, workvars>>
      /\ taskqueue # <<>> /\ taskqueue \in Seq(Seq(Sent) \ {<<>>})
      /\ taskqueue' = Tail(taskqueue) /\ SendInLoop(Head(taskqueue))
  BY DEF HandleWakeupTask, IInv, TypeOK
<1>2. Head(taskqueue) \in Seq(Sent) \ {<<>>} /\ taskqueue' \in Seq(Seq(Sent) \ {<<>>})
  BY <1>1, HeadTail
<1>3. /\ outputbuffer' \in Seq(Answers) /\ outputbuffer' # <<>>
      /\ events' \subseteq {"in", "out"} /\ "out" \in events'
      /\ registered' = registered /\ inepoll' /\ inepoll' \in BOOLEAN
      /\ exited' \in {"no", "exit"}
  <2>1. inepoll' = TRUE
    BY <1>1 DEF SendInLoop, SendWith, EnableWriting, UpdateChannel
  <2> QED
    BY <1>1, <1>2, <2>1, SendInLoopKeeps
<1>4. pool # {}
  BY <1>1 DEF IInv, NobodyAtWork
<1>5. TypeOK'
  BY <1>1, <1>2, <1>3 DEF IInv, TypeOK
<1> QED
  BY <1>1, <1>3, <1>4, <1>5 DEF IInv, Registered, BatchValid, RepliesNotEmpty, NobodyAtWork, WatchesOutput,
                                ClosedIsQuiet, SurvivesWithoutPool

LEMMA ReadStep == ASSUME IInv, Read PROVE IInv'
<1> USE DEF channelvars, loopvars, workvars, LoopAt
<1>1. UNCHANGED <<clientsent, received, peer, sndbuf, channelvars, loopvars, outputbuffer, disconnect,
                  taskqueue, workvars>>
  BY DEF Read
<1>2. inputbuffer' \in Seq(Sent) /\ inbound' \in Seq(Sent)
  <2>1. inputbuffer \in Seq(Sent) /\ inbound \in Seq(Sent)
    BY DEF IInv, TypeOK
  <2>2. PICK n \in 1..Len(inbound) :
            /\ inputbuffer' = inputbuffer \o SubSeq(inbound, 1, n)
            /\ inbound' = SubSeq(inbound, n + 1, Len(inbound))
    BY DEF Read
  <2>3. SubSeq(inbound, 1, n) \in Seq(Sent) /\ SubSeq(inbound, n + 1, Len(inbound)) \in Seq(Sent)
    BY <2>1, <2>2
  <2> QED
    BY <2>1, <2>2, <2>3, Joined
<1>3. TypeOK'
  BY <1>1, <1>2 DEF IInv, TypeOK
<1> QED
  BY <1>1, <1>3 DEF IInv, Registered, BatchValid, RepliesNotEmpty, NobodyAtWork, WatchesOutput, ClosedIsQuiet,
                    SurvivesWithoutPool, ServerSurvives

(* A reader's channel is in the epoll set.                                 *)
LEMMA ReaderIsRegistered ==
    ASSUME IInv, looppc = "read"
    PROVE  ~disconnect /\ registered /\ inepoll /\ CtlResult = "no" /\ batch \subseteq {"wake"}
BY DEF IInv, TypeOK, Registered, BatchValid, ClosedIsQuiet, CtlResult

(* The end of the data: a message goes to the pool, or is answered here.   *)
LEMMA AgainStep == ASSUME IInv, ReadAgain PROVE IInv'
<1> USE DEF clientvars, LoopAt
<1>1. /\ looppc = "read" /\ looppc' = "dispatch" /\ inputbuffer' = <<>>
      /\ UNCHANGED <<batch, clientvars, disconnect, taskqueue, pool, wpc, message>>
  BY DEF ReadAgain
<1>2. inputbuffer \in Seq(Sent) /\ workqueue \in Seq(Seq(Sent) \ {<<>>}) /\ exited = "no"
  BY DEF IInv, TypeOK, ReadAgain, Running
<1>3. ~disconnect /\ registered /\ inepoll /\ batch \subseteq {"wake"}
  BY <1>1, ReaderIsRegistered
<1>4. \/ UNCHANGED <<outputbuffer, channelvars, workqueue>>
      \/ pool # {} /\ workqueue' \in Seq(Seq(Sent) \ {<<>>}) /\ UNCHANGED <<outputbuffer, channelvars>>
      \/ SendInLoop(inputbuffer) /\ inputbuffer # <<>> /\ UNCHANGED workqueue
  <2>1. CASE inputbuffer = <<>>
    BY <2>1 DEF ReadAgain
  <2>2. CASE inputbuffer # <<>> /\ pool = {}
    BY <2>2 DEF ReadAgain, HandleMessage
  <2>3. CASE inputbuffer # <<>> /\ pool # {}
    <3>1. workqueue' = Append(workqueue, inputbuffer) /\ UNCHANGED <<outputbuffer, channelvars>>
      BY <2>3 DEF ReadAgain, HandleMessage
    <3>2. workqueue' \in Seq(Seq(Sent) \ {<<>>})
      BY <1>2, <2>3, <3>1, Added
    <3> QED
      BY <2>3, <3>1, <3>2
  <2> QED
    BY <2>1, <2>2, <2>3
<1>5. CASE UNCHANGED <<outputbuffer, channelvars>> /\ workqueue' \in Seq(Seq(Sent) \ {<<>>})
           /\ (pool = {} => workqueue' = workqueue)
  <2> USE DEF channelvars
  <2>1. TypeOK'
    BY <1>1, <1>5 DEF IInv, TypeOK
  <2> QED
    BY <1>1, <1>3, <1>5, <2>1 DEF IInv, Registered, BatchValid, RepliesNotEmpty, NobodyAtWork, WatchesOutput,
                                  ClosedIsQuiet, SurvivesWithoutPool, ServerSurvives
<1>6. CASE SendInLoop(inputbuffer) /\ inputbuffer # <<>> /\ UNCHANGED workqueue
  <2>1. /\ outputbuffer' \in Seq(Answers) /\ outputbuffer' # <<>>
        /\ events' \subseteq {"in", "out"} /\ "out" \in events'
        /\ registered' = registered /\ inepoll' /\ exited' = "no"
    BY <1>2, <1>3, <1>6, SendInLoopKeeps
  <2>2. inepoll' = TRUE
    BY <1>6 DEF SendInLoop, SendWith, EnableWriting, UpdateChannel
  <2>3. TypeOK'
    BY <1>1, <1>6, <2>1, <2>2 DEF IInv, TypeOK
  <2> QED
    BY <1>1, <1>3, <1>6, <2>1, <2>2, <2>3 DEF IInv, Registered, BatchValid, RepliesNotEmpty, NobodyAtWork,
                                   WatchesOutput, ClosedIsQuiet, SurvivesWithoutPool, ServerSurvives
<1> QED
  BY <1>2, <1>4, <1>5, <1>6

(* The close.                                                              *)
LEMMA ClosedStep == ASSUME IInv, ReadClosed PROVE IInv'
<1> USE DEF clientvars, workvars, LoopAt
<1>1. /\ looppc = "read" /\ looppc' = "dispatch" /\ disconnect' = TRUE
      /\ events' = {} /\ registered' = FALSE /\ inepoll' = inepoll /\ exited' = CtlResult
      /\ UNCHANGED <<batch, clientvars, inputbuffer, outputbuffer, taskqueue, workvars>>
  BY DEF ReadClosed, ReadClosedWith, CloseCallback, RemoveChannel, EpollRemove
<1>2. inepoll /\ exited' = "no" /\ batch \subseteq {"wake"}
  BY <1>1, ReaderIsRegistered
<1>3. TypeOK'
  BY <1>1, <1>2 DEF IInv, TypeOK
<1> QED
  BY <1>1, <1>2, <1>3 DEF IInv, Registered, BatchValid, RepliesNotEmpty, NobodyAtWork, WatchesOutput,
                          ClosedIsQuiet, SurvivesWithoutPool, ServerSurvives

(* A write: what send() took moves, and EPOLLOUT goes with the last of it. *)
LEMMA WriteStep == ASSUME IInv, WriteCallback PROVE IInv'
<1> USE DEF workvars
<1>1. /\ looppc = "dispatch" /\ "out" \in batch /\ batch' = batch \ {"in", "out"}
      /\ sndbuf' = sndbuf \o SubSeq(outputbuffer, 1, Written) /\ outputbuffer' = Rest
      /\ UNCHANGED <<clientsent, received, peer, inbound, looppc, inputbuffer, disconnect, taskqueue, workvars>>
  BY DEF WriteCallback, WriteWith, HandleEvent, LoopAt
<1>2. /\ ~disconnect /\ registered /\ inepoll /\ CtlResult = "no" /\ "out" \in events
      /\ registered \in BOOLEAN /\ inepoll \in BOOLEAN
      /\ events \subseteq {"in", "out"} /\ sndbuf \in Seq(Answers) /\ outputbuffer \in Seq(Answers)
  BY <1>1 DEF IInv, TypeOK, Registered, BatchValid, ClosedIsQuiet, CtlResult
<1>3. /\ sndbuf' \in Seq(Answers) /\ Len(sndbuf') <= SndBuf /\ outputbuffer' \in Seq(Answers)
  <2>1. Written \in 0..Len(outputbuffer) /\ Written <= SndBuf - Len(sndbuf)
    BY WrittenFits DEF IInv
  <2> HIDE DEF Written
  <2>2. SubSeq(outputbuffer, 1, Written) \in Seq(Answers) /\ Len(SubSeq(outputbuffer, 1, Written)) = Written
    BY <1>2, <2>1
  <2>3. Rest \in Seq(Answers)
    BY <1>2, <2>1 DEF Rest
  <2>4. Len(sndbuf') = Len(sndbuf) + Written /\ sndbuf' \in Seq(Answers)
    BY <1>1, <1>2, <2>2, Joined
  <2> QED
    BY <1>1, <1>2, <2>1, <2>3, <2>4, ConnectionAssumption
<1>4. CASE Rest = <<>>
  <2>1. /\ events' = events \ {"out"} /\ exited' = CtlResult
        /\ registered' = (registered \/ ~inepoll) /\ inepoll' = TRUE
    BY <1>4 DEF WriteCallback, WriteWith, DisableWriting, UpdateChannel
  <2>2. registered' = TRUE /\ exited' = "no" /\ events' \subseteq {"in", "out"} /\ "out" \notin events'
    BY <1>2, <2>1
  <2>3. TypeOK'
    BY <1>1, <1>3, <2>1, <2>2 DEF IInv, TypeOK
  <2> QED
    BY <1>1, <1>2, <1>4, <2>1, <2>2, <2>3 DEF IInv, Registered, BatchValid, RepliesNotEmpty, NobodyAtWork,
                                   WatchesOutput, ClosedIsQuiet, SurvivesWithoutPool, ServerSurvives
<1>5. CASE Rest # <<>>
  <2>1. exited' \in {"no", "signal"} /\ UNCHANGED <<registered, inepoll, events>>
    BY <1>5 DEF WriteCallback, WriteWith
  <2>2. TypeOK'
    BY <1>1, <1>3, <2>1 DEF IInv, TypeOK
  <2> QED
    BY <1>1, <1>2, <1>5, <2>1, <2>2 DEF IInv, Registered, BatchValid, RepliesNotEmpty, NobodyAtWork,
                                   WatchesOutput, ClosedIsQuiet, SurvivesWithoutPool, ServerSurvives
<1> QED
  BY <1>4, <1>5

LEMMA StutterStep == ASSUME IInv, UNCHANGED vars PROVE IInv'
BY DEF IInv, vars, clientvars, servervars, channelvars, loopvars, connvars, workvars, TypeOK, Registered,
       BatchValid, RepliesNotEmpty, NobodyAtWork, WatchesOutput, ClosedIsQuiet, SurvivesWithoutPool,
       ServerSurvives

LEMMA NextIInv == IInv /\ [Next]_vars => IInv'
<1> SUFFICES ASSUME IInv, [Next]_vars PROVE IInv'
  OBVIOUS
<1>1. CASE LoopStep
  BY <1>1, PollSteps, TaskStep, ReadStep, AgainStep, ClosedStep, WriteStep DEF LoopStep
<1>2. ASSUME NEW w \in Workers, WorkerStep(w) PROVE IInv'
  BY <1>2, WorkerSteps
<1>3. CASE ClientStep
  BY <1>3, ClientSteps
<1>4. CASE UNCHANGED vars
  BY <1>4, StutterStep
<1> QED
  BY <1>1, <1>2, <1>3, <1>4 DEF Next

-----------------------------------------------------------------------------
(* Every state the connection reaches satisfies the inductive invariant.   *)
THEOREM InductiveInvariant == Spec => []IInv
BY InitIInv, NextIInv, PTL DEF Spec

(* The types, for any number of workers and chunks.                        *)
THEOREM TypeCorrect == Spec => []TypeOK
<1>1. IInv => TypeOK
  BY DEF IInv
<1> QED
  BY <1>1, InductiveInvariant, PTL

(* A channel in the epoll set asks for EPOLLOUT exactly while the output   *)
(* buffer holds something.                                                 *)
THEOREM OutputIsWatched == Spec => []WatchesOutput
<1>1. IInv => WatchesOutput
  BY DEF IInv
<1> QED
  BY <1>1, InductiveInvariant, PTL

(* No handler of a closed connection runs again.                           *)
THEOREM ClosedStaysQuiet == Spec => []ClosedIsQuiet
<1>1. IInv => ClosedIsQuiet
  BY DEF IInv
<1> QED
  BY <1>1, InductiveInvariant, PTL

(* A server without a worker pool never fails in epoll_ctl().              *)
THEOREM NoPoolNoExit == Spec => []SurvivesWithoutPool
<1>1. IInv => SurvivesWithoutPool
  BY DEF IInv
<1> QED
  BY <1>1, InductiveInvariant, PTL
=============================================================================
