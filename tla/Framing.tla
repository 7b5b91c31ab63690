------------------------------ MODULE Framing ------------------------------
(***************************************************************************)
(* Messages with a length in front, as client.cpp sends them, cut by TCP   *)
(* at any byte and put together again by the read loop of                  *)
(* Connection::onmessage() and Buffer::pickmessage().  Without a separator *)
(* (the server as Connection.cpp builds it) a message is what has arrived; *)
(* with one it is what the client sent.  Connection takes the first for    *)
(* granted; this module looks at the bytes of both.                        *)
(***************************************************************************)
EXTENDS Buffer

CONSTANT Messages      \* bodies a client sends, each once

\* client.cpp builds a message and its header in 1024 bytes: an int holds the length.
ASSUME FramingAssumption ==
    /\ Messages \subseteq Seq(Byte)
    /\ \A m \in Messages : HeaderSize + Len(m) < Words \div 2

VARIABLES
    sep,           \* sep_ of inputbuffer_
    sent,          \* the messages the client has sent, oldest first
    net,           \* bytes sent and not read yet
    pc,            \* where the IO thread is: "poll", "read" or "pick"
    inputbuffer,   \* inputbuffer_
    picked         \* what onmessagecallback_ was called with, oldest first; without a
                   \* separator the cuts mean nothing and all of it is one entry

vars == <<sep, sent, net, pc, inputbuffer, picked>>

Init ==
    /\ sep \in {0, 1}
    /\ sent = <<>> /\ net = <<>>
    /\ pc = "poll" /\ inputbuffer = <<>> /\ picked = <<>>

-----------------------------------------------------------------------------
\* The client builds by hand what appendwithsep() builds.
Frame(m) == AppendWithSep(<<>>, 1, m)

\* client.cpp waits for the answer before it sends again; others need not.
ClientSend(m) ==
    /\ m \notin Range(sent)
    /\ sent' = Append(sent, m)
    /\ net' = net \o Frame(m)
    /\ UNCHANGED <<sep, pc, inputbuffer, picked>>

\* read() returns some of what is under way.
Read ==
    /\ pc \in {"poll", "read"}
    /\ \E n \in 1..Len(net) :
        /\ inputbuffer' = AppendBytes(inputbuffer, SubSeq(net, 1, n))
        /\ net' = Erase(net, n)
    /\ pc' = "read"
    /\ UNCHANGED <<sep, sent, picked>>

\* Mutation of ReadAgain: the messages are left for the next round.
ReadAgainLater ==
    /\ pc = "read"
    /\ pc' \in {"pick", "poll"}
    /\ UNCHANGED <<sep, sent, net, inputbuffer, picked>>

\* EAGAIN: whatever else is under way has not arrived yet.
ReadAgain ==
    /\ pc = "read"
    /\ pc' = "pick"
    /\ UNCHANGED <<sep, sent, net, inputbuffer, picked>>

HandOver(ss) == IF sep = 0 THEN <<FlattenSeq(Append(picked, ss))>> ELSE Append(picked, ss)

PickWith(pick, next) ==
    /\ pc = "pick"
    /\ inputbuffer' = pick.buf
    /\ picked' = IF pick.ok THEN HandOver(pick.ss) ELSE picked
    /\ pc' = IF pick.ok THEN next ELSE "poll"
    /\ UNCHANGED <<sep, sent, net>>

\* Mutation of Pick: one message a round ("if" for "while").
PickOne == \E h \in HeaderBytes(inputbuffer) : PickWith(PickMessage(inputbuffer, sep, h), "poll")

\* One round of the inner while loop.
Pick == \E h \in HeaderBytes(inputbuffer) : PickWith(PickMessage(inputbuffer, sep, h), "pick")

LoopStep == Read \/ ReadAgain \/ Pick

Next == LoopStep \/ \E m \in Messages : ClientSend(m)

Spec == Init /\ [][Next]_vars

\* The IO thread is scheduled and the network delivers; nobody has to send.
FairSpec == Spec /\ WF_vars(LoopStep)

-----------------------------------------------------------------------------
Whole == {m \in Messages : IsPrefix(Frame(m), inputbuffer)}

(* Types, and that the loop goes back to epoll_wait() with an incomplete   *)
(* message at most: what is there for the application has been handed over *)
(* and waits for no further byte.                                          *)
TypeOK ==
    /\ sep \in {0, 1}
    /\ sent \in Seq(Messages)
    /\ net \in Seq(Byte)
    /\ pc \in {"poll", "read", "pick"}
    /\ inputbuffer \in Seq(Byte)
    /\ picked \in Seq(Seq(Byte))
    /\ pc = "poll" => (IF sep = 0 THEN inputbuffer = <<>> ELSE Whole = {})

(* No byte is lost, doubled or moved between the client's send() and the   *)
(* application, wherever the reads cut the stream and whatever the mode.   *)
Handed(m) == IF sep = 1 THEN Frame(m) ELSE m
Frames(messages) == FlattenSeq([i \in DOMAIN messages |-> Frame(messages[i])])
BytesKept == FlattenSeq([i \in DOMAIN picked |-> Handed(picked[i])]) \o inputbuffer \o net = Frames(sent)

(* Inductive: with a header, what was picked is what was sent first.  Then *)
(* BytesKept says that the buffer begins with the next message's header.   *)
IInv == TypeOK /\ BytesKept /\ (sep = 1 => IsPrefix(picked, sent))

(* With the header a byte stream is a queue of messages: the application   *)
(* gets each message whole, once and in the order of sending, also when a  *)
(* header is cut in two and pickmessage() reads behind the buffer's end.   *)
TQ == INSTANCE TaskQueue WITH Tasks <- Messages,
                              posted <- IF sep = 1 THEN sent ELSE <<>>,
                              ran <- IF sep = 1 THEN picked ELSE <<>>
ImplementsTaskQueue == TQ!Spec

(* Every message that was sent is handed over: the inner loop empties the  *)
(* buffer although nobody will wake the IO thread for what is left in it.  *)
MessagesPicked ==
    \A m \in Messages : m \in Range(sent) ~> (IF sep = 1 THEN m \in Range(picked) ELSE inputbuffer \o net = <<>>)
=============================================================================
