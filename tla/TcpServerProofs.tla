--------------------------- MODULE TcpServerProofs ---------------------------
(***************************************************************************)
(* The safety properties of TcpServer, for any number of clients,          *)
(* descriptors and loops.  IInv is inductive; the properties follow.       *)
(***************************************************************************)
EXTENDS TcpServer, TLAPS

LEMMA InitIInv == Init => IInv
<1> SUFFICES ASSUME Init PROVE IInv
  OBVIOUS
<1> USE TcpServerAssumption DEF Init
<1>1. TypeOK
  BY DEF TypeOK
<1>2. Built = {}
  BY DEF Built
<1>3. Progress /\ StaysAlive /\ OwnFd /\ OpenIsFound
  BY <1>2 DEF Progress, StaysAlive, OwnFd, OpenIsFound
<1> QED
  BY <1>1, <1>3 DEF IInv

(* Every object that was built is alive, so accept4() returns a descriptor *)
(* none of them has.                                                       *)
LEMMA NewFd ==
    ASSUME IInv, NEW f \in FreeFds
    PROVE  f \in Fds /\ \A c \in Conns : fd[c] # f
<1>1. \A c \in Built : Alive(c)
  BY DEF IInv, StaysAlive, Alive, Built
<1>2. \A c \in Conns : fd[c] = f => c \in Built
  BY TcpServerAssumption DEF FreeFds, Built
<1> QED
  BY <1>1, <1>2 DEF FreeFds

-----------------------------------------------------------------------------
(* Every step keeps IInv.                                                  *)
LEMMA NextIInv == IInv /\ [Next]_vars => IInv'
<1> SUFFICES ASSUME IInv, [Next]_vars PROVE IInv'
  OBVIOUS
<1> USE TcpServerAssumption DEF IInv, TypeOK, Built, clients, main, channels, maps, tasks, timers,
     Running, MainAt, LoopAt, LoopFree, ClientStep, LoopMapInsertWhen, TimerEndWhen
<1>1. ASSUME NEW c \in Conns, ClientConnect(c) PROVE IInv'
  <2>1. TypeOK' BY <1>1 DEF ClientConnect
  <2>2. Progress' BY <1>1 DEF ClientConnect, Progress
  <2>3. StaysAlive' BY <1>1 DEF ClientConnect, StaysAlive, OwnFd, Progress
  <2>4. OwnFd' BY <1>1 DEF ClientConnect, OwnFd
  <2>5. OpenIsFound' BY <1>1 DEF ClientConnect, OpenIsFound, Progress, OwnFd
  <2> QED BY <2>1, <2>2, <2>3, <2>4, <2>5
<1>2. ASSUME NEW c \in Conns, ClientLeave(c) PROVE IInv'
  <2>1. TypeOK' BY <1>2 DEF ClientLeave
  <2>2. Progress' BY <1>2 DEF ClientLeave, Progress
  <2>3. StaysAlive' BY <1>2 DEF ClientLeave, StaysAlive, OwnFd, Progress
  <2>4. OwnFd' BY <1>2 DEF ClientLeave, OwnFd
  <2>5. OpenIsFound' BY <1>2 DEF ClientLeave, OpenIsFound, Progress, OwnFd
  <2> QED BY <2>1, <2>2, <2>3, <2>4, <2>5
<1>3. ASSUME NEW c \in Conns, BecomeIdle(c) PROVE IInv'
  <2>1. TypeOK' BY <1>3 DEF BecomeIdle
  <2>2. Progress' BY <1>3 DEF BecomeIdle, Progress
  <2>3. StaysAlive' BY <1>3 DEF BecomeIdle, StaysAlive, OwnFd, Progress
  <2>4. OwnFd' BY <1>3 DEF BecomeIdle, OwnFd
  <2>5. OpenIsFound' BY <1>3 DEF BecomeIdle, OpenIsFound, Progress, OwnFd
  <2> QED BY <2>1, <2>2, <2>3, <2>4, <2>5
<1>4. ASSUME NEW c \in Conns, AcceptFails(c) PROVE IInv'
  <2>1. TypeOK' BY <1>4 DEF AcceptFails
  <2>2. Progress' BY <1>4 DEF AcceptFails, Progress
  <2>3. StaysAlive' BY <1>4 DEF AcceptFails, StaysAlive, OwnFd, Progress
  <2>4. OwnFd' BY <1>4 DEF AcceptFails, OwnFd
  <2>5. OpenIsFound' BY <1>4 DEF AcceptFails, OpenIsFound, Progress, OwnFd
  <2> QED BY <2>1, <2>2, <2>3, <2>4, <2>5
<1>5. ASSUME NEW c \in Conns, HandleMessage(c) PROVE IInv'
  <2>1. TypeOK' BY <1>5 DEF HandleMessage
  <2>2. Progress' BY <1>5 DEF HandleMessage, Progress
  <2>3. StaysAlive' BY <1>5 DEF HandleMessage, StaysAlive, OwnFd, Progress
  <2>4. OwnFd' BY <1>5 DEF HandleMessage, OwnFd
  <2>5. OpenIsFound' BY <1>5 DEF HandleMessage, OpenIsFound, Progress, OwnFd
  <2> QED BY <2>1, <2>2, <2>3, <2>4, <2>5
<1>6. ASSUME NEW c \in Conns, HandleClose(c) PROVE IInv'
  <2>1. TypeOK' BY <1>6 DEF HandleClose, CloseConnection
  <2>2. Progress' BY <1>6 DEF HandleClose, CloseConnection, Progress, OwnFd
  <2>3. StaysAlive' BY <1>6 DEF HandleClose, CloseConnection, StaysAlive, OwnFd, Progress
  <2>4. OwnFd' BY <1>6 DEF HandleClose, CloseConnection, OwnFd
  <2>5. OpenIsFound' BY <1>6 DEF HandleClose, CloseConnection, OpenIsFound, Progress, OwnFd
  <2> QED BY <2>1, <2>2, <2>3, <2>4, <2>5
<1>7. ASSUME NEW c \in Conns, SendInLoop(c) PROVE IInv'
  <2>1. TypeOK' BY <1>7 DEF SendInLoop
  <2>2. Progress' BY <1>7 DEF SendInLoop, Progress
  <2>3. StaysAlive' BY <1>7 DEF SendInLoop, StaysAlive, OwnFd, Progress
  <2>4. OwnFd' BY <1>7 DEF SendInLoop, OwnFd
  <2>5. OpenIsFound' BY <1>7 DEF SendInLoop, OpenIsFound, Progress, OwnFd
  <2> QED BY <2>1, <2>2, <2>3, <2>4, <2>5
<1>8. ASSUME NEW c \in Conns, WorkerSend(c) PROVE IInv'
  <2>1. TypeOK' BY <1>8 DEF WorkerSend
  <2>2. Progress' BY <1>8 DEF WorkerSend, Progress
  <2>3. StaysAlive' BY <1>8 DEF WorkerSend, StaysAlive, OwnFd, Progress
  <2>4. OwnFd' BY <1>8 DEF WorkerSend, OwnFd
  <2>5. OpenIsFound' BY <1>8 DEF WorkerSend, OpenIsFound, Progress, OwnFd
  <2> QED BY <2>1, <2>2, <2>3, <2>4, <2>5
<1>9. ASSUME NEW c \in Conns, NEW f \in Fds, Accept(c, f) PROVE IInv'
  <2>1. TypeOK' BY <1>9 DEF Accept, NewConnection
  <2>2. Progress' BY <1>9 DEF Accept, NewConnection, Progress
  <2>3. StaysAlive' BY <1>9, NewFd DEF Accept, NewConnection, StaysAlive, OwnFd, Progress
  <2>4. OwnFd' BY <1>9, NewFd DEF Accept, NewConnection, OwnFd
  <2>5. OpenIsFound' BY <1>9, NewFd DEF Accept, NewConnection, OpenIsFound, Progress, OwnFd
  <2> QED BY <2>1, <2>2, <2>3, <2>4, <2>5
<1>10. ASSUME SetCallbacks PROVE IInv'
  <2>1. TypeOK' BY <1>10 DEF SetCallbacks
  <2>2. Progress' BY <1>10 DEF SetCallbacks, Progress
  <2>3. StaysAlive' BY <1>10 DEF SetCallbacks, StaysAlive, OwnFd, Progress
  <2>4. OwnFd' BY <1>10 DEF SetCallbacks, OwnFd
  <2>5. OpenIsFound' BY <1>10 DEF SetCallbacks, OpenIsFound, Progress, OwnFd
  <2> QED BY <2>1, <2>2, <2>3, <2>4, <2>5
<1>11. ASSUME MapInsert PROVE IInv'
  <2>1. TypeOK' BY <1>11 DEF MapInsert
  <2>2. Progress' BY <1>11 DEF MapInsert, Progress
  <2>3. StaysAlive' BY <1>11 DEF MapInsert, StaysAlive, OwnFd, Progress
  <2>4. OwnFd' BY <1>11 DEF MapInsert, OwnFd
  <2>5. OpenIsFound' BY <1>11 DEF MapInsert, OpenIsFound, Progress, OwnFd
  <2> QED BY <2>1, <2>2, <2>3, <2>4, <2>5
<1>12. ASSUME LoopMapInsert PROVE IInv'
  <2>1. TypeOK' BY <1>12 DEF LoopMapInsert, Progress
  <2>2. Progress' BY <1>12 DEF LoopMapInsert, Progress
  <2>3. StaysAlive' BY <1>12 DEF LoopMapInsert, StaysAlive, OwnFd, Progress
  <2>4. OwnFd' BY <1>12 DEF LoopMapInsert, OwnFd
  <2>5. OpenIsFound' BY <1>12 DEF LoopMapInsert, OpenIsFound, Progress, OwnFd
  <2> QED BY <2>1, <2>2, <2>3, <2>4, <2>5
<1>13. ASSUME NEW l \in Loops, TimerBegin(l) PROVE IInv'
  <2>1. TypeOK' BY <1>13 DEF TimerBegin
  <2>2. Progress' BY <1>13 DEF TimerBegin, Progress
  <2>3. StaysAlive' BY <1>13 DEF TimerBegin, StaysAlive, OwnFd, Progress
  <2>4. OwnFd' BY <1>13 DEF TimerBegin, OwnFd
  <2>5. OpenIsFound' BY <1>13 DEF TimerBegin, OpenIsFound, Progress, OwnFd
  <2> QED BY <2>1, <2>2, <2>3, <2>4, <2>5
<1>14. ASSUME NEW l \in Loops, TimerEnd(l) PROVE IInv'
  <2>1. TypeOK' BY <1>14 DEF TimerEnd
  <2>2. Progress' BY <1>14 DEF TimerEnd, Progress
  <2>3. StaysAlive' BY <1>14 DEF TimerEnd, StaysAlive, OwnFd, Progress
  <2>4. OwnFd' BY <1>14 DEF TimerEnd, OwnFd
  <2>5. OpenIsFound' BY <1>14 DEF TimerEnd, OpenIsFound, Progress, OwnFd
  <2> QED BY <2>1, <2>2, <2>3, <2>4, <2>5
<1>15. ASSUME NEW l \in Loops, NEW f \in Fds, TimerVisit(l, f) PROVE IInv'
  <2>1. TypeOK' BY <1>15 DEF TimerVisit, Timeout, RemoveConn
  <2>2. Progress' BY <1>15 DEF TimerVisit, Timeout, RemoveConn, Progress
  <2>3. StaysAlive' BY <1>15 DEF TimerVisit, Timeout, RemoveConn, StaysAlive, OwnFd, Progress
  <2>4. OwnFd' BY <1>15 DEF TimerVisit, Timeout, RemoveConn, OwnFd
  <2>5. OpenIsFound' BY <1>15 DEF TimerVisit, Timeout, RemoveConn, OpenIsFound, Progress, OwnFd
  <2> QED BY <2>1, <2>2, <2>3, <2>4, <2>5
<1>16. CASE UNCHANGED vars
  BY <1>16 DEF vars, Progress, StaysAlive, OwnFd, OpenIsFound
<1> QED
  BY <1>1, <1>2, <1>3, <1>4, <1>5, <1>6, <1>7, <1>8, <1>9, <1>10, <1>11, <1>12, <1>13, <1>14, <1>15, <1>16 DEF Next, MainStep, ConnStep, TimerStep

-----------------------------------------------------------------------------
(* The inductive invariant holds of every state of the server.             *)
THEOREM InductiveInvariant == Spec => []IInv
<1>1. Init => IInv
  BY InitIInv
<1>2. IInv /\ [Next]_vars => IInv'
  BY NextIInv
<1> QED
  BY <1>1, <1>2, PTL DEF Spec

(* TcpServer's variables have their types.                                 *)
THEOREM TypeCorrect == Spec => []TypeOK
BY InductiveInvariant, PTL DEF IInv

(* A connected client is in both maps under its own descriptor, for any    *)
(* number of clients, descriptors and loops.                               *)
THEOREM ConnectedIsFound == Spec => []OpenIsFound
BY InductiveInvariant, PTL DEF IInv

(* The epoll set and the queued tasks never refer to a destroyed object,   *)
(* although they hold no shared_ptr.                                       *)
THEOREM NoDanglingPointer == Spec => []NoUseAfterFree
<1>1. IInv => NoUseAfterFree
  BY DEF IInv, Progress, StaysAlive, NoUseAfterFree, Alive, Built
<1> QED
  BY <1>1, InductiveInvariant, PTL
=============================================================================
