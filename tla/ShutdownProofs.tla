--------------------------- MODULE ShutdownProofs ---------------------------
(***************************************************************************)
(* The safety properties of Shutdown, for any number of workers, IO        *)
(* threads and signals.                                                    *)
(***************************************************************************)
EXTENDS Shutdown, TLAPS

LEMMA InitIInv == Init => IInv
<1> SUFFICES ASSUME Init PROVE IInv
  OBVIOUS
<1> USE ShutdownAssumption DEF Init
<1>1. TypeOK
  <2>1. pc \in [Threads -> Places]
    BY DEF Places
  <2>2. \A t \in Threads : pc[t] # "map" /\ t # Nobody
    OBVIOUS
  <2>3. stack \in [Threads -> Seq(Handlers)]
    OBVIOUS
  <2>4. hpc \in [Handlers -> {"none", "test", "stop", "notify", "join", "delete", "exit"}
                              \X {"works", "loops", "io", "server"}]
    OBVIOUS
  <2>5. tasks \in 0..MaxTasks /\ mmutex \in LoopThreads \cup {Nobody}
    OBVIOUS
  <2>6. /\ {stop, joined} \subseteq SUBSET {"works", "io"} /\ loopstop \subseteq LoopThreads
        /\ deleted \in BOOLEAN /\ ended \in {"no", "failed", "exit", "abort"}
    OBVIOUS
  <2> HIDE DEF Init
  <2>7. mmutex = Nobody
    BY DEF Init
  <2> QED
    BY <2>1, <2>2, <2>3, <2>4, <2>5, <2>6, <2>7 DEF TypeOK
<1>2. Begun = {}
  BY DEF Begun
<1>3. LoopsRun
  <2>1. \A h \in Handlers : hpc[h] = <<"none", "server">>
    OBVIOUS
  <2> QED
    BY <2>1 DEF LoopsRun, LoopsStopped, PoolPlaces, Threads, LoopThreads
<1>4. QuietBefore /\ OneSignalIsClean /\ Unborn
  BY DEF QuietBefore, OneSignalIsClean, Unborn, Threads, LoopThreads
<1> QED
  BY <1>1, <1>2, <1>3, <1>4 DEF IInv

(* A step of a thread's own code leaves the handlers, their flags and the  *)
(* threads that are gone alone.                                            *)
LEMMA ThreadStepKeeps ==
    ASSUME IInv, TypeOK', Unborn', LoopsRun', UNCHANGED <<stopvars, stack, hpc, deleted>>, ended' # "abort",
           \A t \in Threads : pc[t] = "exited" => pc'[t] = "exited"
    PROVE  IInv'
<1> USE DEF stopvars
<1>1. Begun' = Begun /\ OneSignal' = OneSignal
  BY DEF Begun, OneSignal
<1>2. /\ Gone(Workers) => Gone(Workers)'
      /\ Gone(IOs) => Gone(IOs)'
  BY DEF Gone, Threads, LoopThreads
<1>3. ASSUME NEW h \in Begun, StopOrder(h) /\ JoinOrder(h) PROVE (StopOrder(h) /\ JoinOrder(h))'
  BY <1>2, <1>3 DEF StopOrder, JoinOrder
<1>4. QuietBefore' /\ OneSignalIsClean'
  BY <1>1 DEF IInv, QuietBefore, OneSignalIsClean
<1> QED
  BY <1>1, <1>3, <1>4 DEF IInv

(* The call of the handler that takes a step is the only one, if there is  *)
(* only one, and there is still only one afterwards; it runs on the main   *)
(* thread.                                                                 *)
LEMMA TheHandler ==
    ASSUME IInv, OneSignal', NEW h \in Handlers, NEW t \in Threads, NEW what, NEW p, NEW then,
           Step(h, t, what, p, then), what # "none", then[1] # "none"
    PROVE  /\ StopOrder(h) /\ JoinOrder(h) /\ OneSignalIsClean
           /\ Begun' = {h} /\ hpc'[h] = then /\ hpc[h] = <<what, p>> /\ t = Main
<1> USE DEF Step
<1>1. hpc \in [Handlers -> {"none", "test", "stop", "notify", "join", "delete", "exit"}
                            \X {"works", "loops", "io", "server"}]
  BY DEF IInv, TypeOK
<1>2. h \in Begun /\ hpc'[h] = then /\ Begun' = Begun
  BY <1>1 DEF Begun
<1>3. OneSignal /\ Begun = {h}
  BY <1>2 DEF OneSignal
<1>4. StopOrder(h) /\ JoinOrder(h) /\ OneSignalIsClean
  BY <1>2, <1>3 DEF IInv
<1> QED
  BY <1>2, <1>3, <1>4 DEF JoinOrder

-----------------------------------------------------------------------------
(* Every step keeps IInv.  Steps of a thread's own code first.             *)
LEMMA StartThreadsKeeps ==
    ASSUME IInv, NEW from \in {"io", "works"}, NEW to \in {"works", "assign"},
           NEW ts \in {IOs, Workers}, NEW place \in {"born", "while"},
           StartThreads(from, to, ts, place), \A x \in ts : pc[x] = "unborn", Unborn',
           ts = Workers \/ place = "born"
    PROVE  IInv'
<1>1. /\ pc' = [t \in Threads |-> IF t = Main THEN to ELSE IF t \in ts THEN place ELSE pc[t]]
      /\ UNCHANGED <<tasks, mmutex, stop, loopstop, joined, stack, hpc, deleted, ended>>
      /\ ended = "no" /\ pc[Main] = from
  BY DEF StartThreads, At, stopvars, handlervars
<1>2. IOs \subseteq Threads
  BY DEF Threads, LoopThreads
<1>3. \A x \in Threads : \/ pc'[x] = pc[x] /\ x # Main /\ x \notin ts
                         \/ pc[x] \in {"unborn", "io", "works"} /\ pc'[x] \in {"works", "assign", "born", "while"}
  <2> SUFFICES ASSUME NEW x \in Threads
               PROVE  \/ pc'[x] = pc[x] /\ x # Main /\ x \notin ts
                      \/ pc[x] \in {"unborn", "io", "works"} /\ pc'[x] \in {"works", "assign", "born", "while"}
    OBVIOUS
  <2>1. CASE x = Main
    BY <1>1, <2>1
  <2>2. CASE x # Main /\ x \in ts
    BY <1>1, <2>2
  <2>3. CASE x # Main /\ x \notin ts
    BY <1>1, <2>3
  <2> QED
    BY <2>1, <2>2, <2>3
<1>4. pc' \in [Threads -> Places]
  <2>1. \A x \in Threads : pc'[x] \in Places
    BY <1>3 DEF IInv, TypeOK, Places, PoolPlaces
  <2> QED
    BY <1>1, <2>1
<1>5. \A x \in Threads : pc'[x] = "map" <=> pc[x] = "map"
  BY <1>3
<1>6. \A x \in Threads : pc[x] = "exited" => pc'[x] = "exited"
  BY <1>3
<1>7. TypeOK'
  BY <1>1, <1>4, <1>5 DEF IInv, TypeOK
<1>8. LoopsRun'
  <2>1. \A x \in IOs : pc'[x] \in PoolPlaces => pc'[x] \in PoolPlaces /\ pc[x] \in PoolPlaces
    <3>1. CASE place = "born"
      BY <1>1, <1>2, <3>1 DEF PoolPlaces
    <3>2. CASE ts = Workers
      BY <1>1, <1>2, <3>2, ShutdownAssumption DEF PoolPlaces
    <3> QED
      BY <3>1, <3>2
  <2> QED
    BY <1>1, <2>1 DEF IInv, LoopsRun
<1> QED
  BY <1>1, <1>6, <1>7, <1>8, ThreadStepKeeps DEF stopvars

LEMMA StartSteps == ASSUME IInv, StartIOs \/ StartWorkers PROVE IInv'
<1> USE ShutdownAssumption DEF StartThreads, At, Threads, LoopThreads
<1>1. CASE StartIOs
  <2>1. \A x \in IOs : pc[x] = "unborn"
    BY <1>1 DEF StartIOs, IInv, Unborn
  <2>2. Unborn'
    BY <1>1 DEF StartIOs, IInv, Unborn
  <2> HIDE DEF StartThreads
  <2> QED
    BY <1>1, <2>1, <2>2, StartThreadsKeeps DEF StartIOs
<1>2. CASE StartWorkers
  <2>1. \A x \in Workers : pc[x] = "unborn"
    BY <1>2 DEF StartWorkers, IInv, Unborn
  <2>2. Unborn'
    BY <1>2 DEF StartWorkers, IInv, Unborn
  <2> HIDE DEF StartThreads
  <2> QED
    BY <1>2, <2>1, <2>2, StartThreadsKeeps DEF StartWorkers
<1> QED
  BY <1>1, <1>2

LEMMA BuildSteps ==
    ASSUME IInv,
           BuildStep
    PROVE  IInv'
<1> USE ShutdownAssumption DEF IInv, TypeOK, Places, Threads, LoopThreads, At, Move, stopvars, handlervars
<1>1. ASSUME OpenSocket PROVE IInv'
  <2>1. TypeOK' BY <1>1 DEF OpenSocket
  <2>2. Unborn' /\ LoopsRun' BY <1>1 DEF OpenSocket, Unborn, LoopsRun
  <2>3. \A x \in Threads : pc[x] = "exited" => pc'[x] = "exited" BY <1>1 DEF OpenSocket
  <2>4. UNCHANGED <<stopvars, stack, hpc, deleted>> /\ ended' # "abort" BY <1>1 DEF OpenSocket
  <2> QED BY <2>1, <2>2, <2>3, <2>4, ThreadStepKeeps
<1>2. ASSUME SocketFails PROVE IInv'
  <2>1. TypeOK' BY <1>2 DEF SocketFails
  <2>2. Unborn' /\ LoopsRun' BY <1>2 DEF SocketFails, Unborn, LoopsRun
  <2>3. \A x \in Threads : pc[x] = "exited" => pc'[x] = "exited" BY <1>2 DEF SocketFails
  <2>4. UNCHANGED <<stopvars, stack, hpc, deleted>> /\ ended' # "abort" BY <1>2 DEF SocketFails
  <2> QED BY <2>1, <2>2, <2>3, <2>4, ThreadStepKeeps
<1>3. ASSUME AssignServer PROVE IInv'
  <2>1. TypeOK' BY <1>3 DEF AssignServer
  <2>2. Unborn' /\ LoopsRun' BY <1>3 DEF AssignServer, Unborn, LoopsRun
  <2>3. \A x \in Threads : pc[x] = "exited" => pc'[x] = "exited" BY <1>3 DEF AssignServer
  <2>4. UNCHANGED <<stopvars, stack, hpc, deleted>> /\ ended' # "abort" BY <1>3 DEF AssignServer
  <2> QED BY <2>1, <2>2, <2>3, <2>4, ThreadStepKeeps
<1>4. ASSUME StartRun PROVE IInv'
  <2>1. TypeOK' BY <1>4 DEF StartRun
  <2>2. Unborn' /\ LoopsRun' BY <1>4 DEF StartRun, Unborn, LoopsRun
  <2>3. \A x \in Threads : pc[x] = "exited" => pc'[x] = "exited" BY <1>4 DEF StartRun
  <2>4. UNCHANGED <<stopvars, stack, hpc, deleted>> /\ ended' # "abort" BY <1>4 DEF StartRun
  <2> QED BY <2>1, <2>2, <2>3, <2>4, ThreadStepKeeps
<1> QED
  BY <1>1, <1>2, <1>3, <1>4, StartSteps DEF BuildStep

(* A thread that is in its loop, its pool or at work only moves on.        *)
LEMMA MoveKeeps ==
    ASSUME IInv, NEW t \in Threads, NEW from \in {"born", "loop", "read", "reply"} \cup PoolPlaces,
           NEW to \in {"loop", "read", "lock"} \cup PoolPlaces, Move(t, from, to), from # "exited",
           t \in IOs /\ to \in PoolPlaces => from \in PoolPlaces \/ loopstop # {}
    PROVE  IInv'
<1>1. /\ pc' = [pc EXCEPT ![t] = to] /\ pc[t] = from /\ ended = "no"
      /\ UNCHANGED <<tasks, mmutex, stop, loopstop, joined, stack, hpc, deleted, ended>>
  BY DEF Move, At, stopvars, handlervars
<1>2. /\ from \in Places /\ from \notin {"map", "unborn", "socket", "io", "works"}
      /\ to \in Places /\ to \notin {"map", "unborn", "socket", "io", "works"}
  BY DEF Places, PoolPlaces
<1>3. TypeOK'
  BY <1>1, <1>2 DEF IInv, TypeOK
<1>4. pc \in [Threads -> Places] /\ IOs \subseteq Threads /\ Workers \subseteq Threads /\ Main \in Threads
  BY DEF IInv, TypeOK, Threads, LoopThreads
<1>5. Unborn'
  BY <1>1, <1>2, <1>4 DEF IInv, Unborn
<1>6. LoopsRun'
  BY <1>1, <1>4 DEF IInv, LoopsRun
<1>7. \A x \in Threads : pc[x] = "exited" => pc'[x] = "exited"
  BY <1>1, <1>4
<1> QED
  BY <1>1, <1>3, <1>5, <1>6, <1>7, ThreadStepKeeps DEF stopvars

(* Threads of the pools are woken, or miss it.                             *)
LEMMA WokenKeep ==
    ASSUME IInv, pc' = [x \in Threads |-> pc'[x]],
           \A x \in Threads : \/ pc'[x] = pc[x]
                              \/ /\ x \in PoolThreads
                                 /\ pc[x] \in {"block", "waiting", "missed"}
                                 /\ pc'[x] \in {"test", "late"}
                              \/ /\ pc[x] = "read"
                                 /\ pc'[x] = "loop",
           UNCHANGED <<mmutex, stop, loopstop, joined, stack, deleted, ended>>,
           tasks' \in 0..MaxTasks
    PROVE  /\ pc' \in [Threads -> Places]
           /\ \A t \in Threads : pc'[t] = "map" <=> mmutex' = t
           /\ Unborn'
           /\ \A i \in IOs : pc'[i] \in PoolPlaces => pc[i] \in PoolPlaces
           /\ \A x \in Threads : pc[x] = "exited" => pc'[x] = "exited"
<1>1. IOs \subseteq Threads /\ Workers \subseteq Threads /\ Main \in Threads /\ Main \notin PoolThreads
  BY ShutdownAssumption DEF Threads, LoopThreads, PoolThreads
<1>2. \A x \in Threads : pc[x] \in Places /\ (pc[x] = "map" <=> mmutex = x)
  BY DEF IInv, TypeOK
<1>3. \A x \in Threads : pc'[x] \in Places /\ (pc'[x] = "map" <=> mmutex' = x)
  BY <1>2 DEF Places, PoolPlaces
<1>4. Unborn'
  BY <1>1 DEF IInv, Unborn
<1>5. \A i \in IOs : pc'[i] \in PoolPlaces => pc[i] \in PoolPlaces
  BY <1>1 DEF PoolPlaces
<1> QED
  BY <1>3, <1>4, <1>5

LEMMA LoopSteps ==
    ASSUME IInv, NEW y \in LoopThreads,
           \/ RunBegin(y) \/ MapBegin(y) \/ MapLock(y) \/ MapUnlock(y)
           \/ ReadBegin(y) \/ ReadNothing(y) \/ AddMessage(y) \/ RunEnds(y)
    PROVE  IInv'
<1> y \in Threads
  BY DEF Threads
<1>1. ASSUME RunBegin(y) PROVE IInv'
  BY <1>1, MoveKeeps DEF RunBegin, PoolPlaces
<1>2. ASSUME MapBegin(y) PROVE IInv'
  <2>1. PICK from \in {"loop", "read"} : Move(y, from, "lock")
    BY <1>2 DEF MapBegin
  <2> QED
    BY <2>1, MoveKeeps DEF PoolPlaces
<1>3. ASSUME MapLock(y) PROVE IInv'
  <2> USE <1>3 DEF MapLock, At, stopvars, handlervars, IInv
  <2>1. TypeOK' BY ShutdownAssumption DEF TypeOK, Places, Threads, LoopThreads
  <2>2. Unborn' /\ LoopsRun' BY ShutdownAssumption DEF TypeOK, Unborn, LoopsRun, PoolPlaces, Threads, LoopThreads
  <2>3. \A x \in Threads : pc[x] = "exited" => pc'[x] = "exited" BY DEF TypeOK
  <2> QED BY <2>1, <2>2, <2>3, ThreadStepKeeps
<1>4. ASSUME MapUnlock(y) PROVE IInv'
  <2> USE <1>4 DEF MapUnlock, At, stopvars, handlervars, IInv
  <2>1. TypeOK' BY ShutdownAssumption DEF TypeOK, Places, Threads, LoopThreads
  <2>2. Unborn' /\ LoopsRun' BY ShutdownAssumption DEF TypeOK, Unborn, LoopsRun, PoolPlaces, Threads, LoopThreads
  <2>3. \A x \in Threads : pc[x] = "exited" => pc'[x] = "exited" BY DEF TypeOK
  <2> QED BY <2>1, <2>2, <2>3, ThreadStepKeeps
<1>5. ASSUME ReadBegin(y) PROVE IInv'
  BY <1>5, MoveKeeps DEF ReadBegin, PoolPlaces
<1>6. ASSUME ReadNothing(y) PROVE IInv'
  BY <1>6, MoveKeeps DEF ReadNothing, PoolPlaces
<1>7. ASSUME AddMessage(y) PROVE IInv'
  <2>1. PICK woken \in OneOf(Asleep("works")) :
          pc' = [x \in Threads |-> IF x = y THEN "loop" ELSE IF x \in woken THEN "test" ELSE pc[x]]
    BY <1>7 DEF AddMessage
  <2>2. woken \subseteq {x \in Workers : pc[x] \in {"waiting", "missed"}}
    BY <2>1 DEF OneOf, Asleep, Members
  <2>3. /\ pc[y] = "read" /\ ended = "no"
        /\ UNCHANGED <<mmutex, stop, loopstop, joined, stack, hpc, deleted, ended>>
    BY <1>7 DEF AddMessage, At, stopvars, handlervars
  <2>4. tasks' \in 0..MaxTasks
    BY <1>7, ShutdownAssumption DEF AddMessage, IInv, TypeOK
  <2>5. pc' = [x \in Threads |-> pc'[x]]
    BY <2>1
  <2>6. \A x \in Threads : \/ pc'[x] = pc[x]
                           \/ /\ x \in PoolThreads
                              /\ pc[x] \in {"block", "waiting", "missed"}
                              /\ pc'[x] \in {"test", "late"}
                           \/ /\ pc[x] = "read"
                              /\ pc'[x] = "loop"
    BY <2>1, <2>2, <2>3 DEF PoolThreads
  <2>7. /\ pc' \in [Threads -> Places]
        /\ \A t \in Threads : pc'[t] = "map" <=> mmutex' = t
        /\ Unborn'
        /\ \A i \in IOs : pc'[i] \in PoolPlaces => pc[i] \in PoolPlaces
        /\ \A x \in Threads : pc[x] = "exited" => pc'[x] = "exited"
    BY <2>3, <2>4, <2>5, <2>6, WokenKeep
  <2>8. TypeOK' BY <2>3, <2>4, <2>7 DEF IInv, TypeOK
  <2>9. LoopsRun' BY <2>3, <2>7 DEF IInv, LoopsRun
  <2> QED BY <2>3, <2>7, <2>8, <2>9, ThreadStepKeeps DEF stopvars
<1>8. ASSUME RunEnds(y) PROVE IInv'
  BY <1>8, MoveKeeps DEF RunEnds, PoolPlaces
<1> QED
  BY <1>1, <1>2, <1>3, <1>4, <1>5, <1>6, <1>7, <1>8

LEMMA PoolSteps ==
    ASSUME IInv, NEW y \in PoolThreads, ThreadTest(y) \/ ThreadStep(y) \/ SpuriousWakeup(y)
    PROVE  IInv'
<1> y \in Threads
  BY DEF PoolThreads, Threads, LoopThreads
<1>1. ASSUME ThreadWhile(y) PROVE IInv'
  <2>1. CASE Pool(y) \in stop /\ Move(y, "born", "exited")
    <3>1. y \in IOs => loopstop # {}
      BY <2>1, ShutdownAssumption DEF Pool, IInv, LoopsRun
    <3> QED
      BY <2>1, <3>1, MoveKeeps DEF PoolPlaces
  <2>2. CASE Move(y, "while", IF Pool(y) \in stop THEN "exited" ELSE "test")
    <3>1. PICK to \in {"exited", "test"} : Move(y, "while", to)
      BY <2>2
    <3> QED
      BY <3>1, MoveKeeps DEF PoolPlaces
  <2> QED
    BY <1>1, <2>1, <2>2 DEF ThreadWhile
<1>2. ASSUME ThreadBlock(y) PROVE IInv'
  BY <1>2, MoveKeeps DEF ThreadBlock, PoolPlaces
<1>3. ASSUME ThreadReturn(y) PROVE IInv'
  BY <1>3, MoveKeeps DEF ThreadReturn, PoolPlaces
<1>4. ASSUME ThreadWait(y) PROVE IInv'
  <2>1. PICK from \in {"block", "late"}, to \in {"waiting", "missed"} : Move(y, from, to)
    BY <1>4 DEF ThreadWait
  <2> QED
    BY <2>1, MoveKeeps DEF PoolPlaces
<1>5. ASSUME SpuriousWakeup(y) PROVE IInv'
  <2>1. PICK from \in {"waiting", "missed"} : Move(y, from, "test")
    BY <1>5 DEF SpuriousWakeup
  <2> QED
    BY <2>1, MoveKeeps DEF PoolPlaces
<1>6. ASSUME y \in Workers, WorkerTake(y) PROVE IInv'
  <2> USE <1>6 DEF WorkerTake, At, stopvars, handlervars, IInv
  <2>1. TypeOK' BY ShutdownAssumption DEF TypeOK, Places
  <2>2. Unborn' /\ LoopsRun' BY ShutdownAssumption DEF TypeOK, Unborn, LoopsRun, Threads, LoopThreads
  <2>3. \A x \in Threads : pc[x] = "exited" => pc'[x] = "exited" BY DEF TypeOK
  <2> QED BY <2>1, <2>2, <2>3, ThreadStepKeeps
<1>7. ASSUME y \in Workers, WorkerReply(y) PROVE IInv'
  <2>1. y \notin IOs
    BY <1>7, ShutdownAssumption
  <2> QED
    BY <1>7, <2>1, MoveKeeps DEF WorkerReply, PoolPlaces
<1> QED
  BY <1>1, <1>2, <1>3, <1>4, <1>5, <1>6, <1>7 DEF ThreadTest, ThreadStep

(* Then those of a handler.                                                *)
LEMMA HandlerSteps == ASSUME IInv, NEW h \in Handlers, HandlerStep(h) PROVE IInv'
<1> USE ShutdownAssumption DEF IInv, TypeOK, Step, stopvars
<1>1. ASSUME NEW t \in Threads, NEW p \in {"works", "io"}, StopTest(h, t, p) PROVE IInv'
  <2>1. TypeOK' BY <1>1 DEF StopTest, AfterStop
  <2>2. h \in Begun' /\ QuietBefore' BY <1>1 DEF StopTest, AfterStop, Begun, QuietBefore
  <2>3. Unborn' /\ LoopsRun' BY <1>1 DEF StopTest, AfterStop, Unborn, LoopsRun, LoopsStopped, Threads, LoopThreads
  <2>4. ASSUME OneSignal' PROVE (StopOrder(h) /\ JoinOrder(h) /\ OneSignalIsClean)' /\ Begun' = {h}
    <3> DEFINE next == IF p \in stop THEN AfterStop(p) ELSE <<"stop", p>>
    <3>1. Step(h, t, "test", p, next)
      BY <1>1 DEF StopTest
    <3>2. (next)[1] # "none"
      BY DEF AfterStop
    <3> HIDE DEF Step, next
    <3>3. /\ StopOrder(h) /\ JoinOrder(h) /\ OneSignalIsClean /\ Begun' = {h}
          /\ hpc'[h] = next /\ hpc[h] = <<"test", p>> /\ t = Main
      BY <2>4, <3>1, <3>2, TheHandler, SMTT(30)
    <3>4. StopOrder(h)'
      BY <1>1, <3>3 DEF next, StopTest, Step, StopOrder, JoinOrder, AfterStop, Gone, Members, LoopsStopped
    <3>5. JoinOrder(h)'
      BY <1>1, <3>3 DEF next, StopTest, Step, StopOrder, JoinOrder, AfterStop, Gone, Members, LoopsStopped
    <3>6. OneSignalIsClean'
      BY <1>1, <2>4, <3>3 DEF StopTest, Step, OneSignalIsClean, Assigned, Serving, JoinOrder, Members, LoopThreads, LoopsStopped
    <3> QED
      BY <3>3, <3>4, <3>5, <3>6
  <2> QED BY <2>1, <2>2, <2>3, <2>4
<1>2. ASSUME NEW t \in Threads, NEW p \in {"works", "io"}, StopSet(h, t, p) PROVE IInv'
  <2>1. TypeOK' BY <1>2 DEF StopSet, AfterStop
  <2>2. h \in Begun' /\ QuietBefore' BY <1>2 DEF StopSet, AfterStop, Begun, QuietBefore
  <2>3. Unborn' /\ LoopsRun' BY <1>2 DEF StopSet, AfterStop, Unborn, LoopsRun, LoopsStopped, Threads, LoopThreads
  <2>4. ASSUME OneSignal' PROVE (StopOrder(h) /\ JoinOrder(h) /\ OneSignalIsClean)' /\ Begun' = {h}
    <3> DEFINE next == <<"notify", p>>
    <3>1. Step(h, t, "stop", p, next)
      BY <1>2 DEF StopSet
    <3>2. (next)[1] # "none"
      OBVIOUS
    <3> HIDE DEF Step, next
    <3>3. /\ StopOrder(h) /\ JoinOrder(h) /\ OneSignalIsClean /\ Begun' = {h}
          /\ hpc'[h] = next /\ hpc[h] = <<"stop", p>> /\ t = Main
      BY <2>4, <3>1, <3>2, TheHandler, SMTT(30)
    <3> USE DEF next
    <3>4. StopOrder(h)'
      BY <1>2, <3>3 DEF StopSet, Step, StopOrder, JoinOrder, AfterStop, Gone, Members, LoopsStopped
    <3>5. JoinOrder(h)'
      BY <1>2, <3>3 DEF StopSet, Step, StopOrder, JoinOrder, AfterStop, Gone, Members, LoopsStopped
    <3>6. OneSignalIsClean'
      BY <1>2, <2>4, <3>3 DEF StopSet, Step, OneSignalIsClean, Assigned, Serving, JoinOrder, Members, LoopThreads, LoopsStopped
    <3> QED
      BY <3>3, <3>4, <3>5, <3>6
  <2> QED BY <2>1, <2>2, <2>3, <2>4
<1>3. ASSUME NEW t \in Threads, NEW p \in {"works", "io"}, StopJoin(h, t, p) PROVE IInv'
  <2>1. TypeOK' BY <1>3 DEF StopJoin, StopJoinWhen, AfterStop
  <2>2. h \in Begun' /\ QuietBefore' BY <1>3 DEF StopJoin, StopJoinWhen, AfterStop, Begun, QuietBefore
  <2>3. Unborn' /\ LoopsRun' BY <1>3 DEF StopJoin, StopJoinWhen, AfterStop, Unborn, LoopsRun, LoopsStopped, Threads, LoopThreads
  <2>4. ASSUME OneSignal' PROVE (StopOrder(h) /\ JoinOrder(h) /\ OneSignalIsClean)' /\ Begun' = {h}
    <3>1. Step(h, t, "join", p, AfterStop(p))
      BY <1>3 DEF StopJoin, StopJoinWhen
    <3>2. (AfterStop(p))[1] # "none"
      BY DEF AfterStop
    <3> HIDE DEF Step
    <3>3. /\ StopOrder(h) /\ JoinOrder(h) /\ OneSignalIsClean /\ Begun' = {h}
          /\ hpc'[h] = AfterStop(p) /\ hpc[h] = <<"join", p>> /\ t = Main
      BY <2>4, <3>1, <3>2, TheHandler, SMTT(30)
    <3>4. StopOrder(h)'
      BY <1>3, <3>3 DEF StopJoin, StopJoinWhen, Step, StopOrder, JoinOrder, AfterStop, Gone, Members, LoopsStopped
    <3>5. JoinOrder(h)'
      BY <1>3, <3>3 DEF StopJoin, StopJoinWhen, Step, StopOrder, JoinOrder, AfterStop, Gone, Members, LoopsStopped
    <3>6. OneSignalIsClean'
      BY <1>3, <2>4, <3>3 DEF StopJoin, StopJoinWhen, Step, OneSignalIsClean, Assigned, Serving, JoinOrder, Members, LoopThreads, LoopsStopped
    <3> QED
      BY <3>3, <3>4, <3>5, <3>6
  <2> QED BY <2>1, <2>2, <2>3, <2>4
<1>4. ASSUME NEW t \in Threads, StopLoops(h, t) PROVE IInv'
  <2>1. TypeOK' BY <1>4 DEF StopLoops, AfterStop
  <2>2. h \in Begun' /\ QuietBefore' BY <1>4 DEF StopLoops, AfterStop, Begun, QuietBefore
  <2>3. Unborn' /\ LoopsRun' BY <1>4 DEF StopLoops, AfterStop, Unborn, LoopsRun, LoopsStopped, Threads, LoopThreads
  <2>4. ASSUME OneSignal' PROVE (StopOrder(h) /\ JoinOrder(h) /\ OneSignalIsClean)' /\ Begun' = {h}
    <3>1. Step(h, t, "stop", "loops", <<"test", "io">>)
      BY <1>4 DEF StopLoops
    <3>2. (<<"test", "io">>)[1] # "none"
      BY DEF AfterStop
    <3> HIDE DEF Step
    <3>3. /\ StopOrder(h) /\ JoinOrder(h) /\ OneSignalIsClean /\ Begun' = {h}
          /\ hpc'[h] = <<"test", "io">> /\ hpc[h] = <<"stop", "loops">> /\ t = Main
      BY <2>4, <3>1, <3>2, TheHandler, SMTT(30)
    <3>4. StopOrder(h)'
      BY <1>4, <3>3 DEF StopLoops, Step, StopOrder, JoinOrder, AfterStop, Gone, Members, LoopsStopped
    <3>5. JoinOrder(h)'
      BY <1>4, <3>3 DEF StopLoops, Step, StopOrder, JoinOrder, AfterStop, Gone, Members, LoopsStopped
    <3>6. OneSignalIsClean'
      BY <1>4, <2>4, <3>3 DEF StopLoops, Step, OneSignalIsClean, Assigned, Serving, JoinOrder, Members, LoopThreads, LoopsStopped
    <3> QED
      BY <3>3, <3>4, <3>5, <3>6
  <2> QED BY <2>1, <2>2, <2>3, <2>4
<1>5. ASSUME NEW t \in Threads, DeleteServer(h, t) PROVE IInv'
  <2>1. TypeOK' BY <1>5 DEF DeleteServer, AfterStop
  <2>2. h \in Begun' /\ QuietBefore' BY <1>5 DEF DeleteServer, AfterStop, Begun, QuietBefore
  <2>3. Unborn' /\ LoopsRun' BY <1>5 DEF DeleteServer, AfterStop, Unborn, LoopsRun, LoopsStopped, Threads, LoopThreads
  <2>4. ASSUME OneSignal' PROVE (StopOrder(h) /\ JoinOrder(h) /\ OneSignalIsClean)' /\ Begun' = {h}
    <3>1. Step(h, t, "delete", "server", <<"exit", "server">>)
      BY <1>5 DEF DeleteServer
    <3>2. (<<"exit", "server">>)[1] # "none"
      BY DEF AfterStop
    <3> HIDE DEF Step
    <3>3. /\ StopOrder(h) /\ JoinOrder(h) /\ OneSignalIsClean /\ Begun' = {h}
          /\ hpc'[h] = <<"exit", "server">> /\ hpc[h] = <<"delete", "server">> /\ t = Main
      BY <2>4, <3>1, <3>2, TheHandler, SMTT(30)
    <3>4. StopOrder(h)'
      BY <1>5, <3>3 DEF DeleteServer, Step, StopOrder, JoinOrder, AfterStop, Gone, Members, LoopsStopped
    <3>5. JoinOrder(h)'
      BY <1>5, <3>3 DEF DeleteServer, Step, StopOrder, JoinOrder, AfterStop, Gone, Members, LoopsStopped
    <3>6. OneSignalIsClean'
      BY <1>5, <2>4, <3>3 DEF DeleteServer, Step, OneSignalIsClean, Assigned, Serving, JoinOrder, Members, LoopThreads, LoopsStopped
    <3> QED
      BY <3>3, <3>4, <3>5, <3>6
  <2> QED BY <2>1, <2>2, <2>3, <2>4
<1>6. ASSUME Exit(h) PROVE IInv'
  <2>1. TypeOK' BY <1>6 DEF Exit
  <2>2. Begun' = Begun /\ OneSignal' = OneSignal BY <1>6 DEF Exit, Begun, OneSignal
  <2>3. h \in Begun BY <1>6 DEF Exit, Begun
  <2>4. QuietBefore' /\ Unborn' /\ LoopsRun' BY <1>6, <2>2, <2>3 DEF Exit, QuietBefore, Unborn, LoopsRun
  <2>5. ASSUME NEW g \in Begun, StopOrder(g) /\ JoinOrder(g) PROVE (StopOrder(g) /\ JoinOrder(g))'
    BY <1>6, <2>5 DEF Exit, StopOrder, JoinOrder, Gone, LoopsStopped
  <2>6. ASSUME OneSignal PROVE OneSignalIsClean'
    <3>1. hpc[h] = <<"exit", "server">>
      BY <1>6, <2>3, <2>6 DEF Exit, StopOrder
    <3> QED
      BY <1>6, <3>1 DEF Exit, OneSignalIsClean
  <2> QED BY <2>1, <2>2, <2>4, <2>5, <2>6
<1>7. ASSUME NEW t \in Threads, NEW p \in {"works", "io"}, StopNotifyAll(h, t, p) PROVE IInv'
  <2> USE <1>7
  <2>n. /\ pc' = [x \in Threads |-> IF x \in Asleep(p) THEN "test"
                                    ELSE IF x \in Members(p) /\ pc[x] = "block" THEN "late"
                                    ELSE pc[x]]
        /\ hpc[h] = <<"notify", p>> /\ hpc' = [hpc EXCEPT ![h] = <<"join", p>>]
        /\ UNCHANGED <<tasks, mmutex, stop, loopstop, joined, stack, deleted, ended>>
    BY DEF StopNotifyAll, StopNotify
  <2>p. pc' = [x \in Threads |-> pc'[x]]
    BY <2>n
  <2>m. Members(p) \subseteq PoolThreads
    BY DEF Members, PoolThreads
  <2>w. \A x \in Threads : \/ pc'[x] = pc[x]
                           \/ /\ x \in PoolThreads
                              /\ pc[x] \in {"block", "waiting", "missed"}
                              /\ pc'[x] \in {"test", "late"}
                           \/ /\ pc[x] = "read"
                              /\ pc'[x] = "loop"
    BY <2>n, <2>m DEF Asleep
  <2>k. /\ pc' \in [Threads -> Places]
        /\ \A x \in Threads : pc'[x] = "map" <=> mmutex' = x
        /\ Unborn'
        /\ \A i \in IOs : pc'[i] \in PoolPlaces => pc[i] \in PoolPlaces
        /\ \A x \in Threads : pc[x] = "exited" => pc'[x] = "exited"
    <3> HIDE DEF Step, TypeOK
    <3>1. tasks' \in 0..MaxTasks
      BY <2>n DEF TypeOK
    <3>2. IInv
      OBVIOUS
    <3> HIDE DEF IInv
    <3> QED
      BY <2>n, <2>p, <2>w, <3>1, <3>2, WokenKeep
  <2>g. (Gone(Workers) => Gone(Workers)') /\ (Gone(IOs) => Gone(IOs)')
    BY <2>k DEF Gone, Threads, LoopThreads
  <2>1. TypeOK' BY <2>n, <2>k
  <2>2. h \in Begun' /\ QuietBefore' BY <2>n DEF Begun, QuietBefore
  <2>3. LoopsRun' BY <2>n, <2>k DEF LoopsRun, LoopsStopped
  <2>4. ASSUME OneSignal' PROVE (StopOrder(h) /\ JoinOrder(h) /\ OneSignalIsClean)' /\ Begun' = {h}
    <3>1. Step(h, t, "notify", p, <<"join", p>>)
      BY <1>7 DEF StopNotifyAll, StopNotify
    <3>2. (<<"join", p>>)[1] # "none"
      BY DEF AfterStop
    <3> HIDE DEF Step
    <3>3. /\ StopOrder(h) /\ JoinOrder(h) /\ OneSignalIsClean /\ Begun' = {h}
          /\ hpc'[h] = <<"join", p>> /\ hpc[h] = <<"notify", p>> /\ t = Main
      BY <2>4, <3>1, <3>2, TheHandler, SMTT(30)
    <3>4. StopOrder(h)'
      BY <2>n, <2>g, <3>3 DEF StopOrder, JoinOrder, LoopsStopped
    <3>5. JoinOrder(h)'
      BY <2>n, <2>g, <3>3 DEF StopOrder, JoinOrder, LoopsStopped
    <3>6. OneSignalIsClean'
      BY <1>7, <2>4, <3>3 DEF StopNotifyAll, StopNotify, Step, OneSignalIsClean, Assigned, Serving, JoinOrder, Members, LoopThreads, LoopsStopped
    <3> QED
      BY <3>3, <3>4, <3>5, <3>6
  <2> QED BY <2>1, <2>2, <2>3, <2>4, <2>k
<1> QED
  BY <1>1, <1>2, <1>3, <1>4, <1>5, <1>6, <1>7 DEF HandlerStep

LEMMA SignalSteps ==
    ASSUME IInv, NEW h \in Handlers, NEW t \in Threads, Signal(h, t) PROVE IInv'
<1> USE DEF IInv, TypeOK, Signal, stopvars
<1>1. TypeOK'
  <2>1. stack' \in [Threads -> Seq(Handlers)]
    OBVIOUS
  <2> QED
    BY <2>1
<1>2. h \in Begun' /\ Begun \subseteq Begun' /\ h \notin Begun /\ hpc'[h] = <<"test", "works">>
  BY DEF Begun
<1>3. QuietBefore' /\ Unborn' /\ LoopsRun'
  BY <1>2 DEF QuietBefore, Unborn, LoopsRun, LoopsStopped
<1>4. ASSUME OneSignal' PROVE Begun = {} /\ Begun' = {h}
  BY <1>2, <1>4 DEF OneSignal
<1>5. ASSUME OneSignal' PROVE StopOrder(h)' /\ OneSignalIsClean'
  BY <1>2, <1>4, <1>5 DEF StopOrder, QuietBefore, LoopsStopped, OneSignalIsClean
<1>6. ASSUME OneSignal' PROVE JoinOrder(h)'
  <2>1. t = Main /\ \A x \in Threads : stack[x] = <<>>
    BY <1>4, <1>6, ShutdownAssumption DEF QuietBefore, Threads, LoopThreads
  <2>2. joined = {}
    BY <1>4, <1>6 DEF QuietBefore
  <2> QED
    BY <1>2, <2>1, <2>2 DEF JoinOrder, LoopsStopped
<1> QED
  BY <1>1, <1>3, <1>4, <1>5, <1>6

LEMMA NextIInv == IInv /\ [Next]_vars => IInv'
<1> SUFFICES ASSUME IInv, [Next]_vars PROVE IInv'
  OBVIOUS
<1>1. CASE UNCHANGED vars
  <2> USE <1>1 DEF IInv, vars, stopvars, handlervars
  <2>1. TypeOK' BY DEF TypeOK
  <2>2. Unborn' /\ LoopsRun' /\ QuietBefore' /\ Begun' = Begun BY DEF Unborn, LoopsRun, QuietBefore, Begun
  <2>3. OneSignal' = OneSignal /\ OneSignalIsClean' = OneSignalIsClean
    BY <2>2 DEF OneSignal, OneSignalIsClean, Assigned, Serving
  <2>4. ASSUME NEW h \in Begun, StopOrder(h) /\ JoinOrder(h) PROVE (StopOrder(h) /\ JoinOrder(h))'
    BY <2>4 DEF StopOrder, JoinOrder, Gone
  <2> QED BY <2>1, <2>2, <2>3, <2>4
<1>2. CASE Next
  BY <1>2, BuildSteps, LoopSteps, PoolSteps, HandlerSteps, SignalSteps DEF Next
<1> QED
  BY <1>1, <1>2

LEMMA Inductive == Spec => []IInv
  BY InitIInv, NextIInv, PTL DEF Spec

-----------------------------------------------------------------------------
(* The variables keep their types, and mmutex_ is held exactly in the two  *)
(* locked blocks of newconnection() and closeconnection().                 *)
THEOREM TypeCorrect == Spec => []TypeOK
<1>1. IInv => TypeOK
  BY DEF IInv
<1> QED
  BY Inductive, <1>1, PTL

(* While a worker has a reply in its hands no IO thread has left its loop, *)
(* if one signal has come.                                                 *)
THEOREM RepliesFindALoop == Spec => []RepliesReachLoop
<1>1. IInv => RepliesReachLoop
  <2> SUFFICES ASSUME IInv, OneSignal, NEW w \in Workers, NEW i \in IOs,
                      pc[w] = "reply", pc[i] \in PoolPlaces
               PROVE  FALSE
    BY DEF RepliesReachLoop
  <2>1. loopstop # {}
    BY DEF IInv, LoopsRun
  <2>2. PICK h \in Begun : StopOrder(h)
    BY <2>1 DEF IInv, QuietBefore
  <2> QED
    BY <2>1, <2>2 DEF StopOrder, Gone
<1> QED
  BY Inductive, <1>1, PTL

(* No worker and no IO thread is left when the server is deleted, if one   *)
(* signal has come.                                                        *)
THEOREM NobodyLeftBehind == Spec => []DeletedAtRest
<1>1. IInv => DeletedAtRest
  <2> SUFFICES ASSUME IInv, OneSignal, deleted PROVE Gone(Workers) /\ Gone(IOs)
    BY DEF DeletedAtRest, Gone
  <2>1. PICK h \in Begun : StopOrder(h)
    BY DEF IInv, QuietBefore
  <2> QED
    BY <2>1 DEF StopOrder, LoopsStopped
<1> QED
  BY Inductive, <1>1, PTL

(* A server that has been built is never aborted by one signal, whatever   *)
(* it finds workers and IO threads doing.                                  *)
THEOREM CleanEnd == Spec => []OneSignalIsClean
<1>1. IInv => OneSignalIsClean
  BY DEF IInv, OneSignalIsClean
<1> QED
  BY Inductive, <1>1, PTL
=============================================================================
