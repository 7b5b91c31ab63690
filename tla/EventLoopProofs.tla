-------------------------- MODULE EventLoopProofs --------------------------
(***************************************************************************)
(* The safety properties of EventLoop, for any number of threads, tasks    *)
(* and descriptors.  IInv is inductive; the properties and the refinement  *)
(* of TaskQueue follow from it.                                            *)
(***************************************************************************)
EXTENDS EventLoop, QueueLemmas, TLAPS

-----------------------------------------------------------------------------
LEMMA InitIInv == Init => IInv
<1> SUFFICES ASSUME Init PROVE IInv
  OBVIOUS
<1> USE EventLoopAssumption DEF Init, Callers, ArmedTimer
<1>1. TypeOK
  <2>1. <<>> \in Seq(Tasks)
    OBVIOUS
  <2>2. pc \in [Callers -> CallerPc] /\ fn \in [Posters -> Tasks \cup {NoTask}]
    BY DEF CallerPc
  <2> QED
    BY <2>1, <2>2 DEF TypeOK, LoopPc
<1>2. MutexHeld
  BY DEF MutexHeld
<1>3. NoLostWakeup /\ StopWakes /\ QueueHistory
  BY DEF NoLostWakeup, StopWakes, QueueHistory
<1>4. FreshTasks
  BY DEF FreshTasks, Range
<1> QED
  BY <1>1, <1>2, <1>3, <1>4 DEF IInv

-----------------------------------------------------------------------------
(* Every step keeps IInv.                                                  *)
LEMMA NextIInv == IInv /\ [Next]_vars => IInv'
<1> SUFFICES ASSUME IInv, [Next]_vars PROVE IInv'
  OBVIOUS
<1> USE EventLoopAssumption DEF IInv, TypeOK, MutexHeld, NoLostWakeup, StopWakes, Callers, LoopPc, CallerPc,
       loopvars, callervars, queuevars, fdvars, Descriptors
<1>1. ASSUME NEW p \in Posters, QueueInLoop(p) PROVE IInv'
  <2>1. TypeOK' BY <1>1 DEF QueueInLoop
  <2>2. MutexHeld' BY <1>1 DEF QueueInLoop
  <2>3. NoLostWakeup' BY <1>1 DEF QueueInLoop
  <2>4. StopWakes' BY <1>1 DEF QueueInLoop
  <2>5. QueueHistory' BY <1>1 DEF QueueInLoop, QueueHistory
  <2>6. FreshTasks'
    <3>1. PICK t \in Tasks \ (Range(posted) \cup Range(fn)) : fn' = [fn EXCEPT ![p] = t]
      BY <1>1 DEF QueueInLoop
    <3>2. \A q \in Posters : fn[q] \in Range(fn)
      BY DEF Range
    <3>3. pc' = [pc EXCEPT ![p] = "lock"] /\ posted' = posted
      BY <1>1 DEF QueueInLoop
    <3>4. \A q \in Posters : fn'[q] # NoTask <=> pc'[q] \in {"lock", "push"}
      BY <3>1, <3>3 DEF FreshTasks
    <3>5. \A q \in Posters : fn'[q] \notin Range(posted)
      BY <3>1 DEF FreshTasks
    <3>6. \A q, r \in Posters : q # r /\ fn'[q] = fn'[r] => fn'[q] = NoTask
      BY <3>1, <3>2 DEF FreshTasks
    <3> QED
      BY <3>3, <3>4, <3>5, <3>6 DEF FreshTasks
  <2> QED BY <2>1, <2>2, <2>3, <2>4, <2>5, <2>6
<1>2. ASSUME NEW p \in Posters, QueueLock(p) PROVE IInv'
  <2>1. TypeOK' BY <1>2 DEF QueueLock
  <2>2. MutexHeld' BY <1>2 DEF QueueLock
  <2>3. NoLostWakeup' BY <1>2 DEF QueueLock
  <2>4. StopWakes' BY <1>2 DEF QueueLock
  <2>5. QueueHistory' BY <1>2 DEF QueueLock, QueueHistory
  <2>6. FreshTasks' BY <1>2 DEF QueueLock, FreshTasks
  <2> QED BY <2>1, <2>2, <2>3, <2>4, <2>5, <2>6
<1>3. ASSUME NEW p \in Posters, QueuePush(p) PROVE IInv'
  <2> DEFINE t == fn[p]
  <2>t. t \in Tasks
    BY <1>3 DEF QueuePush, PushInto, FreshTasks
  <2>u. /\ taskqueue' = Append(taskqueue, t)
        /\ posted' = Append(posted, t)
        /\ fn' = [fn EXCEPT ![p] = NoTask]
        /\ pc' = [pc EXCEPT ![p] = "wakeup"]
        /\ pc[p] = "push"
        /\ ran' = ran
    BY <1>3 DEF QueuePush, PushInto
  <2>1. TypeOK'
    <3>1. taskqueue' \in Seq(Tasks) /\ posted' \in Seq(Tasks)
      BY <2>t, <2>u
    <3> QED
      BY <3>1, <1>3 DEF QueuePush, PushInto
  <2>2. MutexHeld' BY <1>3 DEF QueuePush, PushInto
  <2>3. NoLostWakeup' BY <1>3 DEF QueuePush, PushInto
  <2>4. StopWakes' BY <1>3 DEF QueuePush, PushInto
  <2>5. QueueHistory'
    <3>1. ran \in Seq(Tasks) /\ taskqueue \in Seq(Tasks)
      OBVIOUS
    <3>2. Append(ran \o taskqueue, t) = ran \o Append(taskqueue, t)
      <4> HIDE DEF t, IInv, TypeOK, MutexHeld, NoLostWakeup, StopWakes
      <4> QED
        BY <2>t, <3>1
    <3> QED
      BY <3>2, <2>u DEF QueueHistory
  <2>6. FreshTasks'
    <3>1. Range(posted') = Range(posted) \cup {t}
      BY <2>t, <2>u, AppendRange
    <3>2. \A q \in Posters : q # p => fn[q] # t
      BY <2>t DEF FreshTasks
    <3>3. \A q \in Posters : fn'[q] # NoTask <=> pc'[q] \in {"lock", "push"}
      BY <2>u DEF FreshTasks
    <3>4. \A q \in Posters : fn'[q] \notin Range(posted')
      <4>1. NoTask \notin Range(posted')
        BY <2>t, <3>1, RangeOfSeq
      <4> QED
        BY <2>u, <3>1, <3>2, <4>1 DEF FreshTasks
    <3>5. \A q, r \in Posters : q # r /\ fn'[q] = fn'[r] => fn'[q] = NoTask
      BY <2>u DEF FreshTasks
    <3> QED
      BY <3>3, <3>4, <3>5 DEF FreshTasks
  <2> QED BY <2>1, <2>2, <2>3, <2>4, <2>5, <2>6
<1>4. ASSUME NEW p \in Posters, QueueWakeup(p) PROVE IInv'
  <2>1. TypeOK' BY <1>4 DEF QueueWakeup, Wakeup
  <2>2. MutexHeld' BY <1>4 DEF QueueWakeup, Wakeup
  <2>3. NoLostWakeup' BY <1>4 DEF QueueWakeup, Wakeup
  <2>4. StopWakes' BY <1>4 DEF QueueWakeup, Wakeup
  <2>5. QueueHistory' BY <1>4 DEF QueueWakeup, Wakeup, QueueHistory
  <2>6. FreshTasks' BY <1>4 DEF QueueWakeup, Wakeup, FreshTasks
  <2> QED BY <2>1, <2>2, <2>3, <2>4, <2>5, <2>6
<1>5. ASSUME NEW s \in Stoppers, StopSet(s) PROVE IInv'
  <2>1. TypeOK' BY <1>5 DEF StopSet, StopSetThen
  <2>2. MutexHeld' BY <1>5 DEF StopSet, StopSetThen
  <2>3. NoLostWakeup' BY <1>5 DEF StopSet, StopSetThen
  <2>4. StopWakes' BY <1>5 DEF StopSet, StopSetThen
  <2>5. QueueHistory' BY <1>5 DEF StopSet, StopSetThen, QueueHistory
  <2>6. FreshTasks' BY <1>5 DEF StopSet, StopSetThen, FreshTasks
  <2> QED BY <2>1, <2>2, <2>3, <2>4, <2>5, <2>6
<1>6. ASSUME NEW s \in Stoppers, StopWakeup(s) PROVE IInv'
  <2>1. TypeOK' BY <1>6 DEF StopWakeup, Wakeup
  <2>2. MutexHeld' BY <1>6 DEF StopWakeup, Wakeup
  <2>3. NoLostWakeup' BY <1>6 DEF StopWakeup, Wakeup
  <2>4. StopWakes' BY <1>6 DEF StopWakeup, Wakeup
  <2>5. QueueHistory' BY <1>6 DEF StopWakeup, Wakeup, QueueHistory
  <2>6. FreshTasks' BY <1>6 DEF StopWakeup, Wakeup, FreshTasks
  <2> QED BY <2>1, <2>2, <2>3, <2>4, <2>5, <2>6
<1>7. ASSUME RunBegin PROVE IInv'
  <2>1. TypeOK' BY <1>7 DEF RunBegin, Goto
  <2>2. MutexHeld' BY <1>7 DEF RunBegin, Goto
  <2>3. NoLostWakeup' BY <1>7 DEF RunBegin, Goto
  <2>4. StopWakes' BY <1>7 DEF RunBegin, Goto
  <2>5. QueueHistory' BY <1>7 DEF RunBegin, Goto, QueueHistory
  <2>6. FreshTasks' BY <1>7 DEF RunBegin, Goto, FreshTasks
  <2> QED BY <2>1, <2>2, <2>3, <2>4, <2>5, <2>6
<1>8. ASSUME RunCheck PROVE IInv'
  <2>1. TypeOK' BY <1>8 DEF RunCheck, Goto
  <2>2. MutexHeld' BY <1>8 DEF RunCheck, Goto
  <2>3. NoLostWakeup' BY <1>8 DEF RunCheck, Goto
  <2>4. StopWakes' BY <1>8 DEF RunCheck, Goto
  <2>5. QueueHistory' BY <1>8 DEF RunCheck, Goto, QueueHistory
  <2>6. FreshTasks' BY <1>8 DEF RunCheck, Goto, FreshTasks
  <2> QED BY <2>1, <2>2, <2>3, <2>4, <2>5, <2>6
<1>9. ASSUME EpollReturn PROVE IInv'
  <2>1. TypeOK' BY <1>9 DEF EpollReturn, Readable
  <2>2. MutexHeld' BY <1>9 DEF EpollReturn
  <2>3. NoLostWakeup' BY <1>9 DEF EpollReturn
  <2>4. StopWakes' BY <1>9 DEF EpollReturn
  <2>5. QueueHistory' BY <1>9 DEF EpollReturn, QueueHistory
  <2>6. FreshTasks' BY <1>9 DEF EpollReturn, FreshTasks
  <2> QED BY <2>1, <2>2, <2>3, <2>4, <2>5, <2>6
<1>10. ASSUME EpollTimeout PROVE IInv'
  <2>1. TypeOK' BY <1>10 DEF EpollTimeout, Goto
  <2>2. MutexHeld' BY <1>10 DEF EpollTimeout, Goto
  <2>3. NoLostWakeup' BY <1>10 DEF EpollTimeout, Goto
  <2>4. StopWakes' BY <1>10 DEF EpollTimeout, Goto, Readable
  <2>5. QueueHistory' BY <1>10 DEF EpollTimeout, Goto, QueueHistory
  <2>6. FreshTasks' BY <1>10 DEF EpollTimeout, Goto, FreshTasks
  <2> QED BY <2>1, <2>2, <2>3, <2>4, <2>5, <2>6
<1>11. ASSUME NEW c \in Sources, HandleSource(c) PROVE IInv'
  <2>1. TypeOK' BY <1>11 DEF HandleSource, Handle
  <2>2. MutexHeld' BY <1>11 DEF HandleSource, Handle
  <2>3. NoLostWakeup' BY <1>11 DEF HandleSource, Handle
  <2>4. StopWakes' BY <1>11 DEF HandleSource, Handle
  <2>5. QueueHistory' BY <1>11 DEF HandleSource, Handle, QueueHistory
  <2>6. FreshTasks' BY <1>11 DEF HandleSource, Handle, FreshTasks
  <2> QED BY <2>1, <2>2, <2>3, <2>4, <2>5, <2>6
<1>12. ASSUME HandleWakeupRead PROVE IInv'
  <2>1. TypeOK' BY <1>12 DEF HandleWakeupRead, Handle
  <2>2. MutexHeld' BY <1>12 DEF HandleWakeupRead, Handle
  <2>3. NoLostWakeup' BY <1>12 DEF HandleWakeupRead, Handle
  <2>4. StopWakes' BY <1>12 DEF HandleWakeupRead, Handle
  <2>5. QueueHistory' BY <1>12 DEF HandleWakeupRead, Handle, QueueHistory
  <2>6. FreshTasks' BY <1>12 DEF HandleWakeupRead, Handle, FreshTasks
  <2> QED BY <2>1, <2>2, <2>3, <2>4, <2>5, <2>6
<1>13. ASSUME HandleWakeupLock PROVE IInv'
  <2>1. TypeOK' BY <1>13 DEF HandleWakeupLock
  <2>2. MutexHeld' BY <1>13 DEF HandleWakeupLock
  <2>3. NoLostWakeup' BY <1>13 DEF HandleWakeupLock
  <2>4. StopWakes' BY <1>13 DEF HandleWakeupLock
  <2>5. QueueHistory' BY <1>13 DEF HandleWakeupLock, QueueHistory
  <2>6. FreshTasks' BY <1>13 DEF HandleWakeupLock, FreshTasks
  <2> QED BY <2>1, <2>2, <2>3, <2>4, <2>5, <2>6
<1>14. ASSUME HandleWakeupTask PROVE IInv'
  <2>1. TypeOK' BY <1>14 DEF HandleWakeupTask
  <2>2. MutexHeld' BY <1>14 DEF HandleWakeupTask
  <2>3. NoLostWakeup' BY <1>14 DEF HandleWakeupTask
  <2>4. StopWakes' BY <1>14 DEF HandleWakeupTask
  <2>5. QueueHistory' BY <1>14 DEF HandleWakeupTask, QueueHistory
  <2>6. FreshTasks' BY <1>14 DEF HandleWakeupTask, FreshTasks
  <2> QED BY <2>1, <2>2, <2>3, <2>4, <2>5, <2>6
<1>15. ASSUME HandleWakeupEnd PROVE IInv'
  <2>1. TypeOK' BY <1>15 DEF HandleWakeupEnd, HandleWakeupReturn
  <2>2. MutexHeld' BY <1>15 DEF HandleWakeupEnd, HandleWakeupReturn
  <2>3. NoLostWakeup' BY <1>15 DEF HandleWakeupEnd, HandleWakeupReturn
  <2>4. StopWakes' BY <1>15 DEF HandleWakeupEnd, HandleWakeupReturn
  <2>5. QueueHistory' BY <1>15 DEF HandleWakeupEnd, HandleWakeupReturn, QueueHistory
  <2>6. FreshTasks' BY <1>15 DEF HandleWakeupEnd, HandleWakeupReturn, FreshTasks
  <2> QED BY <2>1, <2>2, <2>3, <2>4, <2>5, <2>6
<1>16. ASSUME BatchEnd PROVE IInv'
  <2>1. TypeOK' BY <1>16 DEF BatchEnd, Goto
  <2>2. MutexHeld' BY <1>16 DEF BatchEnd, Goto
  <2>3. NoLostWakeup' BY <1>16 DEF BatchEnd, Goto
  <2>4. StopWakes' BY <1>16 DEF BatchEnd, Goto
  <2>5. QueueHistory' BY <1>16 DEF BatchEnd, Goto, QueueHistory
  <2>6. FreshTasks' BY <1>16 DEF BatchEnd, Goto, FreshTasks
  <2> QED BY <2>1, <2>2, <2>3, <2>4, <2>5, <2>6
<1>17. ASSUME NEW c \in Sources, SourceReady(c) PROVE IInv'
  <2>1. TypeOK' BY <1>17 DEF SourceReady
  <2>2. MutexHeld' BY <1>17 DEF SourceReady
  <2>3. NoLostWakeup' BY <1>17 DEF SourceReady
  <2>4. StopWakes' BY <1>17 DEF SourceReady
  <2>5. QueueHistory' BY <1>17 DEF SourceReady, QueueHistory
  <2>6. FreshTasks' BY <1>17 DEF SourceReady, FreshTasks
  <2> QED BY <2>1, <2>2, <2>3, <2>4, <2>5, <2>6
<1>18. ASSUME HandleTimer PROVE IInv'
  <2>1. TypeOK' BY <1>18 DEF HandleTimer, HandleTimerWith, Handle, ArmedTimer
  <2>2. MutexHeld' BY <1>18 DEF HandleTimer, HandleTimerWith, Handle, ArmedTimer
  <2>3. NoLostWakeup' BY <1>18 DEF HandleTimer, HandleTimerWith, Handle, ArmedTimer
  <2>4. StopWakes' BY <1>18 DEF HandleTimer, HandleTimerWith, Handle, ArmedTimer
  <2>5. QueueHistory' BY <1>18 DEF HandleTimer, HandleTimerWith, Handle, ArmedTimer, QueueHistory
  <2>6. FreshTasks' BY <1>18 DEF HandleTimer, HandleTimerWith, Handle, ArmedTimer, FreshTasks
  <2> QED BY <2>1, <2>2, <2>3, <2>4, <2>5, <2>6
<1>19. ASSUME TimerExpires PROVE IInv'
  <2>1. TypeOK' BY <1>19 DEF TimerExpires
  <2>2. MutexHeld' BY <1>19 DEF TimerExpires
  <2>3. NoLostWakeup' BY <1>19 DEF TimerExpires
  <2>4. StopWakes' BY <1>19 DEF TimerExpires
  <2>5. QueueHistory' BY <1>19 DEF TimerExpires, QueueHistory
  <2>6. FreshTasks' BY <1>19 DEF TimerExpires, FreshTasks
  <2> QED BY <2>1, <2>2, <2>3, <2>4, <2>5, <2>6
<1>20. CASE UNCHANGED vars
  BY <1>20 DEF vars, QueueHistory, FreshTasks
<1> QED
  BY <1>1, <1>2, <1>3, <1>4, <1>5, <1>6, <1>7, <1>8, <1>9, <1>10, <1>11, <1>12, <1>13, <1>14, <1>15, <1>16, <1>17, <1>18, <1>19, <1>20 DEF Next, QueueStep, LoopStep

-----------------------------------------------------------------------------
(* The inductive invariant holds of every state of the loop.               *)
THEOREM InductiveInvariant == Spec => []IInv
<1>1. Init => IInv
  BY InitIInv
<1>2. IInv /\ [Next]_vars => IInv'
  BY NextIInv
<1> QED
  BY <1>1, <1>2, PTL DEF Spec

(* EventLoop's variables have their types, and run() never looks at stop_  *)
(* with channels of the last batch left to handle.                         *)
THEOREM TypeCorrect == Spec => []TypeOK
BY InductiveInvariant, PTL DEF IInv

(* The push under the mutex followed by the write to the eventfd, against  *)
(* the read of the eventfd followed by the drain under the mutex, never    *)
(* leaves a task in the queue of a sleeping loop: for any number of        *)
(* threads and tasks.                                                      *)
THEOREM NoWakeupLost == Spec => []NoLostWakeup
BY InductiveInvariant, PTL DEF IInv

(* stop() wakes a loop that waits in epoll_wait(), however many threads    *)
(* call it.                                                                *)
THEOREM StopAlwaysWakes == Spec => []StopWakes
BY InductiveInvariant, PTL DEF IInv

(* queueinloop() and handlewakeup() implement a TaskQueue: tasks run at    *)
(* most once and in the order of the pushes.                               *)
THEOREM Refinement == Spec => ImplementsTaskQueue
<1>1. Init => TQ!Init
  BY DEF Init, TQ!Init
<1>2. IInv /\ [Next]_vars => [TQ!Next]_<<posted, ran>>
  <2> SUFFICES ASSUME IInv, [Next]_vars PROVE [TQ!Next]_<<posted, ran>>
    OBVIOUS
  <2>1. ASSUME NEW p \in Posters, QueuePush(p) PROVE TQ!Next
    <3>1. fn[p] \in Tasks /\ fn[p] \notin Range(posted)
      BY <2>1 DEF IInv, TypeOK, FreshTasks, QueuePush, PushInto
    <3>2. TQ!Post(fn[p])
      BY <3>1, <2>1 DEF TQ!Post, QueuePush, PushInto, Range, TQ!Range
    <3> QED
      BY <3>1, <3>2 DEF TQ!Next
  <2>2. CASE HandleWakeupTask
    <3>1. taskqueue # <<>> /\ taskqueue \in Seq(Tasks) /\ ran \in Seq(Tasks)
      BY <2>2 DEF HandleWakeupTask, IInv, TypeOK
    <3>2. Head(taskqueue) = posted[Len(ran) + 1] /\ Len(ran) < Len(posted)
      BY <3>1, MoveHead DEF IInv, QueueHistory
    <3>3. TQ!Run
      BY <2>2, <3>2 DEF TQ!Run, HandleWakeupTask
    <3> QED
      BY <3>3 DEF TQ!Next
  <2>3. CASE UNCHANGED <<posted, ran>>
    BY <2>3
  <2> QED
    BY <2>1, <2>2, <2>3 DEF Next, QueueStep, LoopStep, vars, QueueInLoop, QueueLock, QueueWakeup,
       Wakeup, StopSet, StopSetThen, StopWakeup, RunBegin, RunCheck, Goto, EpollReturn, EpollTimeout,
       Handle, HandleSource, HandleTimer, HandleTimerWith, HandleWakeupRead, HandleWakeupLock,
       HandleWakeupEnd, HandleWakeupReturn, BatchEnd, TimerExpires, SourceReady, queuevars
<1>3. Spec => []IInv
  BY InductiveInvariant
<1> QED
  BY <1>1, <1>2, <1>3, PTL DEF Spec, ImplementsTaskQueue, TQ!Spec
=============================================================================
