-------------------------- MODULE ThreadPoolProofs --------------------------
(***************************************************************************)
(* The safety properties of ThreadPool, for any number of threads, callers *)
(* and tasks.  IInv is inductive; the properties and the refinement of     *)
(* TaskQueue follow from it.                                               *)
(***************************************************************************)
EXTENDS ThreadPool, QueueLemmas, FiniteSetTheorems, TLAPS

(* What NoIdleWithWork counts is finite.                                   *)
LEMMA FiniteCounts ==
    /\ IsFiniteSet(Awake) /\ Cardinality(Awake) \in Nat
    /\ IsFiniteSet(Notifying) /\ Cardinality(Notifying) \in Nat
<1>1. Awake \in SUBSET Threads /\ Notifying \in SUBSET Adders
  BY DEF Awake, Notifying
<1>2. IsFiniteSet(Awake) /\ IsFiniteSet(Notifying)
  BY <1>1, FS_Subset, ThreadPoolAssumption
<1> QED
  BY <1>2, FS_CardinalityType

LEMMA FiniteCountsNext == Cardinality(Awake') \in Nat /\ Cardinality(Notifying') \in Nat
<1>1. Awake' \in SUBSET Threads /\ Notifying' \in SUBSET Adders
  BY DEF Awake, Notifying
<1> QED
  BY <1>1, FS_Subset, FS_CardinalityType, ThreadPoolAssumption

LEMMA PastWhileFinite ==
    /\ IsFiniteSet(PastWhile) /\ Cardinality(PastWhile) \in Nat
    /\ Cardinality(Threads) \in Nat /\ Cardinality(PastWhile') \in Nat
    /\ Cardinality(PastWhile') <= Cardinality(Threads)
<1>1. PastWhile \in SUBSET Threads /\ PastWhile' \in SUBSET Threads
  BY DEF PastWhile
<1> QED
  BY <1>1, FS_Subset, FS_CardinalityType, ThreadPoolAssumption

-----------------------------------------------------------------------------
LEMMA InitIInv == Init => IInv
<1> SUFFICES ASSUME Init PROVE IInv
  OBVIOUS
<1> USE ThreadPoolAssumption DEF Init, Callers
<1>1. TypeOK
  <2>1. <<>> \in Seq(Tasks)
    OBVIOUS
  <2>2. pc \in [Threads \cup Callers -> ThreadPc \cup AdderPc \cup StopperPc]
    BY DEF ThreadPc, AdderPc, StopperPc
  <2>3. arg \in [Adders -> Tasks \cup {NoTask}]
    OBVIOUS
  <2> QED
    BY <2>1, <2>2, <2>3 DEF TypeOK, ThreadPc, AdderPc, StopperPc
<1>2. MutexHeld
  BY DEF MutexHeld
<1>3. TakeSafe /\ BlockEmpty /\ QueueHistory
  BY DEF TakeSafe, BlockEmpty, QueueHistory
<1>4. NoIdleWithWork
  BY DEF NoIdleWithWork, Waiting
<1>5. FreshTasks
  BY DEF FreshTasks, Range
<1>6. StopCount
  BY DEF StopCount
<1> QED
  BY <1>1, <1>2, <1>3, <1>4, <1>5, <1>6 DEF IInv

-----------------------------------------------------------------------------
(* After stop_ has been set, a thread that takes a task is no longer past  *)
(* the while, and none comes past it.                                      *)
LEMMA NextStopCount == IInv /\ [Next]_vars => StopCount'
<1> SUFFICES ASSUME IInv, [Next]_vars PROVE StopCount'
  OBVIOUS
<1> USE ThreadPoolAssumption DEF Goto, Step, Lock, Unlock, queuevars, stopvars, Callers
<1>a. Len(ran) \in Nat /\ begun \in Nat /\ StopCount /\ pc \in [Threads \cup Callers -> ThreadPc \cup AdderPc \cup StopperPc]
  BY DEF IInv, TypeOK
<1>b. ASSUME UNCHANGED <<ran, begun, stop>>, PastWhile' \subseteq PastWhile PROVE StopCount'
  <2>1. Cardinality(PastWhile') <= Cardinality(PastWhile)
    BY <1>b, PastWhileFinite, FS_Subset
  <2> QED
    BY <1>a, <1>b, <2>1, PastWhileFinite DEF StopCount
<1>1. ASSUME NEW th \in Threads, ThreadCheck(th) PROVE StopCount'
  <2>1. CASE stop
    BY <1>1, <1>a, <1>b, <2>1 DEF ThreadCheck, PastWhile
  <2>2. CASE ~stop
    BY <1>1, <2>2 DEF ThreadCheck, StopCount
  <2> QED
    BY <2>1, <2>2
<1>2. ASSUME NEW th \in Threads, ThreadTake(th) PROVE StopCount'
  <2>1. th \in PastWhile /\ PastWhile' = PastWhile \ {th}
    BY <1>2, <1>a DEF ThreadTake, Take, PastWhile
  <2>2. Cardinality(PastWhile') = Cardinality(PastWhile) - 1
    BY <2>1, PastWhileFinite, FS_RemoveElement
  <2>3. Len(ran') = Len(ran) + 1 /\ UNCHANGED <<begun, stop>>
    BY <1>2 DEF ThreadTake, Take, IInv, TypeOK
  <2> QED
    BY <1>a, <2>2, <2>3, PastWhileFinite DEF StopCount
<1>3. ASSUME NEW s \in Stoppers, StopSet(s) PROVE StopCount'
  <2>1. CASE stop
    BY <1>3, <1>a, <1>b, <2>1 DEF StopSet, PastWhile
  <2>2. CASE ~stop
    BY <1>3, <1>a, <2>2, PastWhileFinite DEF StopSet, StopCount
  <2> QED
    BY <2>1, <2>2
<1>4. ASSUME NEW th \in Threads,
             ThreadLock(th) \/ ThreadTest(th) \/ ThreadBlock(th) \/ SpuriousWakeup(th) \/ ThreadReturn(th) \/ TaskEnd(th)
      PROVE StopCount'
  BY <1>4, <1>a, <1>b DEF ThreadLock, ThreadTest, ThreadBlock, SpuriousWakeup, ThreadReturn, TaskEnd, PastWhile
<1>5. ASSUME NEW a \in Adders, AddTask(a) \/ AddStep(a) PROVE StopCount'
  <2>1. UNCHANGED <<ran, begun, stop>>
    BY <1>5 DEF AddTask, AddStep, AddLock, AddPush, PushThen, AddNotify
  <2>2. PastWhile' \subseteq PastWhile
    BY <1>5, <1>a DEF AddTask, AddStep, AddLock, AddPush, PushThen, AddNotify, PastWhile, Waiting
  <2> QED
    BY <1>b, <2>1, <2>2
<1>6. ASSUME NEW s \in Stoppers, StopCheck(s) \/ StopNotifyAll(s) \/ StopJoin(s) PROVE StopCount'
  BY <1>6, <1>a, <1>b DEF StopCheck, StopNotifyAll, StopJoin, PastWhile, Waiting
<1>7. CASE UNCHANGED vars
  BY <1>7, <1>b DEF vars, PastWhile
<1> QED
  BY <1>1, <1>2, <1>3, <1>4, <1>5, <1>6, <1>7 DEF Next, ThreadStep, StopStep

(* Every step keeps IInv.                                                  *)
LEMMA NextIInv == IInv /\ [Next]_vars => IInv'
<1> SUFFICES ASSUME IInv, [Next]_vars PROVE IInv'
  OBVIOUS
<1> USE ThreadPoolAssumption DEF IInv, TypeOK, MutexHeld, TakeSafe, BlockEmpty, Callers, Goto, Step, Lock, Unlock,
       queuevars, stopvars, ThreadPc, AdderPc, StopperPc
<1>0. StopCount'
  BY NextStopCount
<1>1. ASSUME NEW th \in Threads, ThreadCheck(th) PROVE IInv'
  <2>1. TypeOK' BY <1>1 DEF ThreadCheck
  <2>2. MutexHeld' BY <1>1 DEF ThreadCheck
  <2>3. TakeSafe' /\ BlockEmpty' BY <1>1 DEF ThreadCheck
  <2>4. NoIdleWithWork' BY <1>1, FiniteCounts DEF ThreadCheck, NoIdleWithWork, Waiting, Awake, Notifying
  <2>5. QueueHistory' BY <1>1 DEF ThreadCheck, QueueHistory
  <2>6. FreshTasks' BY <1>1 DEF ThreadCheck, FreshTasks
  <2> QED BY <1>0, <2>1, <2>2, <2>3, <2>4, <2>5, <2>6
<1>2. ASSUME NEW th \in Threads, ThreadLock(th) PROVE IInv'
  <2>1. TypeOK' BY <1>2 DEF ThreadLock
  <2>2. MutexHeld' BY <1>2 DEF ThreadLock
  <2>3. TakeSafe' /\ BlockEmpty' BY <1>2 DEF ThreadLock
  <2>4. NoIdleWithWork'
    <3>1. Awake' = Awake /\ Notifying' = Notifying /\ Waiting' = Waiting
      BY <1>2 DEF ThreadLock, Waiting, Awake, Notifying
    <3>2. UNCHANGED <<taskqueue, stop>>
      BY <1>2 DEF ThreadLock
    <3> QED
      BY <3>1, <3>2 DEF NoIdleWithWork
  <2>5. QueueHistory' BY <1>2 DEF ThreadLock, QueueHistory
  <2>6. FreshTasks' BY <1>2 DEF ThreadLock, FreshTasks
  <2> QED BY <1>0, <2>1, <2>2, <2>3, <2>4, <2>5, <2>6
<1>3. ASSUME NEW th \in Threads, ThreadTest(th) PROVE IInv'
  <2>1. TypeOK' BY <1>3 DEF ThreadTest
  <2>2. MutexHeld' BY <1>3 DEF ThreadTest
  <2>3. TakeSafe' /\ BlockEmpty' BY <1>3 DEF ThreadTest
  <2>4. NoIdleWithWork'
    <3>1. Notifying' = Notifying /\ UNCHANGED <<taskqueue, stop>>
      BY <1>3 DEF ThreadTest, Notifying
    <3>2. CASE stop \/ taskqueue # <<>>
      <4>1. Awake' = Awake /\ Waiting' = Waiting
        BY <1>3, <3>2 DEF ThreadTest, Awake, Waiting
      <4> QED
        BY <3>1, <4>1 DEF NoIdleWithWork
    <3>3. CASE taskqueue = <<>>
      BY <3>1, <3>3, FiniteCountsNext DEF NoIdleWithWork
    <3> QED
      BY <3>2, <3>3
  <2>5. QueueHistory' BY <1>3 DEF ThreadTest, QueueHistory
  <2>6. FreshTasks' BY <1>3 DEF ThreadTest, FreshTasks
  <2> QED BY <1>0, <2>1, <2>2, <2>3, <2>4, <2>5, <2>6
<1>4. ASSUME NEW th \in Threads, ThreadBlock(th) PROVE IInv'
  <2>1. TypeOK' BY <1>4 DEF ThreadBlock
  <2>2. MutexHeld' BY <1>4 DEF ThreadBlock
  <2>3. TakeSafe' /\ BlockEmpty' BY <1>4 DEF ThreadBlock
  <2>4. NoIdleWithWork'
    <3>1. taskqueue' = <<>>
      BY <1>4 DEF ThreadBlock
    <3> QED
      BY <3>1, FiniteCountsNext DEF NoIdleWithWork
  <2>5. QueueHistory' BY <1>4 DEF ThreadBlock, QueueHistory
  <2>6. FreshTasks' BY <1>4 DEF ThreadBlock, FreshTasks
  <2> QED BY <1>0, <2>1, <2>2, <2>3, <2>4, <2>5, <2>6
<1>5. ASSUME NEW th \in Threads, SpuriousWakeup(th) PROVE IInv'
  <2>1. TypeOK' BY <1>5 DEF SpuriousWakeup
  <2>2. MutexHeld' BY <1>5 DEF SpuriousWakeup
  <2>3. TakeSafe' /\ BlockEmpty' BY <1>5 DEF SpuriousWakeup
  <2>4. NoIdleWithWork'
    <3>1. Awake' = Awake \cup {th} /\ Notifying' = Notifying /\ Waiting' \subseteq Waiting
      BY <1>5 DEF SpuriousWakeup, Waiting, Awake, Notifying
    <3>2. th \notin Awake /\ UNCHANGED <<taskqueue, stop>>
      BY <1>5 DEF SpuriousWakeup, Awake
    <3>3. Cardinality(Awake') = Cardinality(Awake) + 1
      BY <3>1, <3>2, FiniteCounts, FS_AddElement
    <3> QED
      BY <3>1, <3>2, <3>3, FiniteCounts, FiniteCountsNext DEF NoIdleWithWork
  <2>5. QueueHistory' BY <1>5 DEF SpuriousWakeup, QueueHistory
  <2>6. FreshTasks' BY <1>5 DEF SpuriousWakeup, FreshTasks
  <2> QED BY <1>0, <2>1, <2>2, <2>3, <2>4, <2>5, <2>6
<1>6. ASSUME NEW th \in Threads, ThreadReturn(th) PROVE IInv'
  <2>1. TypeOK' BY <1>6 DEF ThreadReturn
  <2>2. MutexHeld' BY <1>6 DEF ThreadReturn
  <2>3. TakeSafe' /\ BlockEmpty' BY <1>6 DEF ThreadReturn
  <2>4. NoIdleWithWork' BY <1>6, FiniteCounts DEF ThreadReturn, NoIdleWithWork, Waiting, Awake, Notifying
  <2>5. QueueHistory' BY <1>6 DEF ThreadReturn, QueueHistory
  <2>6. FreshTasks' BY <1>6 DEF ThreadReturn, FreshTasks
  <2> QED BY <1>0, <2>1, <2>2, <2>3, <2>4, <2>5, <2>6
<1>7. ASSUME NEW th \in Threads, ThreadTake(th) PROVE IInv'
  <2>1. TypeOK' BY <1>7 DEF ThreadTake, Take
  <2>2. MutexHeld' BY <1>7 DEF ThreadTake, Take
  <2>3. TakeSafe' /\ BlockEmpty' BY <1>7 DEF ThreadTake, Take
  <2>4. NoIdleWithWork'
    <3>1. Awake' = Awake \ {th} /\ Notifying' = Notifying /\ Waiting' = Waiting
      BY <1>7 DEF ThreadTake, Take, Waiting, Awake, Notifying
    <3>2. th \in Awake
      BY <1>7 DEF ThreadTake, Take, Awake
    <3>3. Cardinality(Awake') = Cardinality(Awake) - 1
      BY <3>1, <3>2, FiniteCounts, FS_RemoveElement
    <3>4. stop' = stop /\ Len(taskqueue') = Len(taskqueue) - 1
      BY <1>7 DEF ThreadTake, Take
    <3> QED
      BY <3>1, <3>3, <3>4, FiniteCounts DEF NoIdleWithWork
  <2>5. QueueHistory' BY <1>7 DEF ThreadTake, Take, QueueHistory
  <2>6. FreshTasks' BY <1>7 DEF ThreadTake, Take, FreshTasks
  <2> QED BY <1>0, <2>1, <2>2, <2>3, <2>4, <2>5, <2>6
<1>8. ASSUME NEW th \in Threads, TaskEnd(th) PROVE IInv'
  <2>1. TypeOK' BY <1>8 DEF TaskEnd
  <2>2. MutexHeld' BY <1>8 DEF TaskEnd
  <2>3. TakeSafe' /\ BlockEmpty' BY <1>8 DEF TaskEnd
  <2>4. NoIdleWithWork'
    <3>1. Awake' = Awake \cup {th} /\ Notifying' = Notifying /\ Waiting' \subseteq Waiting
      BY <1>8 DEF TaskEnd, Waiting, Awake, Notifying
    <3>2. th \notin Awake /\ UNCHANGED <<taskqueue, stop>>
      BY <1>8 DEF TaskEnd, Awake
    <3>3. Cardinality(Awake') = Cardinality(Awake) + 1
      BY <3>1, <3>2, FiniteCounts, FS_AddElement
    <3> QED
      BY <3>1, <3>2, <3>3, FiniteCounts, FiniteCountsNext DEF NoIdleWithWork
  <2>5. QueueHistory' BY <1>8 DEF TaskEnd, QueueHistory
  <2>6. FreshTasks' BY <1>8 DEF TaskEnd, FreshTasks
  <2> QED BY <1>0, <2>1, <2>2, <2>3, <2>4, <2>5, <2>6
<1>9. ASSUME NEW a \in Adders, AddTask(a) PROVE IInv'
  <2>1. TypeOK' BY <1>9 DEF AddTask
  <2>2. MutexHeld' BY <1>9 DEF AddTask
  <2>3. TakeSafe' /\ BlockEmpty' BY <1>9 DEF AddTask
  <2>4. NoIdleWithWork' BY <1>9, FiniteCounts DEF AddTask, NoIdleWithWork, Waiting, Awake, Notifying
  <2>5. QueueHistory' BY <1>9 DEF AddTask, QueueHistory
  <2>6. FreshTasks'
    <3>1. PICK t \in Tasks \ (Range(posted) \cup Range(arg)) : arg' = [arg EXCEPT ![a] = t]
      BY <1>9 DEF AddTask
    <3>2. \A b \in Adders : arg[b] \in Range(arg)
      BY DEF Range
    <3>3. pc' = [pc EXCEPT ![a] = "lock"] /\ posted' = posted
      BY <1>9 DEF AddTask
    <3>4. \A b \in Adders : arg'[b] # NoTask <=> pc'[b] \in {"lock", "push"}
      BY <3>1, <3>3 DEF FreshTasks
    <3>5. \A b \in Adders : arg'[b] \notin Range(posted)
      BY <3>1 DEF FreshTasks
    <3>6. \A b, d \in Adders : b # d /\ arg'[b] = arg'[d] => arg'[b] = NoTask
      BY <3>1, <3>2 DEF FreshTasks
    <3> QED
      BY <3>3, <3>4, <3>5, <3>6 DEF FreshTasks
  <2> QED BY <1>0, <2>1, <2>2, <2>3, <2>4, <2>5, <2>6
<1>10. ASSUME NEW a \in Adders, AddLock(a) PROVE IInv'
  <2>1. TypeOK' BY <1>10 DEF AddLock
  <2>2. MutexHeld' BY <1>10 DEF AddLock
  <2>3. TakeSafe' /\ BlockEmpty' BY <1>10 DEF AddLock
  <2>4. NoIdleWithWork'
    <3>1. Awake' = Awake /\ Notifying' = Notifying /\ Waiting' = Waiting
      BY <1>10 DEF AddLock, Waiting, Awake, Notifying
    <3>2. UNCHANGED <<taskqueue, stop>>
      BY <1>10 DEF AddLock
    <3> QED
      BY <3>1, <3>2 DEF NoIdleWithWork
  <2>5. QueueHistory' BY <1>10 DEF AddLock, QueueHistory
  <2>6. FreshTasks' BY <1>10 DEF AddLock, FreshTasks
  <2> QED BY <1>0, <2>1, <2>2, <2>3, <2>4, <2>5, <2>6
<1>11. ASSUME NEW a \in Adders, AddPush(a) PROVE IInv'
  <2> DEFINE t == arg[a]
  <2>t. t \in Tasks
    BY <1>11 DEF AddPush, PushThen, FreshTasks
  <2>u. /\ taskqueue' = Append(taskqueue, t)
        /\ posted' = Append(posted, t)
        /\ arg' = [arg EXCEPT ![a] = NoTask]
        /\ pc' = [pc EXCEPT ![a] = "notify"]
        /\ pc[a] = "push"
        /\ UNCHANGED <<ran, stop>>
    BY <1>11 DEF AddPush, PushThen
  <2>1. TypeOK'
    <3>1. taskqueue' \in Seq(Tasks) /\ posted' \in Seq(Tasks)
      BY <2>t, <2>u
    <3> QED
      BY <3>1, <1>11 DEF AddPush, PushThen
  <2>2. MutexHeld' BY <1>11 DEF AddPush, PushThen
  <2>3. TakeSafe' /\ BlockEmpty' BY <1>11 DEF AddPush, PushThen
  <2>4. NoIdleWithWork'
    <3>1. Awake' = Awake /\ Notifying' = Notifying \cup {a} /\ Waiting' = Waiting
      BY <2>u DEF Waiting, Awake, Notifying
    <3>2. a \notin Notifying
      BY <2>u DEF Notifying
    <3>3. Cardinality(Notifying') = Cardinality(Notifying) + 1
      BY <3>1, <3>2, FiniteCounts, FS_AddElement
    <3>4. Len(taskqueue') = Len(taskqueue) + 1
      BY <2>t, <2>u
    <3> QED
      BY <2>u, <3>1, <3>3, <3>4, FiniteCounts DEF NoIdleWithWork
  <2>5. QueueHistory'
    <3>1. ran \in Seq(Tasks) /\ taskqueue \in Seq(Tasks)
      OBVIOUS
    <3>2. Append(ran \o taskqueue, t) = ran \o Append(taskqueue, t)
      <4> HIDE DEF t, IInv, TypeOK, MutexHeld, TakeSafe, BlockEmpty
      <4> QED
        BY <2>t, <3>1
    <3> QED
      BY <3>2, <2>u DEF QueueHistory
  <2>6. FreshTasks'
    <3>1. Range(posted') = Range(posted) \cup {t}
      BY <2>t, <2>u, AppendRange
    <3>2. \A b \in Adders : b # a => arg[b] # t
      BY <2>t DEF FreshTasks
    <3>3. \A b \in Adders : arg'[b] # NoTask <=> pc'[b] \in {"lock", "push"}
      BY <2>u DEF FreshTasks
    <3>4. \A b \in Adders : arg'[b] \notin Range(posted')
      <4>1. NoTask \notin Range(posted')
        BY <2>t, <3>1, RangeOfSeq
      <4> QED
        BY <2>u, <3>1, <3>2, <4>1 DEF FreshTasks
    <3>5. \A b, d \in Adders : b # d /\ arg'[b] = arg'[d] => arg'[b] = NoTask
      BY <2>u DEF FreshTasks
    <3> QED
      BY <3>3, <3>4, <3>5 DEF FreshTasks
  <2> QED BY <1>0, <2>1, <2>2, <2>3, <2>4, <2>5, <2>6
<1>12. ASSUME NEW a \in Adders, AddNotify(a) PROVE IInv'
  <2>1. TypeOK' BY <1>12 DEF AddNotify, Waiting
  <2>2. MutexHeld' BY <1>12 DEF AddNotify, Waiting
  <2>3. TakeSafe' /\ BlockEmpty' BY <1>12 DEF AddNotify, Waiting
  <2>4. NoIdleWithWork'
    <3>1. UNCHANGED <<taskqueue, stop>>
      BY <1>12 DEF AddNotify
    <3>2. CASE Waiting = {}
      <4>1. Waiting' = {}
        BY <1>12, <3>2 DEF AddNotify, Waiting
      <4> QED
        BY <4>1 DEF NoIdleWithWork
    <3>3. CASE Waiting # {}
      <4>1. PICK th \in Waiting : pc' = [pc EXCEPT ![a] = "idle", ![th] = "relock"]
        BY <1>12, <3>3 DEF AddNotify
      <4>2. pc[a] = "notify" /\ th \in Threads /\ pc[th] = "waiting" /\ th # a
        BY <1>12 DEF AddNotify, Waiting
      <4>3. Awake' = Awake \cup {th} /\ Notifying' = Notifying \ {a}
        BY <4>1, <4>2 DEF Awake, Notifying
      <4>4. th \notin Awake /\ a \in Notifying
        BY <4>2 DEF Awake, Notifying
      <4>5. Cardinality(Awake') = Cardinality(Awake) + 1
        BY <4>3, <4>4, FiniteCounts, FS_AddElement
      <4>6. Cardinality(Notifying') = Cardinality(Notifying) - 1
        BY <4>3, <4>4, FiniteCounts, FS_RemoveElement
      <4> QED
        BY <3>1, <3>3, <4>5, <4>6, FiniteCounts DEF NoIdleWithWork
    <3> QED
      BY <3>2, <3>3
  <2>5. QueueHistory' BY <1>12 DEF AddNotify, QueueHistory
  <2>6. FreshTasks' BY <1>12 DEF AddNotify, FreshTasks, Waiting
  <2> QED BY <1>0, <2>1, <2>2, <2>3, <2>4, <2>5, <2>6
<1>13. ASSUME NEW s \in Stoppers, StopCheck(s) PROVE IInv'
  <2>1. TypeOK' BY <1>13 DEF StopCheck
  <2>2. MutexHeld' BY <1>13 DEF StopCheck
  <2>3. TakeSafe' /\ BlockEmpty' BY <1>13 DEF StopCheck
  <2>4. NoIdleWithWork' BY <1>13, FiniteCounts DEF StopCheck, NoIdleWithWork, Waiting, Awake, Notifying
  <2>5. QueueHistory' BY <1>13 DEF StopCheck, QueueHistory
  <2>6. FreshTasks' BY <1>13 DEF StopCheck, FreshTasks
  <2> QED BY <1>0, <2>1, <2>2, <2>3, <2>4, <2>5, <2>6
<1>14. ASSUME NEW s \in Stoppers, StopSet(s) PROVE IInv'
  <2>1. TypeOK' BY <1>14 DEF StopSet
  <2>2. MutexHeld' BY <1>14 DEF StopSet
  <2>3. TakeSafe' /\ BlockEmpty' BY <1>14 DEF StopSet
  <2>4. NoIdleWithWork' BY <1>14, FiniteCounts DEF StopSet, NoIdleWithWork, Waiting, Awake, Notifying
  <2>5. QueueHistory' BY <1>14 DEF StopSet, QueueHistory
  <2>6. FreshTasks' BY <1>14 DEF StopSet, FreshTasks
  <2> QED BY <1>0, <2>1, <2>2, <2>3, <2>4, <2>5, <2>6
<1>15. ASSUME NEW s \in Stoppers, StopNotifyAll(s) PROVE IInv'
  <2>1. TypeOK' BY <1>15 DEF StopNotifyAll, Waiting
  <2>2. MutexHeld' BY <1>15 DEF StopNotifyAll, Waiting
  <2>3. TakeSafe' /\ BlockEmpty' BY <1>15 DEF StopNotifyAll, Waiting
  <2>4. NoIdleWithWork' BY <1>15, FiniteCounts DEF StopNotifyAll, NoIdleWithWork, Waiting, Awake, Notifying
  <2>5. QueueHistory' BY <1>15 DEF StopNotifyAll, QueueHistory
  <2>6. FreshTasks' BY <1>15 DEF StopNotifyAll, FreshTasks, Waiting
  <2> QED BY <1>0, <2>1, <2>2, <2>3, <2>4, <2>5, <2>6
<1>16. ASSUME NEW s \in Stoppers, StopJoin(s) PROVE IInv'
  <2>1. TypeOK' BY <1>16 DEF StopJoin
  <2>2. MutexHeld' BY <1>16 DEF StopJoin
  <2>3. TakeSafe' /\ BlockEmpty' BY <1>16 DEF StopJoin
  <2>4. NoIdleWithWork' BY <1>16, FiniteCounts DEF StopJoin, NoIdleWithWork, Waiting, Awake, Notifying
  <2>5. QueueHistory' BY <1>16 DEF StopJoin, QueueHistory
  <2>6. FreshTasks' BY <1>16 DEF StopJoin, FreshTasks
  <2> QED BY <1>0, <2>1, <2>2, <2>3, <2>4, <2>5, <2>6
<1>17. CASE UNCHANGED vars
  BY <1>0, <1>17 DEF vars, QueueHistory, FreshTasks, NoIdleWithWork, Waiting, Awake, Notifying
<1> QED
  BY <1>1, <1>2, <1>3, <1>4, <1>5, <1>6, <1>7, <1>8, <1>9, <1>10, <1>11, <1>12, <1>13, <1>14, <1>15, <1>16, <1>17 DEF Next, ThreadStep, AddStep, StopStep

-----------------------------------------------------------------------------
(* The inductive invariant holds of every state of the pool.               *)
THEOREM InductiveInvariant == Spec => []IInv
<1>1. Init => IInv
  BY InitIInv
<1>2. IInv /\ [Next]_vars => IInv'
  BY NextIInv
<1> QED
  BY <1>1, <1>2, PTL DEF Spec

(* ThreadPool's variables have their types.                                *)
THEOREM TypeCorrect == Spec => []TypeOK
BY InductiveInvariant, PTL DEF IInv

(* No thread takes from an empty queue, for any number of threads, callers *)
(* and tasks and with wakeups nobody asked for.                            *)
THEOREM NeverTakesFromEmpty == Spec => []TakeSafe
BY InductiveInvariant, PTL DEF IInv

(* No queued task is left to sleeping threads: for each there is a thread  *)
(* on its way to the queue or a notify_one() to come.                      *)
THEOREM NoIdleThreadWithWork == Spec => []NoIdleWithWork
BY InductiveInvariant, PTL DEF IInv

(* After Stop() each thread of the pool takes at most one more task, for   *)
(* any number of threads and tasks.                                        *)
THEOREM StopTakesFewTasks == Spec => []StopIsPrompt
<1>1. IInv => StopIsPrompt
  <2> SUFFICES ASSUME IInv, stop PROVE Len(ran) <= begun + Cardinality(Threads)
    BY DEF StopIsPrompt
  <2>1. Len(ran) \in Nat /\ begun \in Nat /\ StopCount
    BY DEF IInv, TypeOK
  <2> QED
    BY <2>1, PastWhileFinite DEF StopCount
<1> QED
  BY <1>1, InductiveInvariant, PTL

(* addtask() and the threads' loop implement a TaskQueue: tasks are taken  *)
(* at most once and in the order of the pushes.                            *)
THEOREM Refinement == Spec => ImplementsTaskQueue
<1>1. Init => TQ!Init
  BY DEF Init, TQ!Init
<1>2. IInv /\ [Next]_vars => [TQ!Next]_<<posted, ran>>
  <2> SUFFICES ASSUME IInv, [Next]_vars PROVE [TQ!Next]_<<posted, ran>>
    OBVIOUS
  <2>1. ASSUME NEW a \in Adders, AddPush(a) PROVE TQ!Next
    <3>1. arg[a] \in Tasks /\ arg[a] \notin Range(posted)
      BY <2>1 DEF IInv, TypeOK, FreshTasks, AddPush, PushThen, Goto
    <3>2. TQ!Post(arg[a])
      BY <3>1, <2>1 DEF TQ!Post, AddPush, PushThen, Range, TQ!Range
    <3> QED
      BY <3>1, <3>2 DEF TQ!Next
  <2>2. ASSUME NEW th \in Threads, ThreadTake(th) PROVE TQ!Next
    <3>1. taskqueue # <<>> /\ taskqueue \in Seq(Tasks) /\ ran \in Seq(Tasks)
      BY <2>2 DEF ThreadTake, Take, IInv, TypeOK
    <3>2. Head(taskqueue) = posted[Len(ran) + 1] /\ Len(ran) < Len(posted)
      BY <3>1, MoveHead DEF IInv, QueueHistory
    <3>3. TQ!Run
      BY <2>2, <3>2 DEF TQ!Run, ThreadTake, Take
    <3> QED
      BY <3>3 DEF TQ!Next
  <2>3. CASE UNCHANGED <<posted, ran>>
    BY <2>3
  <2> QED
    BY <2>1, <2>2, <2>3 DEF Next, ThreadStep, AddStep, StopStep, vars, ThreadCheck, ThreadLock,
       ThreadTest, ThreadBlock, SpuriousWakeup, ThreadReturn, TaskEnd, AddTask, AddLock, AddNotify,
       StopCheck, StopSet, StopNotifyAll, StopJoin, Step, Lock, Unlock, queuevars
<1>3. Spec => []IInv
  BY InductiveInvariant
<1> QED
  BY <1>1, <1>2, <1>3, PTL DEF Spec, ImplementsTaskQueue, TQ!Spec
=============================================================================
