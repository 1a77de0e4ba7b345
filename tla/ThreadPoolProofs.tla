------------------------- MODULE ThreadPoolProofs -------------------------
(***************************************************************************)
(* The safety properties of ThreadPool for every number of workers and     *)
(* tasks and every queue bound.  They rest on one inductive invariant,     *)
(* IInv, whose heart is MutexOwner: what a worker saw while it holds the   *)
(* mutex stays true until it lets go, because push() needs the mutex too.  *)
(***************************************************************************)
EXTENDS ThreadPool, TLAPS

-----------------------------------------------------------------------------
(* A fact about sequences. *)

\* What front() and pop() of a non-empty queue return and leave.
LEMMA TailElements ==
  ASSUME NEW S, NEW s \in Seq(S), s # <<>>
  PROVE  /\ Head(s) \in S
         /\ Tail(s) \in Seq(S)
         /\ Len(Tail(s)) = Len(s) - 1
         /\ Head(s) \in {s[i] : i \in 1..Len(s)}
         /\ {Tail(s)[i] : i \in 1..Len(Tail(s))} \subseteq {s[i] : i \in 1..Len(s)}
<1>1. /\ Len(s) \in Nat \ {0}
      /\ Head(s) = s[1]
      /\ Tail(s) \in Seq(S)
      /\ Len(Tail(s)) = Len(s) - 1
      /\ \A i \in 1..Len(Tail(s)) : Tail(s)[i] = s[i + 1]
  OBVIOUS
<1>2. \A i \in 1..Len(s) : s[i] \in S
  OBVIOUS
<1> DEFINE t == Tail(s)
<1> HIDE DEF t
<1>3. ASSUME NEW i \in 1..Len(t) PROVE t[i] \in {s[j] : j \in 1..Len(s)}
  <2>1. i + 1 \in 1..Len(s)
    BY <1>1 DEF t
  <2> QED
    BY <1>1, <2>1 DEF t
<1> QED
  BY <1>1, <1>2, <1>3 DEF t

-----------------------------------------------------------------------------
(* The inductive invariant. *)

\* The mutex is held exactly by the worker between PopLock and the release.
MutexOwner ==
  \A w \in Workers : mutex = w <=> pc[w] \in {"test", "wait", "take"}

\* A worker about to sleep has seen an empty queue, and it is still empty.
WaitEmpty == \A w \in Workers : pc[w] = "wait" => queue = <<>>

\* Who holds a task is where he can hold it.
HandBusy == \A w \in Workers : hand[w] # NoTask <=> pc[w] = "process"
PendingBusy == pending # NoTask <=> mainPc \in {"push", "asleep"}

\* The task being pushed is nowhere else yet.
PendingFresh ==
  pending # NoTask => pending \notin Waiting \cup InHand \cup finished

\* How far stop() has come.
StopProgress ==
  /\ isExit <=> mainPc \in {"wakeup", "broadcast", "join", "stopped"}
  /\ mainPc \in {"exit", "wakeup", "broadcast", "join", "stopped"} => queue = <<>>

IInv ==
  /\ TypeOK
  /\ MutexOwner /\ WaitEmpty /\ FrontOnNonEmpty
  /\ NobodySleepsOnWork
  /\ HandBusy /\ PendingBusy /\ PendingFresh
  /\ StopProgress

LEMMA InitIInv == ASSUME PoolAssumption, Init PROVE IInv
<1>1. TypeOK
  <2>1. queue \in Seq(Tasks) /\ Len(queue) \in 0..QueSize
    BY DEF PoolAssumption, Init
  <2>2. hand \in [Workers -> Tasks \cup {NoTask}] /\ pc \in [Workers -> WorkerPcs]
    BY DEF Init, WorkerPcs
  <2>3. /\ finished \in SUBSET Tasks
        /\ flag \in BOOLEAN /\ isExit \in BOOLEAN
        /\ mutex \in Workers \cup {Nobody}
        /\ mainPc \in MainPcs
        /\ pending \in Tasks \cup {NoTask}
    BY DEF Init, MainPcs
  <2> QED
    BY <2>1, <2>2, <2>3 DEF TypeOK
<1>2. FrontOnNonEmpty /\ NobodySleepsOnWork
  BY DEF Init, FrontOnNonEmpty, NobodySleepsOnWork
<1>3. MutexOwner /\ WaitEmpty /\ HandBusy /\ PendingBusy /\ PendingFresh
  BY DEF PoolAssumption, Init, MutexOwner, WaitEmpty, HandBusy, PendingBusy,
         PendingFresh
<1>4. StopProgress
  BY DEF Init, StopProgress
<1> QED
  BY <1>1, <1>2, <1>3, <1>4 DEF IInv

\* The steps of the main thread that touch neither the queue nor a worker.
LEMMA MainOnlyStep ==
  ASSUME PoolAssumption, IInv,
         UNCHANGED <<queue, hand, finished, mutex, pc>>,
         \/ StartDone \/ PushWait \/ MainSpuriousWake \/ StopBegin
         \/ StopDrained \/ StopSetExit \/ WakeupClearFlag \/ StopJoined
         \/ \E t \in Tasks : AddTask(t)
  PROVE  IInv'
<1> USE DEF PoolAssumption, IInv
<1>1. TypeOK'
  BY DEF TypeOK, MainPcs, StartDone, PushWait, MainSpuriousWake, StopBegin,
         StopDrained, StopSetExit, WakeupClearFlag, StopJoined, AddTask
<1>2. MutexOwner' /\ WaitEmpty' /\ HandBusy'
  BY DEF MutexOwner, WaitEmpty, HandBusy
<1>3. FrontOnNonEmpty'
  BY DEF TypeOK, FrontOnNonEmpty, StartDone, PushWait, MainSpuriousWake,
         StopBegin, StopDrained, StopSetExit, WakeupClearFlag, StopJoined,
         AddTask
<1>4. NobodySleepsOnWork'
  BY DEF NobodySleepsOnWork, StartDone, PushWait, MainSpuriousWake, StopBegin,
         StopDrained, StopSetExit, WakeupClearFlag, StopJoined, AddTask
<1>5. PendingBusy' /\ PendingFresh'
  BY DEF PendingBusy, PendingFresh, Waiting, InHand, StartDone, PushWait,
         MainSpuriousWake, StopBegin, StopDrained, StopSetExit,
         WakeupClearFlag, StopJoined, AddTask
<1>6. StopProgress'
  BY DEF StopProgress, StartDone, PushWait, MainSpuriousWake, StopBegin,
         StopDrained, StopSetExit, WakeupClearFlag, StopJoined, AddTask
<1> QED
  BY <1>1, <1>2, <1>3, <1>4, <1>5, <1>6

\* The steps of a worker that leave the queue and the tasks alone.
LEMMA WorkerOnlyStep ==
  ASSUME PoolAssumption, IInv, NEW w \in Workers,
         UNCHANGED <<queue, hand, finished, flag, isExit, mainPc, pending>>,
         \/ StartWorker(w) \/ LoopTest(w) \/ PopLock(w) \/ PopTest(w)
         \/ PopWait(w) \/ WorkerSpuriousWake(w) \/ PopNull(w)
  PROVE  IInv'
<1> USE DEF PoolAssumption, IInv
<1> USE DEF StartWorker, LoopTest, PopLock, PopTest, PopWait,
            WorkerSpuriousWake, PopNull
<1>1. TypeOK'
  BY DEF TypeOK, WorkerPcs
<1>2. MutexOwner'
  BY DEF TypeOK, MutexOwner
<1>3. WaitEmpty' /\ FrontOnNonEmpty'
  BY DEF TypeOK, WaitEmpty, FrontOnNonEmpty
<1>4. NobodySleepsOnWork'
  <2>1. CASE PopWait(w)
    BY <2>1 DEF NobodySleepsOnWork, WaitEmpty
  <2>2. CASE ~PopWait(w)
    <3>1. pc'[w] # "asleep"
      BY <2>2 DEF TypeOK
    <3> QED
      BY <3>1 DEF NobodySleepsOnWork
  <2> QED
    BY <2>1, <2>2
<1>5. HandBusy'
  BY DEF TypeOK, HandBusy
<1>6. PendingBusy' /\ PendingFresh' /\ StopProgress'
  BY DEF PendingBusy, PendingFresh, Waiting, InHand, StopProgress
<1> QED
  BY <1>1, <1>2, <1>3, <1>4, <1>5, <1>6

LEMMA BroadcastStep ==
  ASSUME PoolAssumption, IInv, WakeupBroadcast PROVE IInv'
<1> USE DEF PoolAssumption, IInv, WakeupBroadcast
<1>1. TypeOK'
  BY DEF TypeOK, MainPcs, WorkerPcs
<1>2. MutexOwner' /\ WaitEmpty' /\ FrontOnNonEmpty' /\ HandBusy'
  BY DEF TypeOK, Sleepers, MutexOwner, WaitEmpty, FrontOnNonEmpty, HandBusy
<1>3. NobodySleepsOnWork'
  BY DEF StopProgress, NobodySleepsOnWork
<1>4. PendingBusy' /\ PendingFresh' /\ StopProgress'
  BY DEF PendingBusy, PendingFresh, Waiting, InHand, StopProgress
<1> QED
  BY <1>1, <1>2, <1>3, <1>4

LEMMA PushEnqueueStep ==
  ASSUME PoolAssumption, IInv, PushEnqueue PROVE IInv'
<1> USE DEF PoolAssumption, IInv, PushEnqueue
<1>1. pending \in Tasks
  BY DEF PendingBusy, TypeOK
<1>2. /\ queue' \in Seq(Tasks)
      /\ Len(queue') = Len(queue) + 1
      /\ queue' # <<>>
  BY <1>1 DEF TypeOK
<1>3. \/ Sleepers = {} /\ pc' = pc
      \/ \E v \in Sleepers : pc' = [pc EXCEPT ![v] = "pop"]
  BY DEF NotifyNotEmpty
<1>4. \A w \in Workers : \/ pc'[w] = pc[w]
                         \/ pc[w] = "asleep" /\ pc'[w] = "pop"
  BY <1>3 DEF Sleepers, TypeOK
<1>5. TypeOK'
  <2>1. Len(queue') \in 0..QueSize
    BY <1>2 DEF TypeOK
  <2>2. pc' \in [Workers -> WorkerPcs]
    BY <1>3 DEF TypeOK, WorkerPcs
  <2> QED
    BY <1>2, <2>1, <2>2 DEF TypeOK, MainPcs
<1>6. MutexOwner' /\ WaitEmpty' /\ FrontOnNonEmpty'
  BY <1>2, <1>4 DEF TypeOK, MutexOwner, WaitEmpty, FrontOnNonEmpty
<1>7. NobodySleepsOnWork'
  <2>1. \E w \in Workers : pc'[w] # "asleep"
    BY <1>3 DEF Sleepers, TypeOK
  <2> QED
    BY <2>1 DEF NobodySleepsOnWork
<1>8. HandBusy'
  BY <1>4 DEF HandBusy
<1>9. PendingBusy' /\ PendingFresh' /\ StopProgress'
  BY DEF PendingBusy, PendingFresh, StopProgress
<1> QED
  BY <1>5, <1>6, <1>7, <1>8, <1>9

LEMMA PopTakeStep ==
  ASSUME PoolAssumption, IInv, NEW w \in Workers, PopTake(w) PROVE IInv'
<1> USE DEF PoolAssumption, IInv, PopTake
<1>1. queue # <<>> /\ queue \in Seq(Tasks)
  BY DEF FrontOnNonEmpty, TypeOK
<1>2. /\ Head(queue) \in Waiting
      /\ Head(queue) \in Tasks
      /\ queue' \in Seq(Tasks)
      /\ Len(queue') = Len(queue) - 1
      /\ Waiting' \subseteq Waiting
  BY <1>1, TailElements DEF Waiting
<1>3. TypeOK'
  <2>1. Len(queue') \in 0..QueSize
    BY <1>1, <1>2 DEF TypeOK
  <2>2. hand' \in [Workers -> Tasks \cup {NoTask}]
    BY <1>2 DEF TypeOK
  <2>3. pc' \in [Workers -> WorkerPcs] /\ mainPc' \in MainPcs
    BY DEF TypeOK, WorkerPcs, MainPcs
  <2> QED
    BY <1>2, <2>1, <2>2, <2>3 DEF TypeOK
<1>4. \A v \in Workers \ {w} : pc[v] \notin {"test", "wait", "take"}
  BY DEF MutexOwner
<1>5. MutexOwner' /\ WaitEmpty' /\ FrontOnNonEmpty'
  BY <1>4 DEF TypeOK, MutexOwner, WaitEmpty, FrontOnNonEmpty
<1>6. NobodySleepsOnWork'
  BY DEF TypeOK, NobodySleepsOnWork
<1>7. HandBusy'
  BY <1>2 DEF TypeOK, HandBusy
<1>8. PendingBusy'
  BY DEF PendingBusy
<1>9. PendingFresh'
  <2>1. InHand' \subseteq InHand \cup {Head(queue)}
    BY DEF InHand, TypeOK
  <2> QED
    BY <1>2, <2>1 DEF PendingFresh
<1>10. StopProgress'
  BY <1>1 DEF StopProgress
<1> QED
  BY <1>3, <1>5, <1>6, <1>7, <1>8, <1>9, <1>10

LEMMA ProcessStep ==
  ASSUME PoolAssumption, IInv, NEW w \in Workers, Process(w) PROVE IInv'
<1> USE DEF PoolAssumption, IInv, Process
<1>1. hand[w] \in InHand /\ hand[w] \in Tasks
  BY DEF HandBusy, InHand, TypeOK
<1>2. TypeOK'
  BY <1>1 DEF TypeOK, WorkerPcs
<1>3. MutexOwner' /\ WaitEmpty' /\ FrontOnNonEmpty' /\ HandBusy'
  BY DEF TypeOK, MutexOwner, WaitEmpty, FrontOnNonEmpty, HandBusy
<1>4. NobodySleepsOnWork' /\ PendingBusy' /\ StopProgress'
  BY DEF TypeOK, NobodySleepsOnWork, PendingBusy, StopProgress
<1>5. PendingFresh'
  <2>1. InHand' \subseteq InHand
    BY DEF InHand, TypeOK
  <2> QED
    BY <1>1, <2>1 DEF PendingFresh, Waiting
<1> QED
  BY <1>2, <1>3, <1>4, <1>5

LEMMA NextIInv == ASSUME PoolAssumption, IInv, [Next]_vars PROVE IInv'
<1>1. CASE UNCHANGED vars
  BY <1>1 DEF vars, IInv, TypeOK, MutexOwner, WaitEmpty, FrontOnNonEmpty,
              NobodySleepsOnWork, HandBusy, PendingBusy, PendingFresh,
              StopProgress, Waiting, InHand
<1>2. CASE MainStep
  <2>1. ASSUME NEW w \in Workers, StartWorker(w) PROVE IInv'
    BY <2>1, WorkerOnlyStep DEF StartWorker
  <2>2. CASE PushEnqueue
    BY <2>2, PushEnqueueStep
  <2>3. CASE WakeupBroadcast
    BY <2>3, BroadcastStep
  <2>4. CASE StartDone
    BY <2>4, MainOnlyStep DEF StartDone
  <2>5. CASE PushWait
    BY <2>5, MainOnlyStep DEF PushWait
  <2>6. CASE MainSpuriousWake
    BY <2>6, MainOnlyStep DEF MainSpuriousWake
  <2>7. CASE StopBegin
    BY <2>7, MainOnlyStep DEF StopBegin
  <2>8. CASE StopDrained
    BY <2>8, MainOnlyStep DEF StopDrained
  <2>9. CASE StopSetExit
    BY <2>9, MainOnlyStep DEF StopSetExit
  <2>10. CASE WakeupClearFlag
    BY <2>10, MainOnlyStep DEF WakeupClearFlag
  <2>11. CASE StopJoined
    BY <2>11, MainOnlyStep DEF StopJoined
  <2>12. CASE \E t \in Tasks : AddTask(t)
    BY <2>12, MainOnlyStep DEF AddTask
  <2> QED
    BY <1>2, <2>1, <2>2, <2>3, <2>4, <2>5, <2>6, <2>7, <2>8, <2>9, <2>10,
       <2>11, <2>12 DEF MainStep
<1>3. ASSUME NEW w \in Workers, WorkerStep(w) PROVE IInv'
  <2>1. CASE PopTake(w)
    BY <2>1, PopTakeStep
  <2>2. CASE Process(w)
    BY <2>2, ProcessStep
  <2>3. CASE \/ LoopTest(w) \/ PopLock(w) \/ PopTest(w) \/ PopWait(w)
             \/ WorkerSpuriousWake(w) \/ PopNull(w)
    BY <2>3, WorkerOnlyStep
       DEF LoopTest, PopLock, PopTest, PopWait, WorkerSpuriousWake, PopNull
  <2> QED
    BY <1>3, <2>1, <2>2, <2>3 DEF WorkerStep
<1> QED
  BY <1>1, <1>2, <1>3 DEF Next

-----------------------------------------------------------------------------
(* The theorems. *)

\* IInv holds in every reachable state of every pool.
THEOREM PoolInvariant == Spec => []IInv
<1>1. Init => IInv
  BY InitIInv, PoolAssumption
<1>2. IInv /\ [Next]_vars => IInv'
  BY NextIInv, PoolAssumption
<1> QED
  BY <1>1, <1>2, PTL DEF Spec

\* TaskQueue and Threadpool keep their types, and push() never grows the
\* queue beyond queSize.
THEOREM PoolTypes == Spec => []TypeOK
<1>1. IInv => TypeOK
  BY DEF IInv
<1> QED
  BY <1>1, PoolInvariant, PTL

\* pop() never takes the front of an empty queue, whenever wakeup() runs.
THEOREM PopIsDefined == Spec => []FrontOnNonEmpty
<1>1. IInv => FrontOnNonEmpty
  BY DEF IInv
<1> QED
  BY <1>1, PoolInvariant, PTL

\* No notify() of push() or pop() is lost.
THEOREM NoLostWakeup == Spec => []NobodySleepsOnWork
<1>1. IInv => NobodySleepsOnWork
  BY DEF IInv
<1> QED
  BY <1>1, PoolInvariant, PTL

\* stop() discards no task that addTask() accepted.
THEOREM StopDrainsFirst == Spec => []DrainedBeforeExit
<1>1. IInv => DrainedBeforeExit
  BY DEF IInv, StopProgress, PendingBusy, DrainedBeforeExit
<1> QED
  BY <1>1, PoolInvariant, PTL

\* pop() takes a front that is there and gives up only when there is nothing
\* left, for any number of workers, tasks and places.
THEOREM PopStaysSafe == Spec => []PopIsSafe
<1>1. TypeOK /\ FrontOnNonEmpty /\ DrainedBeforeExit => PopIsSafe
  BY DEF PopIsSafe
<1> QED
  BY <1>1, PoolTypes, PopIsDefined, StopDrainsFirst, PTL

\* Every step of the pool is a step of the abstract hand-off or invisible.
LEMMA StepRefines ==
  ASSUME PoolAssumption, IInv, [Next]_vars
  PROVE  [Buffer!BufferNext]_Buffer!bufferVars
<1> USE DEF Buffer!bufferVars
<1>1. CASE UNCHANGED <<queue, hand, finished>>
  BY <1>1
<1>2. CASE PushEnqueue
  <2>1. pending \in Tasks
    BY <1>2 DEF PushEnqueue, IInv, PendingBusy, TypeOK
  <2>2. Len(queue) < QueSize
    BY <1>2 DEF PushEnqueue, IInv, TypeOK, PoolAssumption
  <2>3. pending \notin Buffer!Waiting \cup Buffer!InHand \cup finished
    BY <2>1 DEF IInv, PendingFresh, PoolAssumption, Waiting, InHand,
                Buffer!Waiting, Buffer!InHand
  <2>4. Buffer!Put(pending)
    BY <1>2, <2>2, <2>3 DEF PushEnqueue, Buffer!Put
  <2> QED
    BY <2>1, <2>4 DEF Buffer!BufferNext
<1>3. ASSUME NEW w \in Workers, PopTake(w)
      PROVE  [Buffer!BufferNext]_Buffer!bufferVars
  <2>1. hand[w] = NoTask /\ queue # <<>>
    BY <1>3 DEF PopTake, IInv, HandBusy, FrontOnNonEmpty
  <2>2. Buffer!Take(w)
    BY <1>3, <2>1 DEF PopTake, Buffer!Take
  <2> QED
    BY <2>2 DEF Buffer!BufferNext
<1>4. ASSUME NEW w \in Workers, Process(w)
      PROVE  [Buffer!BufferNext]_Buffer!bufferVars
  <2>1. Buffer!Finish(w)
    BY <1>4 DEF Process, IInv, HandBusy, Buffer!Finish
  <2> QED
    BY <2>1 DEF Buffer!BufferNext
<1> QED
  BY <1>1, <1>2, <1>3, <1>4
     DEF Next, vars, MainStep, WorkerStep, StartWorker, StartDone, AddTask,
         PushWait, MainSpuriousWake, StopBegin, StopDrained, StopSetExit,
         WakeupClearFlag, WakeupBroadcast, StopJoined, LoopTest, PopLock,
         PopTest, PopWait, WorkerSpuriousWake, PopNull

\* The pool with its locks, condition variables and shutdown implements the
\* bounded FIFO hand-off: each task is taken once, by one worker, in order.
THEOREM PoolImplementsBuffer == Spec => ImplementsBuffer
<1>1. Init => Buffer!BufferInit
  BY DEF Init, Buffer!BufferInit
<1>2. IInv /\ [Next]_vars => [Buffer!BufferNext]_Buffer!bufferVars
  BY StepRefines, PoolAssumption
<1> QED
  BY <1>1, <1>2, PoolInvariant, PTL
     DEF Spec, ImplementsBuffer, Buffer!BufferSpec
=============================================================================
