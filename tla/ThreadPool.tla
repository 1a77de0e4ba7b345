---------------------------- MODULE ThreadPool ----------------------------
(***************************************************************************)
(* Threadpool, TaskQueue, WorkerThread, Thread, MutexLock and Condition:   *)
(* the main thread starts the workers, pushes tasks and finally stops the  *)
(* pool; the workers pop tasks and process them.                           *)
(*                                                                         *)
(* A step is what a thread does between two points where another thread    *)
(* can notice: the queue is only touched with the mutex held, so a push is *)
(* one step; pop is split where TaskQueue::wakeup(), which takes no lock,  *)
(* can come between two reads of _flag or between the test and the wait.   *)
(***************************************************************************)
EXTENDS Naturals, Sequences, FiniteSets

CONSTANTS Tasks, Workers, QueSize, NoTask, Nobody

ASSUME PoolAssumption ==
  /\ QueSize \in Nat \ {0}
  /\ NoTask \notin Tasks
  /\ Nobody \notin Workers
  /\ Workers # {}

VARIABLES
  queue,     \* TaskQueue::_que
  hand,      \* the local ptask of each worker
  finished,  \* tasks processed and deleted (history)
  flag,      \* TaskQueue::_flag
  mutex,     \* the worker that holds TaskQueue::_mutex between steps
  isExit,    \* Threadpool::_isExit
  mainPc,    \* where the main thread is
  pending,   \* the task addTask was called with, or NoTask
  pc         \* where each worker is

vars == <<queue, hand, finished, flag, mutex, isExit, mainPc, pending, pc>>

MainPcs == {"start", "loop", "push", "asleep",
            "drain", "exit", "wakeup", "broadcast", "join", "stopped"}

WorkerPcs == {"unborn", "loop", "pop", "test", "wait", "asleep", "take",
              "process", "done"}

Init ==
  /\ queue = <<>>
  /\ hand = [w \in Workers |-> NoTask]
  /\ finished = {}
  /\ flag = TRUE
  /\ mutex = Nobody
  /\ isExit = FALSE
  /\ mainPc = "start"
  /\ pending = NoTask
  /\ pc = [w \in Workers |-> "unborn"]

Waiting == {queue[i] : i \in 1..Len(queue)}

InHand == {hand[w] : w \in Workers} \ {NoTask}

Sleepers == {w \in Workers : pc[w] = "asleep"}

-----------------------------------------------------------------------------
(* The main thread. *)

\* Threadpool::start creates the workers one after the other.
StartWorker(w) ==
  /\ mainPc = "start"
  /\ pc[w] = "unborn"
  /\ pc' = [pc EXCEPT ![w] = "loop"]
  /\ UNCHANGED <<queue, hand, finished, flag, mutex, isExit, mainPc, pending>>

StartDone ==
  /\ mainPc = "start"
  /\ \A w \in Workers : pc[w] # "unborn"
  /\ mainPc' = "loop"
  /\ UNCHANGED <<queue, hand, finished, flag, mutex, isExit, pending, pc>>

\* addTask(t) for a task that was never submitted before.
AddTask(t) ==
  /\ mainPc = "loop"
  /\ t \notin Waiting \cup InHand \cup finished
  /\ pending' = t
  /\ mainPc' = "push"
  /\ UNCHANGED <<queue, hand, finished, flag, mutex, isExit, pc>>

\* Mutant: push() forgets _notEmpty.notify().
NotifyNobody == UNCHANGED pc

\* pthread_cond_signal on _notEmpty: one sleeper, if there is one, goes back
\* to competing for the mutex and will test again.
NotifyNotEmpty ==
  IF Sleepers = {} THEN UNCHANGED pc
  ELSE \E w \in Sleepers : pc' = [pc EXCEPT ![w] = "pop"]

\* Mutant: full() compares with the wrong size.
PushPastFull ==
  /\ mainPc = "push"
  /\ mutex = Nobody
  /\ queue' = Append(queue, pending)
  /\ pending' = NoTask
  /\ mainPc' = "loop"
  /\ NotifyNotEmpty
  /\ UNCHANGED <<hand, finished, flag, mutex, isExit>>

\* TaskQueue::push with room in the queue.
PushEnqueue ==
  /\ mainPc = "push"
  /\ mutex = Nobody
  /\ Len(queue) # QueSize
  /\ queue' = Append(queue, pending)
  /\ pending' = NoTask
  /\ mainPc' = "loop"
  /\ NotifyNotEmpty
  /\ UNCHANGED <<hand, finished, flag, mutex, isExit>>

\* TaskQueue::push on a full queue: _notFull.wait().
PushWait ==
  /\ mainPc = "push"
  /\ mutex = Nobody
  /\ Len(queue) = QueSize
  /\ mainPc' = "asleep"
  /\ UNCHANGED <<queue, hand, finished, flag, mutex, isExit, pending, pc>>

\* pthread_cond_wait may return without a signal.
MainSpuriousWake ==
  /\ mainPc = "asleep"
  /\ mainPc' = "push"
  /\ UNCHANGED <<queue, hand, finished, flag, mutex, isExit, pending, pc>>

\* Threadpool::stop: enter, then sleep until the queue is seen empty.
StopBegin ==
  /\ mainPc = "loop"
  /\ ~isExit
  /\ mainPc' = "drain"
  /\ UNCHANGED <<queue, hand, finished, flag, mutex, isExit, pending, pc>>

\* Mutant: stop() does not wait for the queue to drain.
StopAtOnce ==
  /\ mainPc = "drain"
  /\ mainPc' = "exit"
  /\ UNCHANGED <<queue, hand, finished, flag, mutex, isExit, pending, pc>>

StopDrained ==
  /\ mainPc = "drain"
  /\ queue = <<>>
  /\ mainPc' = "exit"
  /\ UNCHANGED <<queue, hand, finished, flag, mutex, isExit, pending, pc>>

\* Mutant: stop() forgets _isExit = true.
StopKeepsRunning ==
  /\ mainPc = "exit"
  /\ mainPc' = "wakeup"
  /\ UNCHANGED <<queue, hand, finished, flag, mutex, isExit, pending, pc>>

StopSetExit ==
  /\ mainPc = "exit"
  /\ isExit' = TRUE
  /\ mainPc' = "wakeup"
  /\ UNCHANGED <<queue, hand, finished, flag, mutex, pending, pc>>

\* TaskQueue::wakeup clears the flag without the mutex ...
WakeupClearFlag ==
  /\ mainPc = "wakeup"
  /\ flag' = FALSE
  /\ mainPc' = "broadcast"
  /\ UNCHANGED <<queue, hand, finished, mutex, isExit, pending, pc>>

\* ... and then wakes every worker that is asleep at that moment.
WakeupBroadcast ==
  /\ mainPc = "broadcast"
  /\ pc' = [w \in Workers |-> IF w \in Sleepers THEN "pop" ELSE pc[w]]
  /\ mainPc' = "join"
  /\ UNCHANGED <<queue, hand, finished, flag, mutex, isExit, pending>>

StopJoined ==
  /\ mainPc = "join"
  /\ \A w \in Workers : pc[w] = "done"
  /\ mainPc' = "stopped"
  /\ UNCHANGED <<queue, hand, finished, flag, mutex, isExit, pending, pc>>

-----------------------------------------------------------------------------
(* A worker thread: Threadpool::threadFunc around TaskQueue::pop. *)

LoopTest(w) ==
  /\ pc[w] = "loop"
  /\ pc' = [pc EXCEPT ![w] = IF isExit THEN "done" ELSE "pop"]
  /\ UNCHANGED <<queue, hand, finished, flag, mutex, isExit, mainPc, pending>>

\* The MutexLockGuard of pop, and the return of _notEmpty.wait().
PopLock(w) ==
  /\ pc[w] = "pop"
  /\ mutex = Nobody
  /\ mutex' = w
  /\ pc' = [pc EXCEPT ![w] = "test"]
  /\ UNCHANGED <<queue, hand, finished, flag, isExit, mainPc, pending>>

\* while(_flag && empty())
PopTest(w) ==
  /\ pc[w] = "test"
  /\ pc' = [pc EXCEPT ![w] = IF flag /\ queue = <<>> THEN "wait" ELSE "take"]
  /\ UNCHANGED <<queue, hand, finished, flag, mutex, isExit, mainPc, pending>>

PopWait(w) ==
  /\ pc[w] = "wait"
  /\ mutex' = Nobody
  /\ pc' = [pc EXCEPT ![w] = "asleep"]
  /\ UNCHANGED <<queue, hand, finished, flag, isExit, mainPc, pending>>

\* Mutant: if(...) instead of while(...) around _notEmpty.wait().
WakeWithoutTest(w) ==
  /\ pc[w] = "asleep"
  /\ mutex = Nobody
  /\ mutex' = w
  /\ pc' = [pc EXCEPT ![w] = "take"]
  /\ UNCHANGED <<queue, hand, finished, flag, isExit, mainPc, pending>>

WorkerSpuriousWake(w) ==
  /\ pc[w] = "asleep"
  /\ pc' = [pc EXCEPT ![w] = "pop"]
  /\ UNCHANGED <<queue, hand, finished, flag, mutex, isExit, mainPc, pending>>

\* Mutants: pop() forgets _notFull.notify(), or takes the newest task.
TakeWithoutNotify(w) ==
  /\ pc[w] = "take"
  /\ flag
  /\ hand' = [hand EXCEPT ![w] = Head(queue)]
  /\ queue' = Tail(queue)
  /\ mutex' = Nobody
  /\ pc' = [pc EXCEPT ![w] = "process"]
  /\ UNCHANGED <<finished, flag, isExit, mainPc, pending>>

TakeNewest(w) ==
  /\ pc[w] = "take"
  /\ flag
  /\ hand' = [hand EXCEPT ![w] = queue[Len(queue)]]
  /\ queue' = SubSeq(queue, 1, Len(queue) - 1)
  /\ mainPc' = IF mainPc = "asleep" THEN "push" ELSE mainPc
  /\ mutex' = Nobody
  /\ pc' = [pc EXCEPT ![w] = "process"]
  /\ UNCHANGED <<finished, flag, isExit, pending>>

\* if(_flag): front(), pop(), _notFull.notify().
PopTake(w) ==
  /\ pc[w] = "take"
  /\ flag
  /\ hand' = [hand EXCEPT ![w] = Head(queue)]
  /\ queue' = Tail(queue)
  /\ mainPc' = IF mainPc = "asleep" THEN "push" ELSE mainPc
  /\ mutex' = Nobody
  /\ pc' = [pc EXCEPT ![w] = "process"]
  /\ UNCHANGED <<finished, flag, isExit, pending>>

\* else return NULL, which threadFunc skips.
PopNull(w) ==
  /\ pc[w] = "take"
  /\ ~flag
  /\ mutex' = Nobody
  /\ pc' = [pc EXCEPT ![w] = "loop"]
  /\ UNCHANGED <<queue, hand, finished, flag, isExit, mainPc, pending>>

\* ptask->process() has returned; delete ptask.
Process(w) ==
  /\ pc[w] = "process"
  /\ finished' = finished \cup {hand[w]}
  /\ hand' = [hand EXCEPT ![w] = NoTask]
  /\ pc' = [pc EXCEPT ![w] = "loop"]
  /\ UNCHANGED <<queue, flag, mutex, isExit, mainPc, pending>>

-----------------------------------------------------------------------------
MainStep ==
  \/ \E w \in Workers : StartWorker(w)
  \/ StartDone
  \/ \E t \in Tasks : AddTask(t)
  \/ PushEnqueue \/ PushWait \/ MainSpuriousWake
  \/ StopBegin \/ StopDrained \/ StopSetExit
  \/ WakeupClearFlag \/ WakeupBroadcast \/ StopJoined

WorkerStep(w) ==
  \/ LoopTest(w) \/ PopLock(w) \/ PopTest(w) \/ PopWait(w)
  \/ WorkerSpuriousWake(w) \/ PopTake(w) \/ PopNull(w) \/ Process(w)

Next == MainStep \/ \E w \in Workers : WorkerStep(w)

Spec == Init /\ [][Next]_vars

(***************************************************************************)
(* Fairness: every thread is scheduled, a mutex that keeps becoming free   *)
(* is eventually obtained (strong fairness of the two lock acquisitions),  *)
(* and process() returns.  Nothing forces a submission, a call of stop()   *)
(* or a spurious wakeup.                                                   *)
(***************************************************************************)
Fairness ==
  /\ WF_vars(StartDone)
  /\ SF_vars(PushEnqueue \/ PushWait)
  /\ WF_vars(StopDrained) /\ WF_vars(StopSetExit)
  /\ WF_vars(WakeupClearFlag) /\ WF_vars(WakeupBroadcast)
  /\ WF_vars(StopJoined)
  /\ \A w \in Workers :
       /\ WF_vars(StartWorker(w))
       /\ WF_vars(LoopTest(w)) /\ SF_vars(PopLock(w)) /\ WF_vars(PopTest(w))
       /\ WF_vars(PopWait(w)) /\ WF_vars(PopTake(w)) /\ WF_vars(PopNull(w))
       /\ WF_vars(Process(w))

FairSpec == Spec /\ Fairness

-----------------------------------------------------------------------------
(* Properties. *)

\* Every variable has its type and the queue never outgrows queSize.
TypeOK ==
  /\ queue \in Seq(Tasks)
  /\ Len(queue) \in 0..QueSize
  /\ hand \in [Workers -> Tasks \cup {NoTask}]
  /\ finished \in SUBSET Tasks
  /\ flag \in BOOLEAN
  /\ mutex \in Workers \cup {Nobody}
  /\ isExit \in BOOLEAN
  /\ mainPc \in MainPcs
  /\ pending \in Tasks \cup {NoTask}
  /\ pc \in [Workers -> WorkerPcs]

\* pop() never calls front() on an empty queue, although it reads _flag a
\* second time after the loop and wakeup() changes _flag without the mutex.
FrontOnNonEmpty == \A w \in Workers : pc[w] = "take" /\ flag => queue # <<>>

\* No wakeup is lost while the pool is open: the workers are not all asleep
\* when a task waits, and the main thread sleeps in push() only while the
\* queue is really full.
NobodySleepsOnWork ==
  /\ (\A w \in Workers : pc[w] = "asleep") => queue = <<>>
  /\ mainPc = "asleep" => Len(queue) = QueSize

\* When stop() sets _isExit nothing it accepted is left in the queue, so the
\* NULL that pop() returns from then on never stands for a discarded task.
DrainedBeforeExit == isExit => queue = <<>> /\ pending = NoTask

\* pop() takes the front of a queue that has one, and gives up (NULL) only when
\* the queue is empty for good, whenever wakeup() and stop() change the flags.
PopIsSafe ==
  /\ TypeOK
  /\ FrontOnNonEmpty
  /\ DrainedBeforeExit

\* The pool behaves as the bounded FIFO hand-off of TaskBuffer: every
\* accepted task is handed to exactly one worker, in order, exactly once.
Buffer == INSTANCE TaskBuffer
ImplementsBuffer == Buffer!BufferSpec

\* A task given to addTask() is eventually processed, whether the pool keeps
\* running or is stopped right after.
EveryTaskProcessed ==
  \A t \in Tasks : pending = t ~> t \in finished

\* A worker that has tested the queue but is not asleep yet, or that falls
\* asleep after the broadcast, is not reached by wakeup().
MissedBroadcast ==
  mainPc = "join" /\ \E w \in Workers : pc[w] \in {"wait", "asleep"}

\* stop() returns unless the broadcast passed between a worker's test and
\* its wait; every other interleaving of wakeup() with pop() ends in join().
JoinReturns ==
  (mainPc = "join" /\ ~MissedBroadcast) ~> (mainPc = "stopped")
=============================================================================
