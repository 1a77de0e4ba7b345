---------------------------- MODULE TaskBuffer ----------------------------
(***************************************************************************)
(* What a client of the thread pool may rely on: a bounded FIFO hand-off.  *)
(* A task enters the buffer once, leaves it from the front into the hands  *)
(* of one idle worker, and is then finished.  Locks, condition variables   *)
(* and the shutdown are left to ThreadPool, which implements this module;  *)
(* SearchServer uses these actions for its queue.                          *)
(***************************************************************************)
EXTENDS Naturals, Sequences

CONSTANTS
  Tasks,     \* the tasks that may be submitted
  Workers,   \* the worker threads
  QueSize,   \* Threadpool's queSize: the most tasks waiting at a time
  NoTask     \* an empty hand

VARIABLES
  queue,     \* the waiting tasks, oldest first
  hand,      \* the task each worker is processing, or NoTask
  finished   \* the tasks that were processed and deleted

bufferVars == <<queue, hand, finished>>

Waiting == {queue[i] : i \in 1..Len(queue)}

InHand == {hand[w] : w \in Workers} \ {NoTask}

BufferInit ==
  /\ queue = <<>>
  /\ hand = [w \in Workers |-> NoTask]
  /\ finished = {}

\* A new task joins the end of a queue that has room.
Put(t) ==
  /\ t \notin Waiting \cup InHand \cup finished
  /\ Len(queue) < QueSize
  /\ queue' = Append(queue, t)
  /\ UNCHANGED <<hand, finished>>

\* An idle worker takes the oldest waiting task.
Take(w) ==
  /\ hand[w] = NoTask
  /\ queue # <<>>
  /\ hand' = [hand EXCEPT ![w] = Head(queue)]
  /\ queue' = Tail(queue)
  /\ UNCHANGED finished

\* The worker is through with its task and deletes it.
Finish(w) ==
  /\ hand[w] # NoTask
  /\ finished' = finished \cup {hand[w]}
  /\ hand' = [hand EXCEPT ![w] = NoTask]
  /\ UNCHANGED queue

BufferNext ==
  \/ \E t \in Tasks : Put(t)
  \/ \E w \in Workers : Take(w) \/ Finish(w)

BufferSpec == BufferInit /\ [][BufferNext]_bufferVars
=============================================================================
