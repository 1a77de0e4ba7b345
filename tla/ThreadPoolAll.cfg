\* Two workers, so that a signal can reach the wrong one (MainServer starts
\* one), a queue in which the order shows, and one more task than the queue
\* and a worker hold together.
SPECIFICATION FairSpec
CONSTANTS
  Tasks = {t1, t2, t3, t4}
  Workers = {w1, w2}
  QueSize = 2
  NoTask = NoTask
  Nobody = Nobody
INVARIANTS
  PopIsSafe
  NobodySleepsOnWork
PROPERTIES
  ImplementsBuffer
  EveryTaskProcessed
  JoinReturns
CHECK_DEADLOCK FALSE
