-------------------------- MODULE CacheManager --------------------------
(***************************************************************************)
(* The cache managers: the server's own, which a timer thread updates, and *)
(* the copy of it that every WordQuery holds.  Copying a manager copies    *)
(* its caches but not their nodes, so that copies share the nodes; a cache *)
(* is therefore given by the identity of its nodes, its counter and its    *)
(* flags.  The list and the map of one cache are QueryCache's.             *)
(*                                                                         *)
(* The timer thread polls a timerfd, a counter of the expirations that the *)
(* kernel adds to while the thread is busy and that a read sets to zero.   *)
(***************************************************************************)
EXTENDS Naturals, Sequences

CONSTANTS
  QueryLines,  \* the queries clients send
  OnDisk,      \* those whose answer is in the cache file
  Answerable,  \* those that executeQuery finds documents for
  QueSize,     \* tasks waiting for the worker
  MaxTasks,    \* bound: queries sent
  MaxExpired,  \* bound: expirations that nobody has read
  NoTask

\* Node sets: 0 for the main cache's, i for those the i-th task allocates.
Stores == 0..MaxTasks

CacheType ==
  [store : Stores, newCacheCnt : 0..1, isUpdating : BOOLEAN, isSetting : BOOLEAN]

Managers == [cacheList : Seq(CacheType), thread2Cache : Nat]
Tasks == [id : 1..MaxTasks, query : QueryLines, mgr : Managers]

ASSUME ManagerAssumption ==
  /\ OnDisk \subseteq QueryLines
  /\ Answerable \subseteq QueryLines
  /\ QueSize \in Nat \ {0}
  /\ MaxTasks \in Nat
  /\ MaxExpired \in Nat \ {0}
  /\ QueryLines # {}
  /\ NoTask \notin Tasks

VARIABLES
  cacheMgr,    \* MainServer::_cacheMgr
  created,     \* number of tasks created so far
  queue,       \* the thread pool's tasks
  hand,        \* the task the worker has, or NoTask
  wpc,         \* where the worker is in WordQuery::process
  timer,       \* where the timer thread is in Timer::start
  expired,     \* the timerfd's counter
  relinked,    \* the nodes get or set has linked anew (history)
  added        \* queries added to a cache since the last update (history)

timerVars == <<timer, expired>>
managerVars == <<cacheMgr, created, queue, hand, wpc, timerVars, relinked, added>>

NewCache(store) ==
  [store |-> store, newCacheCnt |-> 0, isUpdating |-> FALSE, isSetting |-> FALSE]

\* thread2Cache is the index of the worker's cache, 0 if it has none.
Manager(caches, index) == [cacheList |-> caches, thread2Cache |-> index]

ManagerInit ==
  /\ cacheMgr = Manager(<<NewCache(0)>>, 0)
  /\ created = 0
  /\ queue = <<>>
  /\ hand = NoTask
  /\ wpc = "idle"
  /\ timer = "unborn"
  /\ expired = 0
  /\ relinked = {}
  /\ added = {}

-----------------------------------------------------------------------------
(* The main thread: MainServer::start starts the timer's thread before it   *)
(* serves; onMessage builds the task, which copies the manager.            *)

TimerThreadStart ==
  /\ timer = "unborn"
  /\ timer' = "born"
  /\ UNCHANGED <<cacheMgr, created, queue, hand, wpc, expired, relinked, added>>

OnMessage(q) ==
  /\ timer # "unborn"
  /\ created < MaxTasks
  /\ Len(queue) < QueSize
  /\ created' = created + 1
  /\ queue' = Append(queue, [id |-> created', query |-> q, mgr |-> cacheMgr])
  /\ UNCHANGED <<cacheMgr, hand, wpc, timerVars, relinked, added>>

-----------------------------------------------------------------------------
(* The worker: WordQuery::process. *)

TakeTask ==
  /\ wpc = "idle"
  /\ queue # <<>>
  /\ hand' = Head(queue)
  /\ queue' = Tail(queue)
  /\ wpc' = "getCache"
  /\ UNCHANGED <<cacheMgr, created, timerVars, relinked, added>>

\* Mutants: the index is the main cache's, or is taken after the push_back.
LookUpOffByOne(mgr, store) ==
  IF mgr.thread2Cache # 0
  THEN mgr
  ELSE Manager(Append(mgr.cacheList, NewCache(store)), Len(mgr.cacheList))

LookUpLate(mgr, store) ==
  IF mgr.thread2Cache # 0
  THEN mgr
  ELSE Manager(Append(mgr.cacheList, NewCache(store)), Len(mgr.cacheList) + 2)

\* A thread without a cache gets a new one, loaded from the file.
LookUp(mgr, store) ==
  IF mgr.thread2Cache # 0
  THEN mgr
  ELSE Manager(Append(mgr.cacheList, NewCache(store)), Len(mgr.cacheList) + 1)

GetCache ==
  /\ wpc = "getCache"
  /\ hand' = [hand EXCEPT !.mgr = LookUp(hand.mgr, hand.id)]
  /\ wpc' = "get"
  /\ UNCHANGED <<cacheMgr, created, queue, timerVars, relinked, added>>

Current == hand.mgr.cacheList[hand.mgr.thread2Cache]

\* The answer, found or not, has been sent.
Answered == wpc' = "done" /\ UNCHANGED <<cacheMgr, created, queue, timerVars>>

Hit ==
  /\ wpc = "get"
  /\ hand.query \in OnDisk
  /\ relinked' = relinked \cup {Current.store}
  /\ Answered
  /\ UNCHANGED <<hand, added>>

\* No documents: the client is told so and nothing is cached.
NotFound ==
  /\ wpc = "get"
  /\ hand.query \notin OnDisk \cup Answerable
  /\ Answered
  /\ UNCHANGED <<hand, relinked, added>>

\* set() first spins while the cache is being updated.
SetBegin ==
  /\ wpc = "get"
  /\ hand.query \in Answerable \ OnDisk
  /\ ~Current.isUpdating
  /\ hand' = [hand EXCEPT !.mgr.cacheList[hand.mgr.thread2Cache].isSetting = TRUE]
  /\ wpc' = "setting"
  /\ UNCHANGED <<cacheMgr, created, queue, timerVars, relinked, added>>

Stored(cache) == [cache EXCEPT !.newCacheCnt = @ + 1, !.isSetting = FALSE]

SetEnd ==
  /\ wpc = "setting"
  /\ hand' = [hand EXCEPT !.mgr.cacheList[hand.mgr.thread2Cache] = Stored(@)]
  /\ relinked' = relinked \cup {Current.store}
  /\ added' = added \cup {hand.query}
  /\ Answered

\* Mutant: the task's manager is a reference to the server's.
EndTaskOfReference ==
  /\ wpc = "done"
  /\ cacheMgr' = hand.mgr
  /\ hand' = NoTask
  /\ wpc' = "idle"
  /\ UNCHANGED <<created, queue, timerVars, relinked, added>>

\* The task is destroyed, and its manager with it.
EndTask ==
  /\ wpc = "done"
  /\ hand' = NoTask
  /\ wpc' = "idle"
  /\ UNCHANGED <<cacheMgr, created, queue, timerVars, relinked, added>>

-----------------------------------------------------------------------------
(* The timer's thread: Timer::start and CacheManager::periodcUpdate of the *)
(* server's manager.                                                       *)

\* setTimerfd.
SetTimer ==
  /\ timer = "born"
  /\ expired' = 0
  /\ timer' = "waiting"
  /\ UNCHANGED <<cacheMgr, created, queue, hand, wpc, relinked, added>>

\* The kernel: the interval is over.
Expire ==
  /\ timer \notin {"unborn", "born"}
  /\ expired < MaxExpired
  /\ expired' = expired + 1
  /\ UNCHANGED <<cacheMgr, created, queue, hand, wpc, timer, relinked, added>>

\* poll finds the timerfd readable; a poll that times out changes nothing.
HandleRead ==
  /\ timer = "waiting"
  /\ expired > 0
  /\ expired' = 0
  /\ timer' = "called"
  /\ UNCHANGED <<cacheMgr, created, queue, hand, wpc, relinked, added>>

Caches == DOMAIN cacheMgr.cacheList

\* setUpdateTag and waitSet for every cache.
UpdateBegin ==
  /\ timer = "called"
  /\ \A c \in Caches : ~cacheMgr.cacheList[c].isSetting
  /\ cacheMgr' = [cacheMgr EXCEPT !.cacheList =
                    [c \in Caches |-> [@[c] EXCEPT !.isUpdating = TRUE]]]
  /\ timer' = "updating"
  /\ UNCHANGED <<created, queue, hand, wpc, expired, relinked, added>>

NothingNew == \A c \in Caches : cacheMgr.cacheList[c].newCacheCnt = 0

\* Mutant: the timer is read after the callback.
UpdateNothingThenRead ==
  /\ timer = "updating"
  /\ NothingNew
  /\ timer' = "waiting"
  /\ expired' = 0
  /\ added' = {}
  /\ UNCHANGED <<cacheMgr, created, queue, hand, wpc, relinked>>

\* "no cache needs updating": returns without removing the update tags.
UpdateNothing ==
  /\ timer = "updating"
  /\ NothingNew
  /\ timer' = "waiting"
  /\ added' = {}
  /\ UNCHANGED <<cacheMgr, created, queue, hand, wpc, expired, relinked>>

-----------------------------------------------------------------------------
Worker == TakeTask \/ GetCache \/ Hit \/ NotFound \/ SetBegin \/ SetEnd \/ EndTask

TimerThread == SetTimer \/ HandleRead \/ UpdateBegin \/ UpdateNothing

ManagerNext == TimerThreadStart \/ (\E q \in QueryLines : OnMessage(q)) \/ Worker \/ TimerThread \/ Expire

ManagerSpec == ManagerInit /\ [][ManagerNext]_managerVars

\* Both threads run; clients send as they like, and no interval need end.
ThreadsRun == WF_managerVars(Worker) /\ WF_managerVars(TimerThread)

-----------------------------------------------------------------------------
(* Properties. *)

\* A task's own cache is one that it has, or none.
ManagerOK(mgr) == mgr \in Managers /\ mgr.thread2Cache <= Len(mgr.cacheList)
TaskOK(t) == t \in Tasks /\ t.id <= created /\ ManagerOK(t.mgr)

ManagerTypeOK ==
  /\ ManagerOK(cacheMgr)
  /\ created \in 0..MaxTasks
  /\ Len(queue) <= QueSize
  /\ \A i \in 1..Len(queue) : TaskOK(queue[i])
  /\ hand # NoTask => TaskOK(hand)
  /\ wpc \in {"idle", "getCache", "get", "setting", "done"}
  /\ wpc = "idle" <=> hand = NoTask
  /\ timer \in {"unborn", "born", "waiting", "called", "updating"}
  /\ expired \in 0..MaxExpired
  /\ relinked \subseteq Stores
  /\ added \subseteq QueryLines

\* All managers share the nodes of the main cache, each with a head and a
\* tail of its own: a get or set of one copy would break the list of all the
\* others.
SharedNodesUntouched == 0 \notin relinked

\* What lets the model leave out the rest of periodcUpdate: no cache of the
\* server's manager ever counts a new entry.
UpdateFindsNothing == NothingNew

\* The managers keep apart: what a task does with its copy neither reaches the
\* nodes that all copies share nor the server's manager.
CopiesStayApart ==
  /\ ManagerTypeOK
  /\ SharedNodesUntouched
  /\ UpdateFindsNothing

\* The tags that the update leaves behind are copied into every later task,
\* and yet no worker spins on one for ever.
EveryTaskEnds ==
  \A i \in 1..MaxTasks :
    created >= i ~> /\ created >= i
                    /\ \A k \in 1..Len(queue) : queue[k].id # i
                    /\ hand # NoTask => hand.id # i

\* An interval that ends while an update is running is not lost: another
\* update follows.
TickNotLost == timer = "updating" /\ expired > 0 ~> timer = "called"

\* The update says that no cache needs updating only if nothing was added to
\* a cache since the last one.
NothingToUpdate == [][UpdateNothing => added = {}]_managerVars
=============================================================================
