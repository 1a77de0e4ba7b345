----------------------- MODULE CacheManagerProofs -----------------------
(***************************************************************************)
(* The cache managers for any queries and any number of tasks.  The        *)
(* invariant says what a copy can look like: the server's manager, and     *)
(* every copy that waits, has the main cache only, without a new entry; a  *)
(* copy that a worker uses has a second cache besides, whose nodes are the *)
(* task's own, and which is the one that get and set are called for.       *)
(***************************************************************************)
EXTENDS CacheManager, TLAPS

\* A manager before getCache, and the copy of the given task after it.
Fresh(m) ==
  /\ m \in Managers
  /\ Len(m.cacheList) = 1
  /\ m.thread2Cache = 0
  /\ m.cacheList[1].newCacheCnt = 0

Owner(m, id) ==
  /\ m \in Managers
  /\ Len(m.cacheList) = 2
  /\ m.thread2Cache = 2
  /\ m.cacheList[2].store = id

Waiting(t) == t \in Tasks /\ t.id <= created /\ Fresh(t.mgr)
Using(t) == t \in Tasks /\ t.id <= created /\ Owner(t.mgr, t.id)

HandOK ==
  \/ wpc = "idle" /\ hand = NoTask
  \/ wpc = "getCache" /\ Waiting(hand)
  \/ wpc \in {"get", "setting"} /\ Using(hand) /\ hand.mgr.cacheList[2].newCacheCnt = 0
  \/ wpc = "done" /\ Using(hand)

QueueOK ==
  /\ queue \in Seq(Tasks)
  /\ Len(queue) <= QueSize
  /\ \A i \in 1..Len(queue) : Waiting(queue[i])

IInv ==
  /\ Fresh(cacheMgr)
  /\ created \in 0..MaxTasks
  /\ QueueOK
  /\ HandOK
  /\ timer \in {"unborn", "born", "waiting", "called", "updating"}
  /\ expired \in 0..MaxExpired
  /\ relinked \subseteq 1..MaxTasks
  /\ added \subseteq QueryLines

-----------------------------------------------------------------------------
(* Caches, managers and tasks: what a change of one part leaves alone.     *)

LEMMA NewCacheType == ASSUME NEW store \in Stores PROVE NewCache(store) \in CacheType /\ NewCache(store).newCacheCnt = 0 /\ NewCache(store).store = store
<1>1. 0 \in 0..1 /\ FALSE \in BOOLEAN
  OBVIOUS
<1>2. NewCache(store) \in CacheType
  BY <1>1, Zenon DEF NewCache, CacheType
<1> QED
  BY <1>2 DEF NewCache

\* A new entry: the counter goes from 0 to 1.
LEMMA StoredType ==
  ASSUME NEW c \in CacheType, c.newCacheCnt = 0
  PROVE  Stored(c) \in CacheType /\ Stored(c).store = c.store
<1>1. c.newCacheCnt + 1 = 1 /\ 1 \in 0..1 /\ FALSE \in BOOLEAN
  OBVIOUS
<1>2. Stored(c) = [c EXCEPT !.newCacheCnt = 1, !.isSetting = FALSE]
  BY <1>1 DEF Stored
<1>3. c.store \in Stores /\ c.isUpdating \in BOOLEAN
  BY DEF CacheType
<1>4. Stored(c) = [store |-> c.store, newCacheCnt |-> 1, isUpdating |-> c.isUpdating, isSetting |-> FALSE]
  BY <1>2 DEF CacheType
<1>5. [store |-> c.store, newCacheCnt |-> 1, isUpdating |-> c.isUpdating, isSetting |-> FALSE] \in CacheType
  BY <1>1, <1>3, Zenon DEF CacheType
<1>6. Stored(c) \in CacheType
  BY <1>4, <1>5
<1> QED
  BY <1>4, <1>6

LEMMA TaggedType ==
  ASSUME NEW c \in CacheType
  PROVE  /\ [c EXCEPT !.isSetting = TRUE] \in CacheType
         /\ [c EXCEPT !.isSetting = TRUE].store = c.store
         /\ [c EXCEPT !.isSetting = TRUE].newCacheCnt = c.newCacheCnt
         /\ [c EXCEPT !.isUpdating = TRUE] \in CacheType
         /\ [c EXCEPT !.isUpdating = TRUE].newCacheCnt = c.newCacheCnt
<1>1. [c EXCEPT !.isSetting = TRUE] \in CacheType
  BY DEF CacheType
<1>2. [c EXCEPT !.isUpdating = TRUE] \in CacheType
  BY DEF CacheType
<1> QED
  BY <1>1, <1>2 DEF CacheType

LEMMA CacheInList ==
  ASSUME NEW s \in Seq(CacheType), NEW k \in 1..Len(s), NEW c \in CacheType
  PROVE  /\ [s EXCEPT ![k] = c] \in Seq(CacheType)
         /\ Len([s EXCEPT ![k] = c]) = Len(s)
         /\ [s EXCEPT ![k] = c][k] = c
  OBVIOUS

LEMMA ListInManager ==
  ASSUME NEW m \in Managers, NEW s \in Seq(CacheType)
  PROVE  /\ [m EXCEPT !.cacheList = s] \in Managers
         /\ [m EXCEPT !.cacheList = s].cacheList = s
         /\ [m EXCEPT !.cacheList = s].thread2Cache = m.thread2Cache
  BY DEF Managers

LEMMA ManagerInTask ==
  ASSUME NEW t \in Tasks, NEW m \in Managers
  PROVE  /\ [t EXCEPT !.mgr = m] \in Tasks
         /\ [t EXCEPT !.mgr = m].mgr = m
         /\ [t EXCEPT !.mgr = m].id = t.id
         /\ [t EXCEPT !.mgr = m].query = t.query
  BY DEF Tasks

\* A worker that gives its own cache another content still uses it.
LEMMA OwnCacheChanges ==
  ASSUME NEW t, Using(t), NEW c \in CacheType, c.store = t.mgr.cacheList[2].store,
         NEW u, u = [t EXCEPT !.mgr = [t.mgr EXCEPT !.cacheList = [t.mgr.cacheList EXCEPT ![2] = c]]]
  PROVE  Using(u) /\ u.mgr.cacheList[2] = c
<1>1. t \in Tasks /\ t.mgr \in Managers /\ t.mgr.cacheList \in Seq(CacheType) /\ 2 \in 1..Len(t.mgr.cacheList)
  BY DEF Using, Owner, Managers
<1> DEFINE s == [t.mgr.cacheList EXCEPT ![2] = c]
           m == [t.mgr EXCEPT !.cacheList = s]
<1>2. s \in Seq(CacheType) /\ Len(s) = 2 /\ s[2] = c
  BY <1>1, CacheInList DEF Using, Owner
<1> HIDE DEF s
<1>3. m \in Managers /\ m.cacheList = s /\ m.thread2Cache = 2
  BY <1>1, <1>2, ListInManager DEF Using, Owner
<1>4. u = [t EXCEPT !.mgr = m]
  BY DEF s
<1> HIDE DEF m
<1>5. u \in Tasks /\ u.mgr = m /\ u.id = t.id
  <2>1. m \in Managers /\ t \in Tasks
    BY <1>1, <1>3
  <2>2. /\ [t EXCEPT !.mgr = m] \in Tasks
        /\ [t EXCEPT !.mgr = m].mgr = m
        /\ [t EXCEPT !.mgr = m].id = t.id
    BY <2>1, ManagerInTask
  <2> QED
    BY <1>4, <2>2
<1> QED
  BY <1>2, <1>3, <1>5 DEF Using, Owner

\* The task's own nodes are those that a get or set of it relinks.
LEMMA CurrentIsOwn ==
  ASSUME ManagerAssumption, IInv, Using(hand)
  PROVE  Current.store \in 1..MaxTasks /\ hand.query \in QueryLines
  BY DEF Using, Owner, Current, Tasks
-----------------------------------------------------------------------------
(* The invariant. *)

LEMMA InitIInv == ASSUME ManagerAssumption, ManagerInit PROVE IInv
<1>1. 0 \in Stores
  BY DEF Stores, ManagerAssumption
<1>2. NewCache(0) \in CacheType /\ NewCache(0).newCacheCnt = 0
  BY <1>1, NewCacheType
<1>3. Fresh(cacheMgr)
  <2>1. <<NewCache(0)>> \in Seq(CacheType) /\ Len(<<NewCache(0)>>) = 1 /\ <<NewCache(0)>>[1] = NewCache(0)
    BY <1>2
  <2> QED
    BY <1>2, <2>1 DEF ManagerInit, Manager, Fresh, Managers
<1> QED
  BY <1>3 DEF ManagerInit, IInv, QueueOK, HandOK, ManagerAssumption

\* A new task takes the next number, and the others keep theirs.
LEMMA SendStep ==
  ASSUME ManagerAssumption, IInv, NEW q \in QueryLines, OnMessage(q)
  PROVE  IInv'
<1>1. created \in Nat /\ created' = created + 1 /\ created' \in 0..MaxTasks /\ created' \in 1..MaxTasks
  BY DEF IInv, OnMessage, ManagerAssumption
<1>2. hand' = hand /\ wpc' = wpc
  BY DEF OnMessage
<1>3. HandOK'
  BY <1>1, <1>2 DEF IInv, HandOK, Waiting, Using, Tasks
<1> DEFINE t == [id |-> created', query |-> q, mgr |-> cacheMgr]
<1>4. t \in Tasks /\ t.id <= created' /\ Fresh(t.mgr)
  BY <1>1 DEF IInv, Fresh, Tasks
<1>5. queue' = Append(queue, t)
  BY DEF OnMessage
<1> HIDE DEF t
<1>6. queue' \in Seq(Tasks) /\ Len(queue') = Len(queue) + 1 /\ Len(queue') <= QueSize
  BY <1>4, <1>5 DEF IInv, QueueOK, OnMessage, ManagerAssumption
<1>7. QueueOK'
  <2>1. ASSUME NEW i \in 1..Len(queue') PROVE Waiting(queue[i])'
    <3>1. CASE i = Len(queue) + 1
      <4>1. queue'[i] = t
        BY <1>4, <1>5, <3>1 DEF IInv, QueueOK
      <4> QED
        BY <1>4, <4>1 DEF Waiting, Fresh
    <3>2. CASE i # Len(queue) + 1
      <4>1. i \in 1..Len(queue) /\ queue'[i] = queue[i]
        BY <1>4, <1>5, <1>6, <3>2 DEF IInv, QueueOK
      <4>2. queue[i] \in Tasks /\ queue[i].id <= created' /\ Fresh(queue[i].mgr)
        BY <1>1, <4>1 DEF IInv, QueueOK, Waiting, Tasks
      <4> QED
        BY <4>1, <4>2 DEF Waiting, Fresh
    <3> QED
      BY <3>1, <3>2
  <2> QED
    BY <1>6, <2>1 DEF QueueOK
<1> QED
  BY <1>1, <1>3, <1>7 DEF IInv, OnMessage, timerVars

LEMMA TakeStep == ASSUME ManagerAssumption, IInv, TakeTask PROVE IInv'
<1>1. /\ queue' \in Seq(Tasks) /\ Len(queue') = Len(queue) - 1 /\ Len(queue') <= QueSize
      /\ hand' = queue[1] /\ 1 \in 1..Len(queue)
      /\ \A i \in 1..Len(queue') : queue'[i] = queue[i + 1] /\ i + 1 \in 1..Len(queue)
  BY DEF IInv, QueueOK, TakeTask, ManagerAssumption
<1>2. Waiting(hand')
  BY <1>1 DEF IInv, QueueOK
<1>3. \A i \in 1..Len(queue') : Waiting(queue'[i])
  BY <1>1 DEF IInv, QueueOK
<1>4. HandOK' /\ QueueOK'
  BY <1>1, <1>2, <1>3 DEF TakeTask, HandOK, QueueOK, Waiting
<1> QED
  BY <1>4 DEF IInv, TakeTask, timerVars

\* A copy never has a cache for the worker, so that getCache appends one.
LEMMA GetCacheStep == ASSUME ManagerAssumption, IInv, GetCache PROVE IInv'
<1>1. Waiting(hand) /\ hand.id \in 1..MaxTasks /\ hand.id \in Stores
  BY DEF IInv, HandOK, GetCache, Waiting, Tasks, Stores, ManagerAssumption
<1> DEFINE s == Append(hand.mgr.cacheList, NewCache(hand.id))
           m == LookUp(hand.mgr, hand.id)
<1>2. s \in Seq(CacheType) /\ Len(s) = 2 /\ s[2] = NewCache(hand.id)
  BY <1>1, NewCacheType DEF Waiting, Fresh, Managers
<1>3. m = [cacheList |-> s, thread2Cache |-> 2]
  BY <1>1 DEF LookUp, Manager, Waiting, Fresh
<1> HIDE DEF s
<1>4. m \in Managers /\ m.cacheList = s /\ m.thread2Cache = 2
  BY <1>2, <1>3 DEF Managers
<1>5. hand' = [hand EXCEPT !.mgr = m]
  BY DEF GetCache
<1> HIDE DEF m
<1>6. hand' \in Tasks /\ hand'.mgr = m /\ hand'.id = hand.id
  <2>1. hand \in Tasks
    BY <1>1 DEF Waiting
  <2>2. [hand EXCEPT !.mgr = m] \in Tasks /\ [hand EXCEPT !.mgr = m].mgr = m /\ [hand EXCEPT !.mgr = m].id = hand.id
    BY <1>4, <2>1, ManagerInTask
  <2> QED
    BY <1>5, <2>2
<1>7. Using(hand') /\ hand'.mgr.cacheList[2].newCacheCnt = 0
  BY <1>1, <1>2, <1>4, <1>6, NewCacheType DEF Using, Owner, Waiting
<1>8. HandOK' /\ QueueOK'
  BY <1>7 DEF IInv, GetCache, HandOK, QueueOK, Using, Waiting
<1> QED
  BY <1>8 DEF IInv, GetCache, timerVars
LEMMA HitStep == ASSUME ManagerAssumption, IInv, Hit PROVE IInv'
<1>1. Using(hand)
  BY DEF IInv, HandOK, Hit
<1>2. Current.store \in 1..MaxTasks
  BY <1>1, CurrentIsOwn
<1>3. HandOK' /\ QueueOK'
  BY <1>1 DEF IInv, HandOK, QueueOK, Hit, Answered, Using, Waiting
<1> QED
  BY <1>2, <1>3 DEF IInv, Hit, Answered, timerVars

LEMMA NotFoundStep == ASSUME ManagerAssumption, IInv, NotFound PROVE IInv'
<1>1. HandOK' /\ QueueOK'
  BY DEF IInv, HandOK, QueueOK, NotFound, Answered, Using, Waiting
<1> QED
  BY <1>1 DEF IInv, NotFound, Answered, timerVars

\* set changes the counter and the flag of the worker's own cache, and no
\* other one.
LEMMA SetBeginStep == ASSUME ManagerAssumption, IInv, SetBegin PROVE IInv'
<1>1. /\ Using(hand) /\ hand.mgr.thread2Cache = 2 /\ hand.mgr.cacheList[2] \in CacheType
      /\ hand.mgr.cacheList[2].newCacheCnt = 0
  BY DEF IInv, HandOK, SetBegin, Using, Owner, Managers
<1> DEFINE c == [hand.mgr.cacheList[2] EXCEPT !.isSetting = TRUE]
<1>2. c \in CacheType /\ c.store = hand.mgr.cacheList[2].store /\ c.newCacheCnt = 0
  BY <1>1, TaggedType
<1>3. hand' = [hand EXCEPT !.mgr = [hand.mgr EXCEPT !.cacheList = [hand.mgr.cacheList EXCEPT ![2] = c]]]
  BY <1>1 DEF SetBegin
<1> HIDE DEF c
<1>4. Using(hand') /\ hand'.mgr.cacheList[2] = c
  <2>1. Using(hand) /\ c \in CacheType /\ c.store = hand.mgr.cacheList[2].store
    BY <1>1, <1>2
  <2>2. \A u : u = [hand EXCEPT !.mgr = [hand.mgr EXCEPT !.cacheList = [hand.mgr.cacheList EXCEPT ![2] = c]]]
              => Using(u) /\ u.mgr.cacheList[2] = c
    BY <2>1, OwnCacheChanges
  <2> QED
    BY <1>3, <2>2
<1>5. HandOK' /\ QueueOK'
  BY <1>2, <1>4 DEF IInv, HandOK, QueueOK, SetBegin, Using, Waiting
<1> QED
  BY <1>5 DEF IInv, SetBegin, timerVars

LEMMA SetEndStep == ASSUME ManagerAssumption, IInv, SetEnd PROVE IInv'
<1>1. /\ Using(hand) /\ hand.mgr.thread2Cache = 2 /\ hand.mgr.cacheList[2] \in CacheType
      /\ hand.mgr.cacheList[2].newCacheCnt = 0
  BY DEF IInv, HandOK, SetEnd, Using, Owner, Managers
<1> DEFINE c == Stored(hand.mgr.cacheList[2])
<1>2. c \in CacheType /\ c.store = hand.mgr.cacheList[2].store
  BY <1>1, StoredType
<1>3. hand' = [hand EXCEPT !.mgr = [hand.mgr EXCEPT !.cacheList = [hand.mgr.cacheList EXCEPT ![2] = c]]]
  BY <1>1 DEF SetEnd
<1> HIDE DEF c
<1>4. Using(hand')
  BY <1>1, <1>2, <1>3, OwnCacheChanges
<1>5. HandOK' /\ QueueOK'
  BY <1>4 DEF IInv, HandOK, QueueOK, SetEnd, Answered, Using, Waiting
<1>6. Current.store \in 1..MaxTasks /\ hand.query \in QueryLines
  BY <1>1, CurrentIsOwn
<1> QED
  BY <1>5, <1>6 DEF IInv, SetEnd, Answered, timerVars

\* The update sets tags in the main cache, and leaves it as it was otherwise.
LEMMA UpdateStep == ASSUME ManagerAssumption, IInv, UpdateBegin PROVE IInv'
<1>1. /\ cacheMgr \in Managers /\ cacheMgr.cacheList \in Seq(CacheType) /\ Caches = {1}
      /\ cacheMgr.cacheList[1] \in CacheType /\ cacheMgr.cacheList[1].newCacheCnt = 0
  BY DEF IInv, Fresh, Managers, Caches
<1> DEFINE c == [cacheMgr.cacheList[1] EXCEPT !.isUpdating = TRUE]
           s == [k \in Caches |-> [cacheMgr.cacheList[k] EXCEPT !.isUpdating = TRUE]]
<1>2. c \in CacheType /\ c.newCacheCnt = 0
  BY <1>1, TaggedType
<1>3. s = <<c>>
  <2>1. s = [k \in {1} |-> c]
    BY <1>1
  <2> HIDE DEF c, s
  <2> QED
    BY <2>1
<1>4. s \in Seq(CacheType) /\ Len(s) = 1 /\ s[1] = c
  <2> HIDE DEF c, s
  <2> QED
    BY <1>2, <1>3
<1>5. cacheMgr' = [cacheMgr EXCEPT !.cacheList = s]
  BY DEF UpdateBegin
<1> HIDE DEF c, s
<1>6. cacheMgr' \in Managers /\ cacheMgr'.cacheList = s /\ cacheMgr'.thread2Cache = cacheMgr.thread2Cache
  BY <1>1, <1>4, <1>5, ListInManager
<1>7. Fresh(cacheMgr)'
  BY <1>2, <1>4, <1>6 DEF IInv, Fresh
<1>8. HandOK' /\ QueueOK'
  BY DEF IInv, HandOK, QueueOK, UpdateBegin, Waiting, Using
<1> QED
  BY <1>7, <1>8 DEF IInv, UpdateBegin

\* The end of a task, the timer, and steps of nobody.
LEMMA OtherStep ==
  ASSUME ManagerAssumption, IInv,
         EndTask \/ TimerThreadStart \/ SetTimer \/ Expire \/ HandleRead \/ UpdateNothing \/ UNCHANGED managerVars
  PROVE  IInv'
<1> USE DEF IInv, HandOK, QueueOK, Waiting, Using
<1>1. CASE EndTask
  BY <1>1 DEF EndTask, timerVars
<1>2. CASE TimerThreadStart
  BY <1>2 DEF TimerThreadStart
<1>3. CASE SetTimer
  BY <1>3 DEF SetTimer, ManagerAssumption
<1>4. CASE Expire
  BY <1>4 DEF Expire, ManagerAssumption
<1>5. CASE HandleRead
  BY <1>5 DEF HandleRead, ManagerAssumption
<1>6. CASE UpdateNothing
  BY <1>6 DEF UpdateNothing
<1>7. CASE UNCHANGED managerVars
  BY <1>7 DEF managerVars, timerVars
<1> QED
  BY <1>1, <1>2, <1>3, <1>4, <1>5, <1>6, <1>7

THEOREM ManagerInvariant == ManagerSpec => []IInv
<1>1. ManagerInit => IInv
  BY ManagerAssumption, InitIInv
<1>2. IInv /\ [ManagerNext]_managerVars => IInv'
  BY ManagerAssumption, SendStep, TakeStep, GetCacheStep, HitStep, NotFoundStep, SetBeginStep, SetEndStep,
     UpdateStep, OtherStep DEF ManagerNext, Worker, TimerThread
<1> QED
  BY <1>1, <1>2, PTL DEF ManagerSpec

-----------------------------------------------------------------------------
(* What the invariant says of the properties. *)

\* Managers, tasks and the timer keep their types, and a worker has a cache
\* whenever it uses one (WordQuery::process).
THEOREM ManagerTypes == ManagerSpec => []ManagerTypeOK
<1>1. IInv => ManagerTypeOK
  <2> SUFFICES ASSUME IInv PROVE ManagerTypeOK
    OBVIOUS
  <2>1. \A t : Waiting(t) \/ Using(t) => TaskOK(t)
    BY DEF Waiting, Using, Fresh, Owner, TaskOK, ManagerOK
  <2>2. \A i \in 1..Len(queue) : TaskOK(queue[i])
    BY <2>1 DEF IInv, QueueOK
  <2>3. wpc # "idle" => TaskOK(hand)
    BY <2>1 DEF IInv, HandOK
  <2>4. wpc = "idle" <=> hand = NoTask
    BY <2>3, ManagerAssumption DEF IInv, HandOK, TaskOK, ManagerAssumption
  <2>5. ManagerOK(cacheMgr)
    BY DEF IInv, Fresh, ManagerOK
  <2>6. wpc \in {"idle", "getCache", "get", "setting", "done"}
    BY DEF IInv, HandOK
  <2>7. relinked \subseteq Stores
    BY ManagerAssumption DEF IInv, Stores, ManagerAssumption
  <2> QED
    BY <2>2, <2>3, <2>4, <2>5, <2>6, <2>7 DEF IInv, QueueOK, ManagerTypeOK
<1> QED
  BY <1>1, ManagerInvariant, PTL

\* No get or set of any query relinks the nodes of the main cache, which all
\* managers share (CacheManager::getCache gives every worker its own cache).
THEOREM SharedNodesStay == ManagerSpec => []SharedNodesUntouched
<1>1. IInv => SharedNodesUntouched
  BY DEF IInv, SharedNodesUntouched
<1> QED
  BY <1>1, ManagerInvariant, PTL

\* However many queries come and go, no update ever has anything to merge:
\* lines 65 to 107 of CacheManager.cc are unreachable.
THEOREM UpdatesFindNothing == ManagerSpec => []UpdateFindsNothing
<1>1. IInv => UpdateFindsNothing
  BY DEF IInv, Fresh, Managers, UpdateFindsNothing, NothingNew, Caches
<1> QED
  BY <1>1, ManagerInvariant, PTL

\* The copies of the manager stay apart, for any queries and number of tasks.
THEOREM CopiesStay == ManagerSpec => []CopiesStayApart
<1>1. ManagerTypeOK /\ SharedNodesUntouched /\ UpdateFindsNothing => CopiesStayApart
  BY DEF CopiesStayApart
<1> QED
  BY <1>1, ManagerTypes, SharedNodesStay, UpdatesFindNothing, PTL
=============================================================================
