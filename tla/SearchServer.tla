--------------------------- MODULE SearchServer ---------------------------
(***************************************************************************)
(* The online server: clients, the kernel's descriptor table, the epoll    *)
(* loop with its connection map and pending functors, and the worker       *)
(* threads that answer queries.  The queue between the loop and the        *)
(* workers is TaskBuffer, which ThreadPool implements.                     *)
(*                                                                         *)
(* A client connects once, so it also names its TcpConnection object.  The *)
(* object is destroyed, and its descriptor closed, by whoever drops the    *)
(* last shared_ptr; a functor holds only a raw pointer to it.              *)
(***************************************************************************)
EXTENDS Naturals, Sequences, FiniteSets

CONSTANTS
  Clients, Workers,
  QueSize,      \* Threadpool's queSize
  MaxFds,       \* how many client descriptors the process may have open
  MaxQueries,   \* bound: lines a client sends
  MaxReplies,   \* bound: replies to one query (one per unknown word, and one)
  Patient,      \* TRUE: clients do not hang up on an outstanding answer
  NoClient, NoTask

ASSUME ServerAssumption ==
  /\ {QueSize, MaxFds, MaxReplies} \subseteq Nat \ {0}
  /\ MaxQueries \in Nat
  /\ Patient \in BOOLEAN
  /\ NoClient \notin Clients
  /\ NoTask \notin Clients \X (1..MaxQueries)

Fds == 1..MaxFds
NoFd == 0
Listenfd == MaxFds + 1
Eventfd == MaxFds + 2

\* A WordQuery: the n-th line of a client; also the answer to it.
Tasks == Clients \X (1..MaxQueries)

VARIABLES
  client,     \* each client: "new", "open" or "closed"
  sent,       \* lines it has written
  got,        \* lines the server has read from it
  wire,       \* what the client has received
  backlog,    \* connections the kernel has completed, not yet accepted
  fdTable,    \* the kernel's table: the connection behind each descriptor
  rejected,   \* the kernel met a write to this closed peer
  sockfd,     \* TcpConnection::_sockfd, kept in memory after destruction
  connMap,    \* EpollPoller::_connMap
  functors,   \* EpollPoller::_pendingFunctors
  signalled,  \* the eventfd's counter is not zero
  pc,         \* where the loop is
  ready,      \* the events of this epoll_wait not yet handled
  pending,    \* the task onMessage is about to add
  running,    \* the functors doPendingFunctors has swapped out
  queue, hand, finished,   \* the thread pool (TaskBuffer)
  workerPc,   \* where each worker is
  left,       \* replies the worker's query still has to send
  status      \* of the process: "up", or how it ended

netVars    == <<client, sent, wire, backlog, rejected>>
pollVars   == <<connMap, pc, ready, pending, running>>
loopVars   == <<functors, signalled>>
poolVars   == <<queue, hand, finished>>
workerVars == <<workerPc, left>>

vars == <<netVars, got, fdTable, sockfd, pollVars, loopVars, poolVars,
          workerVars, status>>

Buffer == INSTANCE TaskBuffer

Init ==
  /\ client = [c \in Clients |-> "new"]
  /\ sent = [c \in Clients |-> 0]
  /\ got = [c \in Clients |-> 0]
  /\ wire = [c \in Clients |-> <<>>]
  /\ backlog = <<>>
  /\ fdTable = [fd \in Fds |-> NoClient]
  /\ rejected = [c \in Clients |-> FALSE]
  /\ sockfd = [c \in Clients |-> NoFd]
  /\ connMap = [fd \in Fds |-> NoClient]
  /\ functors = <<>>
  /\ signalled = FALSE
  /\ pc = "wait"
  /\ ready = {}
  /\ pending = NoTask
  /\ running = <<>>
  /\ Buffer!BufferInit
  /\ workerPc = [w \in Workers |-> "idle"]
  /\ left = [w \in Workers |-> 0]
  /\ status = "up"

-----------------------------------------------------------------------------
(* Who refers to a connection. *)

ElementsOf(s) == {s[i] : i \in 1..Len(s)}

\* The tasks that exist and hold a TcpConnectionPtr.
LiveTasks ==
  ({pending} \cup ElementsOf(queue) \cup {hand[w] : w \in Workers}) \ {NoTask}

HeldByTask(c) == \E t \in LiveTasks : t[1] = c

InMap(c) == \E fd \in Fds : connMap[fd] = c

\* The object's destructor has not run.
Alive(c) == \E fd \in Fds : fdTable[fd] = c

\* Something of the client's is still on its way through the server.
InFlight(c) ==
  \/ c \in ElementsOf(backlog)
  \/ got[c] < sent[c]
  \/ \E t \in LiveTasks \cup ElementsOf(functors) \cup ElementsOf(running) :
       t[1] = c

-----------------------------------------------------------------------------
(* The clients. *)

Connect(c) ==
  /\ client[c] = "new"
  /\ client' = [client EXCEPT ![c] = "open"]
  /\ backlog' = Append(backlog, c)
  /\ UNCHANGED <<sent, got, wire, rejected, fdTable, sockfd, pollVars,
                 loopVars, poolVars, workerVars, status>>

SendLine(c) ==
  /\ client[c] = "open"
  /\ sent[c] < MaxQueries
  /\ sent' = [sent EXCEPT ![c] = @ + 1]
  /\ UNCHANGED <<client, got, wire, backlog, rejected, fdTable, sockfd,
                 pollVars, loopVars, poolVars, workerVars, status>>

Close(c) ==
  /\ client[c] = "open"
  /\ Patient => ~InFlight(c)
  /\ client' = [client EXCEPT ![c] = "closed"]
  /\ UNCHANGED <<sent, got, wire, backlog, rejected, fdTable, sockfd,
                 pollVars, loopVars, poolVars, workerVars, status>>

-----------------------------------------------------------------------------
(* The loop, on the main thread. *)

\* SocketIO::writen to the connection of c.  The kernel swallows the first
\* write to a peer that has closed and answers it with a reset; after the
\* reset a write raises SIGPIPE, which nobody handles.
Write(c, message) ==
  \/ /\ client[c] = "open"
     /\ wire' = [wire EXCEPT ![c] = Append(@, message)]
     /\ UNCHANGED <<rejected, status>>
  \/ /\ client[c] = "closed"
     /\ rejected' = [rejected EXCEPT ![c] = TRUE]
     /\ UNCHANGED <<wire, status>>
  \/ /\ client[c] = "closed" /\ rejected[c]
     /\ status' = "killed"
     /\ UNCHANGED <<wire, rejected>>

\* Level-triggered readiness of the registered descriptors.
ReadyEvents ==
  {fd \in Fds : /\ connMap[fd] # NoClient
                /\ \/ got[connMap[fd]] < sent[connMap[fd]]
                   \/ client[connMap[fd]] = "closed"}
    \cup (IF backlog # <<>> THEN {Listenfd} ELSE {})
    \cup (IF signalled THEN {Eventfd} ELSE {})

Poll ==
  /\ pc = "wait"
  /\ ReadyEvents # {}
  /\ ready' = ReadyEvents
  /\ pc' = "dispatch"
  /\ UNCHANGED <<netVars, got, fdTable, sockfd, connMap, pending, running,
                 loopVars, poolVars, workerVars, status>>

\* epoll_wait returns 0 after five seconds and is called again.
PollTimeout ==
  /\ pc = "wait"
  /\ ReadyEvents = {}
  /\ UNCHANGED vars

BatchDone ==
  /\ pc = "dispatch"
  /\ ready = {}
  /\ pc' = "wait"
  /\ UNCHANGED <<netVars, got, fdTable, sockfd, connMap, ready, pending,
                 running, loopVars, poolVars, workerVars, status>>

FreeFds == {fd \in Fds : fdTable[fd] = NoClient}

LowestFree(fd) == fd \in FreeFds /\ \A other \in FreeFds : fd <= other

\* handleConnection: accept, register, insert into the map, greet.
HandleConnection ==
  /\ pc = "dispatch"
  /\ Listenfd \in ready
  /\ ready' = ready \ {Listenfd}
  /\ \E fd \in Fds :
       /\ LowestFree(fd)
       /\ LET c == Head(backlog) IN
          /\ sockfd' = [sockfd EXCEPT ![c] = fd]
          /\ fdTable' = [fdTable EXCEPT ![fd] = c]
          /\ IF connMap[fd] = NoClient
             THEN /\ connMap' = [connMap EXCEPT ![fd] = c]
                  /\ Write(c, <<c, 0>>)
             ELSE /\ status' = "aborted"
                  /\ UNCHANGED <<connMap, wire, rejected>>
  /\ backlog' = Tail(backlog)
  /\ UNCHANGED <<client, sent, got, pc, pending, running, loopVars, poolVars,
                 workerVars>>

\* accept returned -1, and registering descriptor -1 exits.
AcceptFails ==
  /\ pc = "dispatch"
  /\ Listenfd \in ready
  /\ FreeFds = {}
  /\ status' = "exited"
  /\ UNCHANGED <<netVars, got, fdTable, sockfd, pollVars, loopVars, poolVars,
                 workerVars>>

\* A failed assert() aborts the process.
AfterAssert(condition) == IF condition THEN status ELSE "aborted"

\* What isConnectionClosed's peek finds; FALSE also for a bad descriptor.
HasLine(fd) ==
  /\ fdTable[fd] # NoClient
  /\ got[fdTable[fd]] < sent[fdTable[fd]]

\* Mutant: the event is not used up by handling it once.
MessageKeepsEvent(fd) ==
  /\ pc = "dispatch"
  /\ fd \in ready
  /\ HasLine(fd)
  /\ status' = AfterAssert(connMap[fd] # NoClient)
  /\ LET c == fdTable[fd] IN
     /\ got' = [got EXCEPT ![c] = @ + 1]
     /\ pending' = <<c, got[c] + 1>>
  /\ pc' = "push"
  /\ UNCHANGED <<netVars, fdTable, sockfd, connMap, ready, running, loopVars,
                 poolVars, workerVars>>

\* handleMessage, there is a line: onMessage reads it and makes the task.
HandleMessage(fd) ==
  /\ pc = "dispatch"
  /\ fd \in ready
  /\ HasLine(fd)
  /\ status' = AfterAssert(connMap[fd] # NoClient)
  /\ LET c == fdTable[fd] IN
     /\ got' = [got EXCEPT ![c] = @ + 1]
     /\ pending' = <<c, got[c] + 1>>
  /\ ready' = ready \ {fd}
  /\ pc' = "push"
  /\ UNCHANGED <<netVars, fdTable, sockfd, connMap, running, loopVars,
                 poolVars, workerVars>>

\* addTask, which waits while the queue is full.
AddTask ==
  /\ pc = "push"
  /\ Buffer!Put(pending)
  /\ pending' = NoTask
  /\ pc' = "dispatch"
  /\ UNCHANGED <<netVars, got, fdTable, sockfd, connMap, ready, running,
                 loopVars, workerVars, status>>

\* Mutant: handleMessage forgets _connMap.erase(it) and deletes the object.
CloseWithoutErase(fd) ==
  /\ pc = "dispatch"
  /\ fd \in ready
  /\ ~HasLine(fd)
  /\ status' = AfterAssert(connMap[fd] # NoClient)
  /\ fdTable' = [fdTable EXCEPT ![fd] = NoClient]
  /\ ready' = ready \ {fd}
  /\ UNCHANGED <<netVars, got, sockfd, connMap, pc, pending, running, loopVars,
                 poolVars, workerVars>>

\* handleMessage, nothing to read: onClose, unregister, erase.  The peek
\* cannot tell a closed peer from a descriptor that has no data yet.
HandleClose(fd) ==
  /\ pc = "dispatch"
  /\ fd \in ready
  /\ ~HasLine(fd)
  /\ status' = AfterAssert(connMap[fd] # NoClient)
  /\ fdTable' = IF HeldByTask(fdTable[fd]) THEN fdTable
                ELSE [fdTable EXCEPT ![fd] = NoClient]
  /\ connMap' = [connMap EXCEPT ![fd] = NoClient]
  /\ ready' = ready \ {fd}
  /\ UNCHANGED <<netVars, got, sockfd, pc, pending, running, loopVars,
                 poolVars, workerVars>>

HandleRead ==
  /\ pc = "dispatch"
  /\ Eventfd \in ready
  /\ ready' = ready \ {Eventfd}
  /\ signalled' = FALSE
  /\ pc' = "swap"
  /\ UNCHANGED <<netVars, got, fdTable, sockfd, connMap, pending, running,
                 functors, poolVars, workerVars, status>>

\* Mutant: doPendingFunctors copies the list instead of swapping it.
CopyFunctors ==
  /\ pc = "swap"
  /\ running' = functors
  /\ pc' = "run"
  /\ UNCHANGED <<netVars, got, fdTable, sockfd, connMap, ready, pending,
                 loopVars, poolVars, workerVars, status>>

SwapFunctors ==
  /\ pc = "swap"
  /\ running' = functors
  /\ functors' = <<>>
  /\ pc' = "run"
  /\ UNCHANGED <<netVars, got, fdTable, sockfd, connMap, ready, pending,
                 signalled, poolVars, workerVars, status>>

\* A functor calls send on its raw TcpConnection pointer.
RunFunctor ==
  /\ pc = "run"
  /\ running # <<>>
  /\ Alive(Head(running)[1])
  /\ Write(fdTable[sockfd[Head(running)[1]]], Head(running))
  /\ running' = Tail(running)
  /\ UNCHANGED <<client, sent, backlog, got, fdTable, sockfd, connMap, pc,
                 ready, pending, loopVars, poolVars, workerVars>>

\* The object is gone: the call crashes, or writes to whatever descriptor it
\* finds in the freed memory, which may be closed or another client's.
RunDangling ==
  /\ pc = "run"
  /\ running # <<>>
  /\ ~Alive(Head(running)[1])
  /\ running' = Tail(running)
  /\ \/ /\ status' = "crashed"
        /\ UNCHANGED <<wire, rejected>>
     \/ UNCHANGED <<wire, rejected, status>>
     \/ \E fd \in Fds : /\ fdTable[fd] # NoClient
                        /\ Write(fdTable[fd], Head(running))
  /\ UNCHANGED <<client, sent, backlog, got, fdTable, sockfd, connMap, pc,
                 ready, pending, loopVars, poolVars, workerVars>>

\* Mutant: doPendingFunctors first, handleRead after it.
FunctorsDoneThenRead ==
  /\ pc = "run"
  /\ running = <<>>
  /\ pc' = "dispatch"
  /\ signalled' = FALSE
  /\ UNCHANGED <<netVars, got, fdTable, sockfd, connMap, ready, pending,
                 running, functors, poolVars, workerVars, status>>

FunctorsDone ==
  /\ pc = "run"
  /\ running = <<>>
  /\ pc' = "dispatch"
  /\ UNCHANGED <<netVars, got, fdTable, sockfd, connMap, ready, pending,
                 running, loopVars, poolVars, workerVars, status>>

-----------------------------------------------------------------------------
(* The workers. *)

\* getTask; process() will reply once for each unknown word and once more.
TakeTask(w) ==
  /\ workerPc[w] = "idle"
  /\ Buffer!Take(w)
  /\ workerPc' = [workerPc EXCEPT ![w] = "process"]
  /\ \E n \in 1..MaxReplies : left' = [left EXCEPT ![w] = n]
  /\ UNCHANGED <<netVars, got, fdTable, sockfd, pollVars, loopVars, status>>

\* Mutant: process() does not return after its last reply.
ReplyWithoutCount(w) ==
  /\ workerPc[w] = "process"
  /\ functors' = Append(functors, hand[w])
  /\ left' = [left EXCEPT ![w] = @ - 1]
  /\ workerPc' = [workerPc EXCEPT ![w] = "wakeup"]
  /\ UNCHANGED <<netVars, got, fdTable, sockfd, pollVars, signalled,
                 poolVars, status>>

\* sendInLoop: runInloop appends the functor under the mutex ...
QueueReply(w) ==
  /\ workerPc[w] = "process"
  /\ left[w] > 0
  /\ functors' = Append(functors, hand[w])
  /\ left' = [left EXCEPT ![w] = @ - 1]
  /\ workerPc' = [workerPc EXCEPT ![w] = "wakeup"]
  /\ UNCHANGED <<netVars, got, fdTable, sockfd, pollVars, signalled,
                 poolVars, status>>

\* Mutant: runInloop forgets wakeup().
WakeupForgotten(w) ==
  /\ workerPc[w] = "wakeup"
  /\ workerPc' = [workerPc EXCEPT ![w] = "process"]
  /\ UNCHANGED <<netVars, got, fdTable, sockfd, pollVars, loopVars,
                 poolVars, left, status>>

\* ... and then writes to the eventfd.
Wakeup(w) ==
  /\ workerPc[w] = "wakeup"
  /\ signalled' = TRUE
  /\ workerPc' = [workerPc EXCEPT ![w] = "process"]
  /\ UNCHANGED <<netVars, got, fdTable, sockfd, pollVars, functors,
                 poolVars, left, status>>

\* Mutants: the task deletes the connection it was given, or leaks it.
FinishTaskClosing(w) ==
  /\ workerPc[w] = "process"
  /\ left[w] = 0
  /\ Buffer!Finish(w)
  /\ workerPc' = [workerPc EXCEPT ![w] = "idle"]
  /\ fdTable' = [fdTable EXCEPT ![sockfd[hand[w][1]]] = NoClient]
  /\ UNCHANGED <<netVars, got, sockfd, pollVars, loopVars, left, status>>

FinishTaskLeaking(w) ==
  /\ workerPc[w] = "process"
  /\ left[w] = 0
  /\ Buffer!Finish(w)
  /\ workerPc' = [workerPc EXCEPT ![w] = "idle"]
  /\ UNCHANGED <<netVars, got, fdTable, sockfd, pollVars, loopVars, left,
                 status>>

\* delete ptask, and with it one reference to the connection.
FinishTask(w) ==
  /\ workerPc[w] = "process"
  /\ left[w] = 0
  /\ Buffer!Finish(w)
  /\ workerPc' = [workerPc EXCEPT ![w] = "idle"]
  /\ LET c == hand[w][1]
         others == LiveTasks \ {hand[w]}
     IN  fdTable' = IF InMap(c) \/ \E t \in others : t[1] = c THEN fdTable
                    ELSE [fdTable EXCEPT ![sockfd[c]] = NoClient]
  /\ UNCHANGED <<netVars, got, sockfd, pollVars, loopVars, left, status>>

-----------------------------------------------------------------------------
ClientStep(c) == Connect(c) \/ SendLine(c) \/ Close(c)

LoopStep ==
  \/ Poll \/ PollTimeout \/ BatchDone
  \/ HandleConnection \/ AcceptFails
  \/ \E fd \in Fds : HandleMessage(fd) \/ HandleClose(fd)
  \/ AddTask
  \/ HandleRead \/ SwapFunctors \/ RunFunctor \/ RunDangling \/ FunctorsDone

WorkerStep(w) == TakeTask(w) \/ QueueReply(w) \/ Wakeup(w) \/ FinishTask(w)

Next ==
  /\ status = "up"
  /\ \/ \E c \in Clients : ClientStep(c)
     \/ LoopStep
     \/ \E w \in Workers : WorkerStep(w)

Spec == Init /\ [][Next]_vars

\* The loop and the workers are scheduled; clients may stop at any point.
Fairness ==
  /\ WF_vars(status = "up" /\ LoopStep)
  /\ \A w \in Workers : WF_vars(status = "up" /\ WorkerStep(w))

FairSpec == Spec /\ Fairness

-----------------------------------------------------------------------------
(* Properties. *)

Replies == Clients \X (0..MaxQueries)

TypeOK ==
  /\ client \in [Clients -> {"new", "open", "closed"}]
  /\ sent \in [Clients -> 0..MaxQueries]
  /\ got \in [Clients -> 0..MaxQueries]
  /\ wire \in [Clients -> Seq(Replies)]
  /\ backlog \in Seq(Clients)
  /\ fdTable \in [Fds -> Clients \cup {NoClient}]
  /\ rejected \in [Clients -> BOOLEAN]
  /\ sockfd \in [Clients -> Fds \cup {NoFd}]
  /\ connMap \in [Fds -> Clients \cup {NoClient}]
  /\ functors \in Seq(Tasks)
  /\ signalled \in BOOLEAN
  /\ pc \in {"wait", "dispatch", "push", "swap", "run"}
  /\ ready \subseteq Fds \cup {Listenfd, Eventfd}
  /\ pending \in Tasks \cup {NoTask}
  /\ running \in Seq(Tasks)
  /\ queue \in Seq(Tasks)
  /\ Len(queue) \in 0..QueSize
  /\ hand \in [Workers -> Tasks \cup {NoTask}]
  /\ finished \subseteq Tasks
  /\ workerPc \in [Workers -> {"idle", "process", "wakeup"}]
  /\ left \in [Workers -> 0..MaxReplies]
  /\ status \in {"up", "exited", "aborted", "killed", "crashed"}

\* A descriptor stays open exactly as long as the map or a WordQuery refers
\* to its connection, whichever thread lets go last: none leaks and none is
\* closed, and reused by the kernel, under a live object.
DescriptorOwnership ==
  /\ \A fd \in Fds : fdTable[fd] # NoClient => sockfd[fdTable[fd]] = fd
  /\ \A fd \in Fds : connMap[fd] # NoClient => fdTable[fd] = connMap[fd]
  /\ \A c \in Clients :
       Alive(c) <=> InMap(c) \/ HeldByTask(c)

\* assert(ret.second == true) and assert(it != _connMap.end()) hold whatever
\* clients do: the kernel hands out no descriptor that is still in the map,
\* and no event of a batch outlives its connection.
AssertionsHold == status # "aborted"

\* Every event of the batch is still true when its turn comes: a descriptor
\* has a line to read or a closed peer.  handleMessage relies on it, because
\* its peek takes "nothing to read yet" for "closed".
EventsStayValid ==
  \A fd \in ready \cap Fds :
    /\ connMap[fd] # NoClient
    /\ got[connMap[fd]] < sent[connMap[fd]] \/ client[connMap[fd]] = "closed"

\* What the loop takes from epoll and from its map can be relied on: no assert
\* of EpollPoller fails, because no event of a batch has lost its connection
\* by the time it is handled.
LoopIsSafe ==
  /\ TypeOK
  /\ AssertionsHold
  /\ EventsStayValid

\* The loop closes a connection only after the peer did, and only when every
\* line it sent has been read.
ClosedOnlyByPeer ==
  [][\A c \in Clients :
       InMap(c) /\ ~InMap(c)' => client[c] = "closed" /\ got[c] = sent[c]]_vars

\* A reply never waits for a wakeup that is not coming: as long as functors
\* are pending, the eventfd is readable, or a worker is about to write it,
\* or the loop is about to swap.
WakeupNotLost ==
  functors # <<>> =>
    signalled \/ pc = "swap" \/ \E w \in Workers : workerPc[w] = "wakeup"

\* With patient clients and descriptors for all of them nothing ends the
\* server: no failed assertion, no SIGPIPE, no call on a destroyed object.
ServerStaysUp == status = "up"

\* Patient clients see QueryService: the greeting, then their own answers in
\* the order of their questions, with one worker as MainServer configures.
Service == INSTANCE QueryService
ImplementsService == Service!ServiceSpec

\* Every line a patient client sends is answered to that client.
EveryQueryAnswered ==
  \A c \in Clients, n \in 1..MaxQueries :
    sent[c] >= n ~> <<c, n>> \in ElementsOf(wire[c])

\* Once a client has hung up its descriptor is eventually closed for good.
DescriptorsReleased ==
  \A c \in Clients :
    client[c] = "closed" ~> (status # "up" \/ []~Alive(c))
=============================================================================
