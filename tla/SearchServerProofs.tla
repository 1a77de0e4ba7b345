------------------------ MODULE SearchServerProofs ------------------------
(***************************************************************************)
(* The server's safety for any clients, workers, descriptors and bounds,   *)
(* whether clients wait or hang up.  The invariant adds to the properties  *)
(* that every task is in one place only, that a connection which has not   *)
(* been accepted is nowhere in the server, and where the loop and the      *)
(* workers are when they hold a task.  With one worker and patient clients *)
(* the server implements QueryService (the last part).                     *)
(***************************************************************************)
EXTENDS SearchServer, FiniteSetTheorems, TLAPS

\* A thread holds a task exactly where its code does, and the listening
\* descriptor is ready only while a connection waits.
Places ==
  /\ pc = "push" <=> pending # NoTask
  /\ \A w \in Workers : workerPc[w] = "idle" <=> hand[w] = NoTask
  /\ Listenfd \in ready => backlog # <<>>

\* Every task that exists is in one place, and its line has been read.
OnePlace ==
  /\ \A k, l \in 1..Len(queue) : k # l => queue[k] # queue[l]
  /\ \A v, w \in Workers : v # w /\ hand[v] # NoTask => hand[v] # hand[w]
  /\ \A w \in Workers, k \in 1..Len(queue) : hand[w] # queue[k]
  /\ pending # NoTask =>
       /\ \A k \in 1..Len(queue) : queue[k] # pending
       /\ \A w \in Workers : hand[w] # pending
  /\ \A t \in LiveTasks : t[2] <= got[t[1]]

\* A client that has not connected, or not been accepted, has no object.
NotYetAlive ==
  /\ \A c \in Clients : client[c] = "new" \/ c \in ElementsOf(backlog) => ~Alive(c)
  /\ \A c \in Clients : client[c] = "new" => c \notin ElementsOf(backlog)
  /\ \A k, l \in 1..Len(backlog) : k # l => backlog[k] # backlog[l]

ReadWhatWasSent == \A c \in Clients : got[c] <= sent[c]

IInv ==
  /\ TypeOK
  /\ Places
  /\ OnePlace
  /\ NotYetAlive
  /\ ReadWhatWasSent
  /\ DescriptorOwnership
  /\ EventsStayValid
  /\ WakeupNotLost
  /\ AssertionsHold

-----------------------------------------------------------------------------
(* Sequences and tasks. *)

\* What push_back adds to a list.
LEMMA AppendElements ==
  ASSUME NEW S, NEW s \in Seq(S), NEW x \in S
  PROVE  ElementsOf(Append(s, x)) = ElementsOf(s) \cup {x}
<1>1. Append(s, x) \in Seq(S) /\ Len(Append(s, x)) = Len(s) + 1 /\ Len(s) \in Nat
  OBVIOUS
<1>2. \A k \in 1..Len(s) : Append(s, x)[k] = s[k]
  OBVIOUS
<1>3. Append(s, x)[Len(s) + 1] = x
  OBVIOUS
<1>4. ASSUME NEW e \in ElementsOf(Append(s, x)) PROVE e \in ElementsOf(s) \cup {x}
  <2>1. PICK k \in 1..Len(s) + 1 : e = Append(s, x)[k]
    BY <1>1, <1>4 DEF ElementsOf
  <2> QED
    BY <2>1, <1>1, <1>2, <1>3 DEF ElementsOf
<1>5. ASSUME NEW e \in ElementsOf(s) \cup {x} PROVE e \in ElementsOf(Append(s, x))
  BY <1>1, <1>2, <1>3, <1>5 DEF ElementsOf
<1> QED
  BY <1>4, <1>5

\* What is left of a list without its first element.
LEMMA TailElements ==
  ASSUME NEW S, NEW s \in Seq(S), s # <<>>
  PROVE  /\ Head(s) \in S /\ Tail(s) \in Seq(S)
         /\ ElementsOf(s) = ElementsOf(Tail(s)) \cup {Head(s)}
<1>1. Len(s) \in Nat /\ Len(s) > 0 /\ Len(Tail(s)) = Len(s) - 1 /\ Head(s) = s[1]
  OBVIOUS
<1>2. Head(s) \in S /\ Tail(s) \in Seq(S)
  OBVIOUS
<1>3. \A k \in 1..Len(s) - 1 : Tail(s)[k] = s[k + 1]
  OBVIOUS
<1>4. ASSUME NEW e \in ElementsOf(s) PROVE e \in ElementsOf(Tail(s)) \cup {Head(s)}
  <2>1. PICK k \in 1..Len(s) : e = s[k]
    BY <1>4 DEF ElementsOf
  <2>2. CASE k = 1
    BY <2>1, <2>2, <1>1
  <2>3. CASE k # 1
    <3>1. k - 1 \in 1..Len(s) - 1 /\ Tail(s)[k - 1] = s[k]
      BY <2>3, <1>1, <1>3
    <3> QED
      BY <3>1, <2>1, <1>1 DEF ElementsOf
  <2> QED
    BY <2>2, <2>3
<1>5. ASSUME NEW e \in ElementsOf(Tail(s)) \cup {Head(s)} PROVE e \in ElementsOf(s)
  <2>1. CASE e = Head(s)
    BY <2>1, <1>1 DEF ElementsOf
  <2>2. CASE e \in ElementsOf(Tail(s))
    <3>1. PICK k \in 1..Len(s) - 1 : e = Tail(s)[k]
      BY <2>2, <1>1 DEF ElementsOf
    <3>2. k + 1 \in 1..Len(s) /\ e = s[k + 1]
      BY <3>1, <1>1, <1>3
    <3> QED
      BY <3>2 DEF ElementsOf
  <2> QED
    BY <1>5, <2>1, <2>2
<1> QED
  BY <1>2, <1>4, <1>5

\* The tasks in existence, one by one.
LEMMA LiveTask ==
  \A t : t \in LiveTasks <=>
    t # NoTask /\ (t = pending \/ t \in ElementsOf(queue) \/ \E w \in Workers : t = hand[w])
BY DEF LiveTasks

\* The same after a step.
LEMMA LiveTaskPrimed ==
  \A t : t \in LiveTasks' <=>
    t # NoTask /\ (t = pending' \/ t \in ElementsOf(queue') \/ \E w \in Workers : t = hand'[w])
BY DEF LiveTasks, ElementsOf

\* The tasks in existence are tasks.
LEMMA LiveTypes == ASSUME TypeOK PROVE LiveTasks \subseteq Tasks
<1>1. ElementsOf(queue) \subseteq Tasks
  BY DEF TypeOK, ElementsOf
<1>2. pending \in Tasks \cup {NoTask} /\ \A w \in Workers : hand[w] \in Tasks \cup {NoTask}
  BY DEF TypeOK
<1>3. ASSUME NEW t \in LiveTasks PROVE t \in Tasks
  BY <1>1, <1>2, <1>3, LiveTask
<1> QED
  BY <1>3

\* A step that moves no task keeps the set of them.
LEMMA SameTasks ==
  ASSUME UNCHANGED <<pending, queue, hand>> PROVE LiveTasks' = LiveTasks
BY DEF LiveTasks, ElementsOf

\* onMessage creates one task.
LEMMA NewTask ==
  ASSUME pending = NoTask, pending' # NoTask, UNCHANGED <<queue, hand>>
  PROVE  LiveTasks' = LiveTasks \cup {pending'}
BY LiveTask, LiveTaskPrimed DEF ElementsOf

\* addTask moves a task to the queue.
LEMMA AddedTask ==
  ASSUME TypeOK, Places, AddTask
  PROVE  /\ LiveTasks' = LiveTasks
         /\ pending \in Tasks /\ pending' = NoTask /\ queue' = Append(queue, pending) /\ hand' = hand
<1>1. pending \in Tasks /\ pending # NoTask
  BY DEF TypeOK, Places, AddTask
<1>2. pending' = NoTask /\ queue' = Append(queue, pending) /\ hand' = hand
  BY DEF AddTask, Buffer!Put
<1>3. ElementsOf(queue') = ElementsOf(queue) \cup {pending}
  BY <1>1, <1>2, AppendElements DEF TypeOK
<1>4. \A t : t \in LiveTasks' <=> t \in LiveTasks
  BY <1>1, <1>2, <1>3, LiveTask, LiveTaskPrimed
<1> QED
  BY <1>1, <1>2, <1>4

\* getTask moves a task to a worker.
LEMMA TakenTask ==
  ASSUME TypeOK, NEW w \in Workers, TakeTask(w)
  PROVE  /\ LiveTasks' = LiveTasks
         /\ Head(queue) \in Tasks /\ queue # <<>> /\ hand[w] = NoTask
         /\ queue' = Tail(queue) /\ hand' = [hand EXCEPT ![w] = Head(queue)]
         /\ ElementsOf(queue) = ElementsOf(queue') \cup {Head(queue)}
         /\ pending' = pending
<1>1. /\ queue # <<>> /\ hand[w] = NoTask /\ pending' = pending
      /\ queue' = Tail(queue) /\ hand' = [hand EXCEPT ![w] = Head(queue)]
  BY DEF TakeTask, Buffer!Take, pollVars
<1>2. Head(queue) \in Tasks /\ ElementsOf(queue) = ElementsOf(queue') \cup {Head(queue)}
  BY <1>1, TailElements DEF TypeOK
<1>3. hand'[w] = Head(queue) /\ \A v \in Workers \ {w} : hand'[v] = hand[v]
  BY <1>1 DEF TypeOK
<1>4. \A t : t \in LiveTasks' <=> t \in LiveTasks
  BY <1>1, <1>2, <1>3, LiveTask, LiveTaskPrimed
<1> QED
  BY <1>1, <1>2, <1>4

\* delete ptask removes the worker's task and no other.
LEMMA FinishedTask ==
  ASSUME TypeOK, Places, OnePlace, NEW w \in Workers, FinishTask(w)
  PROVE  /\ LiveTasks' = LiveTasks \ {hand[w]}
         /\ hand[w] \in LiveTasks /\ hand[w] \in Tasks
         /\ queue' = queue /\ pending' = pending /\ hand' = [hand EXCEPT ![w] = NoTask]
<1>1. /\ hand[w] # NoTask /\ queue' = queue /\ pending' = pending
      /\ hand' = [hand EXCEPT ![w] = NoTask]
  BY DEF FinishTask, Buffer!Finish, pollVars
<1>2. hand'[w] = NoTask /\ \A v \in Workers \ {w} : hand'[v] = hand[v]
  BY <1>1 DEF TypeOK
<1>3. /\ pending # hand[w]
      /\ hand[w] \notin ElementsOf(queue)
      /\ \A v \in Workers \ {w} : hand[v] # hand[w]
  BY <1>1 DEF OnePlace, ElementsOf
<1>4. \A t : t \in LiveTasks' <=> t \in LiveTasks /\ t # hand[w]
  BY <1>1, <1>2, <1>3, LiveTask, LiveTaskPrimed
<1> QED
  BY <1>1, <1>4, LiveTask DEF TypeOK

-----------------------------------------------------------------------------
(* The beginning. *)

\* The invariant holds before the first connection.
LEMMA InitIInv == ServerAssumption /\ Init => IInv
<1> SUFFICES ASSUME ServerAssumption, Init PROVE IInv
  OBVIOUS
<1>1. /\ backlog = <<>> /\ queue = <<>> /\ functors = <<>> /\ running = <<>>
      /\ pending = NoTask /\ ready = {} /\ pc = "wait" /\ status = "up"
      /\ hand = [w \in Workers |-> NoTask] /\ workerPc = [w \in Workers |-> "idle"]
      /\ fdTable = [fd \in Fds |-> NoClient] /\ connMap = [fd \in Fds |-> NoClient]
  BY DEF Init, Buffer!BufferInit
<1>2. /\ MaxQueries \in Nat /\ MaxReplies \in Nat /\ QueSize \in Nat
      /\ NoClient \notin Clients
  BY DEF ServerAssumption
<1>3. ElementsOf(queue) = {} /\ ElementsOf(backlog) = {}
  BY <1>1 DEF ElementsOf
<1>4. LiveTasks = {}
  BY <1>1, <1>3, LiveTask
<1>5. TypeOK
  <2>1. /\ wire \in [Clients -> Seq(Replies)]
        /\ sent \in [Clients -> 0..MaxQueries] /\ got \in [Clients -> 0..MaxQueries]
        /\ left \in [Workers -> 0..MaxReplies]
    BY <1>2 DEF Init
  <2>2. /\ backlog \in Seq(Clients) /\ queue \in Seq(Tasks) /\ functors \in Seq(Tasks)
        /\ running \in Seq(Tasks) /\ Len(queue) \in 0..QueSize /\ finished \subseteq Tasks
    BY <1>1, <1>2 DEF Init, Buffer!BufferInit
  <2> QED
    BY <1>1, <2>1, <2>2 DEF TypeOK, Init
<1>6. Places
  BY <1>1 DEF Places
<1>7. OnePlace
  BY <1>1, <1>4 DEF OnePlace
<1>8. \A c \in Clients : ~Alive(c) /\ ~InMap(c) /\ ~HeldByTask(c)
  BY <1>1, <1>2, <1>4 DEF Alive, InMap, HeldByTask
<1>9. NotYetAlive
  BY <1>1, <1>3, <1>8 DEF NotYetAlive
<1>10. ReadWhatWasSent
  BY DEF ReadWhatWasSent, Init
<1>11. DescriptorOwnership
  BY <1>1, <1>8 DEF DescriptorOwnership
<1>12. EventsStayValid /\ WakeupNotLost /\ AssertionsHold
  BY <1>1 DEF EventsStayValid, WakeupNotLost, AssertionsHold
<1> QED
  BY <1>5, <1>6, <1>7, <1>9, <1>10, <1>11, <1>12 DEF IInv

-----------------------------------------------------------------------------
(* Types. *)

\* SocketIO::writen, to any descriptor.
LEMMA WriteTypes ==
  ASSUME TypeOK, NEW c, NEW message \in Replies, Write(c, message)
  PROVE  /\ wire' \in [Clients -> Seq(Replies)]
         /\ rejected' \in [Clients -> BOOLEAN]
         /\ status' \in {"up", "killed"} \cup {status}
<1>1. CASE wire' = [wire EXCEPT ![c] = Append(@, message)] /\ UNCHANGED <<rejected, status>>
  <2>1. \A d \in Clients : wire[d] \in Seq(Replies) /\ Append(wire[d], message) \in Seq(Replies)
    BY DEF TypeOK
  <2>2. wire' \in [Clients -> Seq(Replies)]
    BY <1>1, <2>1 DEF TypeOK
  <2> QED
    BY <1>1, <2>2 DEF TypeOK
<1>2. CASE rejected' = [rejected EXCEPT ![c] = TRUE] /\ UNCHANGED <<wire, status>>
  BY <1>2, Zenon DEF TypeOK
<1>3. CASE status' = "killed" /\ UNCHANGED <<wire, rejected>>
  BY <1>3 DEF TypeOK
<1> QED
  BY <1>1, <1>2, <1>3 DEF Write

\* The steps of a client.
LEMMA ClientTypes ==
  ASSUME TypeOK, ServerAssumption, NEW c \in Clients, ClientStep(c) PROVE TypeOK'
<1>1. CASE Connect(c)
  <2>1. backlog' \in Seq(Clients) /\ client' \in [Clients -> {"new", "open", "closed"}]
    BY <1>1 DEF Connect, TypeOK
  <2> QED
    BY <1>1, <2>1 DEF Connect, TypeOK, pollVars, loopVars, poolVars, workerVars
<1>2. CASE SendLine(c)
  <2>1. sent' \in [Clients -> 0..MaxQueries]
    BY <1>2 DEF SendLine, TypeOK, ServerAssumption
  <2> QED
    BY <1>2, <2>1 DEF SendLine, TypeOK, pollVars, loopVars, poolVars, workerVars
<1>3. CASE Close(c)
  <2>1. client' \in [Clients -> {"new", "open", "closed"}]
    BY <1>3 DEF Close, TypeOK
  <2> QED
    BY <1>3, <2>1 DEF Close, TypeOK, pollVars, loopVars, poolVars, workerVars
<1> QED
  BY <1>1, <1>2, <1>3 DEF ClientStep

\* Accepting keeps the types.
LEMMA HandleConnectionTypes ==
  ASSUME TypeOK, Places, ServerAssumption, HandleConnection PROVE TypeOK'
<1>1. backlog # <<>> /\ Head(backlog) \in Clients /\ Tail(backlog) \in Seq(Clients)
  BY TailElements DEF HandleConnection, Places, TypeOK
<1> DEFINE c == Head(backlog)
<1>2. PICK fd \in Fds :
        /\ sockfd' = [sockfd EXCEPT ![c] = fd]
        /\ fdTable' = [fdTable EXCEPT ![fd] = c]
        /\ IF connMap[fd] = NoClient
           THEN /\ connMap' = [connMap EXCEPT ![fd] = c]
                /\ Write(c, <<c, 0>>)
           ELSE /\ status' = "aborted"
                /\ UNCHANGED <<connMap, wire, rejected>>
  BY DEF HandleConnection
<1>3. /\ backlog' = Tail(backlog) /\ ready' = ready \ {Listenfd}
      /\ UNCHANGED <<client, sent, got, pc, pending, running, loopVars, poolVars, workerVars>>
  BY DEF HandleConnection
<1>4. sockfd' \in [Clients -> Fds \cup {NoFd}] /\ fdTable' \in [Fds -> Clients \cup {NoClient}]
  BY <1>1, <1>2 DEF TypeOK
<1>5. <<c, 0>> \in Replies
  BY <1>1 DEF Replies, ServerAssumption
<1>6. /\ connMap' \in [Fds -> Clients \cup {NoClient}]
      /\ wire' \in [Clients -> Seq(Replies)] /\ rejected' \in [Clients -> BOOLEAN]
      /\ status' \in {"up", "exited", "aborted", "killed", "crashed"}
  <2>1. CASE connMap[fd] = NoClient
    <3>1. Write(c, <<c, 0>>) /\ connMap' = [connMap EXCEPT ![fd] = c]
      BY <1>2, <2>1
    <3>2. wire' \in [Clients -> Seq(Replies)] /\ rejected' \in [Clients -> BOOLEAN]
            /\ status' \in {"up", "killed"} \cup {status}
      BY <1>5, <3>1, WriteTypes
    <3> QED
      BY <1>1, <3>1, <3>2 DEF TypeOK
  <2>2. CASE connMap[fd] # NoClient
    BY <1>2, <2>2 DEF TypeOK
  <2> QED
    BY <2>1, <2>2
<1> QED
  BY <1>1, <1>3, <1>4, <1>6 DEF TypeOK, loopVars, poolVars, workerVars

\* Reading a line keeps the types; the new task is the next line's.
LEMMA HandleMessageTypes ==
  ASSUME TypeOK, ServerAssumption, NEW fd \in Fds, HandleMessage(fd)
  PROVE  TypeOK' /\ pending' \in Tasks /\ pending' = <<fdTable[fd], got[fdTable[fd]] + 1>>
<1> DEFINE c == fdTable[fd]
<1>1. c \in Clients /\ got[c] < sent[c] /\ got[c] \in Nat /\ sent[c] \in 0..MaxQueries
  BY DEF HandleMessage, HasLine, TypeOK, ServerAssumption
<1>2. got[c] + 1 \in 1..MaxQueries
  BY <1>1 DEF ServerAssumption
<1>3. got' \in [Clients -> 0..MaxQueries] /\ pending' \in Tasks /\ pending' = <<c, got[c] + 1>>
  BY <1>1, <1>2 DEF HandleMessage, TypeOK, Tasks
<1>4. status' \in {"up", "exited", "aborted", "killed", "crashed"}
  BY DEF HandleMessage, AfterAssert, TypeOK
<1> QED
  BY <1>3, <1>4 DEF HandleMessage, TypeOK, netVars, loopVars, poolVars, workerVars

\* Closing keeps the types.
LEMMA HandleCloseTypes ==
  ASSUME TypeOK, ServerAssumption, NEW fd \in Fds, HandleClose(fd) PROVE TypeOK'
<1>1. fdTable' \in [Fds -> Clients \cup {NoClient}] /\ connMap' \in [Fds -> Clients \cup {NoClient}]
  BY DEF HandleClose, TypeOK
<1>2. status' \in {"up", "exited", "aborted", "killed", "crashed"}
  BY DEF HandleClose, AfterAssert, TypeOK
<1> QED
  BY <1>1, <1>2 DEF HandleClose, TypeOK, netVars, loopVars, poolVars, workerVars

\* addTask keeps the types and the bound of the queue.
LEMMA AddTaskTypes == ASSUME TypeOK, Places, ServerAssumption, AddTask PROVE TypeOK'
<1>1. pending \in Tasks /\ pending' = NoTask /\ queue' = Append(queue, pending) /\ hand' = hand
  BY AddedTask
<1>2. Len(queue) < QueSize /\ finished' = finished /\ pc' = "dispatch"
  BY DEF AddTask, Buffer!Put
<1>3. queue' \in Seq(Tasks) /\ Len(queue') \in 0..QueSize
  BY <1>1, <1>2 DEF TypeOK, ServerAssumption
<1> QED
  BY <1>1, <1>2, <1>3 DEF AddTask, TypeOK, netVars, loopVars, workerVars

\* A functor that runs, on a connection or on what is left of one.
LEMMA RunTypes == ASSUME TypeOK, RunFunctor \/ RunDangling PROVE TypeOK'
<1>1. Head(running) \in Tasks /\ Tail(running) \in Seq(Tasks) /\ running' = Tail(running)
  BY TailElements DEF RunFunctor, RunDangling, TypeOK
<1>2. Head(running) \in Replies
  BY <1>1 DEF Tasks, Replies
<1>3. /\ wire' \in [Clients -> Seq(Replies)] /\ rejected' \in [Clients -> BOOLEAN]
      /\ status' \in {"up", "exited", "aborted", "killed", "crashed"}
  <2>1. CASE \E c : Write(c, Head(running))
    <3>1. PICK c : Write(c, Head(running))
      BY <2>1
    <3>2. wire' \in [Clients -> Seq(Replies)] /\ rejected' \in [Clients -> BOOLEAN]
            /\ status' \in {"up", "killed"} \cup {status}
      BY <3>1, <1>2, WriteTypes
    <3> QED
      BY <3>2 DEF TypeOK
  <2>2. CASE UNCHANGED <<wire, rejected>> /\ status' \in {status, "crashed"}
    BY <2>2 DEF TypeOK
  <2> QED
    BY <2>1, <2>2 DEF RunFunctor, RunDangling
<1>4. UNCHANGED <<client, sent, backlog, got, fdTable, sockfd, connMap, pc, ready, pending, loopVars, poolVars, workerVars>>
  BY DEF RunFunctor, RunDangling
<1> QED
  BY <1>1, <1>3, <1>4 DEF TypeOK, loopVars, poolVars, workerVars

\* The handlers without arguments keep the types.
LEMMA OtherLoopTypes ==
  ASSUME TypeOK, ServerAssumption,
         Poll \/ PollTimeout \/ BatchDone \/ AcceptFails \/ HandleRead \/ SwapFunctors \/ FunctorsDone
  PROVE  TypeOK'
<1>1. CASE Poll
  <2>1. ready' \subseteq Fds \cup {Listenfd, Eventfd}
    BY <1>1 DEF Poll, ReadyEvents
  <2> QED
    BY <1>1, <2>1 DEF Poll, TypeOK, netVars, loopVars, poolVars, workerVars
<1>2. CASE PollTimeout
  BY <1>2 DEF PollTimeout, TypeOK, vars, netVars, pollVars, loopVars, poolVars, workerVars
<1>3. CASE BatchDone
  BY <1>3 DEF BatchDone, TypeOK, netVars, loopVars, poolVars, workerVars
<1>4. CASE AcceptFails
  BY <1>4 DEF AcceptFails, TypeOK, netVars, pollVars, loopVars, poolVars, workerVars
<1>5. CASE HandleRead
  BY <1>5 DEF HandleRead, TypeOK, netVars, poolVars, workerVars
<1>6. CASE SwapFunctors
  <2>1. functors' = <<>> /\ functors' \in Seq(Tasks) /\ running' = functors
    BY <1>6 DEF SwapFunctors
  <2> QED
    BY <1>6, <2>1 DEF SwapFunctors, TypeOK, netVars, poolVars, workerVars
<1>7. CASE FunctorsDone
  BY <1>7 DEF FunctorsDone, TypeOK, netVars, loopVars, poolVars, workerVars
<1> QED
  BY <1>1, <1>2, <1>3, <1>4, <1>5, <1>6, <1>7

\* The steps of a worker keep the types.
LEMMA WorkerTypes ==
  ASSUME TypeOK, Places, OnePlace, ServerAssumption, NEW w \in Workers, WorkerStep(w) PROVE TypeOK'
<1>1. CASE TakeTask(w)
  <2>1. /\ Head(queue) \in Tasks /\ queue # <<>>
        /\ queue' = Tail(queue) /\ hand' = [hand EXCEPT ![w] = Head(queue)]
    BY <1>1, TakenTask
  <2>2. Tail(queue) \in Seq(Tasks) /\ Len(queue') \in 0..QueSize
    BY <2>1 DEF TypeOK
  <2>3. PICK n \in 1..MaxReplies : left' = [left EXCEPT ![w] = n]
    BY <1>1 DEF TakeTask
  <2>4. left' \in [Workers -> 0..MaxReplies] /\ hand' \in [Workers -> Tasks \cup {NoTask}]
    BY <2>1, <2>3 DEF TypeOK
  <2>5. workerPc' \in [Workers -> {"idle", "process", "wakeup"}] /\ finished' = finished
    BY <1>1 DEF TakeTask, Buffer!Take, TypeOK
  <2> QED
    BY <1>1, <2>1, <2>2, <2>4, <2>5 DEF TakeTask, TypeOK, netVars, pollVars, loopVars
<1>2. CASE QueueReply(w)
  <2>1. hand[w] \in Tasks
    BY <1>2 DEF QueueReply, Places, TypeOK
  <2>2. functors' \in Seq(Tasks)
    BY <1>2, <2>1 DEF QueueReply, TypeOK
  <2>3. left[w] \in 1..MaxReplies
    BY <1>2 DEF QueueReply, TypeOK, ServerAssumption
  <2>4. left' \in [Workers -> 0..MaxReplies] /\ workerPc' \in [Workers -> {"idle", "process", "wakeup"}]
    BY <1>2, <2>3 DEF QueueReply, TypeOK, ServerAssumption
  <2> QED
    BY <1>2, <2>2, <2>4 DEF QueueReply, TypeOK, netVars, pollVars, poolVars
<1>3. CASE Wakeup(w)
  <2>1. workerPc' \in [Workers -> {"idle", "process", "wakeup"}]
    BY <1>3 DEF Wakeup, TypeOK
  <2> QED
    BY <1>3, <2>1 DEF Wakeup, TypeOK, netVars, pollVars, poolVars
<1>4. CASE FinishTask(w)
  <2>1. hand[w] \in Tasks /\ queue' = queue /\ hand' = [hand EXCEPT ![w] = NoTask]
    BY <1>4, FinishedTask
  <2>2. finished' \subseteq Tasks /\ hand' \in [Workers -> Tasks \cup {NoTask}]
    BY <1>4, <2>1 DEF FinishTask, Buffer!Finish, TypeOK
  <2>3. workerPc' \in [Workers -> {"idle", "process", "wakeup"}]
    BY <1>4 DEF FinishTask, TypeOK
  <2>4. fdTable' \in [Fds -> Clients \cup {NoClient}]
    BY <1>4 DEF FinishTask, TypeOK
  <2> QED
    BY <1>4, <2>1, <2>2, <2>3, <2>4 DEF FinishTask, TypeOK, netVars, pollVars, loopVars
<1> QED
  BY <1>1, <1>2, <1>3, <1>4 DEF WorkerStep

\* Every step keeps the types.
LEMMA TypeStep == ASSUME IInv, ServerAssumption, Next PROVE TypeOK'
BY ClientTypes, HandleConnectionTypes, HandleMessageTypes, HandleCloseTypes, AddTaskTypes, RunTypes,
   OtherLoopTypes, WorkerTypes DEF IInv, Next, LoopStep

-----------------------------------------------------------------------------
(* Where threads hold tasks, and what has been read. *)

\* A thread keeps its task as long as its code does.
LEMMA PlacesStep == ASSUME IInv, ServerAssumption, Next PROVE Places'
<1> USE DEF IInv
<1>1. \A t : t \in Tasks => t # NoTask
  BY DEF ServerAssumption, Tasks
<1>2. ASSUME NEW c \in Clients, ClientStep(c) PROVE Places'
  <2>1. backlog # <<>> => backlog' # <<>>
    BY <1>2 DEF ClientStep, Connect, SendLine, Close, TypeOK
  <2> QED
    BY <1>2, <2>1 DEF ClientStep, Connect, SendLine, Close, Places, Listenfd, pollVars, poolVars, workerVars
<1>3. CASE HandleConnection
  BY <1>3 DEF HandleConnection, Places, Listenfd, poolVars, workerVars
<1>4. ASSUME NEW fd \in Fds, HandleMessage(fd) PROVE Places'
  <2>1. pending' \in Tasks /\ pc' = "push"
    BY <1>4, HandleMessageTypes DEF HandleMessage
  <2> QED
    BY <1>1, <1>4, <2>1 DEF HandleMessage, Places, Listenfd, netVars, poolVars, workerVars
<1>5. ASSUME NEW fd \in Fds, HandleClose(fd) PROVE Places'
  BY <1>5 DEF HandleClose, Places, Listenfd, netVars, poolVars, workerVars
<1>6. CASE AddTask
  <2>1. pending' = NoTask /\ hand' = hand
    BY <1>6, AddedTask
  <2> QED
    BY <1>6, <2>1 DEF AddTask, Places, Listenfd, netVars, workerVars
<1>7. CASE Poll
  BY <1>7 DEF Poll, ReadyEvents, Places, Fds, Listenfd, Eventfd, ServerAssumption, netVars, poolVars, workerVars
<1>8. CASE PollTimeout \/ BatchDone \/ AcceptFails
  BY <1>8 DEF PollTimeout, BatchDone, AcceptFails, Places, Listenfd, vars, netVars, pollVars, poolVars, workerVars
<1>9. CASE HandleRead \/ SwapFunctors \/ FunctorsDone
  BY <1>9 DEF HandleRead, SwapFunctors, FunctorsDone, Places, Listenfd, netVars, poolVars, workerVars
<1>10. CASE RunFunctor \/ RunDangling
  BY <1>10 DEF RunFunctor, RunDangling, Places, Listenfd, poolVars, workerVars
<1>11. ASSUME NEW w \in Workers, TakeTask(w) PROVE Places'
  <2>1. Head(queue) # NoTask /\ hand' = [hand EXCEPT ![w] = Head(queue)]
    BY <1>1, <1>11, TakenTask
  <2> QED
    BY <1>11, <2>1 DEF TakeTask, Places, TypeOK, Listenfd, netVars, pollVars
<1>12. ASSUME NEW w \in Workers, FinishTask(w) PROVE Places'
  <2>1. hand' = [hand EXCEPT ![w] = NoTask]
    BY <1>12, FinishedTask
  <2> QED
    BY <1>12, <2>1 DEF FinishTask, Places, TypeOK, Listenfd, netVars, pollVars
<1>13. ASSUME NEW w \in Workers, QueueReply(w) \/ Wakeup(w) PROVE Places'
  BY <1>13 DEF QueueReply, Wakeup, Places, TypeOK, Listenfd, netVars, pollVars, poolVars
<1> QED
  BY <1>2, <1>3, <1>4, <1>5, <1>6, <1>7, <1>8, <1>9, <1>10, <1>11, <1>12, <1>13
     DEF Next, LoopStep, WorkerStep

\* Lines are read after they were sent, and by handleMessage only.
LEMMA ReadStep == ASSUME IInv, Next PROVE ReadWhatWasSent'
<1> USE DEF IInv
<1>1. ASSUME NEW c \in Clients, ClientStep(c) PROVE ReadWhatWasSent'
  <2>1. CASE SendLine(c)
    <3>1. got' = got /\ \A d \in Clients : sent[d] \in Nat /\ got[d] \in Nat /\ sent'[d] \in {sent[d], sent[d] + 1}
      BY <2>1 DEF SendLine, TypeOK
    <3> QED
      BY <3>1 DEF ReadWhatWasSent
  <2>2. CASE Connect(c) \/ Close(c)
    BY <2>2 DEF Connect, Close, ReadWhatWasSent
  <2> QED
    BY <1>1, <2>1, <2>2 DEF ClientStep
<1>2. ASSUME NEW fd \in Fds, HandleMessage(fd) PROVE ReadWhatWasSent'
  BY <1>2 DEF HandleMessage, HasLine, ReadWhatWasSent, TypeOK, netVars
<1>3. ASSUME UNCHANGED <<got, sent>> PROVE ReadWhatWasSent'
  BY <1>3 DEF ReadWhatWasSent
<1> QED
  BY <1>1, <1>2, <1>3
     DEF Next, LoopStep, WorkerStep, Poll, PollTimeout, BatchDone, HandleConnection, AcceptFails, HandleClose,
         AddTask, HandleRead, SwapFunctors, RunFunctor, RunDangling, FunctorsDone,
         TakeTask, QueueReply, Wakeup, FinishTask, vars, netVars

-----------------------------------------------------------------------------
(* The eventfd. *)

\* No step loses the wakeup of a pending functor.
LEMMA WakeupStep == ASSUME IInv, Next PROVE WakeupNotLost'
<1> USE DEF IInv
<1>1. ASSUME NEW w \in Workers, WorkerStep(w) PROVE WakeupNotLost'
  <2>1. CASE TakeTask(w)
    BY <2>1 DEF TakeTask, WakeupNotLost, TypeOK, pollVars, loopVars
  <2>2. CASE QueueReply(w)
    BY <2>2 DEF QueueReply, WakeupNotLost, TypeOK
  <2>3. CASE Wakeup(w)
    BY <2>3 DEF Wakeup, WakeupNotLost
  <2>4. CASE FinishTask(w)
    BY <2>4 DEF FinishTask, WakeupNotLost, TypeOK, pollVars, loopVars
  <2> QED
    BY <1>1, <2>1, <2>2, <2>3, <2>4 DEF WorkerStep
<1>2. CASE HandleRead
  BY <1>2 DEF HandleRead, WakeupNotLost
<1>3. CASE SwapFunctors
  BY <1>3 DEF SwapFunctors, WakeupNotLost
<1>4. ASSUME UNCHANGED <<loopVars, workerPc>>, pc = "swap" => pc' = "swap" PROVE WakeupNotLost'
  BY <1>4 DEF WakeupNotLost, loopVars
<1>5. ASSUME NEW c \in Clients, ClientStep(c) PROVE WakeupNotLost'
  BY <1>4, <1>5 DEF ClientStep, Connect, SendLine, Close, pollVars, workerVars
<1> QED
  BY <1>1, <1>2, <1>3, <1>4, <1>5
     DEF Next, LoopStep, Poll, PollTimeout, BatchDone, HandleConnection, AcceptFails, HandleMessage, HandleClose,
         AddTask, RunFunctor, RunDangling, FunctorsDone, vars, pollVars, workerVars

-----------------------------------------------------------------------------
(* Connections and their descriptors. *)

\* A connection has at most one descriptor.
LEMMA OneDescriptor ==
  ASSUME DescriptorOwnership, NEW fd \in Fds, NEW other \in Fds,
         fdTable[fd] # NoClient, fdTable[fd] = fdTable[other]
  PROVE  fd = other
BY DEF DescriptorOwnership

\* An event of the batch leads to the connection that has the descriptor.
LEMMA ReadyConnection ==
  ASSUME IInv, NEW fd \in ready \cap Fds
  PROVE  connMap[fd] \in Clients /\ fdTable[fd] = connMap[fd]
BY DEF IInv, TypeOK, EventsStayValid, DescriptorOwnership

\* No step fails an assertion.
LEMMA AssertionStep == ASSUME IInv, ServerAssumption, Next PROVE AssertionsHold'
<1> USE DEF IInv
<1>1. CASE HandleConnection
  <2>1. PICK fd \in Fds :
          /\ LowestFree(fd)
          /\ IF connMap[fd] = NoClient THEN Write(Head(backlog), <<Head(backlog), 0>>) ELSE status' = "aborted"
    BY <1>1 DEF HandleConnection
  <2>2. connMap[fd] = NoClient
    BY <2>1 DEF LowestFree, FreeFds, DescriptorOwnership
  <2> QED
    BY <2>1, <2>2 DEF Next, Write, AssertionsHold
<1>2. ASSUME NEW fd \in Fds, HandleMessage(fd) \/ HandleClose(fd) PROVE AssertionsHold'
  <2>1. connMap[fd] # NoClient
    BY <1>2, ReadyConnection DEF HandleMessage, HandleClose, ServerAssumption
  <2> QED
    BY <1>2, <2>1 DEF HandleMessage, HandleClose, AfterAssert, AssertionsHold
<1>3. CASE RunFunctor \/ RunDangling
  BY <1>3 DEF RunFunctor, RunDangling, Write, AssertionsHold
<1>4. CASE AcceptFails
  BY <1>4 DEF AcceptFails, AssertionsHold
<1>5. ASSUME UNCHANGED status PROVE AssertionsHold'
  BY <1>5 DEF AssertionsHold
<1> QED
  BY <1>1, <1>2, <1>3, <1>4, <1>5
     DEF Next, ClientStep, LoopStep, WorkerStep, Connect, SendLine, Close, Poll, PollTimeout, BatchDone,
         AddTask, HandleRead, SwapFunctors, FunctorsDone, TakeTask, QueueReply, Wakeup, FinishTask, vars

\* The connection that handleConnection accepts: it was nowhere, and it gets a
\* descriptor that is in neither table.
LEMMA Accepted ==
  ASSUME IInv, ServerAssumption, HandleConnection
  PROVE  \E fd \in Fds, c \in Clients :
           /\ c = Head(backlog) /\ backlog # <<>>
           /\ c \in ElementsOf(backlog) /\ client[c] # "new"
           /\ ~Alive(c) /\ ~InMap(c) /\ ~HeldByTask(c)
           /\ fdTable[fd] = NoClient /\ connMap[fd] = NoClient
           /\ sockfd' = [sockfd EXCEPT ![c] = fd]
           /\ fdTable' = [fdTable EXCEPT ![fd] = c]
           /\ connMap' = [connMap EXCEPT ![fd] = c]
<1> USE DEF IInv
<1> DEFINE c == Head(backlog)
<1>1. backlog # <<>> /\ c \in Clients /\ c \in ElementsOf(backlog)
  BY TailElements DEF HandleConnection, Places, TypeOK
<1>2. PICK fd \in Fds :
        /\ LowestFree(fd)
        /\ sockfd' = [sockfd EXCEPT ![c] = fd]
        /\ fdTable' = [fdTable EXCEPT ![fd] = c]
        /\ IF connMap[fd] = NoClient THEN connMap' = [connMap EXCEPT ![fd] = c] ELSE TRUE
  BY DEF HandleConnection
<1>3. fdTable[fd] = NoClient /\ connMap[fd] = NoClient
  BY <1>2 DEF LowestFree, FreeFds, DescriptorOwnership
<1>4. client[c] # "new" /\ ~Alive(c)
  BY <1>1 DEF NotYetAlive
<1>5. ~InMap(c) /\ ~HeldByTask(c)
  BY <1>1, <1>4 DEF DescriptorOwnership
<1> QED
  BY <1>1, <1>2, <1>3, <1>4, <1>5

\* What leaves the loop's tables and the tasks alone keeps the ownership.
LEMMA OwnershipFrame ==
  ASSUME DescriptorOwnership, UNCHANGED <<fdTable, sockfd, connMap>>, LiveTasks' = LiveTasks
  PROVE  DescriptorOwnership'
BY DEF DescriptorOwnership, Alive, InMap, HeldByTask

\* A new connection is in the table and in the map.
LEMMA OwnershipAccept == ASSUME IInv, ServerAssumption, HandleConnection PROVE DescriptorOwnership'
<1> USE DEF IInv
<1>1. PICK fd \in Fds, c \in Clients :
        /\ ~Alive(c) /\ ~InMap(c) /\ ~HeldByTask(c)
        /\ fdTable[fd] = NoClient /\ connMap[fd] = NoClient
        /\ sockfd' = [sockfd EXCEPT ![c] = fd]
        /\ fdTable' = [fdTable EXCEPT ![fd] = c]
        /\ connMap' = [connMap EXCEPT ![fd] = c]
  BY Accepted
<1>2. LiveTasks' = LiveTasks
  BY SameTasks DEF HandleConnection, poolVars
<1>3. /\ fdTable'[fd] = c /\ connMap'[fd] = c /\ sockfd'[c] = fd /\ c # NoClient
      /\ \A other \in Fds \ {fd} : fdTable'[other] = fdTable[other] /\ connMap'[other] = connMap[other]
      /\ \A d \in Clients \ {c} : sockfd'[d] = sockfd[d]
  BY <1>1 DEF TypeOK, ServerAssumption
<1>4. \A other \in Fds : fdTable'[other] # NoClient => sockfd'[fdTable'[other]] = other
  <2> SUFFICES ASSUME NEW other \in Fds \ {fd}, fdTable[other] # NoClient
               PROVE  sockfd'[fdTable[other]] = other
    BY <1>3
  <2>1. fdTable[other] \in Clients \ {c}
    BY <1>1 DEF Alive, TypeOK
  <2> QED
    BY <2>1, <1>3 DEF DescriptorOwnership
<1>5. \A other \in Fds : connMap'[other] # NoClient => fdTable'[other] = connMap'[other]
  BY <1>3 DEF DescriptorOwnership
<1>6. ASSUME NEW d \in Clients PROVE Alive(d)' <=> InMap(d)' \/ HeldByTask(d)'
  <2>1. CASE d = c
    BY <1>3, <2>1 DEF Alive, InMap
  <2>2. CASE d # c
    <3>1. Alive(d)' <=> Alive(d)
      BY <1>1, <1>3, <2>2 DEF Alive, ServerAssumption
    <3>2. InMap(d)' <=> InMap(d)
      BY <1>1, <1>3, <2>2 DEF InMap, ServerAssumption
    <3>3. HeldByTask(d)' <=> HeldByTask(d)
      BY <1>2 DEF HeldByTask
    <3> QED
      BY <3>1, <3>2, <3>3 DEF DescriptorOwnership
  <2> QED
    BY <2>1, <2>2
<1> QED
  BY <1>4, <1>5, <1>6 DEF DescriptorOwnership

\* A new task refers to a connection that is alive.
LEMMA OwnershipMessage ==
  ASSUME IInv, ServerAssumption, NEW fd \in Fds, HandleMessage(fd) PROVE DescriptorOwnership'
<1> USE DEF IInv
<1>1. PICK c \in Clients : c = fdTable[fd]
  BY DEF HandleMessage, HasLine, TypeOK
<1>2. UNCHANGED <<fdTable, sockfd, connMap, queue, hand>>
  BY DEF HandleMessage, poolVars
<1>3. pending = NoTask /\ pending' # NoTask /\ pending'[1] = c
  BY <1>1, HandleMessageTypes DEF HandleMessage, Places, ServerAssumption, Tasks
<1>4. LiveTasks' = LiveTasks \cup {pending'}
  BY <1>2, <1>3, NewTask
<1>5. ASSUME NEW d \in Clients PROVE HeldByTask(d)' <=> HeldByTask(d) \/ d = c
  BY <1>3, <1>4 DEF HeldByTask
<1>6. ASSUME NEW d \in Clients PROVE (Alive(d)' <=> Alive(d)) /\ (InMap(d)' <=> InMap(d))
  BY <1>2 DEF Alive, InMap
<1>7. Alive(c)
  BY <1>1 DEF Alive
<1>8. ASSUME NEW d \in Clients PROVE Alive(d)' <=> InMap(d)' \/ HeldByTask(d)'
  BY <1>5, <1>6, <1>7 DEF DescriptorOwnership
<1> QED
  BY <1>2, <1>8 DEF DescriptorOwnership

\* A connection is gone from the kernel's table when its descriptor is closed.
LEMMA ClosedDescriptor ==
  ASSUME TypeOK, ServerAssumption, DescriptorOwnership, NEW fd \in Fds, NEW c \in Clients, fdTable[fd] = c,
         fdTable' = [fdTable EXCEPT ![fd] = NoClient]
  PROVE  ~Alive(c)' /\ \A d \in Clients \ {c} : Alive(d)' <=> Alive(d)
<1>1. fdTable'[fd] = NoClient /\ \A other \in Fds \ {fd} : fdTable'[other] = fdTable[other]
  BY DEF TypeOK
<1>2. \A other \in Fds \ {fd} : fdTable[other] # c
  BY OneDescriptor DEF ServerAssumption
<1> QED
  BY <1>1, <1>2 DEF Alive, ServerAssumption

\* The loop closes the descriptor unless a task refers to the connection.
LEMMA OwnershipClose ==
  ASSUME IInv, ServerAssumption, NEW fd \in Fds, HandleClose(fd) PROVE DescriptorOwnership'
<1> USE DEF IInv
<1>1. PICK c \in Clients : fdTable[fd] = c /\ connMap[fd] = c /\ c # NoClient
  BY ReadyConnection DEF HandleClose, ServerAssumption
<1>2. /\ connMap' = [connMap EXCEPT ![fd] = NoClient] /\ sockfd' = sockfd
      /\ fdTable' = IF HeldByTask(c) THEN fdTable ELSE [fdTable EXCEPT ![fd] = NoClient]
  BY <1>1 DEF HandleClose
<1>3. LiveTasks' = LiveTasks
  BY SameTasks DEF HandleClose, poolVars
<1>4. connMap'[fd] = NoClient /\ \A other \in Fds \ {fd} : connMap'[other] = connMap[other]
  BY <1>2 DEF TypeOK
<1>5. \A other \in Fds : fdTable'[other] \in {fdTable[other], NoClient} /\ (other # fd => fdTable'[other] = fdTable[other])
  BY <1>2 DEF TypeOK
<1>6. \A other \in Fds \ {fd} : connMap[other] # c
  BY <1>1, OneDescriptor DEF DescriptorOwnership
<1>7. ASSUME NEW d \in Clients PROVE HeldByTask(d)' <=> HeldByTask(d)
  BY <1>3 DEF HeldByTask
<1>8. ASSUME NEW d \in Clients PROVE InMap(d)' <=> InMap(d) /\ d # c
  BY <1>1, <1>4, <1>6 DEF InMap, ServerAssumption
<1>9. ASSUME NEW d \in Clients PROVE Alive(d)' <=> Alive(d) /\ (d = c => HeldByTask(c))
  <2>1. CASE HeldByTask(c)
    <3>1. fdTable' = fdTable
      BY <1>2, <2>1
    <3> QED
      BY <2>1, <3>1 DEF Alive
  <2>2. CASE ~HeldByTask(c)
    <3>1. fdTable' = [fdTable EXCEPT ![fd] = NoClient]
      BY <1>2, <2>2
    <3> QED
      BY <1>1, <2>2, <3>1, ClosedDescriptor
  <2> QED
    BY <2>1, <2>2
<1>10. ASSUME NEW d \in Clients PROVE Alive(d)' <=> InMap(d)' \/ HeldByTask(d)'
  BY <1>1, <1>7, <1>8, <1>9 DEF DescriptorOwnership
<1> QED
  BY <1>2, <1>4, <1>5, <1>10 DEF DescriptorOwnership

\* The last reference is dropped by a worker.
LEMMA OwnershipFinish ==
  ASSUME IInv, ServerAssumption, NEW w \in Workers, FinishTask(w) PROVE DescriptorOwnership'
<1> USE DEF IInv
<1>1. LiveTasks' = LiveTasks \ {hand[w]} /\ hand[w] \in LiveTasks /\ hand[w] \in Tasks
  BY FinishedTask
<1>2. PICK c \in Clients : c = hand[w][1]
  BY <1>1 DEF Tasks
<1>3. HeldByTask(c) /\ c # NoClient
  BY <1>1, <1>2 DEF HeldByTask, ServerAssumption
<1>4. PICK fd \in Fds : fdTable[fd] = c /\ sockfd[c] = fd
  BY <1>3 DEF DescriptorOwnership, Alive
<1>5. ASSUME NEW d \in Clients PROVE HeldByTask(d)' <=> \E u \in LiveTasks \ {hand[w]} : u[1] = d
  BY <1>1 DEF HeldByTask
<1>6. /\ fdTable' = IF InMap(c) \/ \E u \in LiveTasks \ {hand[w]} : u[1] = c THEN fdTable
                    ELSE [fdTable EXCEPT ![fd] = NoClient]
      /\ UNCHANGED <<sockfd, connMap>>
  BY <1>2, <1>4 DEF FinishTask, pollVars
<1>7. ASSUME NEW d \in Clients \ {c} PROVE HeldByTask(d)' <=> HeldByTask(d)
  BY <1>2, <1>5 DEF HeldByTask
<1>8. ASSUME NEW d \in Clients PROVE InMap(d)' <=> InMap(d)
  BY <1>6 DEF InMap
<1>9. CASE InMap(c) \/ \E u \in LiveTasks \ {hand[w]} : u[1] = c
  <2>1. fdTable' = fdTable
    BY <1>6, <1>9
  <2>2. ASSUME NEW d \in Clients PROVE Alive(d)' <=> Alive(d)
    BY <2>1 DEF Alive
  <2>3. InMap(c)' \/ HeldByTask(c)'
    BY <1>5, <1>8, <1>9
  <2>4. ASSUME NEW d \in Clients PROVE Alive(d)' <=> InMap(d)' \/ HeldByTask(d)'
    <3>1. CASE d = c
      BY <1>3, <2>2, <2>3, <3>1 DEF DescriptorOwnership
    <3>2. CASE d # c
      BY <1>7, <1>8, <2>2, <3>2 DEF DescriptorOwnership
    <3> QED
      BY <3>1, <3>2
  <2> QED
    BY <1>6, <2>1, <2>4 DEF DescriptorOwnership
<1>10. CASE ~(InMap(c) \/ \E u \in LiveTasks \ {hand[w]} : u[1] = c)
  <2>1. fdTable' = [fdTable EXCEPT ![fd] = NoClient]
    BY <1>6, <1>10
  <2>2. ~InMap(c)' /\ ~HeldByTask(c)'
    BY <1>5, <1>8, <1>10
  <2>3. ASSUME NEW d \in Clients PROVE Alive(d)' <=> InMap(d)' \/ HeldByTask(d)'
    <3>1. CASE d = c
      BY <1>4, <2>1, <2>2, <3>1, ClosedDescriptor
    <3>2. CASE d # c
      <4>1. Alive(d)' <=> Alive(d)
        BY <1>4, <2>1, <3>2, ClosedDescriptor
      <4> QED
        BY <1>7, <1>8, <3>2, <4>1 DEF DescriptorOwnership
    <3> QED
      BY <3>1, <3>2
  <2>4. fdTable'[fd] = NoClient /\ \A other \in Fds \ {fd} : fdTable'[other] = fdTable[other]
    BY <2>1 DEF TypeOK
  <2>5. connMap[fd] = NoClient
    BY <1>3, <1>4, <1>10 DEF DescriptorOwnership, InMap
  <2> QED
    BY <1>6, <2>3, <2>4, <2>5 DEF DescriptorOwnership
<1> QED
  BY <1>9, <1>10

\* Every step keeps the descriptors with their owners.
LEMMA OwnershipStep == ASSUME IInv, ServerAssumption, Next PROVE DescriptorOwnership'
<1> USE DEF IInv
<1>1. CASE AddTask
  <2>1. LiveTasks' = LiveTasks
    BY <1>1, AddedTask
  <2> QED
    BY <1>1, <2>1, OwnershipFrame DEF AddTask
<1>2. ASSUME NEW w \in Workers, TakeTask(w) PROVE DescriptorOwnership'
  <2>1. LiveTasks' = LiveTasks
    BY <1>2, TakenTask
  <2> QED
    BY <1>2, <2>1, OwnershipFrame DEF TakeTask, pollVars
<1>3. ASSUME UNCHANGED <<fdTable, sockfd, connMap, pending, queue, hand>> PROVE DescriptorOwnership'
  BY <1>3, SameTasks, OwnershipFrame
<1> QED
  BY <1>1, <1>2, <1>3, OwnershipAccept, OwnershipMessage, OwnershipClose, OwnershipFinish
     DEF Next, ClientStep, LoopStep, WorkerStep, Connect, SendLine, Close, Poll, PollTimeout, BatchDone, AcceptFails,
         HandleRead, SwapFunctors, RunFunctor, RunDangling, FunctorsDone, QueueReply, Wakeup, vars, pollVars, poolVars

-----------------------------------------------------------------------------
(* The events of a batch. *)

\* What a step leaves of the batch stays true if the step touches neither the
\* connections behind it nor what has been read from them.
LEMMA EventsFrame ==
  ASSUME TypeOK, EventsStayValid,
         ready' \cap Fds \subseteq ready,
         \A fd \in ready' \cap Fds : connMap'[fd] = connMap[fd] /\ got'[connMap[fd]] = got[connMap[fd]],
         \A c \in Clients : sent'[c] \in Nat /\ sent'[c] >= sent[c] /\ (client[c] = "closed" => client'[c] = "closed")
  PROVE  EventsStayValid'
<1> SUFFICES ASSUME NEW fd \in ready' \cap Fds
             PROVE  /\ connMap'[fd] # NoClient
                    /\ got'[connMap'[fd]] < sent'[connMap'[fd]] \/ client'[connMap'[fd]] = "closed"
  BY DEF EventsStayValid, Fds
<1>1. PICK c : c = connMap[fd] /\ connMap'[fd] = c /\ got'[c] = got[c]
  OBVIOUS
<1>2. c # NoClient /\ c \in Clients /\ (got[c] < sent[c] \/ client[c] = "closed")
  BY <1>1 DEF EventsStayValid, TypeOK
<1>3. got[c] \in Nat /\ sent[c] \in Nat
  BY <1>2 DEF TypeOK
<1> QED
  BY <1>1, <1>2, <1>3

\* No step makes an event of the batch untrue.
LEMMA EventsStep == ASSUME IInv, ServerAssumption, Next PROVE EventsStayValid'
<1> USE DEF IInv
<1>1. \A c \in Clients : sent[c] \in Nat
  BY DEF TypeOK
<1>2. ASSUME NEW c \in Clients, ClientStep(c) PROVE EventsStayValid'
  <2>1. UNCHANGED <<ready, connMap, got>>
    BY <1>2 DEF ClientStep, Connect, SendLine, Close, pollVars
  <2>2. \A d \in Clients : sent'[d] \in {sent[d], sent[d] + 1} /\ (client[d] = "closed" => client'[d] = "closed")
    BY <1>2 DEF ClientStep, Connect, SendLine, Close, TypeOK
  <2> QED
    BY <1>1, <2>1, <2>2, EventsFrame
<1>3. CASE Poll
  <2>1. ready' = ReadyEvents /\ UNCHANGED <<connMap, got, sent, client>>
    BY <1>3 DEF Poll, netVars
  <2>2. \A fd \in Fds : fd # Listenfd /\ fd # Eventfd
    BY DEF Fds, Listenfd, Eventfd, ServerAssumption
  <2> QED
    BY <2>1, <2>2 DEF ReadyEvents, EventsStayValid
<1>4. CASE HandleConnection
  <2>1. PICK fd \in Fds, c \in Clients : connMap[fd] = NoClient /\ connMap' = [connMap EXCEPT ![fd] = c]
    BY <1>4, Accepted
  <2>2. fd \notin ready /\ ready' = ready \ {Listenfd} /\ UNCHANGED <<got, sent, client>>
    BY <1>4, <2>1 DEF HandleConnection, EventsStayValid
  <2>3. \A other \in Fds \ {fd} : connMap'[other] = connMap[other]
    BY <2>1 DEF TypeOK
  <2> QED
    BY <1>1, <2>2, <2>3, EventsFrame
<1>5. ASSUME NEW fd \in Fds, HandleMessage(fd) PROVE EventsStayValid'
  <2>1. PICK c \in Clients : fdTable[fd] = c /\ c # NoClient
    BY <1>5 DEF HandleMessage, HasLine, TypeOK, ServerAssumption
  <2>2. /\ ready' = ready \ {fd} /\ got' = [got EXCEPT ![c] = @ + 1]
        /\ UNCHANGED <<connMap, sent, client>>
    BY <1>5, <2>1 DEF HandleMessage, netVars
  <2>3. ASSUME NEW other \in ready' \cap Fds PROVE got'[connMap[other]] = got[connMap[other]]
    <3>1. connMap[other] \in Clients /\ fdTable[other] = connMap[other] /\ other # fd
      BY <2>2, <2>3, ReadyConnection
    <3>2. connMap[other] # c
      BY <2>1, <3>1, OneDescriptor
    <3> QED
      BY <2>2, <3>1, <3>2 DEF TypeOK
  <2> QED
    BY <1>1, <2>2, <2>3, EventsFrame
<1>6. ASSUME NEW fd \in Fds, HandleClose(fd) PROVE EventsStayValid'
  <2>1. /\ ready' = ready \ {fd} /\ connMap' = [connMap EXCEPT ![fd] = NoClient]
        /\ UNCHANGED <<got, sent, client>>
    BY <1>6 DEF HandleClose, netVars
  <2>2. \A other \in Fds \ {fd} : connMap'[other] = connMap[other]
    BY <2>1 DEF TypeOK
  <2> QED
    BY <1>1, <2>1, <2>2, EventsFrame
<1>7. ASSUME ready' \subseteq ready, UNCHANGED <<connMap, got, sent, client>> PROVE EventsStayValid'
  BY <1>1, <1>7, EventsFrame
<1> QED
  BY <1>2, <1>3, <1>4, <1>5, <1>6, <1>7
     DEF Next, LoopStep, WorkerStep, PollTimeout, BatchDone, AcceptFails, AddTask,
         HandleRead, SwapFunctors, RunFunctor, RunDangling, FunctorsDone,
         TakeTask, QueueReply, Wakeup, FinishTask, vars, netVars, pollVars

-----------------------------------------------------------------------------
(* Connections that are not accepted yet. *)

\* No step creates an object before the connection is accepted.
LEMMA NotYetStep == ASSUME IInv, ServerAssumption, Next PROVE NotYetAlive'
<1> USE DEF IInv
<1>1. backlog \in Seq(Clients) /\ Len(backlog) \in Nat
  BY DEF TypeOK
<1>2. ASSUME NEW c \in Clients, Connect(c) PROVE NotYetAlive'
  <2>1. /\ client[c] = "new" /\ client'[c] = "open" /\ \A d \in Clients \ {c} : client'[d] = client[d]
        /\ backlog' = Append(backlog, c) /\ fdTable' = fdTable
    BY <1>2 DEF Connect, TypeOK
  <2>2. ElementsOf(backlog') = ElementsOf(backlog) \cup {c}
    BY <1>1, <2>1, AppendElements
  <2>3. ASSUME NEW d \in Clients PROVE Alive(d)' <=> Alive(d)
    BY <2>1 DEF Alive
  <2>4. \A d \in Clients : client'[d] = "new" \/ d \in ElementsOf(backlog') => ~Alive(d)
    BY <2>1, <2>2 DEF NotYetAlive
  <2>5. \A d \in Clients : client'[d] = "new" => d \notin ElementsOf(backlog')
    BY <2>1, <2>2 DEF NotYetAlive
  <2>6. c \notin ElementsOf(backlog)
    BY <2>1 DEF NotYetAlive
  <2>7. ASSUME NEW k \in 1..Len(backlog'), NEW l \in 1..Len(backlog'), k # l
        PROVE  backlog'[k] # backlog'[l]
    <3>1. Len(backlog') = Len(backlog) + 1 /\ backlog'[Len(backlog) + 1] = c
          /\ \A i \in 1..Len(backlog) : backlog'[i] = backlog[i] /\ backlog[i] # c
      BY <1>1, <2>1, <2>6 DEF ElementsOf
    <3> QED
      BY <1>1, <2>7, <3>1 DEF NotYetAlive
  <2>8. ElementsOf(backlog)' = ElementsOf(backlog')
    BY DEF ElementsOf
  <2> QED
    BY <2>3, <2>4, <2>5, <2>7, <2>8 DEF NotYetAlive
<1>3. CASE HandleConnection
  <2>1. PICK fd \in Fds, c \in Clients :
          /\ c = Head(backlog) /\ backlog # <<>> /\ client[c] # "new"
          /\ fdTable[fd] = NoClient /\ fdTable' = [fdTable EXCEPT ![fd] = c]
    BY <1>3, Accepted
  <2>2. backlog' = Tail(backlog) /\ client' = client
    BY <1>3 DEF HandleConnection
  <2>3. /\ Len(backlog) > 0 /\ Len(backlog') = Len(backlog) - 1 /\ c = backlog[1]
        /\ \A k \in 1..Len(backlog') : backlog'[k] = backlog[k + 1]
    BY <1>1, <2>1, <2>2
  <2>4. ElementsOf(backlog) = ElementsOf(backlog') \cup {c}
    BY <1>1, <2>1, <2>2, TailElements
  <2>5. \A k, l \in 1..Len(backlog') : k # l => backlog'[k] # backlog'[l]
    BY <1>1, <2>3 DEF NotYetAlive
  <2>6. c \notin ElementsOf(backlog')
    BY <1>1, <2>3 DEF NotYetAlive, ElementsOf
  <2>7. fdTable'[fd] = c /\ \A other \in Fds \ {fd} : fdTable'[other] = fdTable[other]
    BY <2>1 DEF TypeOK
  <2>8. ASSUME NEW d \in Clients, d # c PROVE Alive(d)' => Alive(d)
    BY <2>7, <2>8 DEF Alive
  <2>9. ElementsOf(backlog)' = ElementsOf(backlog')
    BY DEF ElementsOf
  <2>10. \A d \in Clients : client'[d] = "new" \/ d \in ElementsOf(backlog') => d # c /\ ~Alive(d)
    BY <2>1, <2>2, <2>4, <2>6 DEF NotYetAlive
  <2>11. \A d \in Clients : client'[d] = "new" => d \notin ElementsOf(backlog')
    BY <2>2, <2>4 DEF NotYetAlive
  <2> QED
    BY <2>5, <2>8, <2>9, <2>10, <2>11 DEF NotYetAlive
<1>4. ASSUME backlog' = backlog,
             \A d \in Clients : client'[d] = "new" => client[d] = "new",
             \A fd \in Fds : fdTable'[fd] \in {fdTable[fd], NoClient}
      PROVE  NotYetAlive'
  <2>1. ASSUME NEW d \in Clients PROVE Alive(d)' => Alive(d)
    BY <1>4 DEF Alive, ServerAssumption
  <2>2. ElementsOf(backlog)' = ElementsOf(backlog)
    BY <1>4 DEF ElementsOf
  <2> QED
    BY <1>4, <2>1, <2>2 DEF NotYetAlive
<1>5. ASSUME NEW c \in Clients, SendLine(c) \/ Close(c) PROVE NotYetAlive'
  <2>1. backlog' = backlog /\ fdTable' = fdTable /\ \A d \in Clients : client'[d] = "new" => client[d] = "new"
    BY <1>5 DEF SendLine, Close, TypeOK
  <2> QED
    BY <1>4, <2>1
<1>6. ASSUME NEW fd \in Fds, HandleClose(fd) PROVE NotYetAlive'
  <2>1. UNCHANGED <<backlog, client>>
    BY <1>6 DEF HandleClose, netVars
  <2>2. \A other \in Fds : fdTable'[other] \in {fdTable[other], NoClient}
    BY <1>6 DEF HandleClose, TypeOK
  <2> QED
    BY <1>4, <2>1, <2>2
<1>7. ASSUME NEW w \in Workers, FinishTask(w) PROVE NotYetAlive'
  <2>1. UNCHANGED <<backlog, client>>
    BY <1>7 DEF FinishTask, netVars
  <2>2. \A other \in Fds : fdTable'[other] \in {fdTable[other], NoClient}
    BY <1>7 DEF FinishTask, TypeOK
  <2> QED
    BY <1>4, <2>1, <2>2
<1>8. ASSUME UNCHANGED <<backlog, client, fdTable>> PROVE NotYetAlive'
  BY <1>4, <1>8
<1> QED
  BY <1>2, <1>3, <1>5, <1>6, <1>7, <1>8
     DEF Next, ClientStep, LoopStep, WorkerStep, Poll, PollTimeout, BatchDone, AcceptFails, HandleMessage, AddTask,
         HandleRead, SwapFunctors, RunFunctor, RunDangling, FunctorsDone,
         TakeTask, QueueReply, Wakeup, vars, netVars

-----------------------------------------------------------------------------
(* Every task in one place. *)

\* The new task has a number of its own.
LEMMA OnePlaceMessage ==
  ASSUME IInv, ServerAssumption, NEW fd \in Fds, HandleMessage(fd) PROVE OnePlace'
<1> USE DEF IInv
<1>1. PICK c \in Clients : c = fdTable[fd] /\ got' = [got EXCEPT ![c] = @ + 1]
  BY DEF HandleMessage, HasLine, TypeOK
<1>2. pending' = <<c, got[c] + 1>> /\ pending' \in Tasks /\ pending' # NoTask
  BY <1>1, HandleMessageTypes DEF Tasks, ServerAssumption
<1>3. UNCHANGED <<queue, hand>> /\ pending = NoTask
  BY DEF HandleMessage, Places, poolVars
<1>4. LiveTasks' = LiveTasks \cup {pending'}
  BY <1>2, <1>3, NewTask
<1>5. \A d \in Clients : got[d] \in Nat /\ got'[d] \in {got[d], got[d] + 1}
  BY <1>1 DEF TypeOK
<1>6. got'[c] = got[c] + 1
  BY <1>1 DEF TypeOK
<1>7. LiveTasks \subseteq Tasks
  BY LiveTypes
<1>8. \A t \in LiveTasks : t # pending' /\ t[1] \in Clients /\ t[2] \in Nat /\ t[2] <= got[t[1]]
  BY <1>2, <1>5, <1>7 DEF OnePlace, Tasks
<1>9. \A t \in LiveTasks' : t[2] <= got'[t[1]]
  BY <1>2, <1>4, <1>5, <1>6, <1>8
<1>10. \A k \in 1..Len(queue) : queue[k] # pending'
  <2> SUFFICES ASSUME NEW k \in 1..Len(queue) PROVE queue[k] # pending'
    OBVIOUS
  <2>1. queue[k] \in Tasks
    BY DEF TypeOK
  <2>2. queue[k] \in LiveTasks
    BY <2>1, LiveTask DEF ElementsOf, ServerAssumption, Tasks
  <2> QED
    BY <1>8, <2>2
<1>11. \A w \in Workers : hand[w] # pending'
  BY <1>2, <1>8, LiveTask
<1> QED
  BY <1>3, <1>9, <1>10, <1>11 DEF OnePlace

\* addTask does not copy a task.
LEMMA OnePlaceAdd == ASSUME IInv, ServerAssumption, AddTask PROVE OnePlace'
<1> USE DEF IInv
<1>1. /\ LiveTasks' = LiveTasks /\ pending \in Tasks /\ pending' = NoTask
      /\ queue' = Append(queue, pending) /\ hand' = hand /\ got' = got /\ pending # NoTask
  BY AddedTask DEF AddTask, Places
<1>2. /\ queue \in Seq(Tasks) /\ Len(queue) \in Nat /\ Len(queue') = Len(queue) + 1
      /\ queue'[Len(queue) + 1] = pending
      /\ \A k \in 1..Len(queue) : queue'[k] = queue[k]
  BY <1>1 DEF TypeOK
<1>3. \A k, l \in 1..Len(queue') : k # l => queue'[k] # queue'[l]
  BY <1>1, <1>2 DEF OnePlace
<1>4. \A w \in Workers, k \in 1..Len(queue') : hand[w] # queue'[k]
  BY <1>1, <1>2 DEF OnePlace
<1> QED
  BY <1>1, <1>3, <1>4 DEF OnePlace

\* getTask does not copy a task.
LEMMA OnePlaceTake ==
  ASSUME IInv, ServerAssumption, NEW w \in Workers, TakeTask(w) PROVE OnePlace'
<1> USE DEF IInv
<1>1. /\ LiveTasks' = LiveTasks /\ queue # <<>> /\ hand[w] = NoTask /\ pending' = pending
      /\ queue' = Tail(queue) /\ hand' = [hand EXCEPT ![w] = Head(queue)] /\ got' = got
  BY TakenTask DEF TakeTask
<1>2. /\ queue \in Seq(Tasks) /\ Len(queue) \in Nat /\ Len(queue) > 0 /\ Len(queue') = Len(queue) - 1
      /\ Head(queue) = queue[1]
      /\ \A k \in 1..Len(queue') : queue'[k] = queue[k + 1]
  BY <1>1 DEF TypeOK
<1>3. hand'[w] = queue[1] /\ \A v \in Workers \ {w} : hand'[v] = hand[v]
  BY <1>1, <1>2 DEF TypeOK
<1>4. \A k, l \in 1..Len(queue') : k # l => queue'[k] # queue'[l]
  BY <1>2 DEF OnePlace
<1>5. \A v \in Workers, k \in 1..Len(queue') : hand'[v] # queue'[k]
  BY <1>2, <1>3 DEF OnePlace
<1>6. \A u, v \in Workers : u # v /\ hand'[u] # NoTask => hand'[u] # hand'[v]
  BY <1>2, <1>3 DEF OnePlace
<1>7. pending # NoTask =>
        /\ \A k \in 1..Len(queue') : queue'[k] # pending
        /\ \A v \in Workers : hand'[v] # pending
  BY <1>2, <1>3 DEF OnePlace
<1> QED
  BY <1>1, <1>4, <1>5, <1>6, <1>7 DEF OnePlace

\* A finished task is nowhere.
LEMMA OnePlaceFinish ==
  ASSUME IInv, ServerAssumption, NEW w \in Workers, FinishTask(w) PROVE OnePlace'
<1> USE DEF IInv
<1>1. /\ LiveTasks' = LiveTasks \ {hand[w]} /\ pending' = pending /\ queue' = queue
      /\ hand' = [hand EXCEPT ![w] = NoTask] /\ got' = got
  BY FinishedTask DEF FinishTask
<1>2. hand'[w] = NoTask /\ \A v \in Workers \ {w} : hand'[v] = hand[v]
  BY <1>1 DEF TypeOK
<1>3. \A k \in 1..Len(queue) : queue[k] # NoTask
  <2>1. NoTask \notin Tasks
    BY DEF Tasks, ServerAssumption
  <2> QED
    BY <2>1 DEF TypeOK
<1>4. /\ \A v \in Workers, k \in 1..Len(queue) : hand'[v] # queue[k]
      /\ \A u, v \in Workers : u # v /\ hand'[u] # NoTask => hand'[u] # hand'[v]
      /\ pending # NoTask => \A v \in Workers : hand'[v] # pending
  BY <1>2, <1>3 DEF OnePlace
<1> QED
  BY <1>1, <1>4 DEF OnePlace

\* Every step keeps every task in one place.
LEMMA OnePlaceStep == ASSUME IInv, ServerAssumption, Next PROVE OnePlace'
<1> USE DEF IInv
<1>1. ASSUME UNCHANGED <<pending, queue, hand, got>> PROVE OnePlace'
  BY <1>1, SameTasks DEF OnePlace
<1> QED
  BY <1>1, OnePlaceMessage, OnePlaceAdd, OnePlaceTake, OnePlaceFinish
     DEF Next, ClientStep, LoopStep, WorkerStep, Connect, SendLine, Close, Poll, PollTimeout, BatchDone,
         HandleConnection, AcceptFails, HandleClose, HandleRead, SwapFunctors, RunFunctor, RunDangling, FunctorsDone,
         QueueReply, Wakeup, vars, pollVars, poolVars

-----------------------------------------------------------------------------
(* The theorems. *)

\* The invariant is inductive.
LEMMA IInvStep == ASSUME IInv, ServerAssumption, [Next]_vars PROVE IInv'
<1>1. CASE Next
  BY <1>1, TypeStep, PlacesStep, OnePlaceStep, NotYetStep, ReadStep, OwnershipStep, EventsStep, WakeupStep,
     AssertionStep DEF IInv
<1>2. CASE UNCHANGED vars
  <2>1. TypeOK'
    BY <1>2 DEF IInv, TypeOK, vars, netVars, pollVars, loopVars, poolVars, workerVars
  <2>2. Places' /\ ReadWhatWasSent' /\ WakeupNotLost' /\ AssertionsHold' /\ EventsStayValid'
    BY <1>2 DEF IInv, Places, ReadWhatWasSent, WakeupNotLost, AssertionsHold, EventsStayValid,
                vars, netVars, pollVars, loopVars, poolVars, workerVars
  <2>3. LiveTasks' = LiveTasks
    BY <1>2, SameTasks DEF vars, pollVars, poolVars
  <2>4. OnePlace' /\ DescriptorOwnership'
    BY <1>2, <2>3, OwnershipFrame DEF IInv, OnePlace, vars, pollVars, poolVars
  <2>5. NotYetAlive'
    BY <1>2 DEF IInv, NotYetAlive, Alive, ElementsOf, vars, netVars
  <2> QED
    BY <2>1, <2>2, <2>4, <2>5 DEF IInv
<1> QED
  BY <1>1, <1>2

\* The invariant holds of every behaviour of the server, with patient clients
\* and with clients that hang up, whatever the numbers of clients, workers,
\* descriptors, lines and replies.
THEOREM ServerInvariant == Spec => []IInv
<1>1. ServerAssumption
  BY ServerAssumption
<1>2. Init => IInv
  BY <1>1, InitIInv
<1>3. IInv /\ [Next]_vars => IInv'
  BY <1>1, IInvStep
<1> QED
  BY <1>2, <1>3, PTL DEF Spec

\* No assert of EpollPoller fails, and every event of a batch is still true
\* when the loop comes to it, whatever the workers and the clients do in
\* between.
THEOREM LoopStaysSafe == Spec => []LoopIsSafe
<1>1. IInv => LoopIsSafe
  BY DEF IInv, LoopIsSafe
<1> QED
  BY <1>1, ServerInvariant, PTL

\* A descriptor is open exactly as long as the map or a WordQuery refers to
\* its connection, whichever thread drops the last reference.
THEOREM OwnershipHolds == Spec => []DescriptorOwnership
<1>1. IInv => DescriptorOwnership
  BY DEF IInv
<1> QED
  BY <1>1, ServerInvariant, PTL

\* While functors are pending, the eventfd is readable, or a worker is about
\* to write to it, or the loop is about to swap: no reply is left behind.
THEOREM NoLostEvent == Spec => []WakeupNotLost
<1>1. IInv => WakeupNotLost
  BY DEF IInv
<1> QED
  BY <1>1, ServerInvariant, PTL

\* A connection leaves the map only after the peer closed it.
LEMMA LeavesMap ==
  ASSUME IInv, ServerAssumption, [Next]_vars, NEW c \in Clients, InMap(c), ~InMap(c)'
  PROVE  client[c] = "closed" /\ got[c] = sent[c]
<1> USE DEF IInv
<1>1. connMap' # connMap
  BY DEF InMap
<1>2. CASE HandleConnection
  <2>1. PICK fd \in Fds, d \in Clients : connMap[fd] = NoClient /\ connMap' = [connMap EXCEPT ![fd] = d]
    BY <1>2, Accepted
  <2>2. \A other \in Fds : connMap[other] # NoClient => connMap'[other] = connMap[other]
    BY <2>1 DEF TypeOK
  <2> QED
    BY <2>2 DEF InMap, ServerAssumption
<1>3. ASSUME NEW fd \in Fds, HandleClose(fd) PROVE client[c] = "closed" /\ got[c] = sent[c]
  <2>1. connMap[fd] \in Clients /\ fdTable[fd] = connMap[fd] /\ fd \in ready
    BY <1>3, ReadyConnection DEF HandleClose
  <2>2. \A other \in Fds \ {fd} : connMap'[other] = connMap[other]
    BY <1>3 DEF HandleClose, TypeOK
  <2>3. connMap[fd] = c
    BY <2>2 DEF InMap
  <2>4. ~(got[c] < sent[c]) /\ client[c] = "closed"
    BY <1>3, <2>1, <2>3 DEF HandleClose, HasLine, EventsStayValid, ServerAssumption
  <2> QED
    BY <2>4 DEF ReadWhatWasSent, TypeOK
<1> QED
  BY <1>1, <1>2, <1>3
     DEF Next, ClientStep, LoopStep, WorkerStep, Connect, SendLine, Close, Poll, PollTimeout, BatchDone, AcceptFails,
         HandleMessage, AddTask, HandleRead, SwapFunctors, RunFunctor, RunDangling, FunctorsDone,
         TakeTask, QueueReply, Wakeup, FinishTask, vars, pollVars

\* A connection leaves the map only after the peer closed it, and only when
\* every line it sent has been read.
THEOREM OnlyPeersClose == Spec => ClosedOnlyByPeer
<1>1. ServerAssumption
  BY ServerAssumption
<1>2. IInv /\ [Next]_vars =>
        [\A c \in Clients : InMap(c) /\ ~InMap(c)' => client[c] = "closed" /\ got[c] = sent[c]]_vars
  BY <1>1, LeavesMap
<1> QED
  BY <1>2, ServerInvariant, PTL DEF Spec, ClosedOnlyByPeer

-----------------------------------------------------------------------------
(* Patient clients. *)

\* There is a descriptor for every client, and clients wait for what they
\* have asked.
Roomy == Patient /\ IsFiniteSet(Clients) /\ Cardinality(Clients) <= MaxFds

\* What carries a client's answer, from the line to the functor.
Carriers == LiveTasks \cup ElementsOf(functors) \cup ElementsOf(running)

\* Whoever has something in flight is still there, whoever is there waits to
\* be accepted or is in the map, and functors belong to accepted connections.
PInv ==
  /\ status = "up"
  /\ \A c \in Clients : InFlight(c) => client[c] = "open"
  /\ \A c \in Clients : client[c] = "open" => c \in ElementsOf(backlog) \/ InMap(c)
  /\ \A t \in ElementsOf(functors) \cup ElementsOf(running) :
       client[t[1]] # "new" /\ t[1] \notin ElementsOf(backlog)

\* What in flight means, before and after a step.
LEMMA Flying ==
  ASSUME NEW c \in Clients
  PROVE  InFlight(c) <=> c \in ElementsOf(backlog) \/ got[c] < sent[c] \/ \E t \in Carriers : t[1] = c
BY DEF InFlight, Carriers

\* The same after a step.
LEMMA FlyingPrimed ==
  ASSUME NEW c \in Clients
  PROVE  InFlight(c)' <=> c \in ElementsOf(backlog') \/ got'[c] < sent'[c] \/ \E t \in Carriers' : t[1] = c
BY DEF InFlight, Carriers, ElementsOf

\* The carriers after a step.
LEMMA CarriersPrimed == Carriers' = LiveTasks' \cup ElementsOf(functors') \cup ElementsOf(running')
BY DEF Carriers, ElementsOf

\* A client in flight that is accepted has a living connection.
LEMMA FlyingAlive ==
  ASSUME IInv, PInv, NEW t \in ElementsOf(running)
  PROVE  t[1] \in Clients /\ client[t[1]] = "open" /\ Alive(t[1])
<1>1. t \in Tasks
  BY DEF IInv, TypeOK, ElementsOf
<1>2. PICK c \in Clients : c = t[1]
  BY <1>1 DEF Tasks
<1>3. InFlight(c)
  BY <1>2, Flying DEF Carriers
<1>4. client[c] = "open" /\ c \notin ElementsOf(backlog)
  BY <1>2, <1>3 DEF PInv
<1>5. InMap(c)
  BY <1>4 DEF PInv
<1> QED
  BY <1>2, <1>4, <1>5 DEF IInv, DescriptorOwnership

\* A functor that is about to run finds its connection.
LEMMA HeadAlive ==
  ASSUME IInv, PInv, running # <<>>
  PROVE  \E c \in Clients : c = Head(running)[1] /\ client[c] = "open" /\ Alive(c)
<1>1. Head(running) \in ElementsOf(running)
  BY TailElements DEF IInv, TypeOK
<1> QED
  BY <1>1, FlyingAlive

\* A write to a client that is there arrives.
LEMMA WriteArrives ==
  ASSUME NEW c, NEW message, Write(c, message), client[c] = "open"
  PROVE  wire' = [wire EXCEPT ![c] = Append(@, message)] /\ UNCHANGED <<rejected, status>>
BY DEF Write

\* A descriptor is free for every client that waits to be accepted.
LEMMA DescriptorFree ==
  ASSUME IInv, ServerAssumption, Roomy, backlog # <<>> PROVE FreeFds # {}
<1> SUFFICES ASSUME FreeFds = {} PROVE FALSE
  OBVIOUS
<1> USE DEF IInv
<1>1. PICK c \in Clients : c = Head(backlog) /\ c \in ElementsOf(backlog)
  BY TailElements DEF TypeOK
<1>2. ~Alive(c)
  BY <1>1 DEF NotYetAlive
<1>3. \A fd \in Fds : fdTable[fd] \in Clients \ {c} /\ fdTable[fd] # NoClient
  BY <1>2 DEF FreeFds, Alive, TypeOK
<1>4. \A fd, other \in Fds : fd # other => fdTable[fd] # fdTable[other]
  BY <1>3, OneDescriptor
<1>5. IsFiniteSet(Clients) /\ Cardinality(Clients) \in Nat /\ MaxFds \in Nat /\ Cardinality(Clients) <= MaxFds
  BY FS_CardinalityType DEF Roomy, ServerAssumption
<1>6. IsFiniteSet(Clients \ {c}) /\ Cardinality(Clients \ {c}) = Cardinality(Clients) - 1
  BY <1>1, <1>5, FS_RemoveElement
<1>7. fdTable \in Injection(Fds, Clients \ {c})
  BY <1>3, <1>4 DEF TypeOK, Injection, IsInjective
<1>8. IsFiniteSet(Fds) /\ Cardinality(Fds) <= Cardinality(Clients \ {c})
  BY <1>6, <1>7, FS_Injection
<1>9. Cardinality(Fds) = MaxFds
  BY <1>5, FS_Interval DEF Fds
<1> QED
  BY <1>5, <1>6, <1>8, <1>9

\* Nothing ends the process.
LEMMA StaysUpStep ==
  ASSUME IInv, PInv, ServerAssumption, Roomy, Next PROVE status' = "up"
<1> USE DEF IInv
<1>1. status = "up"
  BY DEF PInv
<1>2. CASE HandleConnection
  <2>1. PICK fd \in Fds :
          /\ LowestFree(fd)
          /\ IF connMap[fd] = NoClient THEN Write(Head(backlog), <<Head(backlog), 0>>) ELSE TRUE
    BY <1>2 DEF HandleConnection
  <2>2. connMap[fd] = NoClient
    BY <2>1 DEF LowestFree, FreeFds, DescriptorOwnership
  <2>3. PICK c \in Clients : c = Head(backlog) /\ c \in ElementsOf(backlog)
    BY <1>2, TailElements DEF HandleConnection, Places, TypeOK
  <2>4. client[c] = "open"
    BY <2>3, Flying DEF PInv
  <2> QED
    BY <1>1, <2>1, <2>2, <2>3, <2>4, WriteArrives
<1>3. ~AcceptFails
  BY DescriptorFree DEF AcceptFails, Places
<1>4. ASSUME NEW fd \in Fds, HandleMessage(fd) \/ HandleClose(fd) PROVE status' = "up"
  <2>1. connMap[fd] # NoClient
    BY <1>4, ReadyConnection DEF HandleMessage, HandleClose, ServerAssumption
  <2> QED
    BY <1>1, <1>4, <2>1 DEF HandleMessage, HandleClose, AfterAssert
<1>5. CASE RunFunctor
  <2>1. PICK c \in Clients : c = Head(running)[1] /\ client[c] = "open" /\ Alive(c)
    BY <1>5, HeadAlive DEF RunFunctor
  <2>2. PICK fd \in Fds : fdTable[fd] = c
    BY <2>1 DEF Alive
  <2>3. sockfd[c] = fd
    BY <2>2 DEF DescriptorOwnership, ServerAssumption
  <2>4. Write(c, Head(running))
    BY <1>5, <2>1, <2>2, <2>3 DEF RunFunctor
  <2> QED
    BY <1>1, <2>1, <2>4, WriteArrives
<1>6. ~RunDangling
  BY HeadAlive DEF RunDangling
<1>7. ASSUME UNCHANGED status PROVE status' = "up"
  BY <1>1, <1>7
<1> QED
  BY <1>2, <1>3, <1>4, <1>5, <1>6, <1>7
     DEF Next, ClientStep, LoopStep, WorkerStep, Connect, SendLine, Close, Poll, PollTimeout, BatchDone,
         AddTask, HandleRead, SwapFunctors, FunctorsDone, TakeTask, QueueReply, Wakeup, FinishTask, vars

\* What PInv says of clients, after a step.
StillPatient ==
  /\ \A c \in Clients : InFlight(c)' => client'[c] = "open"
  /\ \A c \in Clients : client'[c] = "open" => c \in ElementsOf(backlog') \/ InMap(c)'
  /\ \A t \in ElementsOf(functors') \cup ElementsOf(running') :
       client'[t[1]] # "new" /\ t[1] \notin ElementsOf(backlog')

\* The rest of PInv is that the process is up.
LEMMA StillPInv == ASSUME StillPatient, status' = "up" PROVE PInv'
BY DEF StillPatient, PInv, ElementsOf

\* A step that lets nothing take off, and moves no client.
LEMMA PatientFrame ==
  ASSUME IInv, PInv, ServerAssumption, [Next]_vars, client' = client,
         \A c \in Clients : got'[c] < sent'[c] => got[c] < sent[c],
         ElementsOf(backlog') \subseteq ElementsOf(backlog),
         \A c \in ElementsOf(backlog) \ ElementsOf(backlog') : InMap(c)',
         \A t \in Carriers' : t \in Carriers \/ (t[1] \in Clients /\ InFlight(t[1])),
         \A t \in ElementsOf(functors') \cup ElementsOf(running') :
           \/ t \in ElementsOf(functors) \cup ElementsOf(running)
           \/ t \in LiveTasks
  PROVE StillPatient
<1>1. ASSUME NEW c \in Clients, InFlight(c)' PROVE client'[c] = "open"
  <2>1. InFlight(c)
    BY <1>1, Flying, FlyingPrimed
  <2> QED
    BY <2>1 DEF PInv
<1>2. ASSUME NEW c \in Clients, client'[c] = "open" PROVE c \in ElementsOf(backlog') \/ InMap(c)'
  <2>1. CASE InMap(c)
    BY <1>2, <2>1, LeavesMap
  <2>2. CASE c \in ElementsOf(backlog)
    BY <2>2
  <2> QED
    BY <1>2, <2>1, <2>2 DEF PInv
<1>3. ASSUME NEW t \in LiveTasks PROVE client[t[1]] # "new" /\ t[1] \notin ElementsOf(backlog)
  <2>1. PICK c \in Clients : c = t[1]
    BY <1>3, LiveTypes DEF IInv, Tasks
  <2>2. Alive(c)
    BY <1>3, <2>1 DEF IInv, DescriptorOwnership, HeldByTask
  <2> QED
    BY <2>1, <2>2 DEF IInv, NotYetAlive
<1>4. ASSUME NEW t \in ElementsOf(functors') \cup ElementsOf(running')
      PROVE  client'[t[1]] # "new" /\ t[1] \notin ElementsOf(backlog')
  BY <1>3, <1>4 DEF PInv
<1> QED
  BY <1>1, <1>2, <1>4 DEF StillPatient

\* The steps of the clients.
LEMMA PatientClients ==
  ASSUME IInv, PInv, ServerAssumption, Roomy, NEW c \in Clients, ClientStep(c), status' = "up" PROVE PInv'
<1> USE DEF IInv
<1>1. /\ UNCHANGED <<functors, running, pending, queue, hand, connMap, got>>
      /\ LiveTasks' = LiveTasks /\ Carriers' = Carriers
  <2>1. UNCHANGED <<functors, running, pending, queue, hand, connMap, got>>
    BY DEF ClientStep, Connect, SendLine, Close, pollVars, loopVars, poolVars
  <2> QED
    BY <2>1, SameTasks, CarriersPrimed DEF Carriers
<1>2. ASSUME NEW d \in Clients PROVE InMap(d)' <=> InMap(d)
  BY <1>1 DEF InMap
<1>3. \A t \in ElementsOf(functors) \cup ElementsOf(running) : t[1] \in Clients
  <2>1. ElementsOf(functors) \cup ElementsOf(running) \subseteq Tasks
    BY DEF TypeOK, ElementsOf
  <2> QED
    BY <2>1 DEF Tasks
<1>4. CASE Connect(c)
  <2>1. /\ client[c] = "new" /\ client'[c] = "open" /\ \A d \in Clients \ {c} : client'[d] = client[d]
        /\ ElementsOf(backlog') = ElementsOf(backlog) \cup {c} /\ sent' = sent
    BY <1>4, AppendElements DEF Connect, TypeOK
  <2>2. ASSUME NEW d \in Clients, InFlight(d)' PROVE client'[d] = "open"
    <3>1. InFlight(d) \/ d = c
      BY <1>1, <2>1, <2>2, Flying, FlyingPrimed
    <3> QED
      BY <2>1, <3>1 DEF PInv
  <2>3. ASSUME NEW d \in Clients, client'[d] = "open" PROVE d \in ElementsOf(backlog') \/ InMap(d)'
    BY <1>2, <2>1, <2>3 DEF PInv
  <2>4. ASSUME NEW t \in ElementsOf(functors) \cup ElementsOf(running)
        PROVE  client'[t[1]] # "new" /\ t[1] \notin ElementsOf(backlog')
    BY <1>3, <2>1, <2>4 DEF PInv
  <2> QED
    BY <1>1, <2>2, <2>3, <2>4 DEF PInv, ElementsOf
<1>5. CASE SendLine(c)
  <2>1. /\ client[c] = "open" /\ UNCHANGED <<client, backlog>>
        /\ \A d \in Clients \ {c} : sent'[d] = sent[d]
    BY <1>5 DEF SendLine, TypeOK
  <2>2. ASSUME NEW d \in Clients, InFlight(d)' PROVE client'[d] = "open"
    <3>1. InFlight(d) \/ d = c
      BY <1>1, <2>1, <2>2, Flying, FlyingPrimed
    <3> QED
      BY <2>1, <3>1 DEF PInv
  <2> QED
    BY <1>1, <1>2, <2>1, <2>2 DEF PInv, ElementsOf
<1>6. CASE Close(c)
  <2>1. /\ client[c] = "open" /\ ~InFlight(c) /\ UNCHANGED <<sent, backlog>>
        /\ client'[c] = "closed" /\ \A d \in Clients \ {c} : client'[d] = client[d]
    BY <1>6 DEF Close, TypeOK, Roomy
  <2>2. ASSUME NEW d \in Clients, InFlight(d)' PROVE client'[d] = "open"
    <3>1. InFlight(d)
      BY <1>1, <2>1, <2>2, Flying, FlyingPrimed
    <3> QED
      BY <2>1, <3>1 DEF PInv
  <2>3. ASSUME NEW d \in Clients, client'[d] = "open" PROVE d \in ElementsOf(backlog) \/ InMap(d)'
    BY <1>2, <2>1, <2>3 DEF PInv
  <2>4. ASSUME NEW t \in ElementsOf(functors) \cup ElementsOf(running)
        PROVE  client'[t[1]] # "new" /\ t[1] \notin ElementsOf(backlog)
    BY <1>3, <2>1, <2>4 DEF PInv
  <2> QED
    BY <1>1, <2>1, <2>2, <2>3, <2>4 DEF PInv, ElementsOf
<1> QED
  BY <1>4, <1>5, <1>6 DEF ClientStep

\* The steps of the loop.
LEMMA PatientLoop ==
  ASSUME IInv, PInv, ServerAssumption, LoopStep, Next, status' = "up" PROVE PInv'
<1> USE DEF IInv
<1>1. SUFFICES StillPatient
  BY StillPInv
<1>2. client' = client /\ sent' = sent
  BY DEF LoopStep, Poll, PollTimeout, BatchDone, HandleConnection, AcceptFails, HandleMessage, HandleClose,
         AddTask, HandleRead, SwapFunctors, RunFunctor, RunDangling, FunctorsDone, vars, netVars
<1>3. CASE HandleConnection
  <2>1. PICK fd \in Fds, c \in Clients : /\ c = Head(backlog) /\ backlog # <<>>
                                         /\ connMap' = [connMap EXCEPT ![fd] = c]
    BY <1>3, Accepted
  <2>2. ElementsOf(backlog) = ElementsOf(backlog') \cup {c}
    BY <1>3, <2>1, TailElements DEF HandleConnection, TypeOK
  <2>3. InMap(c)'
    BY <2>1 DEF InMap, TypeOK
  <2>4. Carriers' = Carriers /\ UNCHANGED <<got, functors, running>>
    BY <1>3, SameTasks, CarriersPrimed DEF HandleConnection, Carriers, loopVars, poolVars
  <2> QED
    BY <1>2, <2>2, <2>3, <2>4, PatientFrame
<1>4. ASSUME NEW fd \in Fds, HandleMessage(fd)
      PROVE StillPatient
  <2>1. PICK c \in Clients : c = fdTable[fd] /\ got[c] < sent[c] /\ got' = [got EXCEPT ![c] = @ + 1]
    BY <1>4 DEF HandleMessage, HasLine, TypeOK
  <2>2. pending = NoTask /\ pending' # NoTask /\ pending'[1] = c
    BY <1>4, <2>1, HandleMessageTypes DEF HandleMessage, Places, ServerAssumption, Tasks
  <2>3. UNCHANGED <<backlog, functors, running, queue, hand>>
    BY <1>4 DEF HandleMessage, netVars, loopVars, poolVars
  <2>4. LiveTasks' = LiveTasks \cup {pending'}
    BY <2>2, <2>3, NewTask
  <2>5. InFlight(c)
    BY <2>1, Flying
  <2>6. \A t \in Carriers' : t \in Carriers \/ (t[1] \in Clients /\ InFlight(t[1]))
    BY <2>2, <2>3, <2>4, <2>5, CarriersPrimed DEF Carriers
  <2>7. ASSUME NEW d \in Clients, got'[d] < sent'[d] PROVE got[d] < sent[d]
    <3>1. got[d] \in Nat /\ sent[d] \in Nat /\ got'[d] \in {got[d], got[d] + 1}
      BY <2>1 DEF TypeOK
    <3> QED
      BY <1>2, <2>7, <3>1
  <2> QED
    BY <1>2, <2>3, <2>6, <2>7, PatientFrame
<1>5. CASE AddTask
  <2>1. LiveTasks' = LiveTasks /\ UNCHANGED <<backlog, got, functors, running>>
    BY <1>5, AddedTask DEF AddTask, netVars, loopVars
  <2>2. Carriers' = Carriers
    BY <2>1, CarriersPrimed DEF Carriers
  <2> QED
    BY <1>2, <2>1, <2>2, PatientFrame
<1>6. CASE SwapFunctors
  <2>1. LiveTasks' = LiveTasks /\ UNCHANGED <<backlog, got>> /\ running' = functors /\ functors' = <<>>
    BY <1>6, SameTasks DEF SwapFunctors, netVars, poolVars
  <2>2. ElementsOf(functors') = {}
    BY <2>1 DEF ElementsOf
  <2>3. Carriers' \subseteq Carriers
    BY <2>1, <2>2, CarriersPrimed DEF Carriers
  <2> QED
    BY <1>2, <2>1, <2>2, <2>3, PatientFrame
<1>7. CASE RunFunctor \/ RunDangling
  <2>1. /\ LiveTasks' = LiveTasks /\ UNCHANGED <<backlog, got, functors>>
        /\ running # <<>> /\ running' = Tail(running)
    BY <1>7, SameTasks DEF RunFunctor, RunDangling, loopVars, poolVars
  <2>2. ElementsOf(running') \subseteq ElementsOf(running)
    BY <2>1, TailElements DEF TypeOK
  <2>3. Carriers' \subseteq Carriers
    BY <2>1, <2>2, CarriersPrimed DEF Carriers
  <2> QED
    BY <1>2, <2>1, <2>2, <2>3, PatientFrame
<1>8. ASSUME UNCHANGED <<backlog, got, functors, running, pending, queue, hand>>
      PROVE StillPatient
  <2>1. Carriers' = Carriers
    BY <1>8, SameTasks, CarriersPrimed DEF Carriers
  <2> QED
    BY <1>2, <1>8, <2>1, PatientFrame
<1>9. ASSUME NEW fd \in Fds, HandleClose(fd) PROVE UNCHANGED <<backlog, got, functors, running, pending, queue, hand>>
  BY <1>9 DEF HandleClose, netVars, loopVars, poolVars
<1> QED
  BY <1>3, <1>4, <1>5, <1>6, <1>7, <1>8, <1>9
     DEF LoopStep, Poll, PollTimeout, BatchDone, AcceptFails, HandleRead, FunctorsDone,
         vars, netVars, pollVars, loopVars, poolVars

\* The steps of the workers.
LEMMA PatientWorkers ==
  ASSUME IInv, PInv, ServerAssumption, NEW w \in Workers, WorkerStep(w), Next, status' = "up" PROVE PInv'
<1> USE DEF IInv
<1>1. SUFFICES StillPatient
  BY StillPInv
<1>2. UNCHANGED <<client, sent, got, backlog, running>>
  BY DEF WorkerStep, TakeTask, QueueReply, Wakeup, FinishTask, netVars, pollVars
<1>3. CASE TakeTask(w) \/ Wakeup(w) \/ FinishTask(w)
  <2>1. functors' = functors
    BY <1>3 DEF TakeTask, Wakeup, FinishTask, loopVars
  <2>2. LiveTasks' \subseteq LiveTasks
    BY <1>3, TakenTask, FinishedTask, SameTasks DEF Wakeup, pollVars, poolVars
  <2>3. Carriers' \subseteq Carriers
    BY <1>2, <2>1, <2>2, CarriersPrimed DEF Carriers
  <2> QED
    BY <1>2, <2>1, <2>3, PatientFrame
<1>4. CASE QueueReply(w)
  <2>1. functors' = Append(functors, hand[w]) /\ UNCHANGED <<pending, queue, hand>>
    BY <1>4 DEF QueueReply, pollVars, poolVars
  <2>2. hand[w] \in Tasks /\ hand[w] # NoTask
    BY <1>4 DEF QueueReply, Places, TypeOK
  <2>3. hand[w] \in LiveTasks
    BY <2>2, LiveTask
  <2>4. ElementsOf(functors') = ElementsOf(functors) \cup {hand[w]}
    BY <2>1, <2>2, AppendElements DEF TypeOK
  <2>5. LiveTasks' = LiveTasks
    BY <2>1, SameTasks
  <2>6. Carriers' = Carriers
    BY <1>2, <2>3, <2>4, <2>5, CarriersPrimed DEF Carriers
  <2> QED
    BY <1>2, <2>3, <2>4, <2>6, PatientFrame
<1> QED
  BY <1>3, <1>4 DEF WorkerStep

\* The invariant of patient clients.
THEOREM PatientInvariant == Roomy => (Spec => []PInv)
<1> SUFFICES ASSUME Roomy PROVE Spec => []PInv
  OBVIOUS
<1>1. ServerAssumption
  BY ServerAssumption
<1>2. Init => PInv
  <2> SUFFICES ASSUME Init PROVE PInv
    OBVIOUS
  <2>1. /\ ElementsOf(backlog) = {} /\ ElementsOf(functors) = {} /\ ElementsOf(running) = {}
        /\ ElementsOf(queue) = {} /\ pending = NoTask /\ \A w \in Workers : hand[w] = NoTask
    BY DEF Init, ElementsOf, Buffer!BufferInit
  <2>2. Carriers = {}
    BY <2>1, LiveTask DEF Carriers
  <2>3. ASSUME NEW c \in Clients PROVE ~InFlight(c) /\ client[c] = "new"
    BY <2>1, <2>2, Flying DEF Init
  <2> QED
    BY <2>1, <2>3 DEF PInv, Init
<1>3. IInv /\ PInv /\ [Next]_vars => PInv'
  <2> SUFFICES ASSUME IInv, PInv, [Next]_vars PROVE PInv'
    OBVIOUS
  <2>1. CASE Next
    <3>1. status' = "up"
      BY <1>1, <2>1, StaysUpStep
    <3> QED
      BY <1>1, <2>1, <3>1, PatientClients, PatientLoop, PatientWorkers DEF Next
  <2>2. CASE UNCHANGED vars
    <3>1. LiveTasks' = LiveTasks
      BY <2>2, SameTasks DEF vars, pollVars, poolVars
    <3> QED
      BY <2>2, <3>1 DEF PInv, InFlight, InMap, ElementsOf, vars, netVars, pollVars, loopVars
  <2> QED
    BY <2>1, <2>2
<1> QED
  BY <1>2, <1>3, ServerInvariant, PTL DEF Spec

\* With patient clients and a descriptor for each nothing ends the server: it
\* never runs out of descriptors, writes to no closed peer and calls no
\* destroyed object, whatever the numbers of workers, lines and replies.
THEOREM PatientServerStaysUp == Roomy => (Spec => []ServerStaysUp)
<1>1. PInv => ServerStaysUp
  BY DEF PInv, ServerStaysUp
<1> QED
  BY <1>1, PatientInvariant, PTL

-----------------------------------------------------------------------------
(* The refinement: with one worker, as MainServer has, and patient         *)
(* clients, each client is greeted and then gets answers to its own lines  *)
(* in their order, none left out, whatever the number of clients, lines,   *)
(* replies and the length of the queue.                                    *)

Lone == Roomy /\ \E w : Workers = {w}

\* The line of the last thing a client has received, 0 for the greeting.
LastOf(received) == IF received = <<>> THEN 0 ELSE received[Len(received)][2]

\* What the workers and the loop have in their hands.
HeldIn(h) == {h[w] : w \in Workers} \ {NoTask}
WaitingIn(p) == {p} \ {NoTask}

InOrder(s) == \A i, j \in 1..Len(s) : i < j /\ s[i][1] = s[j][1] => s[i][2] <= s[j][2]
NotAfter(S, T) == \A t \in S, u \in T : t[1] = u[1] => t[2] <= u[2]

\* A client's lines pass the server in order: what is further on its way is
\* not of a later line.
Passing(r, f, h, q, p) ==
  /\ InOrder(r) /\ InOrder(f) /\ InOrder(q)
  /\ NotAfter(ElementsOf(r), ElementsOf(f))
  /\ NotAfter(ElementsOf(r) \cup ElementsOf(f), h)
  /\ NotAfter(ElementsOf(r) \cup ElementsOf(f) \cup h, ElementsOf(q))
  /\ NotAfter(ElementsOf(r) \cup ElementsOf(f) \cup h \cup ElementsOf(q), p)

Ordered == Passing(running, functors, HeldIn(hand), queue, WaitingIn(pending))

\* Functors are left over only while the loop runs them.
RunOnly == pc # "run" => running = <<>>

\* Accepted clients, and no others, have been greeted.
Greeted ==
  /\ \A c \in Clients : wire[c] = <<>> <=> client[c] = "new" \/ c \in ElementsOf(backlog)
  /\ \A c \in Clients : wire[c] = <<>> => got[c] = 0

\* What is on its way belongs to lines between the last answer and the last
\* line read ...
Within ==
  /\ \A t \in Carriers : LastOf(wire[t[1]]) <= t[2] /\ t[2] <= got[t[1]]
  /\ \A c \in Clients : LastOf(wire[c]) \in Nat /\ LastOf(wire[c]) <= got[c]

\* ... and there is something for each of them.
Covered ==
  \A c \in Clients, n \in 1..MaxQueries :
    LastOf(wire[c]) < n /\ n <= got[c] => <<c, n>> \in Carriers

\* process() has answered before it returns.
Replied ==
  \A w \in Workers :
    workerPc[w] = "wakeup" \/ (workerPc[w] = "process" /\ left[w] = 0) =>
      \/ hand[w] \in ElementsOf(running) \cup ElementsOf(functors)
      \/ hand[w][2] <= LastOf(wire[hand[w][1]])

SInv == Ordered /\ RunOnly /\ Greeted /\ Within /\ Covered /\ Replied

-----------------------------------------------------------------------------
(* The parts after a step. *)

\* The order, after a step.
LEMMA OrderedPrimed ==
  Ordered' <=> Passing(running', functors', HeldIn(hand'), queue', WaitingIn(pending'))
BY DEF Ordered, Passing, InOrder, NotAfter, ElementsOf, HeldIn, WaitingIn

\* Who has been greeted.
LEMMA GreetedPrimed ==
  Greeted' <=>
    /\ \A c \in Clients : wire'[c] = <<>> <=> client'[c] = "new" \/ c \in ElementsOf(backlog')
    /\ \A c \in Clients : wire'[c] = <<>> => got'[c] = 0
BY DEF Greeted, ElementsOf

\* What is on its way.
LEMMA WithinPrimed ==
  Within' <=>
    /\ \A t \in Carriers' : LastOf(wire'[t[1]]) <= t[2] /\ t[2] <= got'[t[1]]
    /\ \A c \in Clients : LastOf(wire'[c]) \in Nat /\ LastOf(wire'[c]) <= got'[c]
BY DEF Within, LastOf

\* Lines that wait for their answer.
LEMMA CoveredPrimed ==
  Covered' <=>
    \A c \in Clients, n \in 1..MaxQueries :
      LastOf(wire'[c]) < n /\ n <= got'[c] => <<c, n>> \in Carriers'
BY DEF Covered, LastOf

\* What the workers have answered.
LEMMA RepliedPrimed ==
  Replied' <=>
    \A w \in Workers :
      workerPc'[w] = "wakeup" \/ (workerPc'[w] = "process" /\ left'[w] = 0) =>
        \/ hand'[w] \in ElementsOf(running') \cup ElementsOf(functors')
        \/ hand'[w][2] <= LastOf(wire'[hand'[w][1]])
BY DEF Replied, LastOf, ElementsOf

\* The null pointer is no task.
LEMMA NoTaskIsNone == ServerAssumption => NoTask \notin Tasks
BY DEF ServerAssumption, Tasks

\* Where something on its way can be.
LEMMA CarrierPlaces ==
  ASSUME TypeOK, ServerAssumption
  PROVE  /\ Carriers = ElementsOf(running) \cup ElementsOf(functors) \cup HeldIn(hand)
                         \cup ElementsOf(queue) \cup WaitingIn(pending)
         /\ Carriers \subseteq Tasks
<1>1. /\ ElementsOf(queue) \subseteq Tasks /\ NoTask \notin Tasks
      /\ ElementsOf(running) \cup ElementsOf(functors) \subseteq Tasks
  BY NoTaskIsNone DEF TypeOK, ElementsOf
<1>2. \A t : t \in LiveTasks <=> t \in HeldIn(hand) \cup ElementsOf(queue) \cup WaitingIn(pending)
  BY <1>1, LiveTask DEF HeldIn, WaitingIn
<1> QED
  BY <1>1, <1>2, LiveTypes DEF Carriers

\* The same after a step.
LEMMA CarrierPlacesPrimed ==
  ASSUME TypeOK', ServerAssumption
  PROVE  Carriers' = ElementsOf(running') \cup ElementsOf(functors') \cup HeldIn(hand')
                       \cup ElementsOf(queue') \cup WaitingIn(pending')
<1>1. ElementsOf(queue') \subseteq Tasks /\ NoTask \notin Tasks
  BY NoTaskIsNone DEF TypeOK, ElementsOf
<1>2. \A t : t \in LiveTasks' <=> t \in HeldIn(hand') \cup ElementsOf(queue') \cup WaitingIn(pending')
  BY <1>1, LiveTaskPrimed DEF HeldIn, WaitingIn
<1> QED
  BY <1>2, CarriersPrimed

\* A line of a client, and what the server has read of it.
LEMMA CarrierTypes ==
  ASSUME TypeOK, ServerAssumption, NEW t \in Carriers
  PROVE  \E c \in Clients, n \in 1..MaxQueries : t = <<c, n>> /\ t[1] = c /\ t[2] = n
BY CarrierPlaces DEF Tasks

-----------------------------------------------------------------------------
(* The beginning. *)

\* Nothing is on its way at first.
LEMMA InitSInv == ASSUME ServerAssumption, Init PROVE SInv
<1>1. /\ running = <<>> /\ functors = <<>> /\ queue = <<>> /\ backlog = <<>> /\ pending = NoTask
      /\ hand = [w \in Workers |-> NoTask] /\ workerPc = [w \in Workers |-> "idle"]
  BY DEF Init, Buffer!BufferInit
<1>2. \A c \in Clients : wire[c] = <<>> /\ got[c] = 0 /\ client[c] = "new"
  BY DEF Init
<1>3. ElementsOf(running) = {} /\ ElementsOf(functors) = {} /\ ElementsOf(queue) = {} /\ ElementsOf(backlog) = {}
  BY <1>1 DEF ElementsOf
<1>4. HeldIn(hand) = {} /\ WaitingIn(pending) = {}
  BY <1>1 DEF HeldIn, WaitingIn
<1>5. TypeOK
  BY InitIInv DEF IInv
<1>6. Carriers = {}
  BY <1>3, <1>4, <1>5, CarrierPlaces
<1>7. Ordered
  BY <1>1, <1>3, <1>4 DEF Ordered, Passing, InOrder, NotAfter
<1>8. Greeted /\ RunOnly /\ Replied
  BY <1>1, <1>2, <1>3 DEF Greeted, RunOnly, Replied
<1>9. Within /\ Covered
  BY <1>2, <1>6 DEF Within, Covered, LastOf, ServerAssumption
<1> QED
  BY <1>7, <1>8, <1>9 DEF SInv

-----------------------------------------------------------------------------
(* The order. *)

\* A task that is after all others may be appended.
LEMMA AppendInOrder ==
  ASSUME NEW s \in Seq(Tasks), NEW t \in Tasks, InOrder(s), NotAfter(ElementsOf(s), {t})
  PROVE  InOrder(Append(s, t))
<1>1. /\ Len(s) \in Nat /\ Len(Append(s, t)) = Len(s) + 1 /\ Append(s, t)[Len(s) + 1] = t
      /\ \A i \in 1..Len(s) : Append(s, t)[i] = s[i]
  OBVIOUS
<1>2. \A i \in 1..Len(s) : s[i][1] = t[1] => s[i][2] <= t[2]
  BY DEF NotAfter, ElementsOf
<1> SUFFICES ASSUME NEW i \in 1..Len(s) + 1, NEW j \in 1..Len(s) + 1, i < j,
                    Append(s, t)[i][1] = Append(s, t)[j][1]
             PROVE  Append(s, t)[i][2] <= Append(s, t)[j][2]
  BY <1>1 DEF InOrder
<1>3. i \in 1..Len(s) /\ Append(s, t)[i] = s[i]
  BY <1>1
<1>4. CASE j = Len(s) + 1
  BY <1>1, <1>2, <1>3, <1>4
<1>5. CASE j # Len(s) + 1
  BY <1>1, <1>3, <1>5 DEF InOrder
<1> QED
  BY <1>4, <1>5

\* The first task is not after the others.
LEMMA TailInOrder ==
  ASSUME NEW s \in Seq(Tasks), s # <<>>, InOrder(s)
  PROVE  InOrder(Tail(s)) /\ NotAfter({Head(s)}, ElementsOf(Tail(s)))
<1>1. /\ Len(s) \in Nat /\ Len(s) > 0 /\ Len(Tail(s)) = Len(s) - 1 /\ Head(s) = s[1]
      /\ \A i \in 1..Len(s) - 1 : Tail(s)[i] = s[i + 1]
  OBVIOUS
<1>2. InOrder(Tail(s))
  BY <1>1 DEF InOrder
<1>3. \A i \in 1..Len(s) - 1 : s[1][1] = s[i + 1][1] => s[1][2] <= s[i + 1][2]
  BY <1>1 DEF InOrder
<1>4. NotAfter({Head(s)}, ElementsOf(Tail(s)))
  BY <1>1, <1>3 DEF NotAfter, ElementsOf
<1> QED
  BY <1>2, <1>4

\* One worker holds at most one task.
LEMMA OneHand ==
  ASSUME Lone, NEW w \in Workers, NEW h PROVE HeldIn(h) = {h[w]} \ {NoTask}
BY DEF Lone, HeldIn

\* The new task is of the last line read.
LEMMA OrderMessage ==
  ASSUME IInv, SInv, ServerAssumption, NEW fd \in Fds, HandleMessage(fd) PROVE Ordered'
<1> USE DEF IInv, SInv
<1>1. PICK c \in Clients : c = fdTable[fd]
  BY DEF HandleMessage, HasLine, TypeOK
<1>2. /\ pending' = <<c, got[c] + 1>> /\ pending = NoTask
      /\ UNCHANGED <<running, functors, hand, queue>>
  BY <1>1 DEF HandleMessage, Places, loopVars, poolVars
<1>3. \A t \in Carriers : t[1] = c => t[2] <= got[c] + 1
  <2> SUFFICES ASSUME NEW t \in Carriers, t[1] = c PROVE t[2] <= got[c] + 1
    OBVIOUS
  <2>1. t[2] \in Nat /\ got[c] \in Nat /\ t[2] <= got[c]
    BY CarrierTypes DEF Within, TypeOK
  <2> QED
    BY <2>1
<1>4. NotAfter(ElementsOf(running) \cup ElementsOf(functors) \cup HeldIn(hand) \cup ElementsOf(queue), WaitingIn(pending'))
  BY <1>2, <1>3, CarrierPlaces DEF NotAfter, WaitingIn
<1> QED
  BY <1>2, <1>4, OrderedPrimed DEF Ordered, Passing

\* addTask keeps the order.
LEMMA OrderAdd == ASSUME IInv, SInv, ServerAssumption, AddTask PROVE Ordered'
<1> USE DEF IInv, SInv
<1>1. /\ pending \in Tasks /\ pending # NoTask /\ pending' = NoTask /\ queue' = Append(queue, pending)
      /\ UNCHANGED <<hand, running, functors>>
  BY AddedTask DEF AddTask, Places, loopVars
<1>2. ElementsOf(queue') = ElementsOf(queue) \cup {pending} /\ WaitingIn(pending) = {pending} /\ WaitingIn(pending') = {}
  BY <1>1, AppendElements DEF TypeOK, WaitingIn
<1>3. NotAfter(ElementsOf(running) \cup ElementsOf(functors) \cup HeldIn(hand) \cup ElementsOf(queue), {pending})
  BY <1>2 DEF Ordered, Passing
<1>4. InOrder(queue')
  <2>1. NotAfter(ElementsOf(queue), {pending})
    BY <1>3 DEF NotAfter
  <2> QED
    BY <1>1, <2>1, AppendInOrder DEF Ordered, Passing, TypeOK
<1>5. NotAfter(ElementsOf(running) \cup ElementsOf(functors) \cup HeldIn(hand), ElementsOf(queue'))
  BY <1>2, <1>3 DEF Ordered, Passing, NotAfter
<1>6. NotAfter(ElementsOf(running) \cup ElementsOf(functors) \cup HeldIn(hand) \cup ElementsOf(queue'), WaitingIn(pending'))
  BY <1>2 DEF NotAfter
<1> QED
  BY <1>1, <1>4, <1>5, <1>6, OrderedPrimed DEF Ordered, Passing

\* getTask takes the first.
LEMMA OrderTake ==
  ASSUME IInv, SInv, ServerAssumption, Lone, NEW w \in Workers, TakeTask(w) PROVE Ordered'
<1> USE DEF IInv, SInv
<1>1. /\ queue # <<>> /\ hand[w] = NoTask /\ queue' = Tail(queue) /\ hand' = [hand EXCEPT ![w] = Head(queue)]
      /\ ElementsOf(queue) = ElementsOf(queue') \cup {Head(queue)} /\ Head(queue) \in Tasks
      /\ UNCHANGED <<running, functors, pending>>
  BY TakenTask DEF TakeTask, pollVars, loopVars
<1>2. Head(queue) # NoTask /\ hand'[w] = Head(queue)
  BY <1>1 DEF TypeOK, Tasks, ServerAssumption
<1>3. HeldIn(hand) = {} /\ HeldIn(hand') = {Head(queue)}
  <2>1. HeldIn(hand) = {hand[w]} \ {NoTask} /\ HeldIn(hand') = {hand'[w]} \ {NoTask}
    BY OneHand
  <2> QED
    BY <1>1, <1>2, <2>1
<1>4. InOrder(queue') /\ NotAfter({Head(queue)}, ElementsOf(queue'))
  BY <1>1, TailInOrder DEF TypeOK, Ordered, Passing
<1>5. NotAfter(ElementsOf(running) \cup ElementsOf(functors), HeldIn(hand'))
  BY <1>1, <1>3 DEF Ordered, Passing, NotAfter
<1>6. NotAfter(ElementsOf(running) \cup ElementsOf(functors) \cup HeldIn(hand'), ElementsOf(queue'))
  BY <1>1, <1>3, <1>4 DEF Ordered, Passing, NotAfter
<1>7. NotAfter(ElementsOf(running) \cup ElementsOf(functors) \cup HeldIn(hand') \cup ElementsOf(queue'), WaitingIn(pending))
  BY <1>1, <1>3 DEF Ordered, Passing, NotAfter
<1> QED
  BY <1>1, <1>4, <1>5, <1>6, <1>7, OrderedPrimed DEF Ordered, Passing

\* A reply is behind the replies before it.
LEMMA OrderReply ==
  ASSUME IInv, SInv, ServerAssumption, Lone, NEW w \in Workers, QueueReply(w) PROVE Ordered'
<1> USE DEF IInv, SInv
<1>1. /\ functors' = Append(functors, hand[w]) /\ hand[w] \in Tasks /\ hand[w] # NoTask
      /\ UNCHANGED <<running, hand, queue, pending>>
  BY DEF QueueReply, Places, TypeOK, pollVars, poolVars
<1>2. ElementsOf(functors') = ElementsOf(functors) \cup {hand[w]} /\ HeldIn(hand) = {hand[w]}
  BY <1>1, AppendElements, OneHand DEF TypeOK
<1>3. NotAfter(ElementsOf(running) \cup ElementsOf(functors), {hand[w]})
  BY <1>2 DEF Ordered, Passing
<1>4. InOrder(functors')
  <2>1. NotAfter(ElementsOf(functors), {hand[w]})
    BY <1>3 DEF NotAfter
  <2> QED
    BY <1>1, <2>1, AppendInOrder DEF Ordered, Passing, TypeOK
<1>5. NotAfter(ElementsOf(running), ElementsOf(functors'))
  BY <1>2, <1>3 DEF Ordered, Passing, NotAfter
<1>6. NotAfter(ElementsOf(running) \cup ElementsOf(functors'), HeldIn(hand))
  <2>1. hand[w][2] \in Nat
    BY <1>1 DEF Tasks
  <2>2. NotAfter({hand[w]}, {hand[w]})
    BY <2>1 DEF NotAfter
  <2> QED
    BY <1>2, <1>3, <2>2 DEF NotAfter
<1>7. ElementsOf(running) \cup ElementsOf(functors') \cup HeldIn(hand)
        = ElementsOf(running) \cup ElementsOf(functors) \cup HeldIn(hand)
  BY <1>2
<1> QED
  BY <1>1, <1>4, <1>5, <1>6, <1>7, OrderedPrimed DEF Ordered, Passing

\* A finished task is in no order.
LEMMA OrderFinish ==
  ASSUME IInv, SInv, ServerAssumption, Lone, NEW w \in Workers, FinishTask(w) PROVE Ordered'
<1> USE DEF IInv, SInv
<1>1. /\ hand' = [hand EXCEPT ![w] = NoTask] /\ UNCHANGED <<running, functors, queue, pending>>
  BY FinishedTask DEF FinishTask, pollVars, loopVars
<1>2. HeldIn(hand') = {}
  <2>1. hand'[w] = NoTask
    BY <1>1 DEF TypeOK
  <2> QED
    BY <2>1, OneHand
<1> QED
  BY <1>1, <1>2, OrderedPrimed DEF Ordered, Passing, NotAfter

\* The functors are swapped as they are.
LEMMA OrderSwap == ASSUME IInv, SInv, SwapFunctors PROVE Ordered'
<1> USE DEF IInv, SInv
<1>1. /\ running = <<>> /\ running' = functors /\ functors' = <<>>
      /\ UNCHANGED <<hand, queue, pending>>
  BY DEF SwapFunctors, RunOnly, poolVars
<1>2. ElementsOf(running) = {} /\ ElementsOf(functors') = {} /\ InOrder(functors')
  BY <1>1 DEF ElementsOf, InOrder
<1>3. ElementsOf(running') \cup ElementsOf(functors') = ElementsOf(running) \cup ElementsOf(functors)
  BY <1>1, <1>2
<1>4. NotAfter(ElementsOf(running'), ElementsOf(functors'))
  BY <1>2 DEF NotAfter
<1> QED
  BY <1>1, <1>2, <1>3, <1>4, OrderedPrimed DEF Ordered, Passing

\* They run from the first on.
LEMMA OrderRun == ASSUME IInv, SInv, RunFunctor \/ RunDangling PROVE Ordered'
<1> USE DEF IInv, SInv
<1>1. /\ running # <<>> /\ running' = Tail(running)
      /\ UNCHANGED <<functors, hand, queue, pending>>
  BY DEF RunFunctor, RunDangling, loopVars, poolVars
<1>2. ElementsOf(running') \subseteq ElementsOf(running) /\ InOrder(running')
  BY <1>1, TailElements, TailInOrder DEF TypeOK, Ordered, Passing
<1> QED
  BY <1>1, <1>2, OrderedPrimed DEF Ordered, Passing, NotAfter

\* Every step keeps the order.
LEMMA OrderStep == ASSUME IInv, SInv, ServerAssumption, Lone, [Next]_vars PROVE Ordered'
<1>1. ASSUME UNCHANGED <<running, functors, hand, queue, pending>> PROVE Ordered'
  BY <1>1, OrderedPrimed DEF SInv, Ordered
<1> QED
  BY <1>1, OrderMessage, OrderAdd, OrderTake, OrderReply, OrderFinish, OrderSwap, OrderRun
     DEF Next, ClientStep, LoopStep, WorkerStep, Connect, SendLine, Close, Poll, PollTimeout, BatchDone,
         HandleConnection, AcceptFails, HandleClose, HandleRead, FunctorsDone, Wakeup,
         vars, pollVars, loopVars, poolVars

-----------------------------------------------------------------------------
(* The two steps that write to a client. *)

\* What was appended is the last.
LEMMA LastAppended ==
  ASSUME NEW s \in Seq(Replies), NEW x \in Replies
  PROVE  Append(s, x) # <<>> /\ LastOf(Append(s, x)) = x[2]
<1>1. Len(s) \in Nat /\ Len(Append(s, x)) = Len(s) + 1 /\ Append(s, x)[Len(s) + 1] = x
  OBVIOUS
<1>2. Append(s, x) # <<>>
  BY <1>1
<1> QED
  BY <1>1, <1>2 DEF LastOf

\* What wire holds after a write.
LEMMA Written ==
  ASSUME TypeOK, NEW c \in Clients, NEW n, <<c, n>> \in Replies,
         wire' = [wire EXCEPT ![c] = Append(@, <<c, n>>)]
  PROVE  /\ wire'[c] # <<>> /\ LastOf(wire'[c]) = n
         /\ \A d \in Clients \ {c} : wire'[d] = wire[d]
<1>1. wire[c] \in Seq(Replies) /\ wire'[c] = Append(wire[c], <<c, n>>)
  BY DEF TypeOK
<1>2. Append(wire[c], <<c, n>>) # <<>> /\ LastOf(Append(wire[c], <<c, n>>)) = n
  BY <1>1, LastAppended
<1> QED
  BY <1>1, <1>2 DEF TypeOK

\* A functor sends the answer to the client that asked.
LEMMA RunFacts ==
  ASSUME IInv, PInv, ServerAssumption, RunFunctor
  PROVE  \E c \in Clients, n \in 1..MaxQueries :
           /\ running # <<>> /\ running' = Tail(running) /\ Head(running) = <<c, n>>
           /\ ElementsOf(running) = ElementsOf(running') \cup {<<c, n>>}
           /\ client[c] = "open" /\ <<c, n>> \in Replies
           /\ wire' = [wire EXCEPT ![c] = Append(@, <<c, n>>)]
           /\ UNCHANGED <<functors, hand, queue, pending, got, client, sent, backlog, workerPc, left>>
<1> USE DEF IInv
<1>1. /\ running # <<>> /\ running' = Tail(running)
      /\ UNCHANGED <<functors, hand, queue, pending, got, client, sent, backlog, workerPc, left>>
  BY DEF RunFunctor, loopVars, poolVars, workerVars
<1>2. PICK c \in Clients : c = Head(running)[1] /\ client[c] = "open" /\ Alive(c)
  BY <1>1, HeadAlive
<1>3. Head(running) \in Tasks /\ ElementsOf(running) = ElementsOf(running') \cup {Head(running)}
  BY <1>1, TailElements DEF TypeOK
<1>4. PICK n \in 1..MaxQueries : Head(running) = <<c, n>>
  BY <1>2, <1>3 DEF Tasks
<1>5. PICK fd \in Fds : fdTable[fd] = c
  BY <1>2 DEF Alive
<1>6. sockfd[c] = fd
  BY <1>5 DEF DescriptorOwnership, ServerAssumption
<1>7. Write(c, <<c, n>>)
  BY <1>2, <1>4, <1>5, <1>6 DEF RunFunctor
<1>8. wire' = [wire EXCEPT ![c] = Append(@, <<c, n>>)]
  BY <1>2, <1>7, WriteArrives
<1>9. <<c, n>> \in Replies
  BY DEF Replies, ServerAssumption
<1> QED
  BY <1>1, <1>2, <1>3, <1>4, <1>8, <1>9

\* The greeting.
LEMMA AcceptFacts ==
  ASSUME IInv, PInv, SInv, ServerAssumption, HandleConnection
  PROVE  \E c \in Clients :
           /\ ElementsOf(backlog) = ElementsOf(backlog') \cup {c} /\ c \notin ElementsOf(backlog')
           /\ client[c] = "open" /\ wire[c] = <<>> /\ <<c, 0>> \in Replies
           /\ wire' = [wire EXCEPT ![c] = Append(@, <<c, 0>>)]
           /\ UNCHANGED <<running, functors, hand, queue, pending, got, client, sent, workerPc, left>>
<1> USE DEF IInv
<1>1. PICK fd \in Fds :
        /\ LowestFree(fd)
        /\ IF connMap[fd] = NoClient THEN Write(Head(backlog), <<Head(backlog), 0>>) ELSE TRUE
  BY DEF HandleConnection
<1>2. connMap[fd] = NoClient
  BY <1>1 DEF LowestFree, FreeFds, DescriptorOwnership
<1>3. /\ backlog # <<>> /\ backlog' = Tail(backlog)
      /\ UNCHANGED <<running, functors, hand, queue, pending, got, client, sent, workerPc, left>>
  BY DEF HandleConnection, Places, loopVars, poolVars, workerVars
<1>4. PICK c \in Clients : c = Head(backlog) /\ ElementsOf(backlog) = ElementsOf(backlog') \cup {c}
  BY <1>3, TailElements DEF TypeOK
<1>5. c \notin ElementsOf(backlog')
  <2>1. /\ Len(backlog) \in Nat /\ Len(backlog) > 0 /\ Len(backlog') = Len(backlog) - 1 /\ c = backlog[1]
        /\ \A k \in 1..Len(backlog') : backlog'[k] = backlog[k + 1]
    BY <1>3, <1>4 DEF TypeOK
  <2> QED
    BY <2>1 DEF NotYetAlive, ElementsOf
<1>6. client[c] = "open"
  BY <1>4, Flying DEF PInv
<1>7. wire[c] = <<>>
  BY <1>4 DEF SInv, Greeted
<1>8. wire' = [wire EXCEPT ![c] = Append(@, <<c, 0>>)]
  BY <1>1, <1>2, <1>4, <1>6, WriteArrives
<1>9. <<c, 0>> \in Replies
  BY DEF Replies, ServerAssumption
<1> QED
  BY <1>3, <1>4, <1>5, <1>6, <1>7, <1>8, <1>9

\* No other step writes anything.
LEMMA NoOtherWrite ==
  ASSUME IInv, PInv, [Next]_vars, ~HandleConnection, ~RunFunctor PROVE UNCHANGED wire
<1>1. ~RunDangling
  BY HeadAlive DEF RunDangling
<1> QED
  BY <1>1 DEF Next, ClientStep, LoopStep, WorkerStep, Connect, SendLine, Close, Poll, PollTimeout, BatchDone,
              AcceptFails, HandleMessage, HandleClose, AddTask, HandleRead, SwapFunctors, FunctorsDone,
              TakeTask, QueueReply, Wakeup, FinishTask, vars, netVars

\* What the steps between reading a line and returning from process() keep.
LEMMA Quiet ==
  ASSUME IInv, PInv, SInv, ServerAssumption, [Next]_vars,
         ~RunFunctor, \A fd \in Fds : ~HandleMessage(fd), \A w \in Workers : ~FinishTask(w)
  PROVE  Carriers' = Carriers /\ got' = got
<1> USE DEF IInv
<1>1. ~RunDangling
  BY HeadAlive DEF RunDangling
<1>2. got' = got
  BY <1>1 DEF Next, ClientStep, LoopStep, WorkerStep, Connect, SendLine, Close, Poll, PollTimeout, BatchDone,
              HandleConnection, AcceptFails, HandleClose, AddTask, HandleRead, SwapFunctors, FunctorsDone,
              TakeTask, QueueReply, Wakeup, vars
<1>3. CASE AddTask
  <2>1. LiveTasks' = LiveTasks /\ UNCHANGED <<functors, running>>
    BY <1>3, AddedTask DEF AddTask, loopVars
  <2> QED
    BY <1>2, <2>1, CarriersPrimed DEF Carriers
<1>4. ASSUME NEW w \in Workers, TakeTask(w) PROVE Carriers' = Carriers
  <2>1. LiveTasks' = LiveTasks /\ UNCHANGED <<functors, running>>
    BY <1>4, TakenTask DEF TakeTask, loopVars, pollVars
  <2> QED
    BY <2>1, CarriersPrimed DEF Carriers
<1>5. ASSUME NEW w \in Workers, QueueReply(w) PROVE Carriers' = Carriers
  <2>1. /\ functors' = Append(functors, hand[w]) /\ UNCHANGED <<pending, queue, hand, running>>
        /\ hand[w] \in Tasks /\ hand[w] # NoTask
    BY <1>5 DEF QueueReply, Places, TypeOK, pollVars, poolVars
  <2>2. hand[w] \in LiveTasks /\ LiveTasks' = LiveTasks
    BY <2>1, LiveTask, SameTasks
  <2>3. ElementsOf(functors') = ElementsOf(functors) \cup {hand[w]}
    BY <2>1, AppendElements DEF TypeOK
  <2> QED
    BY <2>1, <2>2, <2>3, CarriersPrimed DEF Carriers
<1>6. CASE SwapFunctors
  <2>1. /\ running = <<>> /\ running' = functors /\ functors' = <<>> /\ LiveTasks' = LiveTasks
    BY <1>6, SameTasks DEF SwapFunctors, SInv, RunOnly, poolVars
  <2>2. ElementsOf(running) = {} /\ ElementsOf(functors') = {}
    BY <2>1 DEF ElementsOf
  <2> QED
    BY <1>2, <2>1, <2>2, CarriersPrimed DEF Carriers
<1>7. ASSUME UNCHANGED <<functors, running, pending, queue, hand>> PROVE Carriers' = Carriers
  BY <1>7, SameTasks, CarriersPrimed DEF Carriers
<1> QED
  BY <1>1, <1>2, <1>3, <1>4, <1>5, <1>6, <1>7
     DEF Next, ClientStep, LoopStep, WorkerStep, Connect, SendLine, Close, Poll, PollTimeout, BatchDone,
         HandleConnection, AcceptFails, HandleClose, HandleRead, FunctorsDone, Wakeup,
         vars, pollVars, loopVars, poolVars

-----------------------------------------------------------------------------
(* The invariant is inductive. *)

\* The loop leaves no functor behind.
LEMMA RunOnlyStep == ASSUME SInv, [Next]_vars PROVE RunOnly'
BY DEF SInv, RunOnly, Next, ClientStep, LoopStep, WorkerStep, Connect, SendLine, Close, Poll, PollTimeout, BatchDone,
         HandleConnection, AcceptFails, HandleMessage, HandleClose, AddTask, HandleRead, SwapFunctors,
         RunFunctor, RunDangling, FunctorsDone, TakeTask, QueueReply, Wakeup, FinishTask, vars, pollVars

\* Clients are greeted when they are accepted.
LEMMA GreetedStep == ASSUME IInv, PInv, SInv, ServerAssumption, [Next]_vars PROVE Greeted'
<1> USE DEF IInv
<1>1. CASE HandleConnection
  <2>1. PICK c \in Clients :
          /\ ElementsOf(backlog) = ElementsOf(backlog') \cup {c} /\ c \notin ElementsOf(backlog')
          /\ client[c] = "open" /\ <<c, 0>> \in Replies
          /\ wire' = [wire EXCEPT ![c] = Append(@, <<c, 0>>)] /\ UNCHANGED <<got, client>>
    BY <1>1, AcceptFacts
  <2>2. wire'[c] # <<>> /\ \A d \in Clients \ {c} : wire'[d] = wire[d]
    BY <2>1, Written
  <2> QED
    BY <2>1, <2>2, GreetedPrimed DEF SInv, Greeted
<1>2. CASE RunFunctor
  <2>1. PICK c \in Clients, n \in 1..MaxQueries :
          /\ ElementsOf(running) = ElementsOf(running') \cup {<<c, n>>}
          /\ client[c] = "open" /\ <<c, n>> \in Replies
          /\ wire' = [wire EXCEPT ![c] = Append(@, <<c, n>>)] /\ UNCHANGED <<got, client, backlog>>
    BY <1>2, RunFacts
  <2>2. wire'[c] # <<>> /\ \A d \in Clients \ {c} : wire'[d] = wire[d]
    BY <2>1, Written
  <2>3. c \notin ElementsOf(backlog)
    BY <2>1 DEF PInv
  <2> QED
    BY <2>1, <2>2, <2>3, GreetedPrimed DEF SInv, Greeted
<1>3. ASSUME NEW c \in Clients, Connect(c) PROVE Greeted'
  <2>1. /\ client[c] = "new" /\ client'[c] = "open" /\ \A d \in Clients \ {c} : client'[d] = client[d]
        /\ ElementsOf(backlog') = ElementsOf(backlog) \cup {c} /\ UNCHANGED <<wire, got>>
    BY <1>3, AppendElements DEF Connect, TypeOK
  <2> QED
    BY <2>1, GreetedPrimed DEF SInv, Greeted
<1>4. ASSUME NEW c \in Clients, Close(c) PROVE Greeted'
  <2>1. /\ client[c] = "open" /\ client'[c] = "closed" /\ \A d \in Clients \ {c} : client'[d] = client[d]
        /\ UNCHANGED <<wire, got, backlog>>
    BY <1>4 DEF Close, TypeOK
  <2> QED
    BY <2>1, GreetedPrimed DEF SInv, Greeted
<1>5. ASSUME NEW fd \in Fds, HandleMessage(fd) PROVE Greeted'
  <2>1. PICK c \in Clients : c = fdTable[fd] /\ got' = [got EXCEPT ![c] = @ + 1]
    BY <1>5 DEF HandleMessage, HasLine, TypeOK
  <2>2. Alive(c) /\ UNCHANGED <<wire, client, backlog>>
    BY <1>5, <2>1 DEF Alive, HandleMessage, netVars
  <2>3. client[c] # "new" /\ c \notin ElementsOf(backlog)
    BY <2>2 DEF NotYetAlive
  <2>4. \A d \in Clients \ {c} : got'[d] = got[d]
    BY <2>1 DEF TypeOK
  <2> QED
    BY <2>2, <2>3, <2>4, GreetedPrimed DEF SInv, Greeted
<1>6. ASSUME UNCHANGED <<wire, client, backlog, got>> PROVE Greeted'
  BY <1>6, GreetedPrimed DEF SInv, Greeted
<1>7. ~RunDangling
  BY HeadAlive DEF RunDangling
<1> QED
  BY <1>1, <1>2, <1>3, <1>4, <1>5, <1>6, <1>7
     DEF Next, ClientStep, LoopStep, WorkerStep, SendLine, Poll, PollTimeout, BatchDone, AcceptFails, HandleClose,
         AddTask, HandleRead, SwapFunctors, FunctorsDone, TakeTask, QueueReply, Wakeup, FinishTask, vars, netVars

\* Accepting leaves the last answers as they are.
LEMMA LastKept ==
  ASSUME IInv, PInv, SInv, ServerAssumption, [Next]_vars, ~RunFunctor
  PROVE  \A c \in Clients : LastOf(wire'[c]) = LastOf(wire[c])
<1>1. CASE HandleConnection
  <2>1. PICK c \in Clients :
          /\ wire[c] = <<>> /\ <<c, 0>> \in Replies
          /\ wire' = [wire EXCEPT ![c] = Append(@, <<c, 0>>)]
    BY <1>1, AcceptFacts
  <2>2. LastOf(wire'[c]) = 0 /\ \A d \in Clients \ {c} : wire'[d] = wire[d]
    BY <2>1, Written DEF IInv
  <2>3. LastOf(wire[c]) = 0
    BY <2>1 DEF LastOf
  <2> QED
    BY <2>2, <2>3
<1>2. CASE ~HandleConnection
  BY <1>2, NoOtherWrite
<1> QED
  BY <1>1, <1>2

\* A line is answered after the ones before it.
LEMMA RunKeeps ==
  ASSUME IInv, IInv', PInv, SInv, ServerAssumption, RunFunctor PROVE Within' /\ Covered'
<1> USE DEF IInv
<1>1. PICK c \in Clients, n \in 1..MaxQueries :
        /\ running # <<>> /\ running' = Tail(running) /\ Head(running) = <<c, n>>
        /\ ElementsOf(running) = ElementsOf(running') \cup {<<c, n>>} /\ <<c, n>> \in Replies
        /\ wire' = [wire EXCEPT ![c] = Append(@, <<c, n>>)]
        /\ UNCHANGED <<functors, hand, queue, pending, got>>
  BY RunFacts
<1>2. LastOf(wire'[c]) = n /\ \A d \in Clients \ {c} : wire'[d] = wire[d]
  BY <1>1, Written
<1>3. Carriers = Carriers' \cup {<<c, n>>}
  BY <1>1, CarrierPlaces, CarrierPlacesPrimed
<1>4. NotAfter({<<c, n>>}, Carriers')
  <2>1. NotAfter({<<c, n>>}, ElementsOf(running'))
    BY <1>1, TailInOrder DEF TypeOK, SInv, Ordered, Passing
  <2>2. NotAfter({<<c, n>>}, ElementsOf(functors) \cup HeldIn(hand) \cup ElementsOf(queue) \cup WaitingIn(pending))
    BY <1>1 DEF SInv, Ordered, Passing, NotAfter
  <2> QED
    BY <1>1, <2>1, <2>2, CarrierPlacesPrimed DEF NotAfter
<1>5. ASSUME NEW t \in Carriers' PROVE LastOf(wire'[t[1]]) <= t[2] /\ t[2] <= got'[t[1]]
  <2>1. PICK d \in Clients, m \in 1..MaxQueries : t = <<d, m>> /\ t[1] = d /\ t[2] = m /\ t \in Carriers
    BY <1>3, CarrierTypes
  <2>2. LastOf(wire[d]) <= m /\ m <= got[d]
    BY <2>1 DEF SInv, Within
  <2>3. d = c => n <= m
    BY <1>4, <2>1 DEF NotAfter
  <2> QED
    BY <1>1, <1>2, <2>1, <2>2, <2>3
<1>6. LastOf(wire[c]) <= n /\ n <= got[c] /\ \A d \in Clients : LastOf(wire[d]) \in Nat /\ LastOf(wire[d]) <= got[d]
  <2>1. <<c, n>> \in Carriers /\ <<c, n>>[1] = c /\ <<c, n>>[2] = n
    BY <1>3
  <2> QED
    BY <2>1 DEF SInv, Within
<1>7. ASSUME NEW d \in Clients PROVE LastOf(wire'[d]) \in Nat /\ LastOf(wire'[d]) <= got'[d]
  BY <1>1, <1>2, <1>6
<1>8. ASSUME NEW d \in Clients, NEW m \in 1..MaxQueries, LastOf(wire'[d]) < m, m <= got'[d]
      PROVE  <<d, m>> \in Carriers'
  <2>1. LastOf(wire[d]) < m
    BY <1>2, <1>6, <1>8
  <2>2. <<d, m>> \in Carriers
    BY <1>1, <1>8, <2>1 DEF SInv, Covered
  <2>3. <<d, m>> # <<c, n>>
    BY <1>2, <1>8
  <2> QED
    BY <1>3, <2>2, <2>3
<1> QED
  BY <1>5, <1>7, <1>8, WithinPrimed, CoveredPrimed

\* A line that is read is on its way.
LEMMA MessageKeeps ==
  ASSUME IInv, PInv, SInv, ServerAssumption, NEW fd \in Fds, HandleMessage(fd) PROVE Within' /\ Covered'
<1> USE DEF IInv
<1>1. PICK c \in Clients : c = fdTable[fd] /\ got' = [got EXCEPT ![c] = @ + 1]
  BY DEF HandleMessage, HasLine, TypeOK
<1>2. /\ pending' = <<c, got[c] + 1>> /\ pending' \in Tasks /\ pending' # NoTask /\ pending = NoTask
      /\ UNCHANGED <<wire, running, functors, hand, queue>>
  BY <1>1, HandleMessageTypes, NoTaskIsNone DEF HandleMessage, Places, netVars, loopVars, poolVars
<1>3. LiveTasks' = LiveTasks \cup {pending'}
  BY <1>2, NewTask
<1>4. Carriers' = Carriers \cup {<<c, got[c] + 1>>}
  BY <1>2, <1>3, CarriersPrimed DEF Carriers
<1>5. \A d \in Clients : got[d] \in Nat /\ got'[d] \in Nat /\ got'[d] = IF d = c THEN got[d] + 1 ELSE got[d]
  BY <1>1 DEF TypeOK
<1>6. ASSUME NEW t \in Carriers' PROVE LastOf(wire'[t[1]]) <= t[2] /\ t[2] <= got'[t[1]]
  <2>1. CASE t \in Carriers
    <3>1. PICK d \in Clients, m \in 1..MaxQueries : t[1] = d /\ t[2] = m
      BY <2>1, CarrierTypes
    <3>2. LastOf(wire[d]) <= m /\ m <= got[d]
      BY <2>1, <3>1 DEF SInv, Within
    <3> QED
      BY <1>2, <1>5, <3>1, <3>2
  <2>2. CASE t = <<c, got[c] + 1>>
    <3>1. LastOf(wire[c]) \in Nat /\ LastOf(wire[c]) <= got[c]
      BY DEF SInv, Within
    <3> QED
      BY <1>2, <1>5, <2>2, <3>1
  <2> QED
    BY <1>4, <1>6, <2>1, <2>2
<1>7. ASSUME NEW d \in Clients PROVE LastOf(wire'[d]) \in Nat /\ LastOf(wire'[d]) <= got'[d]
  <2>1. LastOf(wire[d]) \in Nat /\ LastOf(wire[d]) <= got[d]
    BY DEF SInv, Within
  <2> QED
    BY <1>2, <1>5, <2>1
<1>8. ASSUME NEW d \in Clients, NEW m \in 1..MaxQueries, LastOf(wire'[d]) < m, m <= got'[d]
      PROVE  <<d, m>> \in Carriers'
  <2>1. CASE d = c /\ m = got[c] + 1
    BY <1>4, <2>1
  <2>2. CASE ~(d = c /\ m = got[c] + 1)
    <3>1. m <= got[d]
      BY <1>5, <1>8, <2>2
    <3> QED
      BY <1>2, <1>4, <1>8, <3>1 DEF SInv, Covered
  <2> QED
    BY <2>1, <2>2
<1> QED
  BY <1>6, <1>7, <1>8, WithinPrimed, CoveredPrimed

\* A task that ends has been answered, so nothing is left out.
LEMMA FinishKeeps ==
  ASSUME IInv, PInv, SInv, ServerAssumption, NEW w \in Workers, FinishTask(w) PROVE Within' /\ Covered'
<1> USE DEF IInv
<1>1. /\ LiveTasks' = LiveTasks \ {hand[w]} /\ hand[w] \in Tasks /\ hand[w] \in LiveTasks
      /\ workerPc[w] = "process" /\ left[w] = 0
      /\ UNCHANGED <<wire, got, running, functors>>
  BY FinishedTask DEF FinishTask, netVars, pollVars, loopVars
<1>2. Carriers' \subseteq Carriers /\ Carriers \subseteq Carriers' \cup {hand[w]}
  BY <1>1, CarriersPrimed DEF Carriers
<1>3. hand[w] \in Carriers' \/ hand[w][2] <= LastOf(wire[hand[w][1]])
  BY <1>1, CarriersPrimed DEF SInv, Replied, Carriers
<1>4. ASSUME NEW d \in Clients, NEW m \in 1..MaxQueries, LastOf(wire'[d]) < m, m <= got'[d]
      PROVE  <<d, m>> \in Carriers'
  <2>1. <<d, m>> \in Carriers
    BY <1>1, <1>4 DEF SInv, Covered
  <2>2. CASE <<d, m>> = hand[w]
    <3>1. hand[w][1] = d /\ hand[w][2] = m /\ LastOf(wire[d]) \in Nat
      BY <2>2 DEF SInv, Within
    <3> QED
      BY <1>1, <1>3, <1>4, <2>2, <3>1
  <2> QED
    BY <1>2, <2>1, <2>2
<1> QED
  BY <1>1, <1>2, <1>4, WithinPrimed, CoveredPrimed DEF SInv, Within

\* Every step keeps the lines on their way.
LEMMA LinesStep ==
  ASSUME IInv, IInv', PInv, SInv, ServerAssumption, [Next]_vars PROVE Within' /\ Covered'
<1>1. ASSUME ~RunFunctor, \A fd \in Fds : ~HandleMessage(fd), \A w \in Workers : ~FinishTask(w)
      PROVE  Within' /\ Covered'
  <2>1. Carriers' = Carriers /\ got' = got
    BY <1>1, Quiet
  <2>2. \A c \in Clients : LastOf(wire'[c]) = LastOf(wire[c])
    BY <1>1, LastKept
  <2>3. \A t \in Carriers : t[1] \in Clients
    BY CarrierTypes DEF IInv
  <2> QED
    BY <2>1, <2>2, <2>3, WithinPrimed, CoveredPrimed DEF SInv, Within, Covered
<1> QED
  BY <1>1, RunKeeps, MessageKeeps, FinishKeeps

\* A worker ends no task without an answer.
LEMMA RepliedStep ==
  ASSUME IInv, PInv, SInv, ServerAssumption, Lone, [Next]_vars PROVE Replied'
<1> USE DEF IInv
<1>1. CASE RunFunctor
  <2>1. PICK c \in Clients, n \in 1..MaxQueries :
          /\ ElementsOf(running) = ElementsOf(running') \cup {<<c, n>>} /\ <<c, n>> \in Replies
          /\ wire' = [wire EXCEPT ![c] = Append(@, <<c, n>>)]
          /\ UNCHANGED <<functors, hand, workerPc, left>>
    BY <1>1, RunFacts
  <2>2. LastOf(wire'[c]) = n /\ \A d \in Clients \ {c} : wire'[d] = wire[d]
    BY <2>1, Written
  <2>3. <<c, n>> \in Carriers
    BY <2>1 DEF Carriers
  <2>4. LastOf(wire[c]) <= n /\ LastOf(wire[c]) \in Nat
    BY <2>3 DEF SInv, Within
  <2>5. ASSUME NEW w \in Workers, workerPc[w] = "wakeup" \/ (workerPc[w] = "process" /\ left[w] = 0)
        PROVE  \/ hand[w] \in ElementsOf(running') \cup ElementsOf(functors)
               \/ hand[w][2] <= LastOf(wire'[hand[w][1]])
    <3> hand[w] \in Tasks
      BY <2>5 DEF Places, TypeOK
    <3>1. PICK d \in Clients, m \in 1..MaxQueries : hand[w] = <<d, m>> /\ hand[w][1] = d /\ hand[w][2] = m
      BY DEF Tasks
    <3>2. hand[w] \in ElementsOf(running) \cup ElementsOf(functors) \/ m <= LastOf(wire[d])
      BY <2>5, <3>1 DEF SInv, Replied
    <3>3. CASE m <= LastOf(wire[d])
      BY <2>2, <2>4, <3>1, <3>3
    <3>4. CASE hand[w] = <<c, n>>
      BY <2>2, <3>1, <3>4
    <3> QED
      BY <2>1, <3>2, <3>3, <3>4
  <2> QED
    BY <2>1, <2>5, RepliedPrimed
<1>2. \A v, w \in Workers : v = w
  BY DEF Lone
<1>3. ASSUME ~RunFunctor PROVE Replied'
  <2>1. \A c \in Clients : LastOf(wire'[c]) = LastOf(wire[c])
    BY <1>3, LastKept
  <2>2. ASSUME ElementsOf(running) \cup ElementsOf(functors) \subseteq ElementsOf(running') \cup ElementsOf(functors'),
               UNCHANGED <<hand, left>>,
               \A w \in Workers : workerPc'[w] = "wakeup" => workerPc[w] = "wakeup",
               \A w \in Workers : workerPc'[w] = "process" => workerPc[w] \in {"process", "wakeup"}
        PROVE  Replied'
    <3> SUFFICES ASSUME NEW w \in Workers, workerPc'[w] = "wakeup" \/ (workerPc'[w] = "process" /\ left'[w] = 0)
                 PROVE  \/ hand'[w] \in ElementsOf(running') \cup ElementsOf(functors')
                        \/ hand'[w][2] <= LastOf(wire'[hand'[w][1]])
      BY RepliedPrimed
    <3>1. workerPc[w] = "wakeup" \/ (workerPc[w] = "process" /\ left[w] = 0)
      BY <2>2
    <3>2. hand[w][1] \in Clients
      BY <3>1 DEF Places, TypeOK, Tasks
    <3>3. hand[w] \in ElementsOf(running) \cup ElementsOf(functors) \/ hand[w][2] <= LastOf(wire[hand[w][1]])
      BY <3>1 DEF SInv, Replied
    <3> QED
      BY <2>1, <2>2, <3>2, <3>3
  <2>3. ASSUME NEW w \in Workers, TakeTask(w) PROVE Replied'
    <3>1. workerPc'[w] = "process" /\ left'[w] # 0
      BY <2>3 DEF TakeTask, TypeOK
    <3> QED
      BY <1>2, <3>1, RepliedPrimed
  <2>4. ASSUME NEW w \in Workers, QueueReply(w) PROVE Replied'
    <3>1. hand'[w] \in ElementsOf(functors')
      <4>1. functors' = Append(functors, hand[w]) /\ hand' = hand /\ hand[w] \in Tasks
        BY <2>4 DEF QueueReply, Places, TypeOK, poolVars
      <4> QED
        BY <4>1, AppendElements DEF TypeOK
    <3> QED
      BY <1>2, <3>1, RepliedPrimed
  <2>5. ASSUME NEW w \in Workers, Wakeup(w) PROVE Replied'
    <3>1. /\ UNCHANGED <<running, functors, hand, left>> /\ workerPc[w] = "wakeup"
          /\ workerPc'[w] = "process"
      BY <2>5 DEF Wakeup, TypeOK, pollVars, poolVars
    <3> QED
      BY <1>2, <2>2, <3>1
  <2>6. ASSUME NEW w \in Workers, FinishTask(w) PROVE Replied'
    <3>1. workerPc'[w] = "idle"
      BY <2>6 DEF FinishTask, TypeOK
    <3> QED
      BY <1>2, <3>1, RepliedPrimed
  <2>7. CASE SwapFunctors
    <3>1. /\ running = <<>> /\ running' = functors
          /\ UNCHANGED <<hand, left, workerPc>>
      BY <2>7 DEF SwapFunctors, SInv, RunOnly, poolVars, workerVars
    <3>2. ElementsOf(running) = {}
      BY <3>1 DEF ElementsOf
    <3> QED
      BY <2>2, <3>1, <3>2
  <2>8. ASSUME UNCHANGED <<running, functors, hand, left, workerPc>> PROVE Replied'
    BY <2>2, <2>8
  <2>9. CASE AddTask
    <3>1. UNCHANGED <<running, functors, hand, left, workerPc>>
      BY <2>9, AddedTask DEF AddTask, loopVars, workerVars
    <3> QED
      BY <2>8, <3>1
  <2>10. ~RunDangling
    BY HeadAlive DEF RunDangling
  <2> QED
    BY <1>3, <2>3, <2>4, <2>5, <2>6, <2>7, <2>8, <2>9, <2>10
       DEF Next, ClientStep, LoopStep, WorkerStep, Connect, SendLine, Close, Poll, PollTimeout, BatchDone,
           HandleConnection, AcceptFails, HandleMessage, HandleClose, HandleRead, FunctorsDone,
           vars, pollVars, loopVars, poolVars, workerVars
<1> QED
  BY <1>1, <1>3

-----------------------------------------------------------------------------
(* The refinement. *)

\* Every step of the server is a step of the service or none.
LEMMA ServiceStep ==
  ASSUME IInv, PInv, SInv, ServerAssumption, [Next]_vars
  PROVE  [Service!ServiceNext]_(Service!serviceVars)
<1> USE DEF IInv
<1>1. ASSUME NEW c \in Clients, ClientStep(c) PROVE Service!ServiceNext
  BY <1>1 DEF ClientStep, Connect, SendLine, Close, Service!ServiceNext, Service!ConnectTo, Service!Ask, Service!HangUp
<1>2. CASE HandleConnection
  <2>1. PICK c \in Clients :
          /\ client[c] = "open" /\ wire[c] = <<>>
          /\ wire' = [wire EXCEPT ![c] = Append(@, <<c, 0>>)] /\ UNCHANGED <<client, sent>>
    BY <1>2, AcceptFacts
  <2>2. Service!Deliver(c, 0)
    BY <2>1 DEF Service!Deliver, Service!MayReceive
  <2>3. 0 \in 0..MaxQueries
    BY DEF ServerAssumption
  <2> QED
    BY <2>2, <2>3 DEF Service!ServiceNext
<1>3. CASE RunFunctor
  <2>1. PICK c \in Clients, n \in 1..MaxQueries :
          /\ running # <<>> /\ running' = Tail(running) /\ Head(running) = <<c, n>>
          /\ ElementsOf(running) = ElementsOf(running') \cup {<<c, n>>}
          /\ client[c] = "open"
          /\ wire' = [wire EXCEPT ![c] = Append(@, <<c, n>>)] /\ UNCHANGED <<client, sent>>
    BY <1>3, RunFacts
  <2>2. <<c, n>> \in Carriers
    BY <2>1 DEF Carriers
  <2>3. /\ LastOf(wire[c]) \in Nat /\ LastOf(wire[c]) <= n /\ n <= got[c]
        /\ got[c] \in Nat /\ sent[c] \in Nat /\ got[c] <= sent[c]
    BY <2>2 DEF SInv, Within, TypeOK, ReadWhatWasSent
  <2>4. wire[c] # <<>>
    BY <2>3 DEF SInv, Greeted
  <2>5. n \in {LastOf(wire[c]), LastOf(wire[c]) + 1}
    <3> SUFFICES ASSUME LastOf(wire[c]) + 1 < n PROVE FALSE
      BY <2>3
    <3>1. LastOf(wire[c]) + 1 \in 1..MaxQueries
      BY <2>3 DEF ServerAssumption
    <3>2. <<c, LastOf(wire[c]) + 1>> \in Carriers
      BY <2>3, <3>1 DEF SInv, Covered
    <3>3. NotAfter({<<c, n>>}, Carriers \ {<<c, n>>})
      <4>1. NotAfter({<<c, n>>}, ElementsOf(running'))
        BY <2>1, TailInOrder DEF TypeOK, SInv, Ordered, Passing
      <4>2. NotAfter({<<c, n>>}, ElementsOf(functors) \cup HeldIn(hand) \cup ElementsOf(queue) \cup WaitingIn(pending))
        BY <2>1 DEF SInv, Ordered, Passing, NotAfter
      <4> QED
        BY <2>1, <4>1, <4>2, CarrierPlaces DEF NotAfter
    <3>4. n <= LastOf(wire[c]) + 1
      BY <3>2, <3>3 DEF NotAfter
    <3> QED
      BY <2>3, <3>4
  <2>6. Service!MayReceive(c, n)
    <3>1. Service!LastAnswered(c) = LastOf(wire[c])
      BY <2>4 DEF Service!LastAnswered, LastOf
    <3> QED
      BY <2>3, <2>4, <2>5, <3>1 DEF Service!MayReceive
  <2>7. Service!Deliver(c, n)
    BY <2>1, <2>6 DEF Service!Deliver
  <2>8. n \in 0..MaxQueries
    BY DEF ServerAssumption
  <2> QED
    BY <2>7, <2>8 DEF Service!ServiceNext
<1>4. ASSUME ~HandleConnection, ~RunFunctor, \A c \in Clients : ~ClientStep(c)
      PROVE  UNCHANGED Service!serviceVars
  <2>1. UNCHANGED wire
    BY <1>4, NoOtherWrite
  <2>2. UNCHANGED <<client, sent>>
    BY <1>4 DEF Next, LoopStep, WorkerStep, Poll, PollTimeout, BatchDone, AcceptFails, HandleMessage, HandleClose,
                AddTask, HandleRead, SwapFunctors, RunDangling, FunctorsDone,
                TakeTask, QueueReply, Wakeup, FinishTask, vars, netVars
  <2> QED
    BY <2>1, <2>2 DEF Service!serviceVars
<1> QED
  BY <1>1, <1>2, <1>3, <1>4

\* With one worker, and patient clients that have a descriptor each, every
\* client sees QueryService: the greeting, then at least one answer to each of
\* its lines, in their order, none left out and none of another client's.
THEOREM ServerImplementsService == Lone => (Spec => ImplementsService)
<1> SUFFICES ASSUME Lone PROVE Spec => ImplementsService
  OBVIOUS
<1>1. ServerAssumption /\ Roomy
  BY ServerAssumption DEF Lone
<1>2. Init => SInv
  BY <1>1, InitSInv
<1>3. IInv /\ IInv' /\ PInv /\ SInv /\ [Next]_vars => SInv'
  BY <1>1, OrderStep, RunOnlyStep, GreetedStep, LinesStep, RepliedStep DEF SInv
<1>4. Init => Service!ServiceInit
  BY DEF Init, Service!ServiceInit
<1>5. IInv /\ PInv /\ SInv /\ [Next]_vars => [Service!ServiceNext]_(Service!serviceVars)
  BY <1>1, ServiceStep
<1>6. Spec => []PInv
  BY <1>1, PatientInvariant
<1> QED
  BY <1>2, <1>3, <1>4, <1>5, <1>6, ServerInvariant, PTL DEF Spec, ImplementsService, Service!ServiceSpec
=============================================================================
