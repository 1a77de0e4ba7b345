------------------------------ MODULE LineIO ------------------------------
(***************************************************************************)
(* The byte stream of one connection, below SearchServer's lines and       *)
(* answers: SocketIO's loops over partial reads and writes on the server's *)
(* non-blocking descriptor, and the test client, which reads a length that *)
(* the server never sends.                                                 *)
(*                                                                         *)
(* A byte is the pair of what it belongs to and its place there: the n-th  *)
(* line of the client, or the n-th answer (the greeting is the 0th).       *)
(***************************************************************************)
EXTENDS Naturals, SequencesExt

CONSTANTS
  LineLens,    \* lengths a line may have, its newline included
  MaxLines,    \* bound: lines the client writes
  BufSize,     \* the buffer of receive() (65536)
  AnswerLen,   \* the length of an answer
  SendSpace,   \* bytes that fit the buffers between server and client
  FgetsLen,    \* characters that fgets takes at most (1023)
  Header       \* sizeof(length) in the client (4)

ASSUME LineAssumption ==
  /\ LineLens \subseteq Nat \ {0}
  /\ MaxLines \in Nat
  /\ BufSize \in Nat \ {0, 1}
  /\ Header \in Nat \ {0}
  /\ AnswerLen \in Nat /\ AnswerLen > Header
  /\ SendSpace \in Nat \ {0}

VARIABLES
  client,      \* "greeting", "typing", "length", "data", "gone"
  lines,       \* the lines written: length, and whether a newline ends them
  upNet,       \* bytes on their way to the server, or held by its kernel
  header,      \* the bytes the client took for the length
  got,         \* bytes the client has read
  server,      \* "idle", "readline", "readn", "writen", "closed", "crashed"
  buf,         \* what receive() has in its buffer
  messages,    \* what receive() returned
  answered,    \* how many answers were written, or are being written
  unsent,      \* what is left of the answer being written
  sendBuf,     \* bytes in the kernels' buffers, or on their way to the client
  overran,     \* has recv_peek failed in the middle of a line? (history)
  cut          \* the answers writen gave up on (history)

clientVars == <<client, lines, header, got>>
readVars == <<buf, messages, overran>>
writeVars == <<answered, unsent, cut>>
netVars == <<upNet, sendBuf>>
vars == <<clientVars, readVars, writeVars, netVars, server>>

Bytes(n, len) == [k \in 1..len |-> <<n, k>>]
AnswerBytes(n) == Bytes(n, AnswerLen)

\* onConnection: the greeting is written before any line is read.
Init ==
  /\ client = "greeting"
  /\ lines = <<>>
  /\ upNet = <<>> /\ sendBuf = <<>>
  /\ header = <<>> /\ got = <<>>
  /\ server = "writen"
  /\ buf = <<>> /\ messages = <<>>
  /\ answered = 0
  /\ unsent = AnswerBytes(0)
  /\ overran = FALSE
  /\ cut = {}

-----------------------------------------------------------------------------
(* client.c.  Bytes arrive in order and in pieces of any size: a blocking   *)
(* read returns one or more of those on their way, up to its limit.  The    *)
(* client ends when the server has ended.                                  *)

\* A read of at most n bytes.
ClientRead(n) ==
  \E k \in 1..n :
    /\ k <= Len(sendBuf)
    /\ got' = got \o SubSeq(sendBuf, 1, k)
    /\ sendBuf' = SubSeq(sendBuf, k + 1, Len(sendBuf))

ReadGreeting ==
  /\ server # "crashed"
  /\ client = "greeting"
  /\ ClientRead(Len(sendBuf))
  /\ client' = "typing"
  /\ UNCHANGED <<lines, header, readVars, writeVars, upNet, server>>

\* fgets cuts a line that is too long for its buffer: no newline then.  Other
\* clients may send longer lines.
WriteLine ==
  /\ server # "crashed"
  /\ client = "typing"
  /\ Len(lines) < MaxLines
  /\ \E len \in LineLens, ended \in BOOLEAN :
       /\ ended \/ len = FgetsLen
       /\ lines' = Append(lines, [len |-> len, ended |-> ended])
       /\ upNet' = upNet \o Bytes(Len(lines) + 1, len)
  /\ client' = "length"
  /\ UNCHANGED <<header, got, readVars, writeVars, sendBuf, server>>

ReadLength ==
  /\ server # "crashed"
  /\ client = "length"
  /\ ClientRead(Header)
  /\ header' = SubSeq(got', Len(got) + 1, Len(got'))
  /\ client' = "data"
  /\ UNCHANGED <<lines, readVars, writeVars, upNet, server>>

\* Four characters make a number larger than any answer.
ReadData ==
  /\ server # "crashed"
  /\ client = "data"
  /\ ClientRead(Len(sendBuf))
  /\ client' = "typing"
  /\ header' = <<>>
  /\ UNCHANGED <<lines, readVars, writeVars, upNet, server>>

\* Other characters than the ASCII ones an answer begins with may make a
\* negative number, which read refuses; its result is not looked at.
ReadDataFails ==
  /\ server # "crashed"
  /\ client = "data"
  /\ Len(header) = Header
  /\ Head(header)[2] # 1
  /\ client' = "typing"
  /\ header' = <<>>
  /\ UNCHANGED <<lines, got, readVars, writeVars, netVars, server>>

\* The client's user ends it, and what it has not read is lost.
HangUp ==
  /\ server # "crashed"
  /\ client \notin {"greeting", "gone"}
  /\ client' = "gone"
  /\ header' = <<>> /\ got' = <<>> /\ sendBuf' = <<>>
  /\ UNCHANGED <<lines, readVars, writeVars, upNet, server>>

-----------------------------------------------------------------------------
(* The server reads a line when its level-triggered epoll finds bytes.     *)

Eof == client = "gone" /\ upNet = <<>>

IsNewline(b) == b[2] = lines[b[1]].len /\ lines[b[1]].ended

\* readn of the n bytes that a peek has seen.
Consume(n) == upNet' = SubSeq(upNet, n + 1, Len(upNet))

Readable ==
  /\ server = "idle"
  /\ upNet # <<>>
  /\ server' = "readline"
  /\ UNCHANGED <<clientVars, readVars, writeVars, netVars>>

\* isConnectionClosed
PeerClosed ==
  /\ server = "idle"
  /\ Eof
  /\ server' = "closed"
  /\ UNCHANGED <<clientVars, readVars, writeVars, netVars>>

\* receive() returns s to onMessage.
Received(s) ==
  /\ messages' = Append(messages, s)
  /\ buf' = <<>>
  /\ server' = "idle"

\* Mutant: the terminating 0 is not counted.
PeekedBufSize ==
  {SubSeq(upNet, 1, k) : k \in {l \in 1..Len(upNet) : l <= BufSize - Len(buf)}}

\* What a peek may see: some of the bytes on their way have arrived, and the
\* room left in the buffer limits it.
Peeked ==
  {SubSeq(upNet, 1, k) : k \in {l \in 1..Len(upNet) : l <= BufSize - 1 - Len(buf)}}

\* Mutant: takes everything it has peeked at.
ReadAllPeeked ==
  /\ server = "readline"
  /\ \E seen \in Peeked :
       /\ \E k \in DOMAIN seen : IsNewline(seen[k])
       /\ Consume(Len(seen))
       /\ Received(buf \o seen)
  /\ UNCHANGED <<clientVars, overran, writeVars, sendBuf>>

\* Mutant: reads on until there is no further line.
ReadLines ==
  /\ server = "readline"
  /\ \E seen \in Peeked :
       /\ IsNewline(Last(seen))
       /\ \A k \in 1..(Len(seen) - 1) : ~IsNewline(seen[k])
       /\ Consume(Len(seen))
       /\ messages' = Append(messages, buf \o seen)
  /\ buf' = <<>>
  /\ UNCHANGED <<clientVars, overran, writeVars, sendBuf, server>>

ReadToNewline ==
  /\ server = "readline"
  /\ \E seen \in Peeked :
       /\ IsNewline(Last(seen))
       /\ \A k \in 1..(Len(seen) - 1) : ~IsNewline(seen[k])
       /\ Consume(Len(seen))
       /\ Received(buf \o seen)
  /\ UNCHANGED <<clientVars, overran, writeVars, sendBuf>>

\* Mutant: readn starts again where the buffer begins.
ReadPieceOver ==
  /\ server = "readline"
  /\ \E seen \in Peeked :
       /\ \A k \in DOMAIN seen : ~IsNewline(seen[k])
       /\ Consume(Len(seen))
       /\ IF Len(seen) = BufSize - 1
          THEN Received(seen)
          ELSE buf' = seen /\ UNCHANGED <<messages, server>>
  /\ UNCHANGED <<clientVars, overran, writeVars, sendBuf>>

\* A full buffer is returned as it is.
ReadPiece ==
  /\ server = "readline"
  /\ \E seen \in Peeked :
       /\ \A k \in DOMAIN seen : ~IsNewline(seen[k])
       /\ Consume(Len(seen))
       /\ IF Len(buf \o seen) = BufSize - 1
          THEN Received(buf \o seen)
          ELSE buf' = buf \o seen /\ UNCHANGED <<messages, server>>
  /\ UNCHANGED <<clientVars, overran, writeVars, sendBuf>>

\* The peek returns 0: an empty string, and the piece read is dropped.
ReadEof ==
  /\ server = "readline"
  /\ Eof
  /\ Received(<<>>)
  /\ UNCHANGED <<clientVars, overran, writeVars, netVars>>

\* Mutant: the peek is repeated until there is something to see.
PeekAgain ==
  /\ server = "readline"
  /\ buf # <<>> \/ upNet = <<>>
  /\ overran' = TRUE
  /\ UNCHANGED <<clientVars, buf, messages, writeVars, netVars, server>>

\* Nothing more has arrived: the peek fails with EAGAIN.  Its -1 is a large
\* size_t, and the search for a newline leaves the buffer: it crashes, or
\* finds one somewhere behind.
PeekFails ==
  /\ server = "readline"
  /\ buf # <<>> \/ upNet = <<>>
  /\ overran' = TRUE
  /\ server' \in {"readn", "crashed"}
  /\ UNCHANGED <<clientVars, buf, messages, writeVars, netVars>>

\* readn then reads what has arrived by now until it fails, and so does
\* readline; the caller takes what is in the buffer, if it has not been
\* written beyond.
ReadBehind ==
  /\ server = "readn"
  /\ \/ \E k \in 0..Len(upNet) :
          /\ Len(buf) + k < BufSize
          /\ Consume(k)
          /\ Received(buf \o SubSeq(upNet, 1, k))
     \/ /\ Len(buf) + Len(upNet) >= BufSize
        /\ server' = "crashed"
        /\ UNCHANGED <<buf, upNet, messages>>
  /\ UNCHANGED <<clientVars, overran, writeVars, sendBuf>>

-----------------------------------------------------------------------------
(* The server writes the answers, one for each message. *)

Send ==
  /\ server = "idle"
  /\ answered < Len(messages)
  /\ answered' = answered + 1
  /\ unsent' = AnswerBytes(answered + 1)
  /\ server' = "writen"
  /\ UNCHANGED <<clientVars, readVars, cut, netVars>>

\* A client that is gone resets the connection: the process may be killed by
\* SIGPIPE, or the bytes are lost with the rest.
WriteToGone ==
  /\ server = "writen"
  /\ client = "gone"
  /\ unsent' = <<>>
  /\ server' \in {"idle", "crashed"}
  /\ UNCHANGED <<clientVars, readVars, answered, cut, netVars>>

\* A write takes as much as there is room for.
Writable ==
  LET room == SendSpace - Len(sendBuf)
  IN  IF Len(unsent) < room THEN Len(unsent) ELSE room

\* Mutant: the pointer is not moved, only the count of what is left.
WriteSamePlace ==
  /\ server = "writen"
  /\ client # "gone"
  /\ Writable # 0
  /\ LET k == Writable IN
       /\ sendBuf' = sendBuf \o SubSeq(unsent, 1, k)
       /\ unsent' = SubSeq(unsent, 1, Len(unsent) - k)
  /\ server' = IF unsent' = <<>> THEN "idle" ELSE "writen"
  /\ UNCHANGED <<clientVars, readVars, answered, cut, upNet>>

WriteSome ==
  /\ server = "writen"
  /\ client # "gone"
  /\ Writable # 0
  /\ LET k == Writable IN
       /\ sendBuf' = sendBuf \o SubSeq(unsent, 1, k)
       /\ unsent' = SubSeq(unsent, k + 1, Len(unsent))
  /\ server' = IF unsent' = <<>> THEN "idle" ELSE "writen"
  /\ UNCHANGED <<clientVars, readVars, answered, cut, upNet>>

\* Mutant: a full buffer is treated like an interruption.
WriteAgain ==
  /\ server = "writen"
  /\ client # "gone"
  /\ unsent # <<>>
  /\ Len(sendBuf) = SendSpace
  /\ UNCHANGED vars

\* The send buffer is full: EAGAIN, and writen returns.
WriteFails ==
  /\ server = "writen"
  /\ client # "gone"
  /\ unsent # <<>>
  /\ Len(sendBuf) = SendSpace
  /\ cut' = cut \cup {answered}
  /\ unsent' = <<>>
  /\ server' = "idle"
  /\ UNCHANGED <<clientVars, readVars, answered, netVars>>

-----------------------------------------------------------------------------
Client == ReadGreeting \/ ReadLength \/ ReadData \/ ReadDataFails

Reading ==
  \/ Readable \/ PeerClosed
  \/ ReadToNewline \/ ReadPiece \/ ReadEof \/ PeekFails \/ ReadBehind

Writing == Send \/ WriteToGone \/ WriteSome \/ WriteFails

Next == Client \/ WriteLine \/ HangUp \/ Reading \/ Writing

\* Bytes arrive, the client reads what it waits for, the loop keeps going and
\* runs the functors that send after each batch of events; nobody has to
\* write another line.
Spec == Init /\ [][Next]_vars
FairSpec ==
  /\ Spec
  /\ WF_vars(Client)
  /\ WF_vars(Reading \/ Writing)

-----------------------------------------------------------------------------
(* Properties. *)

ByteSeq == Seq(Nat \X Nat)

TypeOK ==
  /\ client \in {"greeting", "typing", "length", "data", "gone"}
  /\ server \in {"idle", "readline", "readn", "writen", "closed", "crashed"}
  /\ {upNet, sendBuf, got, header, buf} \subseteq ByteSeq
  /\ messages \in Seq(ByteSeq)
  /\ Len(buf) < BufSize
  /\ Len(sendBuf) <= SendSpace

Written == FlattenSeq([n \in DOMAIN lines |-> Bytes(n, lines[n].len)])

Taken == FlattenSeq(messages) \o buf

\* readline hands on the client's bytes in order and none twice, however they
\* arrive, and loses none unless the client is gone.
BytesInOrder ==
  /\ IsPrefix(Taken, Written)
  /\ client # "gone" /\ server # "crashed" => Taken \o upNet = Written

\* While every line has arrived in one piece, what receive() returns is one
\* line up to and including its newline, or as much of it as its buffer holds:
\* never the beginning of the next one.
LinesWhole ==
  ~overran => \A i \in DOMAIN messages : messages[i] # <<>> =>
    LET m == messages[i] IN
    /\ \A k \in 1..(Len(m) - 1) : ~IsNewline(m[k])
    /\ IsNewline(Last(m)) \/ Len(m) = BufSize - 1

\* readline turns the bytes of the connection into lines: nothing is lost,
\* repeated or taken from the next line.
ReadlineIsRight ==
  /\ TypeOK
  /\ BytesInOrder
  /\ LinesWhole

\* What has been accepted of the answers reaches the client in order, none of
\* it twice; an answer is incomplete only if writen gave up on it or is at it.
AnswersInOrder ==
  LET stream == got \o sendBuf
      complete(n) == \E i \in DOMAIN stream : stream[i] = <<n, AnswerLen>>
  IN  /\ \A i \in DOMAIN stream :
           /\ stream[i] \in (0..answered) \X (1..AnswerLen)
           /\ stream[i][2] # 1 => i # 1 /\ stream[i - 1] = <<stream[i][1], stream[i][2] - 1>>
      /\ \A i, j \in DOMAIN stream : i < j =>
           \/ stream[i][1] < stream[j][1]
           \/ stream[i][1] = stream[j][1] /\ stream[i][2] < stream[j][2]
      /\ \A n \in 0..answered : n \notin cut /\ n # answered /\ client # "gone" => complete(n)

\* A peek fails only in the middle of a line: with a newline in sight, or
\* nothing read yet, readline never leaves its buffer.
OverrunsOnlyInsideLine ==
  [][overran' /\ ~overran => buf # <<>> /\ ~IsNewline(Last(buf))]_vars

Ended(n) == n \in DOMAIN lines /\ lines[n].ended

WasRead(n) == \E i \in DOMAIN messages : \E k \in DOMAIN messages[i] :
                messages[i][k][1] = n /\ IsNewline(messages[i][k])

\* Everything that ends in a newline is read in the end, whatever pieces it
\* arrives in and however the reading before it went; and the reading goes
\* wrong only inside a line.
LinesAreRead ==
  /\ OverrunsOnlyInsideLine
  /\ \A n \in 1..MaxLines :
       Ended(n) ~> WasRead(n) \/ server \in {"closed", "crashed"}

\* The client's rounds end, although it takes the beginning of each answer,
\* or the remains of the last, for a length: it never waits for bytes that no
\* answer brings, unless an answer was cut off.
RoundsEnd ==
  client \in {"length", "data"}
    ~> client \in {"typing", "gone"} \/ server = "crashed" \/ cut # {}
=============================================================================
