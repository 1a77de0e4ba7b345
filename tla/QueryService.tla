--------------------------- MODULE QueryService ---------------------------
(***************************************************************************)
(* What a client may rely on, with the server as a black box: it connects, *)
(* is greeted, sends query lines and receives, for each line in the order  *)
(* sent, one or more answers to its own query.  SearchServer implements    *)
(* this for clients that do not hang up on an outstanding answer.          *)
(***************************************************************************)
EXTENDS Naturals, Sequences

CONSTANTS Clients, MaxQueries

VARIABLES
  client,   \* where each client is: "new", "open" or "closed"
  sent,     \* how many lines it has sent
  wire      \* what it has received: <<c, n>> answers line n of client c,
            \* <<c, 0>> is the greeting

serviceVars == <<client, sent, wire>>

ServiceInit ==
  /\ client = [c \in Clients |-> "new"]
  /\ sent = [c \in Clients |-> 0]
  /\ wire = [c \in Clients |-> <<>>]

ConnectTo(c) ==
  /\ client[c] = "new"
  /\ client' = [client EXCEPT ![c] = "open"]
  /\ UNCHANGED <<sent, wire>>

Ask(c) ==
  /\ client[c] = "open"
  /\ sent[c] < MaxQueries
  /\ sent' = [sent EXCEPT ![c] = @ + 1]
  /\ UNCHANGED <<client, wire>>

HangUp(c) ==
  /\ client[c] = "open"
  /\ client' = [client EXCEPT ![c] = "closed"]
  /\ UNCHANGED <<sent, wire>>

\* The line the last answer belongs to, 0 after the greeting.
LastAnswered(c) == wire[c][Len(wire[c])][2]

\* The greeting comes first, then answers to the line last answered or to
\* the next one.
MayReceive(c, n) ==
  IF wire[c] = <<>> THEN n = 0
  ELSE n \in {LastAnswered(c), LastAnswered(c) + 1} \ {0} /\ n <= sent[c]

Deliver(c, n) ==
  /\ client[c] = "open"
  /\ MayReceive(c, n)
  /\ wire' = [wire EXCEPT ![c] = Append(@, <<c, n>>)]
  /\ UNCHANGED <<client, sent>>

ServiceNext ==
  \E c \in Clients :
    \/ ConnectTo(c) \/ Ask(c) \/ HangUp(c)
    \/ \E n \in 0..MaxQueries : Deliver(c, n)

ServiceSpec == ServiceInit /\ [][ServiceNext]_serviceVars
=============================================================================
