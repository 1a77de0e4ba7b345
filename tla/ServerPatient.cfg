\* MainServer's configuration (one worker, a queue of one) and clients that
\* wait for their answers; both may ask twice, and an unknown word doubles
\* the reply.  No deadlock: the process must always have something to do.
SPECIFICATION FairSpec
CONSTANTS
  Clients = {c1, c2}
  Workers = {w1}
  QueSize = 1
  MaxFds = 2
  MaxQueries = 2
  MaxReplies = 2
  Patient = TRUE
  NoClient = NoClient
  NoTask = NoTask
INVARIANTS
  ServerStaysUp
PROPERTIES
  ClosedOnlyByPeer
  ImplementsService
  EveryQueryAnswered
