\* Clients hang up whenever they like and share one descriptor, which the
\* kernel reuses as soon as the last reference is gone; two workers compete
\* for the eventfd and for that last reference.
SPECIFICATION FairSpec
CONSTANTS
  Clients = {c1, c2}
  Workers = {w1, w2}
  QueSize = 1
  MaxFds = 1
  MaxQueries = 2
  MaxReplies = 1
  Patient = FALSE
  NoClient = NoClient
  NoTask = NoTask
INVARIANTS
  LoopIsSafe
  DescriptorOwnership
  WakeupNotLost
PROPERTIES
  DescriptorsReleased
CHECK_DEADLOCK FALSE
