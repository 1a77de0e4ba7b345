\* Three entries of four queries, two answers, and one node more than a full
\* cache has: the address of an evicted node is the next to be reused.  For
\* the managers, queries answered from the file, by a search, and not at all;
\* an answer may be both in the file and in the index.
SPECIFICATION CachesSpec
CONSTANTS
  Queries = {q1, q2, q3, q4}
  Answers = {a1, a2}
  Capacity = 3
  Nodes = {n1, n2, n3, n4}
  NoAnswer = NoAnswer
  Null = Null
  MaxNew = 4
  QueryLines = {q1, q2, q3, q4}
  OnDisk = {q1, q2}
  Answerable = {q2, q3}
  QueSize = 2
  MaxTasks = 4
  MaxExpired = 2
  NoTask = NoTask
INVARIANTS
  CacheIsWhole
  CopiesStayApart
PROPERTIES
  ImplementsLru
  EveryTaskEnds
  TickNotLost
