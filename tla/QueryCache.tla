--------------------------- MODULE QueryCache ---------------------------
(***************************************************************************)
(* Cache: answers by query, in nodes of a doubly linked list ordered by    *)
(* use, with a map from query to node.  One thread uses a cache: it loads  *)
(* it from the cache file, then calls get and set.  The heap holds the     *)
(* nodes between new and delete; reading any other node is undefined, and  *)
(* the model has no value for it.                                          *)
(***************************************************************************)
EXTENDS Naturals, Sequences, FiniteSets, Functions

CONSTANTS
  Queries,     \* the query lines
  Answers,     \* the answers to them
  Capacity,    \* Cache::_size, 10 in the code
  Nodes,       \* the addresses new can return
  NoAnswer,    \* the empty string
  Null,        \* the null pointer
  MaxNew       \* bound: entries created while loading, and after it

ASSUME CacheAssumption ==
  /\ Capacity \in Nat \ {0}
  /\ MaxNew \in Nat
  /\ Null \notin Nodes
  /\ NoAnswer \notin Answers
  /\ IsFiniteSet(Nodes)
  /\ Cardinality(Nodes) > Capacity

VARIABLES
  heap,        \* the nodes that exist: [query, jsonfile, prev, next]
  list,        \* [head, tail]
  cacheMap,    \* Cache::_cacheMap, from queries to nodes
  newCacheCnt, \* Cache::_newCacheCnt
  loading,     \* readFromFile has not returned yet
  found        \* what the last get returned

vars == <<heap, list, cacheMap, newCacheCnt, loading, found>>

Init ==
  /\ heap = <<>>
  /\ list = [head |-> Null, tail |-> Null]
  /\ cacheMap = <<>>
  /\ newCacheCnt = 0
  /\ loading = TRUE
  /\ found = NoAnswer

-----------------------------------------------------------------------------
(* remove and setHead: h is the heap, l the list's ends. *)

RemoveHeap(h, n) ==
  [m \in DOMAIN h |->
     [h[m] EXCEPT !.next = IF m = h[n].prev THEN h[n].next ELSE @,
                  !.prev = IF m = h[n].next THEN h[n].prev ELSE @]]

\* Mutant: leaves the tail as it is.
RemoveKeepsTail(h, l, n) ==
  [l EXCEPT !.head = IF h[n].prev = Null THEN h[n].next ELSE @]

RemoveEnds(h, l, n) ==
  [head |-> IF h[n].prev = Null THEN h[n].next ELSE l.head,
   tail |-> IF h[n].next = Null THEN h[n].prev ELSE l.tail]

SetHeadHeap(h, l, n) ==
  [m \in DOMAIN h |->
     [h[m] EXCEPT !.next = IF m = n THEN l.head ELSE @,
                  !.prev = IF m = l.head THEN n ELSE IF m = n THEN Null ELSE @]]

SetHeadEnds(l, n) ==
  [head |-> n, tail |-> IF l.tail = Null THEN n ELSE l.tail]

\* remove(node); setHead(node); with the heap h
MoveToHead(h, n) ==
  LET ends == RemoveEnds(h, list, n) IN
  /\ heap' = SetHeadHeap(RemoveHeap(h, n), ends, n)
  /\ list' = SetHeadEnds(ends, n)

-----------------------------------------------------------------------------
(* Cache::get *)

\* Mutant: a hit does not count as use.
GetWithoutMove(q) ==
  /\ ~loading
  /\ q \in DOMAIN cacheMap
  /\ found' = heap[cacheMap[q]].jsonfile
  /\ UNCHANGED <<heap, list, cacheMap, newCacheCnt, loading>>

GetHit(q) ==
  /\ ~loading
  /\ q \in DOMAIN cacheMap
  /\ MoveToHead(heap, cacheMap[q])
  /\ found' = heap[cacheMap[q]].jsonfile
  /\ UNCHANGED <<cacheMap, newCacheCnt, loading>>

GetMiss(q) ==
  /\ ~loading
  /\ q \notin DOMAIN cacheMap
  /\ found' = NoAnswer
  /\ UNCHANGED <<heap, list, cacheMap, newCacheCnt, loading>>

-----------------------------------------------------------------------------
(* Cache::set *)

SetKnown(q, a) ==
  /\ q \in DOMAIN cacheMap
  /\ MoveToHead([heap EXCEPT ![cacheMap[q]].jsonfile = a], cacheMap[q])
  /\ UNCHANGED <<cacheMap, newCacheCnt, loading, found>>

With(f, x, y) == [z \in DOMAIN f \cup {x} |-> IF z = x THEN y ELSE f[z]]
Without(f, x) == Restrict(f, DOMAIN f \ {x})

\* A new node, linked in at the head; h, l and map are what eviction left.
Insert(h, l, map, q, a) ==
  \E n \in Nodes \ DOMAIN heap :
    LET node == [query |-> q, jsonfile |-> a, prev |-> Null, next |-> Null] IN
    /\ heap' = SetHeadHeap(With(h, n, node), l, n)
    /\ list' = SetHeadEnds(l, n)
    /\ cacheMap' = With(map, q, n)
    /\ newCacheCnt' = newCacheCnt + 1
    /\ UNCHANGED <<loading, found>>

Full == Cardinality(DOMAIN cacheMap) = Capacity

\* Mutant: the capacity test is off by one.
SetNewOneMore(q, a) ==
  /\ q \notin DOMAIN cacheMap
  /\ newCacheCnt < MaxNew
  /\ Cardinality(DOMAIN cacheMap) <= Capacity
  /\ Insert(heap, list, cacheMap, q, a)

SetNew(q, a) ==
  /\ q \notin DOMAIN cacheMap
  /\ newCacheCnt < MaxNew
  /\ ~Full
  /\ Insert(heap, list, cacheMap, q, a)

\* Mutant: the deleted node stays in the map.
EvictWithoutErase(q, a) ==
  /\ q \notin DOMAIN cacheMap
  /\ newCacheCnt < MaxNew
  /\ Cardinality(DOMAIN cacheMap) >= Capacity
  /\ Insert(Without(RemoveHeap(heap, list.tail), list.tail),
            RemoveEnds(heap, list, list.tail), cacheMap, q, a)

\* The tail goes: it is unlinked, deleted and erased from the map.
SetEvicting(q, a) ==
  /\ q \notin DOMAIN cacheMap
  /\ newCacheCnt < MaxNew
  /\ Full
  /\ Insert(Without(RemoveHeap(heap, list.tail), list.tail),
            RemoveEnds(heap, list, list.tail),
            Without(cacheMap, heap[list.tail].query), q, a)

\* readFromFile has called set for every pair of the file.
LoadDone ==
  /\ loading
  /\ loading' = FALSE
  /\ newCacheCnt' = 0
  /\ UNCHANGED <<heap, list, cacheMap, found>>

Next ==
  \/ \E q \in Queries :
       \/ GetHit(q)
       \/ GetMiss(q)
       \/ \E a \in Answers : SetKnown(q, a) \/ SetNew(q, a) \/ SetEvicting(q, a)
  \/ LoadDone

Spec == Init /\ [][Next]_vars

-----------------------------------------------------------------------------
(* Properties. *)

Links == Nodes \cup {Null}

TypeOK ==
  /\ DOMAIN heap \subseteq Nodes
  /\ \A n \in DOMAIN heap :
       heap[n] \in [query : Queries, jsonfile : Answers, prev : Links, next : Links]
  /\ list \in [head : Links, tail : Links]
  /\ DOMAIN cacheMap \subseteq Queries
  /\ Cardinality(DOMAIN cacheMap) <= Capacity
  /\ newCacheCnt \in 0..MaxNew
  /\ loading \in BOOLEAN
  /\ found \in Answers \cup {NoAnswer}

\* The map leads every query to its own node, and every node that exists is
\* in the map: none is leaked, none is used after delete.
MapOwnsNodes ==
  /\ \A q \in DOMAIN cacheMap :
       cacheMap[q] \in DOMAIN heap /\ heap[cacheMap[q]].query = q
  /\ \A n \in DOMAIN heap :
       heap[n].query \in DOMAIN cacheMap /\ cacheMap[heap[n].query] = n

\* The nodes met from the head on, as many as there are.
NextOf(n) == IF n \in DOMAIN heap THEN heap[n].next ELSE Null
Size == Cardinality(DOMAIN heap)
Order ==
  LET at[i \in 1..Size] == IF i = 1 THEN list.head ELSE NextOf(at[i - 1])
  IN  at

\* Both directions of the list visit every node exactly once, and end:
\* remove and setHead keep all four pointers of a move in step, whether the
\* node is the head, the tail, both or neither.
ListIsWhole ==
  /\ {Order[i] : i \in 1..Size} = DOMAIN heap
  /\ \A i \in 1..Size :
       LET n == Order[i] IN
       /\ heap[n].next = IF i = Size THEN Null ELSE Order[i + 1]
       /\ heap[n].prev = IF i = 1 THEN Null ELSE Order[i - 1]
  /\ list.head = IF Size = 0 THEN Null ELSE Order[1]
  /\ list.tail = IF Size = 0 THEN Null ELSE Order[Size]

\* List, map and heap describe the same set of entries after every call.
CacheIsWhole ==
  /\ TypeOK
  /\ MapOwnsNodes
  /\ ListIsWhole

\* A get or a set does to the pointers what it should do to the list of
\* entries in order of use: the least recently used one is evicted.
Kept ==
  [i \in 1..Size |->
     IF Order[i] \in DOMAIN heap
     THEN [query |-> heap[Order[i]].query, jsonfile |-> heap[Order[i]].jsonfile]
     ELSE Null]
Lru == INSTANCE LruCache WITH entries <- Kept
ImplementsLru == Lru!LruSpec
=============================================================================
