------------------------- MODULE QueryCacheProofs -------------------------
(***************************************************************************)
(* The query cache for any capacity and any queries, answers and nodes.    *)
(* The invariant says that some sequence lists every node of the heap once *)
(* and that all pointers agree with it; an operation's effect on the       *)
(* pointers is its effect on that sequence.  What a walk from the head on  *)
(* meets is shown to be the sequence by induction over the steps of the    *)
(* walk, and the entries along it are those of LruCache.                   *)
(***************************************************************************)
EXTENDS QueryCache, SequencesExt, SequenceTheorems, FiniteSetTheorems, WellFoundedInduction, TLAPS

Entries == [query : Queries, jsonfile : Answers, prev : Links, next : Links]

\* Nodes that the heap holds.
HeapType(h) ==
  /\ DOMAIN h \subseteq Nodes
  /\ \A n \in DOMAIN h : h[n] \in Entries

\* s lists nodes of the heap h once each, as the pointers and the ends l do.
Linked(h, l, s) ==
  /\ s \in Seq(DOMAIN h)
  /\ \A i, j \in 1..Len(s) : s[i] = s[j] => i = j
  /\ \A i \in 1..Len(s) :
       /\ h[s[i]].next = IF i = Len(s) THEN Null ELSE s[i + 1]
       /\ h[s[i]].prev = IF i = 1 THEN Null ELSE s[i - 1]
  /\ l = [head |-> IF Len(s) = 0 THEN Null ELSE s[1],
          tail |-> IF Len(s) = 0 THEN Null ELSE s[Len(s)]]

Holds(s, n) == \E i \in 1..Len(s) : s[i] = n

LEMMA NullIsNoNode == Null \notin Nodes
BY CacheAssumption

LEMMA SetHeadLinks ==
  ASSUME NEW h, HeapType(h), NEW l, NEW s, Linked(h, l, s), NEW n \in DOMAIN h, ~Holds(s, n)
  PROVE  /\ HeapType(SetHeadHeap(h, l, n))
         /\ DOMAIN SetHeadHeap(h, l, n) = DOMAIN h
         /\ \A m \in DOMAIN h : /\ SetHeadHeap(h, l, n)[m].query = h[m].query
                                /\ SetHeadHeap(h, l, n)[m].jsonfile = h[m].jsonfile
         /\ Linked(SetHeadHeap(h, l, n), SetHeadEnds(l, n), <<n>> \o s)
<1> DEFINE g == SetHeadHeap(h, l, n)
           t == <<n>> \o s
<1>1. DOMAIN g = DOMAIN h
  BY DEF SetHeadHeap
<1>2. \A m \in DOMAIN h :
        g[m] = [h[m] EXCEPT !.next = IF m = n THEN l.head ELSE @,
                            !.prev = IF m = l.head THEN n ELSE IF m = n THEN Null ELSE @]
  BY DEF SetHeadHeap
<1>3. l.head \in Links /\ n \in Links /\ Null \in Links
  BY DEF Linked, HeapType, Links
<1>4. \A m \in DOMAIN h : /\ g[m] \in Entries
                          /\ g[m].query = h[m].query
                          /\ g[m].jsonfile = h[m].jsonfile
                          /\ g[m].next = IF m = n THEN l.head ELSE h[m].next
                          /\ g[m].prev = IF m = l.head THEN n ELSE IF m = n THEN Null ELSE h[m].prev
  <2> TAKE m \in DOMAIN h
  <2> DEFINE next == IF m = n THEN l.head ELSE h[m].next
             prev == IF m = l.head THEN n ELSE IF m = n THEN Null ELSE h[m].prev
  <2>1. h[m] \in Entries
    BY DEF HeapType
  <2>2. next \in Links /\ prev \in Links
    BY <2>1, <1>3 DEF Entries
  <2>3. g[m] = [h[m] EXCEPT !.next = next, !.prev = prev]
    BY <1>2
  <2> HIDE DEF next, prev
  <2>4. /\ g[m] \in Entries
        /\ g[m].query = h[m].query
        /\ g[m].jsonfile = h[m].jsonfile
        /\ g[m].next = next
        /\ g[m].prev = prev
    BY <2>1, <2>2, <2>3 DEF Entries
  <2> QED
    BY <2>4 DEF next, prev
<1>5. HeapType(g)
  BY <1>1, <1>4 DEF HeapType
<1>6. /\ t \in Seq(DOMAIN h)
      /\ Len(t) = Len(s) + 1
      /\ t[1] = n
      /\ \A i \in 2..Len(t) : t[i] = s[i - 1]
  BY DEF Linked
<1>7. \A i, j \in 1..Len(t) : t[i] = t[j] => i = j
  BY <1>6 DEF Linked, Holds
<1>8. l.head = IF Len(s) = 0 THEN Null ELSE s[1]
  BY DEF Linked
<1>9. ASSUME NEW i \in 1..Len(t)
      PROVE  /\ g[t[i]].next = IF i = Len(t) THEN Null ELSE t[i + 1]
             /\ g[t[i]].prev = IF i = 1 THEN Null ELSE t[i - 1]
  <2>1. CASE i = 1
    BY <2>1, <1>4, <1>6, <1>8 DEF Linked, Holds, HeapType
  <2>2. CASE i # 1
    <3>1. t[i] = s[i - 1] /\ i - 1 \in 1..Len(s) /\ t[i] # n /\ t[i] \in DOMAIN h
      BY <2>2, <1>6 DEF Linked, Holds
    <3>2. g[t[i]].next = h[s[i - 1]].next
      BY <3>1, <1>4
    <3>3. g[t[i]].next = IF i = Len(t) THEN Null ELSE t[i + 1]
      BY <3>1, <3>2, <1>6 DEF Linked
    <3>4. i = 2 <=> t[i] = l.head
      BY <3>1, <1>8 DEF Linked
    <3>5. g[t[i]].prev = IF i = 1 THEN Null ELSE t[i - 1]
      BY <2>2, <3>1, <3>4, <1>4, <1>6 DEF Linked
    <3> QED
      BY <3>3, <3>5
  <2> QED
    BY <2>1, <2>2
<1>10. SetHeadEnds(l, n) = [head |-> t[1], tail |-> t[Len(t)]]
  <2>1. l.tail = IF Len(s) = 0 THEN Null ELSE s[Len(s)]
    BY DEF Linked
  <2>2. Len(s) # 0 => s[Len(s)] \in Nodes
    BY DEF Linked, HeapType
  <2> QED
    BY <2>1, <2>2, <1>6, NullIsNoNode DEF SetHeadEnds, Linked
<1>11. Linked(g, SetHeadEnds(l, n), t)
  BY <1>1, <1>6, <1>7, <1>9, <1>10 DEF Linked
<1> QED
  BY <1>1, <1>4, <1>5, <1>11

LEMMA RemoveAtProperties ==
  ASSUME NEW S, NEW s \in Seq(S), NEW p \in 1..Len(s)
  PROVE  /\ RemoveAt(s, p) \in Seq(S)
         /\ Len(RemoveAt(s, p)) = Len(s) - 1
         /\ \A i \in 1..Len(s) - 1 : RemoveAt(s, p)[i] = IF i < p THEN s[i] ELSE s[i + 1]
<1> DEFINE a == SubSeq(s, 1, p - 1)
           b == SubSeq(s, p + 1, Len(s))
<1>1. RemoveAt(s, p) = a \o b
  BY DEF RemoveAt
<1>2. a \in Seq(S) /\ Len(a) = p - 1 /\ \A i \in 1..p - 1 : a[i] = s[i]
  OBVIOUS
<1>3. b \in Seq(S) /\ Len(b) = Len(s) - p /\ \A i \in 1..Len(s) - p : b[i] = s[i + p]
  OBVIOUS
<1> HIDE DEF a, b
<1>4. /\ a \o b \in Seq(S)
      /\ Len(a \o b) = Len(a) + Len(b)
      /\ \A i \in 1..Len(a) + Len(b) : (a \o b)[i] = IF i <= Len(a) THEN a[i] ELSE b[i - Len(a)]
  BY <1>2, <1>3, ConcatProperties
<1>5. ASSUME NEW i \in 1..Len(s) - 1
      PROVE  (a \o b)[i] = IF i < p THEN s[i] ELSE s[i + 1]
  <2>1. CASE i < p
    BY <2>1, <1>2, <1>3, <1>4
  <2>2. CASE ~(i < p)
    <3>1. i \in 1..Len(a) + Len(b) /\ ~(i <= Len(a))
      BY <2>2, <1>2, <1>3
    <3>2. (a \o b)[i] = b[i - (p - 1)]
      BY <3>1, <1>2, <1>4
    <3>3. i - (p - 1) \in 1..Len(s) - p
      BY <2>2
    <3>4. (i - (p - 1)) + p = i + 1
      OBVIOUS
    <3>5. b[i - (p - 1)] = s[(i - (p - 1)) + p]
      BY <3>3, <1>3
    <3> QED
      BY <2>2, <3>2, <3>4, <3>5
  <2> QED
    BY <2>1, <2>2
<1> QED
  BY <1>1, <1>2, <1>3, <1>4, <1>5

LEMMA RemoveLinks ==
  ASSUME NEW h, HeapType(h), NEW l, NEW s, Linked(h, l, s), NEW p \in 1..Len(s), NEW n, n = s[p]
  PROVE  /\ HeapType(RemoveHeap(h, n))
         /\ DOMAIN RemoveHeap(h, n) = DOMAIN h
         /\ \A m \in DOMAIN h : /\ RemoveHeap(h, n)[m].query = h[m].query
                                /\ RemoveHeap(h, n)[m].jsonfile = h[m].jsonfile
         /\ Linked(RemoveHeap(h, n), RemoveEnds(h, l, n), RemoveAt(s, p))
         /\ ~Holds(RemoveAt(s, p), n)
         /\ Len(RemoveAt(s, p)) = Len(s) - 1
         /\ \A i \in 1..Len(s) - 1 : RemoveAt(s, p)[i] = IF i < p THEN s[i] ELSE s[i + 1]
<1> DEFINE g == RemoveHeap(h, n)
           t == RemoveAt(s, p)
<1>1. DOMAIN g = DOMAIN h
  BY DEF RemoveHeap
<1>2. n \in DOMAIN h /\ s \in Seq(DOMAIN h) /\ h[n].prev \in Links /\ h[n].next \in Links
  BY DEF Linked, HeapType, Entries
<1>3. \A m \in DOMAIN h : g[m] = [h[m] EXCEPT !.next = IF m = h[n].prev THEN h[n].next ELSE @,
                                              !.prev = IF m = h[n].next THEN h[n].prev ELSE @]
  BY DEF RemoveHeap
<1>4. \A m \in DOMAIN h : /\ g[m] \in Entries
                          /\ g[m].query = h[m].query
                          /\ g[m].jsonfile = h[m].jsonfile
                          /\ g[m].next = IF m = h[n].prev THEN h[n].next ELSE h[m].next
                          /\ g[m].prev = IF m = h[n].next THEN h[n].prev ELSE h[m].prev
  <2> TAKE m \in DOMAIN h
  <2> DEFINE next == IF m = h[n].prev THEN h[n].next ELSE h[m].next
             prev == IF m = h[n].next THEN h[n].prev ELSE h[m].prev
  <2>1. h[m] \in Entries
    BY DEF HeapType
  <2>2. next \in Links /\ prev \in Links
    BY <2>1, <1>2 DEF Entries
  <2>3. g[m] = [h[m] EXCEPT !.next = next, !.prev = prev]
    BY <1>3
  <2> HIDE DEF next, prev
  <2>4. /\ g[m] \in Entries
        /\ g[m].query = h[m].query
        /\ g[m].jsonfile = h[m].jsonfile
        /\ g[m].next = next
        /\ g[m].prev = prev
    BY <2>1, <2>2, <2>3 DEF Entries
  <2> QED
    BY <2>4 DEF next, prev
<1>5. HeapType(g)
  BY <1>1, <1>4 DEF HeapType
<1>6. /\ t \in Seq(DOMAIN h)
      /\ Len(t) = Len(s) - 1
      /\ \A i \in 1..Len(s) - 1 : t[i] = IF i < p THEN s[i] ELSE s[i + 1]
  BY <1>2, RemoveAtProperties
<1>7. \A i, j \in 1..Len(t) : t[i] = t[j] => i = j
  BY <1>6 DEF Linked
<1>8. ~Holds(t, n)
  BY <1>6 DEF Linked, Holds
<1>9. /\ h[n].next = IF p = Len(s) THEN Null ELSE s[p + 1]
      /\ h[n].prev = IF p = 1 THEN Null ELSE s[p - 1]
  BY DEF Linked
<1>10. ASSUME NEW i \in 1..Len(t)
       PROVE  /\ g[t[i]].next = IF i = Len(t) THEN Null ELSE t[i + 1]
              /\ g[t[i]].prev = IF i = 1 THEN Null ELSE t[i - 1]
  <2>1. t[i] \in DOMAIN h /\ t[i] \in Nodes /\ t[i] # Null
    BY <1>6, NullIsNoNode DEF HeapType
  <2>2. CASE i < p
    <3>1. t[i] = s[i] /\ i \in 1..Len(s)
      BY <2>2, <1>6
    <3>2. t[i] = h[n].prev <=> i = p - 1
      BY <3>1, <2>1, <2>2, <1>9 DEF Linked
    <3>3. t[i] # h[n].next
      BY <3>1, <2>1, <2>2, <1>9 DEF Linked
    <3>4. h[s[i]].next = (IF i = Len(s) THEN Null ELSE s[i + 1]) /\ h[s[i]].prev = IF i = 1 THEN Null ELSE s[i - 1]
      BY <3>1 DEF Linked
    <3>5. g[t[i]].next = IF i = Len(t) THEN Null ELSE t[i + 1]
      BY <3>1, <3>2, <3>4, <2>1, <2>2, <1>4, <1>6, <1>9
    <3>6. g[t[i]].prev = IF i = 1 THEN Null ELSE t[i - 1]
      BY <3>1, <3>3, <3>4, <2>1, <2>2, <1>4, <1>6, <1>9
    <3> QED
      BY <3>5, <3>6
  <2>3. CASE i >= p
    <3>1. t[i] = s[i + 1] /\ i + 1 \in 1..Len(s)
      BY <2>3, <1>6
    <3>2. t[i] = h[n].next <=> i = p
      BY <3>1, <2>1, <2>3, <1>9 DEF Linked
    <3>3. t[i] # h[n].prev
      BY <3>1, <2>1, <2>3, <1>9 DEF Linked
    <3>4. h[s[i + 1]].next = (IF i + 1 = Len(s) THEN Null ELSE s[i + 2]) /\ h[s[i + 1]].prev = s[i]
      BY <3>1 DEF Linked
    <3>5. g[t[i]].next = IF i = Len(t) THEN Null ELSE t[i + 1]
      BY <3>1, <3>3, <3>4, <2>1, <2>3, <1>4, <1>6, <1>9
    <3>6. g[t[i]].prev = IF i = 1 THEN Null ELSE t[i - 1]
      BY <3>1, <3>2, <3>4, <2>1, <2>3, <1>4, <1>6, <1>9
    <3> QED
      BY <3>5, <3>6
  <2> QED
    BY <2>2, <2>3
<1>11. RemoveEnds(h, l, n) = [head |-> IF Len(t) = 0 THEN Null ELSE t[1],
                              tail |-> IF Len(t) = 0 THEN Null ELSE t[Len(t)]]
  <2>1. \A i \in 1..Len(s) : s[i] # Null
    BY <1>2, NullIsNoNode DEF HeapType
  <2>2. l.head = s[1] /\ l.tail = s[Len(s)]
    BY DEF Linked
  <2>3. (IF h[n].prev = Null THEN h[n].next ELSE l.head) = IF Len(t) = 0 THEN Null ELSE t[1]
    BY <2>1, <2>2, <1>6, <1>9
  <2>4. (IF h[n].next = Null THEN h[n].prev ELSE l.tail) = IF Len(t) = 0 THEN Null ELSE t[Len(t)]
    BY <2>1, <2>2, <1>6, <1>9
  <2> QED
    BY <2>3, <2>4 DEF RemoveEnds
<1>12. Linked(g, RemoveEnds(h, l, n), t)
  BY <1>1, <1>6, <1>7, <1>10, <1>11 DEF Linked
<1> QED
  BY <1>1, <1>4, <1>5, <1>6, <1>8, <1>12

-----------------------------------------------------------------------------
(* Induction over the natural numbers, by the least counterexample. *)

LEMMA LeastNat ==
  ASSUME NEW T, T \subseteq Nat, T # {}
  PROVE  \E n \in T : \A m \in T : n <= m
<1>1. PICK n \in T : \A m \in T : ~(<<m, n>> \in OpToRel(<, Nat))
  BY NatLessThanWellFounded, WFMin
<1>2. \A m \in T : ~(m < n)
  BY <1>1 DEF OpToRel
<1> QED
  BY <1>2

\* s lists all nodes of the heap.
Listed(h, l, s) ==
  /\ Linked(h, l, s)
  /\ \A n \in DOMAIN h : Holds(s, n)

EntriesOf(h, s) ==
  [i \in 1..Len(s) |-> [query |-> h[s[i]].query, jsonfile |-> h[s[i]].jsonfile]]

LEMMA ListedCount ==
  ASSUME NEW h, NEW l, NEW s, Listed(h, l, s)
  PROVE  Len(s) \in Nat /\ Cardinality(DOMAIN h) = Len(s)
<1>1. Len(s) \in Nat /\ s \in [1..Len(s) -> DOMAIN h]
  BY DEF Listed, Linked
<1>2. s \in Bijection(1..Len(s), DOMAIN h)
  BY <1>1 DEF Listed, Linked, Holds, Bijection, Injection, Surjection, IsInjective
<1> QED
  BY <1>1, <1>2, FS_CountingElements DEF ExistsBijection

\* What is met from the head on is the list.
LEMMA OrderIsList ==
  \A s \in Seq(Nodes) : Listed(heap, list, s) => Size = Len(s) /\ Order = s /\ Kept = EntriesOf(heap, s)
<1> SUFFICES ASSUME NEW s \in Seq(Nodes), Listed(heap, list, s)
             PROVE  Size = Len(s) /\ Order = s /\ Kept = EntriesOf(heap, s)
  OBVIOUS
<1>1. Size = Len(s) /\ Len(s) \in Nat
  BY ListedCount DEF Size
<1> DEFINE F(f) == [i \in 1..Size |-> IF i = 1 THEN list.head ELSE NextOf(f[i - 1])]
<1>2. F(s) = s
  <2>1. s \in [1..Size -> DOMAIN heap]
    BY <1>1 DEF Listed, Linked
  <2>2. \A i \in 1..Size : s[i] = IF i = 1 THEN list.head ELSE NextOf(s[i - 1])
    BY <1>1, <2>1 DEF Listed, Linked, NextOf
  <2> QED
    BY <2>1, <2>2
<1>3. Order = CHOOSE f : f = F(f)
  BY DEF Order
<1>4. Order = F(Order)
  BY <1>2, <1>3
<1>5. \A i \in 1..Size : Order[i] = s[i]
  <2> SUFFICES ASSUME \E i \in 1..Size : Order[i] # s[i]
               PROVE  FALSE
    OBVIOUS
  <2> DEFINE T == {i \in 1..Size : Order[i] # s[i]}
  <2>1. PICK i \in T : \A j \in T : i <= j
    <3>1. T \subseteq Nat /\ T # {}
      BY <1>1
    <3> HIDE DEF T
    <3> QED
      BY <3>1, LeastNat
  <2>2. i # 1
    BY <1>1, <1>2, <1>4
  <2>3. Order[i - 1] = s[i - 1]
    BY <1>1, <2>1, <2>2
  <2> QED
    BY <1>1, <1>2, <1>4, <2>1, <2>2, <2>3
<1>6. Order = s
  <2>1. s = [i \in 1..Size |-> s[i]] /\ Order = [i \in 1..Size |-> Order[i]]
    BY <1>2, <1>4
  <2> QED
    BY <1>5, <2>1
<1>7. Kept = EntriesOf(heap, s)
  BY <1>1, <1>6 DEF Kept, EntriesOf, Listed, Linked
<1> QED
  BY <1>1, <1>6, <1>7

LEMMA OrderIsListNext ==
  (\A s \in Seq(Nodes) : Listed(heap, list, s) => Size = Len(s) /\ Order = s /\ Kept = EntriesOf(heap, s))'
BY OrderIsList, PTL

-----------------------------------------------------------------------------
(* The operations on a heap h, a list l and a map. *)

Owns(h, map) ==
  /\ \A q \in DOMAIN map : map[q] \in DOMAIN h /\ h[map[q]].query = q
  /\ \A n \in DOMAIN h : h[n].query \in DOMAIN map /\ map[h[n].query] = n

\* As many entries as nodes.
LEMMA OwnsCount ==
  ASSUME NEW h, NEW l, NEW s, Listed(h, l, s), NEW map, Owns(h, map)
  PROVE  Cardinality(DOMAIN map) = Len(s)
<1>1. Len(s) \in Nat /\ s \in [1..Len(s) -> DOMAIN h]
  BY DEF Listed, Linked
<1> DEFINE f == [i \in 1..Len(s) |-> h[s[i]].query]
<1>2. f \in Bijection(1..Len(s), DOMAIN map)
  <2>1. f \in [1..Len(s) -> DOMAIN map]
    BY <1>1 DEF Owns
  <2>2. ASSUME NEW i \in 1..Len(s), NEW j \in 1..Len(s), f[i] = f[j]
        PROVE  i = j
    <3>1. s[i] \in DOMAIN h /\ s[j] \in DOMAIN h /\ h[s[i]].query = h[s[j]].query
      BY <1>1, <2>2
    <3>2. s[i] = s[j]
      BY <3>1 DEF Owns
    <3> QED
      BY <3>2 DEF Listed, Linked
  <2>3. \A q \in DOMAIN map : \E i \in 1..Len(s) : f[i] = q
    BY <1>1 DEF Owns, Listed, Holds
  <2> QED
    BY <2>1, <2>2, <2>3 DEF Bijection, Injection, Surjection, IsInjective
<1> QED
  BY <1>1, <1>2, FS_CountingElements DEF ExistsBijection

LEMMA WithoutLinks ==
  ASSUME NEW h, HeapType(h), NEW l, NEW s, Linked(h, l, s), NEW n, ~Holds(s, n)
  PROVE  /\ HeapType(Without(h, n))
         /\ DOMAIN Without(h, n) = DOMAIN h \ {n}
         /\ \A m \in DOMAIN h \ {n} : Without(h, n)[m] = h[m]
         /\ Linked(Without(h, n), l, s)
<1>1. /\ DOMAIN Without(h, n) = DOMAIN h \ {n}
      /\ \A m \in DOMAIN h \ {n} : Without(h, n)[m] = h[m]
  BY DEF Without, Restrict
<1>2. HeapType(Without(h, n))
  BY <1>1 DEF HeapType
<1>3. \A i \in 1..Len(s) : s[i] \in DOMAIN h \ {n}
  BY DEF Linked, Holds
<1>4. s \in Seq(DOMAIN h \ {n})
  BY <1>3 DEF Linked
<1>5. Linked(Without(h, n), l, s)
  BY <1>1, <1>3, <1>4 DEF Linked
<1> QED
  BY <1>1, <1>2, <1>5

\* A new node at the head.
LEMMA InsertLinks ==
  ASSUME NEW h, HeapType(h), NEW l, NEW s, Listed(h, l, s),
         NEW n \in Nodes \ DOMAIN h, NEW q \in Queries, NEW a \in Answers,
         NEW g, g = SetHeadHeap(With(h, n, [query |-> q, jsonfile |-> a, prev |-> Null, next |-> Null]), l, n)
  PROVE  /\ HeapType(g)
         /\ DOMAIN g = DOMAIN h \cup {n}
         /\ g[n].query = q /\ g[n].jsonfile = a
         /\ \A m \in DOMAIN h : g[m].query = h[m].query /\ g[m].jsonfile = h[m].jsonfile
         /\ Listed(g, SetHeadEnds(l, n), <<n>> \o s)
<1> DEFINE node == [query |-> q, jsonfile |-> a, prev |-> Null, next |-> Null]
           k == With(h, n, node)
<1>1. /\ DOMAIN k = DOMAIN h \cup {n}
      /\ \A m \in DOMAIN h : k[m] = h[m]
      /\ k[n] = node
  BY DEF With
<1>2. node \in Entries
  BY DEF Entries, Links
<1>3. HeapType(k)
  BY <1>1, <1>2 DEF HeapType
<1>4. s \in Seq(DOMAIN h) /\ s \in Seq(DOMAIN k)
  BY <1>1 DEF Listed, Linked
<1>5. \A i \in 1..Len(s) : s[i] \in DOMAIN h
  BY <1>4
<1>6. Linked(k, l, s)
  BY <1>1, <1>4, <1>5 DEF Listed, Linked
<1>7. ~Holds(s, n)
  BY <1>5 DEF Holds
<1> HIDE DEF k
<1>8. /\ HeapType(g)
      /\ DOMAIN g = DOMAIN k
      /\ \A m \in DOMAIN k : g[m].query = k[m].query /\ g[m].jsonfile = k[m].jsonfile
      /\ Linked(g, SetHeadEnds(l, n), <<n>> \o s)
  BY <1>1, <1>3, <1>6, <1>7, SetHeadLinks DEF k
<1>9. \A m \in DOMAIN g : Holds(<<n>> \o s, m)
  <2> TAKE m \in DOMAIN g
  <2> DEFINE t == <<n>> \o s
  <2>1. Len(t) = Len(s) + 1 /\ t[1] = n /\ \A i \in 1..Len(s) : t[i + 1] = s[i]
    BY <1>4
  <2>2. CASE m = n
    BY <2>1, <2>2, <1>4 DEF Holds
  <2>3. CASE m # n
    <3>1. PICK i \in 1..Len(s) : s[i] = m
      BY <2>3, <1>1, <1>8 DEF Listed, Holds
    <3>2. i + 1 \in 1..Len(t) /\ t[i + 1] = m
      BY <3>1, <2>1, <1>4
    <3> QED
      BY <3>2 DEF Holds
  <2> QED
    BY <2>2, <2>3
<1> QED
  BY <1>1, <1>8, <1>9 DEF Listed

\* remove and setHead of the p-th node.
LEMMA MoveLinks ==
  ASSUME NEW h, HeapType(h), NEW l, NEW s, Listed(h, l, s), NEW p \in 1..Len(s), NEW n, n = s[p],
         NEW g, g = SetHeadHeap(RemoveHeap(h, n), RemoveEnds(h, l, n), n)
  PROVE  /\ HeapType(g)
         /\ DOMAIN g = DOMAIN h
         /\ \A m \in DOMAIN h : g[m].query = h[m].query /\ g[m].jsonfile = h[m].jsonfile
         /\ Listed(g, SetHeadEnds(RemoveEnds(h, l, n), n), <<n>> \o RemoveAt(s, p))
<1> DEFINE k == RemoveHeap(h, n)
           t == RemoveAt(s, p)
<1>1. /\ HeapType(k)
      /\ DOMAIN k = DOMAIN h
      /\ \A m \in DOMAIN h : k[m].query = h[m].query /\ k[m].jsonfile = h[m].jsonfile
      /\ Linked(k, RemoveEnds(h, l, n), t)
      /\ ~Holds(t, n)
      /\ Len(t) = Len(s) - 1
      /\ \A i \in 1..Len(s) - 1 : t[i] = IF i < p THEN s[i] ELSE s[i + 1]
  BY RemoveLinks DEF Listed
<1>2. n \in DOMAIN h
  BY DEF Listed, Linked
<1> HIDE DEF k, t
<1>3. /\ HeapType(g)
      /\ DOMAIN g = DOMAIN k
      /\ \A m \in DOMAIN k : g[m].query = k[m].query /\ g[m].jsonfile = k[m].jsonfile
      /\ Linked(g, SetHeadEnds(RemoveEnds(h, l, n), n), <<n>> \o t)
  BY <1>1, <1>2, SetHeadLinks DEF k
<1>4. \A m \in DOMAIN g : Holds(<<n>> \o t, m)
  <2> TAKE m \in DOMAIN g
  <2>1. PICK i \in 1..Len(s) : s[i] = m
    BY <1>1, <1>3 DEF Listed, Holds
  <2>2. t \in Seq(DOMAIN h) /\ Len(s) \in Nat
    BY <1>1 DEF Linked, Listed
  <2> DEFINE u == <<n>> \o t
  <2>3. Len(u) = Len(s) /\ u[1] = n /\ \A j \in 1..Len(t) : u[j + 1] = t[j]
    BY <1>1, <2>2
  <2> HIDE DEF u
  <2>4. CASE i = p
    BY <2>1, <2>3, <2>4 DEF Holds, u
  <2>5. CASE i < p
    <3>1. u[i + 1] = m /\ i + 1 \in 1..Len(u)
      BY <2>1, <2>2, <2>3, <2>5, <1>1
    <3> QED
      BY <3>1 DEF Holds, u
  <2>6. CASE i > p
    <3>1. i - 1 \in 1..Len(t) /\ t[i - 1] = m
      BY <2>1, <2>2, <2>6, <1>1
    <3>2. u[i] = m /\ i \in 1..Len(u)
      BY <2>2, <2>3, <3>1
    <3> QED
      BY <3>2 DEF Holds, u
  <2> QED
    BY <2>4, <2>5, <2>6
<1> QED
  BY <1>1, <1>3, <1>4 DEF Listed, t

-----------------------------------------------------------------------------
(* The entries in order of use. *)

EntryOf(h, n) == [query |-> h[n].query, jsonfile |-> h[n].jsonfile]

LEMMA EntriesMoved ==
  ASSUME NEW S, NEW s \in Seq(S), NEW p \in 1..Len(s), NEW h, NEW g,
         \A i \in 1..Len(s) : i # p => EntryOf(g, s[i]) = EntryOf(h, s[i])
  PROVE  EntriesOf(g, <<s[p]>> \o RemoveAt(s, p)) = <<EntryOf(g, s[p])>> \o RemoveAt(EntriesOf(h, s), p)
<1> DEFINE t == <<s[p]>> \o RemoveAt(s, p)
           R == {EntryOf(h, s[i]) : i \in 1..Len(s)} \cup {EntryOf(g, s[p])}
           r == EntriesOf(h, s)
           u == <<EntryOf(g, s[p])>> \o RemoveAt(r, p)
<1>1. /\ RemoveAt(s, p) \in Seq(S)
      /\ Len(RemoveAt(s, p)) = Len(s) - 1
      /\ \A i \in 1..Len(s) - 1 : RemoveAt(s, p)[i] = IF i < p THEN s[i] ELSE s[i + 1]
  BY RemoveAtProperties
<1>2. /\ t \in Seq(S)
      /\ Len(t) = Len(s)
      /\ t[1] = s[p]
      /\ \A i \in 1..Len(s) - 1 : t[i + 1] = RemoveAt(s, p)[i]
  BY <1>1
<1>3. r \in Seq(R) /\ Len(r) = Len(s) /\ \A i \in 1..Len(s) : r[i] = EntryOf(h, s[i])
  BY DEF EntriesOf, EntryOf
<1> HIDE DEF R, r
<1>4. /\ RemoveAt(r, p) \in Seq(R)
      /\ Len(RemoveAt(r, p)) = Len(s) - 1
      /\ \A i \in 1..Len(s) - 1 : RemoveAt(r, p)[i] = IF i < p THEN r[i] ELSE r[i + 1]
  BY <1>3, RemoveAtProperties
<1>5. EntryOf(g, s[p]) \in R
  BY DEF R
<1>6. /\ u \in Seq(R)
      /\ Len(u) = Len(s)
      /\ u[1] = EntryOf(g, s[p])
      /\ \A i \in 1..Len(s) - 1 : u[i + 1] = RemoveAt(r, p)[i]
  BY <1>4, <1>5
<1>7. /\ EntriesOf(g, t) = [i \in 1..Len(s) |-> EntryOf(g, t[i])]
      /\ u = [i \in 1..Len(s) |-> u[i]]
  BY <1>2, <1>6 DEF EntriesOf, EntryOf
<1> HIDE DEF t, u
<1>8. ASSUME NEW i \in 1..Len(s)
      PROVE  EntryOf(g, t[i]) = u[i]
  <2>1. CASE i = 1
    BY <2>1, <1>2, <1>6
  <2>2. CASE i # 1
    <3>1. i - 1 \in 1..Len(s) - 1 /\ (i - 1) + 1 = i
      BY <2>2
    <3>2. t[i] = RemoveAt(s, p)[i - 1] /\ u[i] = RemoveAt(r, p)[i - 1]
      BY <3>1, <1>2, <1>6
    <3>3. CASE i - 1 < p
      BY <3>1, <3>2, <3>3, <1>1, <1>3, <1>4
    <3>4. CASE ~(i - 1 < p)
      <4>1. i \in 1..Len(s) /\ i # p /\ (i - 1) + 1 = i
        BY <3>4, <2>2
      <4>2. t[i] = s[i] /\ u[i] = r[i]
        BY <3>1, <3>2, <3>4, <4>1, <1>1, <1>4
      <4> QED
        BY <4>1, <4>2, <1>3
    <3> QED
      BY <3>3, <3>4
  <2> QED
    BY <2>1, <2>2
<1> QED
  BY <1>7, <1>8 DEF t, u, r

LEMMA FunctionIsSeq ==
  ASSUME NEW R, NEW n \in Nat, NEW f, f = [i \in 1..n |-> f[i]], \A i \in 1..n : f[i] \in R
  PROVE  f \in Seq(R) /\ Len(f) = n
<1>1. f \in [1..n -> R]
  OBVIOUS
<1>2. f \in Seq(R)
  BY <1>1, SeqDef
<1> QED
  BY <1>1, <1>2, LenProperties

\* r lists the entries of the nodes s, which are all in R.
Reads(h, s, R, r) ==
  r \in Seq(R) /\ Len(r) = Len(s) /\ \A i \in 1..Len(s) : r[i] = EntryOf(h, s[i])

LEMMA EntriesAre ==
  ASSUME NEW S, NEW s \in Seq(S), NEW h, NEW T
  PROVE  Reads(h, s, {EntryOf(h, s[i]) : i \in 1..Len(s)} \cup T, EntriesOf(h, s))
<1>1. Len(s) \in Nat
  BY LenProperties
<1>2. PICK R : R = {EntryOf(h, s[i]) : i \in 1..Len(s)} \cup T
  OBVIOUS
<1>3. PICK r : r = EntriesOf(h, s)
  OBVIOUS
<1>4. r = [i \in 1..Len(s) |-> EntryOf(h, s[i])]
  BY <1>3 DEF EntriesOf, EntryOf
<1>5. r = [i \in 1..Len(s) |-> r[i]] /\ \A i \in 1..Len(s) : r[i] = EntryOf(h, s[i])
  BY <1>4
<1>6. \A i \in 1..Len(s) : r[i] \in R
  BY <1>2, <1>5
<1>7. r \in Seq(R) /\ Len(r) = Len(s)
  BY <1>1, <1>5, <1>6, FunctionIsSeq
<1>8. Reads(h, s, R, r)
  BY <1>5, <1>7 DEF Reads
<1> QED
  BY <1>2, <1>3, <1>8, Zenon

LEMMA EntriesInserted ==
  ASSUME NEW S, NEW s \in Seq(S), NEW n, NEW h, NEW g,
         \A i \in 1..Len(s) : EntryOf(g, s[i]) = EntryOf(h, s[i])
  PROVE  EntriesOf(g, <<n>> \o s) = <<EntryOf(g, n)>> \o EntriesOf(h, s)
<1> DEFINE R == {EntryOf(h, s[i]) : i \in 1..Len(s)} \cup {EntryOf(g, n)}
           r == EntriesOf(h, s)
           t == <<n>> \o s
           u == <<EntryOf(g, n)>> \o r
<1>1. r \in Seq(R) /\ Len(r) = Len(s) /\ \A i \in 1..Len(s) : r[i] = EntryOf(h, s[i])
  <2>1. Reads(h, s, R, r)
    BY EntriesAre
  <2> HIDE DEF R, r
  <2> QED
    BY <2>1 DEF Reads
<1>2. s \in Seq(S \cup {n}) /\ EntryOf(g, n) \in R
  OBVIOUS
<1> HIDE DEF R, r
<1>3. Len(t) = Len(s) + 1 /\ t[1] = n /\ \A i \in 1..Len(s) : t[i + 1] = s[i]
  BY <1>2
<1>4. u \in Seq(R) /\ Len(u) = Len(s) + 1 /\ u[1] = EntryOf(g, n) /\ \A i \in 1..Len(s) : u[i + 1] = r[i]
  BY <1>1, <1>2
<1>5. /\ EntriesOf(g, t) = [i \in 1..Len(s) + 1 |-> EntryOf(g, t[i])]
      /\ u = [i \in 1..Len(s) + 1 |-> u[i]]
  BY <1>3, <1>4 DEF EntriesOf, EntryOf
<1> HIDE DEF t, u
<1>6. ASSUME NEW i \in 1..Len(s) + 1
      PROVE  EntryOf(g, t[i]) = u[i]
  <2>1. CASE i = 1
    BY <2>1, <1>3, <1>4
  <2>2. CASE i # 1
    <3>1. i - 1 \in 1..Len(s) /\ (i - 1) + 1 = i
      BY <2>2
    <3> QED
      BY <3>1, <1>1, <1>3, <1>4
  <2> QED
    BY <2>1, <2>2
<1> QED
  BY <1>5, <1>6 DEF t, u, r

LEMMA EntriesShortened ==
  ASSUME NEW S, NEW s \in Seq(S), Len(s) # 0, NEW h, NEW g, NEW t, t = RemoveAt(s, Len(s)),
         \A i \in 1..Len(s) - 1 : EntryOf(g, s[i]) = EntryOf(h, s[i])
  PROVE  EntriesOf(g, t) = Front(EntriesOf(h, s))
<1>1. /\ t \in Seq(S)
      /\ Len(t) = Len(s) - 1
      /\ \A i \in 1..Len(s) - 1 : t[i] = IF i < Len(s) THEN s[i] ELSE s[i + 1]
  BY RemoveAtProperties
<1>2. \A i \in 1..Len(s) - 1 : t[i] = s[i]
  BY <1>1
<1>3. EntriesOf(g, t) = [i \in 1..Len(s) - 1 |-> EntryOf(h, s[i])]
  BY <1>1, <1>2 DEF EntriesOf, EntryOf
<1> DEFINE r == EntriesOf(h, s)
           R == {EntryOf(h, s[i]) : i \in 1..Len(s)} \cup {}
<1>4. r \in Seq(R) /\ Len(r) = Len(s) /\ \A i \in 1..Len(s) : r[i] = EntryOf(h, s[i])
  <2>1. Reads(h, s, R, r)
    BY EntriesAre
  <2> HIDE DEF R, r
  <2> QED
    BY <2>1 DEF Reads
<1> HIDE DEF r, R
<1>5. Front(r) = [i \in 1..Len(s) - 1 |-> r[i]]
  BY <1>4 DEF Front
<1> QED
  BY <1>3, <1>4, <1>5 DEF r

-----------------------------------------------------------------------------
(* The invariant. *)

IInv ==
  /\ HeapType(heap)
  /\ Owns(heap, cacheMap)
  /\ DOMAIN cacheMap \subseteq Queries
  /\ Cardinality(DOMAIN cacheMap) <= Capacity
  /\ newCacheCnt \in 0..MaxNew
  /\ loading \in BOOLEAN
  /\ found \in Answers \cup {NoAnswer}
  /\ \E s \in Seq(Nodes) : Listed(heap, list, s)

LEMMA InvariantInit == Init => IInv /\ Lru!LruInit
<1> SUFFICES ASSUME Init
             PROVE  IInv /\ Lru!LruInit
  OBVIOUS
<1>1. DOMAIN heap = {} /\ DOMAIN cacheMap = {}
  BY DEF Init
<1>2. Listed(heap, list, <<>>) /\ <<>> \in Seq(Nodes)
  BY <1>1 DEF Init, Listed, Linked
<1>3. Kept = EntriesOf(heap, <<>>)
  BY <1>2, OrderIsList
<1>4. Kept = <<>>
  BY <1>3 DEF EntriesOf
<1>5. Cardinality(DOMAIN cacheMap) <= Capacity
  BY <1>1, FS_EmptySet, CacheAssumption
<1>6. HeapType(heap) /\ Owns(heap, cacheMap) /\ DOMAIN cacheMap \subseteq Queries
  BY <1>1 DEF HeapType, Owns
<1>7. newCacheCnt \in 0..MaxNew /\ loading \in BOOLEAN /\ found = NoAnswer
  BY CacheAssumption DEF Init
<1>8. IInv
  BY <1>2, <1>5, <1>6, <1>7 DEF IInv
<1> QED
  BY <1>4, <1>7, <1>8 DEF Lru!LruInit

\* A node of the heap that becomes the first, with its old or a new answer.
LEMMA MoveStep ==
  ASSUME IInv, NEW q \in DOMAIN cacheMap, NEW h, HeapType(h),
         DOMAIN h = DOMAIN heap,
         \A n \in DOMAIN heap : /\ h[n].query = heap[n].query /\ h[n].prev = heap[n].prev /\ h[n].next = heap[n].next
                                /\ n # cacheMap[q] => h[n].jsonfile = heap[n].jsonfile,
         MoveToHead(h, cacheMap[q]), UNCHANGED cacheMap
  PROVE  /\ HeapType(heap')
         /\ Owns(heap', cacheMap')
         /\ \E s \in Seq(Nodes) : Listed(heap', list', s)
         /\ \E i \in 1..Len(Kept) :
              /\ Kept[i] = EntryOf(heap, cacheMap[q]) /\ Kept[i].query = q
              /\ Kept' = <<EntryOf(h, cacheMap[q])>> \o RemoveAt(Kept, i)
<1>1. PICK s \in Seq(Nodes) : Listed(heap, list, s)
  BY DEF IInv
<1> DEFINE n == cacheMap[q]
           e == RemoveEnds(h, list, n)
<1>2. n \in DOMAIN heap /\ heap[n].query = q
  BY DEF IInv, Owns
<1>3. PICK p \in 1..Len(s) : s[p] = n
  BY <1>1, <1>2 DEF Listed, Holds
<1>4. Listed(h, list, s)
  BY <1>1 DEF Listed, Linked
<1>5. heap' = SetHeadHeap(RemoveHeap(h, n), e, n) /\ list' = SetHeadEnds(e, n)
  BY DEF MoveToHead
<1> DEFINE t == <<n>> \o RemoveAt(s, p)
<1>6. /\ HeapType(heap')
      /\ DOMAIN heap' = DOMAIN h
      /\ \A m \in DOMAIN h : heap'[m].query = h[m].query /\ heap'[m].jsonfile = h[m].jsonfile
      /\ Listed(heap', list', t)
  BY <1>3, <1>4, <1>5, MoveLinks
<1>7. Owns(heap', cacheMap')
  <2>1. cacheMap' = cacheMap /\ DOMAIN heap' = DOMAIN heap
    BY <1>6
  <2>2. \A m \in DOMAIN heap : heap'[m].query = heap[m].query
    BY <1>6
  <2> QED
    BY <2>1, <2>2 DEF IInv, Owns
<1>8. t \in Seq(Nodes)
  BY <1>6 DEF Listed, Linked, HeapType
<1>9. Kept = EntriesOf(heap, s) /\ Kept' = EntriesOf(heap', t)
  BY <1>1, <1>6, <1>8, OrderIsList, OrderIsListNext
<1>10. \A i \in 1..Len(s) : s[i] \in DOMAIN heap
  BY <1>1 DEF Listed, Linked
<1>11. ASSUME NEW i \in 1..Len(s), i # p
       PROVE  EntryOf(heap', s[i]) = EntryOf(heap, s[i])
  <2>1. s[i] # n
    BY <1>1, <1>3, <1>11 DEF Listed, Linked
  <2> QED
    BY <2>1, <1>6, <1>10 DEF EntryOf
<1>12. Kept' = <<EntryOf(heap', n)>> \o RemoveAt(Kept, p)
  BY <1>3, <1>9, <1>11, EntriesMoved
<1>13. EntryOf(heap', n) = EntryOf(h, n)
  BY <1>2, <1>6 DEF EntryOf
<1>14. Len(s) \in Nat /\ Len(Kept) = Len(s) /\ Kept[p] = EntryOf(heap, n)
  BY <1>3, <1>9 DEF EntriesOf, EntryOf
<1>15. Kept[p].query = q
  BY <1>2, <1>14 DEF EntryOf
<1> QED
  BY <1>6, <1>7, <1>8, <1>12, <1>13, <1>14, <1>15

LEMMA GetHitStep ==
  ASSUME IInv, NEW q \in Queries, GetHit(q)
  PROVE  IInv' /\ Lru!LruHit(q)
<1>1. q \in DOMAIN cacheMap /\ MoveToHead(heap, cacheMap[q]) /\ UNCHANGED <<cacheMap, newCacheCnt, loading>>
  BY DEF GetHit
<1>2. /\ HeapType(heap')
      /\ Owns(heap', cacheMap')
      /\ \E s \in Seq(Nodes) : Listed(heap', list', s)
      /\ \E i \in 1..Len(Kept) :
           /\ Kept[i] = EntryOf(heap, cacheMap[q]) /\ Kept[i].query = q
           /\ Kept' = <<EntryOf(heap, cacheMap[q])>> \o RemoveAt(Kept, i)
  BY <1>1, MoveStep DEF IInv
<1>3. cacheMap[q] \in DOMAIN heap
  BY <1>1 DEF IInv, Owns
<1>4. found' = heap[cacheMap[q]].jsonfile /\ found' \in Answers
  BY <1>3 DEF GetHit, IInv, HeapType, Entries
<1>5. IInv'
  BY <1>1, <1>2, <1>4 DEF IInv
<1>6. PICK i \in 1..Len(Kept) : /\ Kept[i] = EntryOf(heap, cacheMap[q])
                                /\ Kept[i].query = q
                                /\ Kept' = <<EntryOf(heap, cacheMap[q])>> \o RemoveAt(Kept, i)
  BY <1>2
<1>7. found' = Kept[i].jsonfile
  BY <1>4, <1>6 DEF EntryOf
<1>8. Lru!Used(i, Kept[i])
  BY <1>6 DEF Lru!Used, Lru!RemoveAt, RemoveAt
<1> QED
  BY <1>5, <1>6, <1>7, <1>8 DEF Lru!LruHit

LEMMA KeptQueries ==
  ASSUME IInv
  PROVE  /\ Len(Kept) = Cardinality(DOMAIN cacheMap)
         /\ \A i \in 1..Len(Kept) : Kept[i].query \in DOMAIN cacheMap
<1>1. PICK s \in Seq(Nodes) : Listed(heap, list, s)
  BY DEF IInv
<1>2. Kept = EntriesOf(heap, s) /\ Len(s) \in Nat /\ Cardinality(DOMAIN cacheMap) = Len(s)
  BY <1>1, OrderIsList, OwnsCount DEF IInv
<1>3. Len(Kept) = Len(s) /\ \A i \in 1..Len(s) : Kept[i].query = heap[s[i]].query
  BY <1>2 DEF EntriesOf
<1>4. \A i \in 1..Len(s) : s[i] \in DOMAIN heap
  BY <1>1 DEF Listed, Linked
<1> QED
  BY <1>2, <1>3, <1>4 DEF IInv, Owns

LEMMA KeptUnchanged ==
  ASSUME IInv, UNCHANGED <<heap, list>>
  PROVE  UNCHANGED Kept
<1>1. PICK s \in Seq(Nodes) : Listed(heap, list, s)
  BY DEF IInv
<1>2. heap' = heap /\ list' = list
  OBVIOUS
<1>3. Listed(heap', list', s)
  BY <1>1, <1>2
<1>4. Kept' = EntriesOf(heap', s)
  BY <1>3, OrderIsListNext
<1> QED
  BY <1>1, <1>2, <1>4, OrderIsList

LEMMA GetMissStep ==
  ASSUME IInv, NEW q \in Queries, GetMiss(q)
  PROVE  IInv' /\ Lru!LruMiss(q)
<1>1. UNCHANGED <<heap, list, cacheMap, newCacheCnt, loading>> /\ found' = NoAnswer /\ q \notin DOMAIN cacheMap
  BY DEF GetMiss
<1>2. IInv'
  BY <1>1 DEF IInv
<1>3. Lru!IsNew(q)
  BY <1>1, KeptQueries DEF Lru!IsNew
<1>4. UNCHANGED Kept
  BY <1>1, KeptUnchanged
<1> QED
  BY <1>1, <1>2, <1>3, <1>4 DEF Lru!LruMiss

LEMMA SetKnownStep ==
  ASSUME IInv, NEW q \in Queries, NEW a \in Answers, SetKnown(q, a)
  PROVE  IInv' /\ Lru!LruUpdate(q, a)
<1> DEFINE n == cacheMap[q]
           h == [heap EXCEPT ![n].jsonfile = a]
<1>1. q \in DOMAIN cacheMap /\ MoveToHead(h, n) /\ UNCHANGED <<cacheMap, newCacheCnt, loading, found>>
  BY DEF SetKnown
<1>2. n \in DOMAIN heap /\ heap[n] \in Entries /\ heap[n].query = q
  BY <1>1 DEF IInv, Owns, HeapType
<1>3. DOMAIN h = DOMAIN heap
  OBVIOUS
<1>4. \A m \in DOMAIN heap : m # n => h[m] = heap[m]
  OBVIOUS
<1>5. h[n] = [heap[n] EXCEPT !.jsonfile = a]
  BY <1>2
<1>6. h[n] \in Entries /\ h[n].query = q /\ h[n].jsonfile = a /\ h[n].prev = heap[n].prev /\ h[n].next = heap[n].next
  BY <1>2, <1>5 DEF Entries
<1> HIDE DEF h
<1>7. HeapType(h)
  BY <1>3, <1>4, <1>6 DEF IInv, HeapType
<1>8. \A m \in DOMAIN heap : /\ h[m].query = heap[m].query /\ h[m].prev = heap[m].prev /\ h[m].next = heap[m].next
                             /\ m # n => h[m].jsonfile = heap[m].jsonfile
  BY <1>2, <1>4, <1>6
<1>9. UNCHANGED cacheMap
  BY <1>1
<1>10. /\ HeapType(heap')
       /\ Owns(heap', cacheMap')
       /\ \E s \in Seq(Nodes) : Listed(heap', list', s)
       /\ \E i \in 1..Len(Kept) :
            /\ Kept[i] = EntryOf(heap, cacheMap[q]) /\ Kept[i].query = q
            /\ Kept' = <<EntryOf(h, cacheMap[q])>> \o RemoveAt(Kept, i)
  BY <1>1, <1>3, <1>7, <1>8, <1>9, MoveStep
<1>11. IInv'
  BY <1>1, <1>10 DEF IInv
<1>12. EntryOf(h, n) = Lru!Entry(q, a)
  BY <1>6 DEF EntryOf, Lru!Entry
<1>13. PICK i \in 1..Len(Kept) : /\ Kept[i].query = q
                                 /\ Kept' = <<EntryOf(h, n)>> \o RemoveAt(Kept, i)
  BY <1>10
<1>14. Lru!Used(i, Lru!Entry(q, a))
  BY <1>12, <1>13 DEF Lru!Used, Lru!RemoveAt, RemoveAt
<1> QED
  BY <1>1, <1>11, <1>13, <1>14 DEF Lru!LruUpdate

\* A new entry in what eviction left, or in what was there: heap h, list l, map.
LEMMA InsertStep ==
  ASSUME IInv, NEW q \in Queries, NEW a \in Answers,
         NEW h, HeapType(h), DOMAIN h \subseteq DOMAIN heap, NEW l, NEW s, Listed(h, l, s),
         NEW map, Owns(h, map), DOMAIN map \subseteq Queries, q \notin DOMAIN map,
         Len(s) < Capacity, newCacheCnt < MaxNew,
         Insert(h, l, map, q, a)
  PROVE  IInv' /\ Kept' = <<Lru!Entry(q, a)>> \o EntriesOf(h, s) /\ UNCHANGED found
<1>1. PICK n \in Nodes \ DOMAIN heap :
        /\ heap' = SetHeadHeap(With(h, n, [query |-> q, jsonfile |-> a, prev |-> Null, next |-> Null]), l, n)
        /\ list' = SetHeadEnds(l, n)
        /\ cacheMap' = With(map, q, n)
        /\ newCacheCnt' = newCacheCnt + 1
        /\ UNCHANGED <<loading, found>>
  BY DEF Insert
<1>2. n \in Nodes \ DOMAIN h
  BY <1>1
<1> DEFINE t == <<n>> \o s
<1>3. /\ HeapType(heap')
      /\ DOMAIN heap' = DOMAIN h \cup {n}
      /\ heap'[n].query = q /\ heap'[n].jsonfile = a
      /\ \A m \in DOMAIN h : heap'[m].query = h[m].query /\ heap'[m].jsonfile = h[m].jsonfile
      /\ Listed(heap', list', t)
  <2> DEFINE g == SetHeadHeap(With(h, n, [query |-> q, jsonfile |-> a, prev |-> Null, next |-> Null]), l, n)
  <2>1. heap' = g /\ list' = SetHeadEnds(l, n)
    BY <1>1
  <2>2. /\ HeapType(g)
        /\ DOMAIN g = DOMAIN h \cup {n}
        /\ g[n].query = q /\ g[n].jsonfile = a
        /\ \A m \in DOMAIN h : g[m].query = h[m].query /\ g[m].jsonfile = h[m].jsonfile
        /\ Listed(g, SetHeadEnds(l, n), t)
    BY <1>2, InsertLinks
  <2> HIDE DEF g, t
  <2> QED
    BY <2>1, <2>2
<1>4. /\ DOMAIN cacheMap' = DOMAIN map \cup {q}
      /\ cacheMap'[q] = n
      /\ \A r \in DOMAIN map : r # q /\ cacheMap'[r] = map[r]
  BY <1>1 DEF With
<1>5. Owns(heap', cacheMap')
  <2>1. \A r \in DOMAIN cacheMap' : cacheMap'[r] \in DOMAIN heap' /\ heap'[cacheMap'[r]].query = r
    BY <1>3, <1>4 DEF Owns
  <2>2. \A m \in DOMAIN heap' : heap'[m].query \in DOMAIN cacheMap' /\ cacheMap'[heap'[m].query] = m
    BY <1>3, <1>4 DEF Owns
  <2> QED
    BY <2>1, <2>2 DEF Owns
<1>6. s \in Seq(DOMAIN h) /\ s \in Seq(Nodes) /\ t \in Seq(Nodes) /\ Len(t) = Len(s) + 1
  BY <1>2 DEF Listed, Linked, HeapType
<1>7. Cardinality(DOMAIN cacheMap') = Len(s) + 1
  BY <1>3, <1>5, <1>6, OwnsCount
<1>8. IInv'
  <2>1. Len(s) \in Nat /\ Capacity \in Nat /\ MaxNew \in Nat
    BY <1>6, CacheAssumption
  <2>2. Cardinality(DOMAIN cacheMap') <= Capacity /\ newCacheCnt' \in 0..MaxNew
    BY <1>1, <1>7, <2>1 DEF IInv
  <2>3. DOMAIN cacheMap' \subseteq Queries
    BY <1>4
  <2>4. loading' \in BOOLEAN /\ found' \in Answers \cup {NoAnswer}
    BY <1>1 DEF IInv
  <2> QED
    BY <1>3, <1>5, <1>6, <2>2, <2>3, <2>4 DEF IInv
<1>9. Kept' = EntriesOf(heap', t)
  BY <1>3, <1>6, OrderIsListNext
<1>10. EntryOf(heap', n) = Lru!Entry(q, a)
  BY <1>3 DEF EntryOf, Lru!Entry
<1>11. \A i \in 1..Len(s) : EntryOf(heap', s[i]) = EntryOf(h, s[i])
  BY <1>3, <1>6 DEF EntryOf
<1>12. Kept' = <<EntryOf(heap', n)>> \o EntriesOf(h, s)
  BY <1>6, <1>9, <1>11, EntriesInserted
<1> QED
  BY <1>1, <1>8, <1>10, <1>12

LEMMA SetNewStep ==
  ASSUME IInv, NEW q \in Queries, NEW a \in Answers, SetNew(q, a)
  PROVE  IInv' /\ Lru!LruInsert(q, a)
<1>1. PICK s \in Seq(Nodes) : Listed(heap, list, s)
  BY DEF IInv
<1>2. Len(s) = Cardinality(DOMAIN cacheMap) /\ Len(s) \in Nat /\ Capacity \in Nat
  BY <1>1, OwnsCount, CacheAssumption DEF IInv
<1>3. Len(s) < Capacity
  BY <1>2 DEF SetNew, Full, IInv
<1>4. q \notin DOMAIN cacheMap /\ newCacheCnt < MaxNew /\ Insert(heap, list, cacheMap, q, a)
  BY DEF SetNew
<1>5. HeapType(heap) /\ Owns(heap, cacheMap) /\ DOMAIN cacheMap \subseteq Queries
  BY DEF IInv
<1>6. IInv' /\ Kept' = <<Lru!Entry(q, a)>> \o EntriesOf(heap, s) /\ UNCHANGED found
  BY <1>1, <1>3, <1>4, <1>5, InsertStep
<1>7. Kept = EntriesOf(heap, s)
  BY <1>1, OrderIsList
<1>8. Lru!IsNew(q) /\ Len(Kept) # Capacity
  BY <1>2, <1>3, <1>4, KeptQueries DEF Lru!IsNew
<1> QED
  BY <1>6, <1>7, <1>8 DEF Lru!LruInsert

LEMMA SetEvictingStep ==
  ASSUME IInv, NEW q \in Queries, NEW a \in Answers, SetEvicting(q, a)
  PROVE  IInv' /\ Lru!LruInsert(q, a)
<1>1. PICK s \in Seq(Nodes) : Listed(heap, list, s)
  BY DEF IInv
<1>2. Len(s) = Capacity /\ Capacity \in Nat \ {0} /\ Len(s) \in 1..Len(s)
  BY <1>1, OwnsCount, CacheAssumption DEF IInv, SetEvicting, Full
<1>3. PICK n \in DOMAIN heap : n = list.tail /\ n = s[Len(s)]
  BY <1>1, <1>2 DEF Listed, Linked
<1> DEFINE g == RemoveHeap(heap, n)
           h == Without(g, n)
           l == RemoveEnds(heap, list, n)
           map == Without(cacheMap, heap[n].query)
           t == RemoveAt(s, Len(s))
<1>4. HeapType(heap) /\ Owns(heap, cacheMap) /\ DOMAIN cacheMap \subseteq Queries
  BY DEF IInv
<1>5. /\ HeapType(g)
      /\ DOMAIN g = DOMAIN heap
      /\ \A m \in DOMAIN heap : g[m].query = heap[m].query /\ g[m].jsonfile = heap[m].jsonfile
      /\ Linked(g, l, t)
      /\ ~Holds(t, n)
      /\ Len(t) = Len(s) - 1
      /\ \A i \in 1..Len(s) - 1 : t[i] = IF i < Len(s) THEN s[i] ELSE s[i + 1]
  <2>1. Linked(heap, list, s) /\ Len(s) \in 1..Len(s) /\ n = s[Len(s)] /\ HeapType(heap)
    BY <1>1, <1>2, <1>3, <1>4 DEF Listed
  <2> QED
    BY <2>1, RemoveLinks
<1>6. /\ HeapType(h)
      /\ DOMAIN h = DOMAIN heap \ {n}
      /\ \A m \in DOMAIN heap \ {n} : h[m] = g[m]
      /\ Linked(h, l, t)
  <2> HIDE DEF g, l, t
  <2>1. HeapType(g) /\ Linked(g, l, t) /\ ~Holds(t, n)
    BY <1>5
  <2>2. /\ HeapType(Without(g, n))
        /\ DOMAIN Without(g, n) = DOMAIN g \ {n}
        /\ \A m \in DOMAIN g \ {n} : Without(g, n)[m] = g[m]
        /\ Linked(Without(g, n), l, t)
    BY <2>1, WithoutLinks
  <2> QED
    BY <1>5, <2>2
<1>7. Listed(h, l, t)
  <2>1. ASSUME NEW m \in DOMAIN h
        PROVE  Holds(t, m)
    <3>1. PICK i \in 1..Len(s) : s[i] = m
      BY <1>1, <1>6 DEF Listed, Holds
    <3>2. i # Len(s)
      BY <1>3, <1>6, <3>1
    <3>3. i \in 1..Len(t) /\ t[i] = m
      BY <1>2, <1>5, <3>1, <3>2
    <3> QED
      BY <3>3 DEF Holds
  <2> QED
    BY <1>6, <2>1 DEF Listed
<1>8. /\ DOMAIN map = DOMAIN cacheMap \ {heap[n].query}
      /\ \A r \in DOMAIN map : map[r] = cacheMap[r]
  BY DEF Without, Restrict
<1>9. \A m \in DOMAIN h : h[m].query = heap[m].query /\ h[m].jsonfile = heap[m].jsonfile
  BY <1>5, <1>6
<1> HIDE DEF h, g, l, map, t
<1>10. Owns(h, map)
  <2>1. ASSUME NEW r \in DOMAIN map
        PROVE  map[r] \in DOMAIN h /\ h[map[r]].query = r
    <3>1. cacheMap[r] \in DOMAIN heap /\ heap[cacheMap[r]].query = r /\ cacheMap[r] # n
      BY <1>4, <1>8, <2>1 DEF Owns
    <3> QED
      BY <1>6, <1>8, <1>9, <3>1
  <2>2. ASSUME NEW m \in DOMAIN h
        PROVE  h[m].query \in DOMAIN map /\ map[h[m].query] = m
    <3>1. heap[m].query \in DOMAIN cacheMap /\ cacheMap[heap[m].query] = m /\ m # n
      BY <1>4, <1>6 DEF Owns
    <3>2. heap[m].query # heap[n].query
      BY <1>3, <1>4, <3>1 DEF Owns
    <3> QED
      BY <1>8, <1>9, <3>1, <3>2
  <2> QED
    BY <2>1, <2>2 DEF Owns
<1>11. q \notin DOMAIN cacheMap /\ newCacheCnt < MaxNew /\ Insert(h, l, map, q, a)
  BY <1>3 DEF SetEvicting, h, g, l, map
<1>12. DOMAIN h \subseteq DOMAIN heap /\ DOMAIN map \subseteq Queries /\ q \notin DOMAIN map /\ Len(t) < Capacity
  BY <1>2, <1>4, <1>5, <1>6, <1>8, <1>11
<1>13. IInv' /\ Kept' = <<Lru!Entry(q, a)>> \o EntriesOf(h, t) /\ UNCHANGED found
  BY <1>6, <1>7, <1>10, <1>11, <1>12, InsertStep
<1>14. Kept = EntriesOf(heap, s)
  BY <1>1, OrderIsList
<1>15. EntriesOf(h, t) = Front(EntriesOf(heap, s))
  <2>1. \A i \in 1..Len(s) - 1 : s[i] \in DOMAIN h
    <3> TAKE i \in 1..Len(s) - 1
    <3>1. i < Len(s) /\ i \in 1..Len(s) /\ Len(s) \in 1..Len(s)
      BY <1>2
    <3>2. s[i] \in DOMAIN heap /\ s[i] # s[Len(s)]
      BY <1>1, <3>1 DEF Listed, Linked
    <3> QED
      BY <1>3, <1>6, <3>2
  <2>2. \A i \in 1..Len(s) - 1 : EntryOf(h, s[i]) = EntryOf(heap, s[i])
    BY <1>9, <2>1 DEF EntryOf
  <2>3. Len(s) # 0 /\ t = RemoveAt(s, Len(s))
    BY <1>2 DEF t
  <2> QED
    BY <2>2, <2>3, EntriesShortened
<1>16. Lru!IsNew(q) /\ Len(Kept) = Capacity
  BY <1>11, KeptQueries DEF Lru!IsNew, SetEvicting, Full
<1>17. Lru!Front(Kept) = Front(Kept)
  BY DEF Lru!Front, Front
<1> QED
  BY <1>13, <1>14, <1>15, <1>16, <1>17 DEF Lru!LruInsert

LEMMA LoadDoneStep ==
  ASSUME IInv, LoadDone
  PROVE  IInv' /\ UNCHANGED Lru!lruVars
<1>1. IInv'
  <2>1. newCacheCnt' \in 0..MaxNew
    BY CacheAssumption DEF LoadDone
  <2> QED
    BY <2>1 DEF LoadDone, IInv
<1>2. UNCHANGED Kept
  BY KeptUnchanged DEF LoadDone
<1> QED
  BY <1>1, <1>2 DEF LoadDone, Lru!lruVars

LEMMA CacheStep ==
  ASSUME IInv, [Next]_vars
  PROVE  IInv' /\ [Lru!LruNext]_Lru!lruVars
<1>1. ASSUME NEW q \in Queries, GetHit(q)
      PROVE  IInv' /\ Lru!LruNext
  BY <1>1, GetHitStep DEF Lru!LruNext
<1>2. ASSUME NEW q \in Queries, GetMiss(q)
      PROVE  IInv' /\ Lru!LruNext
  BY <1>2, GetMissStep DEF Lru!LruNext
<1>3. ASSUME NEW q \in Queries, NEW a \in Answers, SetKnown(q, a)
      PROVE  IInv' /\ Lru!LruNext
  BY <1>3, SetKnownStep DEF Lru!LruNext
<1>4. ASSUME NEW q \in Queries, NEW a \in Answers, SetNew(q, a)
      PROVE  IInv' /\ Lru!LruNext
  BY <1>4, SetNewStep DEF Lru!LruNext
<1>5. ASSUME NEW q \in Queries, NEW a \in Answers, SetEvicting(q, a)
      PROVE  IInv' /\ Lru!LruNext
  BY <1>5, SetEvictingStep DEF Lru!LruNext
<1>6. CASE LoadDone
  BY <1>6, LoadDoneStep
<1>7. CASE UNCHANGED vars
  <2>1. IInv'
    BY <1>7 DEF IInv, vars
  <2>2. UNCHANGED <<heap, list>> /\ UNCHANGED found
    BY <1>7 DEF vars
  <2> QED
    BY <2>1, <2>2, KeptUnchanged DEF Lru!lruVars
<1> QED
  BY <1>1, <1>2, <1>3, <1>4, <1>5, <1>6, <1>7 DEF Next

\* What the invariant says of the list that is met from the head on.
LEMMA InvariantIsWhole == IInv => CacheIsWhole
<1> SUFFICES ASSUME IInv
             PROVE  CacheIsWhole
  OBVIOUS
<1>1. PICK s \in Seq(Nodes) : Listed(heap, list, s)
  BY DEF IInv
<1>2. Size = Len(s) /\ Order = s /\ Len(s) \in Nat
  BY <1>1, OrderIsList
<1>3. s \in [1..Len(s) -> DOMAIN heap] /\ DOMAIN heap \subseteq Nodes
  BY <1>1 DEF Listed, Linked, IInv, HeapType
<1>4. list \in [head : Links, tail : Links]
  BY <1>1, <1>2, <1>3 DEF Listed, Linked, Links
<1>5. TypeOK
  BY <1>4 DEF TypeOK, IInv, HeapType, Entries
<1>6. MapOwnsNodes
  BY DEF MapOwnsNodes, IInv, Owns
<1>7. {Order[i] : i \in 1..Size} = DOMAIN heap
  BY <1>1, <1>2, <1>3 DEF Listed, Holds
<1>8. ListIsWhole
  BY <1>1, <1>2, <1>7 DEF ListIsWhole, Listed, Linked
<1> QED
  BY <1>5, <1>6, <1>8 DEF CacheIsWhole

\* For any capacity and any nodes, queries and answers: every call leaves the
\* list whole in both directions, the map leading to every node and the heap
\* free of leaks and of pointers to what was deleted.
THEOREM CacheStaysWhole == Spec => []CacheIsWhole
<1>1. Init => IInv
  BY InvariantInit
<1>2. IInv /\ [Next]_vars => IInv'
  BY CacheStep
<1> QED
  BY <1>1, <1>2, InvariantIsWhole, PTL DEF Spec

\* What remove, setHead, get and set do to the pointers is what the cache
\* promises: the last Capacity queries used, with their latest answers.
THEOREM CacheImplementsLru == Spec => ImplementsLru
<1>1. Init => IInv /\ Lru!LruInit
  BY InvariantInit
<1>2. IInv /\ [Next]_vars => IInv' /\ [Lru!LruNext]_Lru!lruVars
  BY CacheStep
<1> QED
  BY <1>1, <1>2, PTL DEF Spec, ImplementsLru, Lru!LruSpec
=============================================================================
