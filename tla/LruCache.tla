---------------------------- MODULE LruCache ----------------------------
(***************************************************************************)
(* What the query cache promises: the last Capacity queries used, newest   *)
(* first, each with its latest answer.                                     *)
(***************************************************************************)
EXTENDS Naturals, SequencesExt

CONSTANTS Queries, Answers, Capacity, NoAnswer

VARIABLES
  entries,     \* the records kept, the most recently used first
  found        \* what the last get returned; NoAnswer is the empty string

lruVars == <<entries, found>>

Entry(q, a) == [query |-> q, jsonfile |-> a]

LruInit ==
  /\ entries = <<>>
  /\ found = NoAnswer

\* The i-th entry, now e, becomes the first.
Used(i, e) == entries' = <<e>> \o RemoveAt(entries, i)

LruHit(q) ==
  \E i \in 1..Len(entries) :
    /\ entries[i].query = q
    /\ Used(i, entries[i])
    /\ found' = entries[i].jsonfile

IsNew(q) == \A i \in 1..Len(entries) : entries[i].query # q

LruMiss(q) ==
  /\ IsNew(q)
  /\ found' = NoAnswer
  /\ UNCHANGED entries

LruUpdate(q, a) ==
  \E i \in 1..Len(entries) :
    /\ entries[i].query = q
    /\ Used(i, Entry(q, a))
    /\ UNCHANGED found

\* The least recently used entry makes room.
LruInsert(q, a) ==
  /\ IsNew(q)
  /\ entries' = <<Entry(q, a)>> \o (IF Len(entries) = Capacity THEN Front(entries) ELSE entries)
  /\ UNCHANGED found

LruNext ==
  \E q \in Queries :
    \/ LruHit(q)
    \/ LruMiss(q)
    \/ \E a \in Answers : LruUpdate(q, a) \/ LruInsert(q, a)

LruSpec == LruInit /\ [][LruNext]_lruVars
=============================================================================
