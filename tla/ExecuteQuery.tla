--------------------------- MODULE ExecuteQuery ---------------------------
(***************************************************************************)
(* WordQuery::executeQuery: the documents that contain every word of the   *)
(* query, by merging the words' posting lists (ascending document ids).    *)
(* A step is one round of the loop that collects the iterators, or one     *)
(* round of the merge.  A weight is represented by the posting it is read  *)
(* from, so that a weight vector can be seen to belong to its document.    *)
(***************************************************************************)
EXTENDS Naturals, Sequences

CONSTANTS
  Postings,    \* the posting lists a word may have, <<>> for an unknown word
  MaxWords     \* bound: words in a query

ASSUME QueryAssumption ==
  /\ MaxWords \in Nat
  /\ \A list \in Postings :
       /\ list \in Seq(Nat)
       /\ \A i, j \in 1..Len(list) : i < j => list[i] < list[j]

VARIABLES
  lists,        \* the posting list of each word, in the order of the query
  collected,    \* how many iterators iterVec holds
  minIterNum,   \* the length of the shortest list collected
  passed,       \* iterVec[i].second: how far the i-th iterator has advanced
  resultVec,    \* the documents found, each with its weight vector
  pc            \* "collect", "merge", or what was returned

vars == <<lists, collected, minIterNum, passed, resultVec, pc>>

\* minIterNum before the first word: 0x7FFFFFFF, more than any length.
NoLimit == 2147483647

Words == DOMAIN lists

Init ==
  /\ \E n \in 0..MaxWords : lists \in [1..n -> Postings]
  /\ collected = 0
  /\ minIterNum = NoLimit
  /\ passed = [i \in Words |-> 0]
  /\ resultVec = <<>>
  /\ pc = "collect"

\* The id the i-th iterator points at.
Current(i) == lists[i][passed[i] + 1]

\* An empty query, or a word without postings: return false.
Fail ==
  /\ pc = "collect"
  /\ \/ Words = {}
     \/ collected + 1 \in Words /\ Len(lists[collected + 1]) = 0
  /\ pc' = "false"
  /\ UNCHANGED <<lists, collected, minIterNum, passed, resultVec>>

\* Mutant: keeps the length of the longest list.
CollectLongest ==
  /\ pc = "collect"
  /\ collected + 1 \in Words
  /\ LET size == Len(lists[collected + 1]) IN
     /\ size # 0
     /\ minIterNum' = IF collected = 0 \/ minIterNum < size THEN size ELSE minIterNum
  /\ collected' = collected + 1
  /\ pc' = IF collected' + 1 \in Words THEN "collect" ELSE "merge"
  /\ UNCHANGED <<lists, passed, resultVec>>

Collect ==
  /\ pc = "collect"
  /\ collected + 1 \in Words
  /\ LET size == Len(lists[collected + 1]) IN
     /\ size # 0
     /\ minIterNum' = IF minIterNum > size THEN size ELSE minIterNum
  /\ collected' = collected + 1
  /\ pc' = IF collected' + 1 \in Words THEN "collect" ELSE "merge"
  /\ UNCHANGED <<lists, passed, resultVec>>

\* isExiting: some iterator has advanced minIterNum times.
AfterRound(count) ==
  IF \E i \in Words : count[i] = minIterNum THEN "true" ELSE "merge"

\* Mutant: the loop over neighbours ends one comparison early.
AllButLastEqual ==
  \A i, j \in Words : i + 1 \in Words /\ j + 1 \in Words => Current(i) = Current(j)

AllEqual == \A i, j \in Words : Current(i) = Current(j)

\* Mutant: the loop over the iterators ends one weight early.
MatchShortVector ==
  /\ pc = "merge"
  /\ AllEqual
  /\ resultVec' = Append(resultVec,
       [docid |-> Current(1),
        weights |-> [i \in {j \in Words : j + 1 \in Words} |-> Current(i)]])
  /\ passed' = [i \in Words |-> passed[i] + 1]
  /\ pc' = AfterRound(passed')
  /\ UNCHANGED <<lists, collected, minIterNum>>

\* Every iterator points at the same document.
Match ==
  /\ pc = "merge"
  /\ AllEqual
  /\ resultVec' = Append(resultVec, [docid |-> Current(1),
                                     weights |-> [i \in Words |-> Current(i)]])
  /\ passed' = [i \in Words |-> passed[i] + 1]
  /\ pc' = AfterRound(passed')
  /\ UNCHANGED <<lists, collected, minIterNum>>

\* Mutant: looks for the largest id.
Largest(i) ==
  /\ \A j \in Words : Current(i) >= Current(j)
  /\ \A j \in 1..(i - 1) : Current(i) > Current(j)

\* Otherwise the first of the iterators with the smallest id advances.
Smallest(i) ==
  /\ \A j \in Words : Current(i) <= Current(j)
  /\ \A j \in 1..(i - 1) : Current(i) < Current(j)

\* Mutant: forgets to advance the iterator it found.
AdvanceNone ==
  /\ pc = "merge"
  /\ ~AllEqual
  /\ \E i \in Words :
       /\ Smallest(i)
       /\ passed' = passed
       /\ pc' = AfterRound(passed')
  /\ UNCHANGED <<lists, collected, minIterNum, resultVec>>

Advance ==
  /\ pc = "merge"
  /\ ~AllEqual
  /\ \E i \in Words :
       /\ Smallest(i)
       /\ passed' = [passed EXCEPT ![i] = @ + 1]
       /\ pc' = AfterRound(passed')
  /\ UNCHANGED <<lists, collected, minIterNum, resultVec>>

Next == Fail \/ Collect \/ Match \/ Advance

Spec == Init /\ [][Next]_vars

-----------------------------------------------------------------------------
(* Properties. *)

TypeOK ==
  /\ \E n \in 0..MaxWords : lists \in [1..n -> Postings]
  /\ collected \in Nat
  /\ minIterNum \in Nat
  /\ passed \in [Words -> Nat]
  /\ resultVec \in Seq([docid : Nat, weights : [Words -> Nat]])
  /\ pc \in {"collect", "merge", "true", "false"}

\* No iterator is dereferenced at end(): the merge stops in time whichever
\* list runs out first.
InBounds ==
  pc = "merge" => \A i \in Words : passed[i] < Len(lists[i])

InList(d, i) == \E k \in 1..Len(lists[i]) : lists[i][k] = d

Common(d) == \A i \in Words : InList(d, i)

Found(d) == \E k \in 1..Len(resultVec) : resultVec[k].docid = d

\* Only documents that contain every word are returned, each once and with
\* the weights of that document.
Sound ==
  /\ \A k \in 1..Len(resultVec) :
       /\ Common(resultVec[k].docid)
       /\ \A i \in Words : resultVec[k].weights[i] = resultVec[k].docid
  /\ \A k, l \in 1..Len(resultVec) :
       k < l => resultVec[k].docid < resultVec[l].docid

\* No iterator moves past a document of the intersection without reporting
\* it; what executeQuery misses lies behind the point where it stopped.
NoneSkipped ==
  \A i \in Words : \A k \in 1..passed[i] :
    Common(lists[i][k]) => Found(lists[i][k])

\* Up to where its iterators are, the merge has read only what is there and has
\* reported exactly the documents that contain every word.
MergeIsRight ==
  /\ TypeOK
  /\ InBounds
  /\ Sound
  /\ NoneSkipped

\* "The iterators whose intersection is to be found" (the comment on
\* iterVec): a successful query returns the whole intersection.
Complete ==
  pc = "true" => \A i \in Words : \A k \in 1..Len(lists[i]) :
                   Common(lists[i][k]) => Found(lists[i][k])
=============================================================================
