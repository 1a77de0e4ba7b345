------------------------- MODULE QueryAnswerProofs -------------------------
(***************************************************************************)
(* executeQuery stays within its lists, reports only common documents and  *)
(* skips none on its way, for every index and every number of words.       *)
(* InBounds follows from the iterators having moved less often than the    *)
(* shortest list is long; NoneSkipped from the merge advancing only a      *)
(* smallest iterator, while some other is already beyond its document.     *)
(*                                                                         *)
(* The answer lists the best of the documents found, for every index,      *)
(* every frequency of the words, every idf and every limit.  The scores    *)
(* are a strict weak order because the score of a document is undefined    *)
(* only if that of every other is; SimilarityCompare is the complement of  *)
(* its converse, and inserting by it still leaves no document in front of  *)
(* one that scores more.                                                   *)
(***************************************************************************)
EXTENDS QueryAnswer, SequenceTheorems, FiniteSetTheorems, WellFoundedInduction, TLAPS

\* The query and its lists, as Init chose them.
QueryLists == \E n \in 0..MaxWords : lists \in [1..n -> Postings]

WellFormed ==
  /\ QueryLists
  /\ pc \in {"collect", "merge", "true", "false"}
  /\ collected \in Nat
  /\ minIterNum \in Nat \ {0}
  /\ passed \in [Words -> Nat]
  /\ resultVec \in Seq([docid : Nat, weights : [Words -> Nat]])

\* What has been collected when the merge runs, and how far it may move.
MergeBounds ==
  /\ pc \in {"collect", "false"} =>
       /\ passed = [i \in Words |-> 0]
       /\ resultVec = <<>>
       /\ \A i \in Words : i <= collected => minIterNum <= Len(lists[i])
  /\ pc \in {"merge", "true"} =>
       /\ Words # {}
       /\ \A i \in Words : minIterNum <= Len(lists[i]) /\ passed[i] <= minIterNum
  /\ pc = "merge" => \A i \in Words : passed[i] < minIterNum

\* A document found has been passed in every list.
FoundIsPassed ==
  \A k \in 1..Len(resultVec) :
    /\ \A i \in Words :
         /\ \E m \in 1..passed[i] : lists[i][m] = resultVec[k].docid
         /\ resultVec[k].weights[i] = resultVec[k].docid

ResultAscending ==
  \A k, l \in 1..Len(resultVec) :
    k < l => resultVec[k].docid < resultVec[l].docid

IInv ==
  /\ WellFormed
  /\ MergeBounds
  /\ FoundIsPassed
  /\ ResultAscending
  /\ NoneSkipped

-----------------------------------------------------------------------------
(* The lists. *)

LEMMA ListFacts ==
  ASSUME QueryAssumption, QueryLists,
         NEW i \in Words
  PROVE  /\ lists[i] \in Seq(Nat)
         /\ Len(lists[i]) \in Nat
         /\ \A k \in 1..Len(lists[i]) : lists[i][k] \in Nat
         /\ \A k, l \in 1..Len(lists[i]) : k < l => lists[i][k] < lists[i][l]
<1>1. lists[i] \in Postings
  BY DEF QueryLists, Words
<1>2. lists[i] \in Seq(Nat)
  BY <1>1 DEF QueryAssumption
<1>3. \A k, l \in 1..Len(lists[i]) : k < l => lists[i][k] < lists[i][l]
  BY <1>1 DEF QueryAssumption
<1> QED
  BY <1>2, <1>3

\* Words is an initial segment of the positive integers.
LEMMA WordsFacts ==
  ASSUME QueryAssumption, QueryLists
  PROVE  \E n \in Nat : Words = 1..n
BY DEF QueryLists, Words, QueryAssumption

\* Where the iterators point during the merge.
LEMMA CurrentFacts ==
  ASSUME QueryAssumption, WellFormed, MergeBounds, pc = "merge",
         NEW i \in Words
  PROVE  /\ passed[i] \in Nat
         /\ passed[i] + 1 \in 1..Len(lists[i])
         /\ Current(i) \in Nat
         /\ \A k \in 1..passed[i] : lists[i][k] \in Nat /\ lists[i][k] < Current(i)
         /\ \A k \in 1..Len(lists[i]) : lists[i][k] < Current(i) => k \in 1..passed[i]
<1>1. /\ Len(lists[i]) \in Nat
      /\ \A k \in 1..Len(lists[i]) : lists[i][k] \in Nat
      /\ \A k, l \in 1..Len(lists[i]) : k < l => lists[i][k] < lists[i][l]
  BY ListFacts DEF WellFormed
<1>2. passed[i] \in Nat /\ passed[i] + 1 \in 1..Len(lists[i])
  BY <1>1 DEF WellFormed, MergeBounds
<1>3. \A k \in 1..passed[i] : lists[i][k] \in Nat /\ lists[i][k] < Current(i)
  BY <1>1, <1>2 DEF Current
<1>4. ASSUME NEW k \in 1..Len(lists[i]), lists[i][k] < Current(i)
      PROVE  k \in 1..passed[i]
  <2>1. ~(k = passed[i] + 1)
    BY <1>1, <1>2, <1>4 DEF Current
  <2>2. ~(passed[i] + 1 < k)
    <3> SUFFICES ASSUME passed[i] + 1 < k PROVE FALSE
      OBVIOUS
    <3>1. Current(i) < lists[i][k]
      BY <1>1, <1>2 DEF Current
    <3> QED
      BY <3>1, <1>1, <1>2, <1>4 DEF Current
  <2> QED
    BY <1>2, <2>1, <2>2
<1> QED
  BY <1>1, <1>2, <1>3, <1>4 DEF Current

-----------------------------------------------------------------------------
(* The steps. *)

LEMMA InitIInv == ASSUME QueryAssumption, Init PROVE IInv
<1>1. WellFormed
  BY DEF Init, WellFormed, QueryLists, NoLimit, Words
<1>2. MergeBounds
  <2>1. \E n \in Nat : Words = 1..n
    BY WordsFacts DEF Init, QueryLists
  <2> QED
    BY <2>1 DEF Init, MergeBounds
<1>3. FoundIsPassed /\ ResultAscending
  BY DEF Init, FoundIsPassed, ResultAscending
<1>4. NoneSkipped
  BY DEF Init, NoneSkipped
<1> QED
  BY <1>1, <1>2, <1>3, <1>4 DEF IInv

LEMMA CollectStep == ASSUME QueryAssumption, IInv, Collect PROVE IInv'
<1> USE DEF Collect
<1>1. Words' = Words
  BY DEF Words
<1> DEFINE size == Len(lists[collected + 1])
<1>2. size \in Nat \ {0}
  BY ListFacts DEF IInv, WellFormed
<1>3. /\ minIterNum' \in Nat \ {0}
      /\ minIterNum' <= size
      /\ minIterNum' <= minIterNum
  BY <1>2 DEF IInv, WellFormed
<1>4. WellFormed'
  <2>1. QueryLists'
    BY DEF IInv, WellFormed, QueryLists
  <2> QED
    BY <1>1, <1>3, <2>1 DEF IInv, WellFormed
<1>5. \A i \in Words : i <= collected' => minIterNum' <= Len(lists'[i])
  <2> SUFFICES ASSUME NEW i \in Words, i <= collected + 1
               PROVE  minIterNum' <= Len(lists[i])
    OBVIOUS
  <2>1. CASE i = collected + 1
    BY <1>3, <2>1
  <2>2. CASE i # collected + 1
    <3>1. i \in Nat /\ collected \in Nat /\ Len(lists[i]) \in Nat
      <4>1. QueryLists /\ collected \in Nat
        BY DEF IInv, WellFormed
      <4>2. i \in Nat
        BY <4>1, WordsFacts
      <4>3. Len(lists[i]) \in Nat
        BY <4>1, ListFacts
      <4> QED
        BY <4>1, <4>2, <4>3
    <3>2. i <= collected
      BY <2>2, <3>1
    <3>3. minIterNum <= Len(lists[i])
      BY <3>2 DEF IInv, MergeBounds
    <3> QED
      BY <1>3, <3>1, <3>3 DEF IInv, WellFormed
  <2> QED
    BY <2>1, <2>2
<1>6. MergeBounds'
  <2>1. CASE collected' + 1 \in Words
    BY <1>1, <1>5, <2>1 DEF IInv, MergeBounds
  <2>2. CASE collected' + 1 \notin Words
    <3>1. \A i \in Words : i <= collected'
      <4>1. PICK n \in Nat : Words = 1..n
        BY WordsFacts DEF IInv, WellFormed
      <4>2. collected \in Nat /\ collected + 1 \in 1..n /\ collected + 1 + 1 \notin 1..n
        BY <2>2, <4>1 DEF IInv, WellFormed
      <4> QED
        BY <4>1, <4>2
    <3>2. \A i \in Words : passed'[i] = 0
      BY DEF IInv, MergeBounds
    <3> QED
      BY <1>1, <1>3, <1>5, <2>2, <3>1, <3>2 DEF MergeBounds
  <2> QED
    BY <2>1, <2>2
<1>7. FoundIsPassed' /\ ResultAscending'
  BY <1>1 DEF IInv, FoundIsPassed, ResultAscending
<1>8. NoneSkipped'
  BY <1>1 DEF IInv, NoneSkipped, Common, InList, Found
<1> QED
  BY <1>4, <1>6, <1>7, <1>8 DEF IInv

LEMMA FailStep == ASSUME QueryAssumption, IInv, Fail PROVE IInv'
<1> USE DEF Fail
<1>1. Words' = Words /\ QueryLists' = QueryLists
  BY DEF Words, QueryLists
<1>2. WellFormed' /\ MergeBounds'
  BY <1>1 DEF IInv, WellFormed, MergeBounds
<1>3. FoundIsPassed' /\ ResultAscending' /\ NoneSkipped'
  BY <1>1 DEF IInv, FoundIsPassed, ResultAscending, NoneSkipped, Common,
              InList, Found
<1> QED
  BY <1>2, <1>3 DEF IInv

LEMMA MatchStep == ASSUME QueryAssumption, IInv, Match PROVE IInv'
<1> USE DEF Match
<1>1. Words' = Words /\ QueryLists' = QueryLists
  BY DEF Words, QueryLists
<1> DEFINE doc == Current(1)
           entry == [docid |-> doc, weights |-> [i \in Words |-> Current(i)]]
<1>2. 1 \in Words
  BY WordsFacts DEF IInv, WellFormed, MergeBounds
<1>3. \A i \in Words : /\ Current(i) = doc
                       /\ Current(i) \in Nat
                       /\ passed[i] \in Nat
                       /\ passed'[i] = passed[i] + 1
                       /\ passed[i] + 1 \in 1..Len(lists[i])
  BY <1>2, CurrentFacts DEF IInv, AllEqual
<1>4. entry \in [docid : Nat, weights : [Words -> Nat]]
  BY <1>2, <1>3
<1>5. /\ resultVec' = Append(resultVec, entry)
      /\ resultVec \in Seq([docid : Nat, weights : [Words -> Nat]])
  BY DEF IInv, WellFormed
<1> HIDE DEF entry
<1>6. /\ resultVec' \in Seq([docid : Nat, weights : [Words -> Nat]])
      /\ Len(resultVec') = Len(resultVec) + 1
      /\ Len(resultVec) \in Nat
      /\ \A k \in 1..Len(resultVec) : resultVec'[k] = resultVec[k]
      /\ resultVec'[Len(resultVec) + 1] = entry
  BY <1>4, <1>5
<1>7. entry.docid = doc /\ \A i \in Words : entry.weights[i] = doc
  BY <1>3 DEF entry
<1> HIDE DEF doc
<1>8. WellFormed'
  <2>1. passed' \in [Words -> Nat]
    BY <1>3
  <2>2. pc' \in {"collect", "merge", "true", "false"}
    BY DEF AfterRound
  <2> QED
    BY <1>1, <1>6, <2>1, <2>2 DEF IInv, WellFormed
<1>9. MergeBounds'
  <2>1. \A i \in Words : /\ minIterNum <= Len(lists[i])
                         /\ passed'[i] <= minIterNum
                         /\ minIterNum \in Nat
    BY <1>3 DEF IInv, WellFormed, MergeBounds
  <2>2. pc' = "merge" => \A i \in Words : passed'[i] # minIterNum
    BY <1>1 DEF AfterRound
  <2>3. pc' \in {"merge", "true"}
    BY DEF AfterRound
  <2>4. \A i \in Words : passed'[i] \in Nat
    BY <1>3
  <2> QED
    BY <1>1, <1>2, <2>1, <2>2, <2>3, <2>4 DEF MergeBounds
<1>10. FoundIsPassed'
  <2> SUFFICES ASSUME NEW k \in 1..Len(resultVec'), NEW i \in Words
               PROVE  /\ \E m \in 1..passed'[i] : lists[i][m] = resultVec'[k].docid
                      /\ resultVec'[k].weights[i] = resultVec'[k].docid
    BY <1>1 DEF FoundIsPassed
  <2>1. CASE k = Len(resultVec) + 1
    <3>1. passed[i] + 1 \in 1..passed'[i] /\ lists[i][passed[i] + 1] = doc
      BY <1>3 DEF Current
    <3> QED
      BY <1>6, <1>7, <2>1, <3>1
  <2>2. CASE k \in 1..Len(resultVec)
    <3>1. PICK m \in 1..passed[i] : lists[i][m] = resultVec[k].docid
      BY <2>2 DEF IInv, FoundIsPassed
    <3>2. m \in 1..passed'[i]
      BY <1>3
    <3>3. resultVec[k].weights[i] = resultVec[k].docid
      BY <2>2 DEF IInv, FoundIsPassed
    <3>4. resultVec'[k] = resultVec[k]
      BY <1>6, <2>2
    <3> QED
      BY <3>1, <3>2, <3>3, <3>4
  <2> QED
    BY <1>6, <2>1, <2>2
<1>11. ResultAscending'
  <2> SUFFICES ASSUME NEW k \in 1..Len(resultVec'), NEW l \in 1..Len(resultVec'),
                      k < l
               PROVE  resultVec'[k].docid < resultVec'[l].docid
    BY DEF ResultAscending
  <2>1. CASE l \in 1..Len(resultVec)
    <3>1. k \in 1..Len(resultVec)
      BY <2>1, <1>6
    <3> QED
      BY <1>6, <2>1, <3>1 DEF IInv, ResultAscending
  <2>2. CASE l = Len(resultVec) + 1
    <3>1. k \in 1..Len(resultVec)
      BY <2>2, <1>6
    <3>2. PICK m \in 1..passed[1] : lists[1][m] = resultVec[k].docid
      BY <1>2, <3>1 DEF IInv, FoundIsPassed
    <3>3. lists[1][m] < Current(1)
      BY <1>2, CurrentFacts DEF IInv
    <3> QED
      BY <1>6, <1>7, <2>2, <3>1, <3>2, <3>3 DEF doc
  <2>3. l \in 1..Len(resultVec) \/ l = Len(resultVec) + 1
    <3>1. l \in 1..(Len(resultVec) + 1) /\ Len(resultVec) \in Nat
      BY <1>6
    <3> QED
      BY <3>1
  <2> QED
    BY <2>1, <2>2, <2>3
<1>12. NoneSkipped'
  <2>0. lists' = lists /\ \A d : Common(d)' <=> Common(d)
    BY <1>1 DEF Common, InList
  <2> SUFFICES ASSUME NEW i \in Words, NEW k \in 1..passed'[i],
                      Common(lists[i][k])
               PROVE  \E m \in 1..Len(resultVec') : resultVec'[m].docid = lists[i][k]
    BY <1>1, <2>0 DEF NoneSkipped, Found
  <2>1. CASE k \in 1..passed[i]
    <3>1. Found(lists[i][k])
      BY <2>1 DEF IInv, NoneSkipped
    <3>2. PICK m \in 1..Len(resultVec) : resultVec[m].docid = lists[i][k]
      BY <3>1 DEF Found
    <3> QED
      BY <1>6, <3>2
  <2>2. CASE k = passed[i] + 1
    <3>1. lists[i][k] = doc
      BY <1>3, <2>2 DEF Current
    <3>2. Len(resultVec) + 1 \in 1..Len(resultVec')
      BY <1>6
    <3> QED
      BY <1>6, <1>7, <3>1, <3>2
  <2> QED
    BY <1>3, <2>1, <2>2
<1> QED
  BY <1>8, <1>9, <1>10, <1>11, <1>12 DEF IInv

LEMMA AdvanceStep == ASSUME QueryAssumption, IInv, Advance PROVE IInv'
<1>1. PICK i \in Words : /\ Smallest(i)
                         /\ passed' = [passed EXCEPT ![i] = @ + 1]
                         /\ pc' = AfterRound(passed')
  BY DEF Advance
<1> USE DEF Advance
<1>2. Words' = Words /\ QueryLists' = QueryLists
  BY DEF Words, QueryLists
<1>3. \A j \in Words : /\ Current(j) \in Nat
                       /\ passed[j] \in Nat
                       /\ passed'[j] = IF j = i THEN passed[j] + 1 ELSE passed[j]
  BY <1>1, CurrentFacts DEF IInv, WellFormed
<1>4. WellFormed'
  <2>1. passed' \in [Words -> Nat]
    BY <1>1, <1>3 DEF IInv, WellFormed
  <2>2. pc' \in {"collect", "merge", "true", "false"}
    BY <1>1 DEF AfterRound
  <2> QED
    BY <1>2, <2>1, <2>2 DEF IInv, WellFormed
<1>5. MergeBounds'
  <2>1. \A j \in Words : /\ minIterNum <= Len(lists[j])
                         /\ passed'[j] <= minIterNum
                         /\ minIterNum \in Nat
                         /\ passed'[j] \in Nat
    BY <1>3 DEF IInv, WellFormed, MergeBounds
  <2>2. pc' = "merge" => \A j \in Words : passed'[j] # minIterNum
    BY <1>1, <1>2 DEF AfterRound
  <2>3. pc' \in {"merge", "true"}
    BY <1>1 DEF AfterRound
  <2> QED
    BY <1>2, <2>1, <2>2, <2>3 DEF MergeBounds
<1>6. FoundIsPassed'
  <2> SUFFICES ASSUME NEW k \in 1..Len(resultVec), NEW j \in Words
               PROVE  /\ \E m \in 1..passed'[j] : lists[j][m] = resultVec[k].docid
                      /\ resultVec[k].weights[j] = resultVec[k].docid
    BY <1>2 DEF FoundIsPassed
  <2>1. PICK m \in 1..passed[j] : lists[j][m] = resultVec[k].docid
    BY DEF IInv, FoundIsPassed
  <2>2. m \in 1..passed'[j]
    BY <1>3
  <2> QED
    BY <2>1, <2>2 DEF IInv, FoundIsPassed
<1>7. ResultAscending'
  BY DEF IInv, ResultAscending
<1>8. NoneSkipped'
  <2>0. lists' = lists /\ \A d : Common(d)' = Common(d) /\ Found(d)' = Found(d)
    BY <1>2 DEF Common, InList, Found
  <2> SUFFICES ASSUME NEW j \in Words, NEW k \in 1..passed'[j],
                      Common(lists[j][k])
               PROVE  Found(lists[j][k])
    BY <1>2, <2>0 DEF NoneSkipped
  <2>1. CASE k \in 1..passed[j]
    BY <2>1 DEF IInv, NoneSkipped
  <2>2. CASE j = i /\ k = passed[i] + 1
    \* Another iterator is already beyond this document, so it was found.
    <3>1. lists[j][k] = Current(i)
      BY <2>2 DEF Current
    <3>2. PICK other \in Words : Current(i) < Current(other)
      <4>1. PICK a \in Words, b \in Words : Current(a) # Current(b)
        BY DEF AllEqual
      <4>2. Current(i) <= Current(a) /\ Current(i) <= Current(b)
        BY <1>1 DEF Smallest
      <4>3. Current(i) \in Nat /\ Current(a) \in Nat /\ Current(b) \in Nat
        BY <1>3
      <4>4. Current(i) < Current(a) \/ Current(i) < Current(b)
        BY <4>1, <4>2, <4>3
      <4> QED
        BY <4>4
    <3>3. PICK m \in 1..Len(lists[other]) : lists[other][m] = Current(i)
      BY <3>1 DEF Common, InList
    <3>4. m \in 1..passed[other]
      BY <3>2, <3>3, CurrentFacts DEF IInv
    <3> QED
      BY <3>1, <3>3, <3>4 DEF IInv, NoneSkipped
  <2> QED
    BY <1>3, <2>1, <2>2
<1> QED
  BY <1>4, <1>5, <1>6, <1>7, <1>8 DEF IInv

LEMMA NextIInv == ASSUME QueryAssumption, IInv, [Next]_vars PROVE IInv'
<1>1. CASE UNCHANGED vars
  <2>1. Words' = Words /\ QueryLists' = QueryLists
    BY <1>1 DEF vars, Words, QueryLists
  <2> QED
    BY <1>1, <2>1 DEF vars, IInv, WellFormed, MergeBounds, FoundIsPassed,
                      ResultAscending, NoneSkipped, Common, InList, Found
<1> QED
  BY <1>1, FailStep, CollectStep, MatchStep, AdvanceStep DEF Next

-----------------------------------------------------------------------------
(* The theorems. *)

\* IInv holds throughout every call of executeQuery.
THEOREM MergeInvariant == Spec => []IInv
<1>1. Init => IInv
  BY InitIInv, QueryAssumption
<1>2. IInv /\ [Next]_vars => IInv'
  BY NextIInv, QueryAssumption
<1> QED
  BY <1>1, <1>2, PTL DEF Spec

\* The variables keep their types.
THEOREM MergeTypes == Spec => []TypeOK
<1>1. IInv => TypeOK
  BY DEF IInv, WellFormed, QueryLists, TypeOK
<1> QED
  BY <1>1, MergeInvariant, PTL

\* executeQuery never dereferences an iterator at end().
THEOREM MergeStaysInBounds == Spec => []InBounds
<1>1. IInv => InBounds
  <2> SUFFICES ASSUME IInv, pc = "merge", NEW i \in Words
               PROVE  passed[i] < Len(lists[i])
    BY DEF InBounds
  <2>1. passed[i] \in Nat /\ passed[i] + 1 \in 1..Len(lists[i])
    BY CurrentFacts, QueryAssumption DEF IInv
  <2>2. Len(lists[i]) \in Nat
    BY ListFacts, QueryAssumption DEF IInv, WellFormed
  <2> QED
    BY <2>1, <2>2
<1> QED
  BY <1>1, MergeInvariant, PTL

\* Every document reported contains every word, once, with its own weights.
THEOREM MergeIsSound == Spec => []Sound
<1>1. IInv => Sound
  <2> SUFFICES ASSUME IInv PROVE Sound
    OBVIOUS
  <2>1. ASSUME NEW k \in 1..Len(resultVec), NEW i \in Words
        PROVE  InList(resultVec[k].docid, i)
    <3>1. PICK m \in 1..passed[i] : lists[i][m] = resultVec[k].docid
      BY DEF IInv, FoundIsPassed
    <3>2. /\ passed[i] \in Nat /\ minIterNum \in Nat
          /\ Len(lists[i]) \in Nat
      BY ListFacts, QueryAssumption DEF IInv, WellFormed
    <3>3. passed[i] <= Len(lists[i])
      <4>1. CASE pc \in {"collect", "false"}
        BY <3>2, <4>1 DEF IInv, MergeBounds
      <4>2. CASE pc \in {"merge", "true"}
        BY <3>2, <4>2 DEF IInv, MergeBounds
      <4> QED
        BY <4>1, <4>2 DEF IInv, WellFormed
    <3> QED
      BY <3>1, <3>2, <3>3 DEF InList
  <2> QED
    BY <2>1 DEF IInv, FoundIsPassed, ResultAscending, Sound, Common
<1> QED
  BY <1>1, MergeInvariant, PTL

\* The merge passes no common document without reporting it.
THEOREM MergeSkipsNothing == Spec => []NoneSkipped
<1>1. IInv => NoneSkipped
  BY DEF IInv
<1> QED
  BY <1>1, MergeInvariant, PTL

\* All that the merge promises, for every index and query: it reads only what
\* is there and reports exactly what the words have in common so far.
THEOREM MergeStaysRight == Spec => []MergeIsRight
<1>1. TypeOK /\ InBounds /\ Sound /\ NoneSkipped => MergeIsRight
  BY DEF MergeIsRight
<1> QED
  BY <1>1, MergeTypes, MergeStaysInBounds, MergeIsSound, MergeSkipsNothing, PTL

-----------------------------------------------------------------------------
(* Sums. *)

\* Every set of natural numbers that is not empty has a least element.
LEMMA LeastNat ==
  ASSUME NEW T, T \subseteq Nat, T # {}
  PROVE  \E n \in T : \A m \in T : n <= m
<1>1. PICK n \in T : \A m \in T : ~(<<m, n>> \in OpToRel(<, Nat))
  BY NatLessThanWellFounded, WFMin
<1>2. \A m \in T : ~(m < n)
  BY <1>1 DEF OpToRel
<1> QED
  BY <1>2

\* u[n] is the sum of the first n values of f.
Totals(f, u, n) ==
  /\ u[0] = 0
  /\ \A m \in 1..n : u[m] = u[m - 1] + f[m]

LEMMA TotalsExist ==
  ASSUME NEW N \in Nat, NEW f, \A n \in 1..N : f[n] \in Int
  PROVE  \E u \in [0..N -> Int] : Totals(f, u, N)
<1> DEFINE Upto(n) == \E u \in [0..n -> Int] : Totals(f, u, n)
           T == {n \in Nat : n <= N /\ ~Upto(n)}
<1>1. SUFFICES ASSUME T # {} PROVE FALSE
  <2>1. N \notin T => Upto(N)
    OBVIOUS
  <2> QED
    BY <2>1
<1>2. PICK n \in T : \A m \in T : n <= m
  <2>1. T \subseteq Nat
    OBVIOUS
  <2> HIDE DEF T
  <2> QED
    BY <1>1, <2>1, LeastNat
<1>3. n \in Nat /\ n <= N /\ ~Upto(n)
  BY <1>2
<1>4. CASE n = 0
  <2>1. [m \in 0..0 |-> 0] \in [0..0 -> Int] /\ Totals(f, [m \in 0..0 |-> 0], 0)
    BY DEF Totals
  <2>2. Upto(0)
    BY <2>1
  <2> QED
    BY <1>3, <1>4, <2>2
<1>5. CASE n # 0
  <2>1. Upto(n - 1) /\ n \in 1..N
    <3>1. n - 1 \in Nat /\ n - 1 <= N /\ ~(n <= n - 1) /\ n \in 1..N
      BY <1>3, <1>5
    <3>2. n - 1 \notin T
      <4> HIDE DEF T
      <4> QED
        BY <1>2, <3>1
    <3> HIDE DEF Upto
    <3> QED
      BY <3>1, <3>2
  <2>2. PICK u : u \in [0..n - 1 -> Int] /\ Totals(f, u, n - 1)
    BY <2>1
  <2>3. PICK v : v = [m \in 0..n |-> IF m = n THEN u[n - 1] + f[n] ELSE u[m]]
    OBVIOUS
  <2>4. n - 1 \in 0..n - 1 /\ u[n - 1] \in Int /\ f[n] \in Int
    BY <1>3, <1>5, <2>1, <2>2
  <2>5. v \in [0..n -> Int] /\ v[n] = u[n - 1] + f[n] /\ \A m \in 0..n - 1 : v[m] = u[m]
    BY <1>3, <2>2, <2>3, <2>4
  <2>6. ASSUME NEW m \in 1..n
        PROVE  v[m] = v[m - 1] + f[m]
    <3>1. m - 1 \in 0..n - 1 /\ (m # n => m \in 0..n - 1 /\ m \in 1..n - 1)
      BY <1>3
    <3> QED
      BY <3>1, <2>2, <2>5 DEF Totals
  <2>7. v[0] = 0
    BY <2>2, <2>4, <2>5, <1>3, <1>5 DEF Totals
  <2> QED
    BY <1>3, <2>5, <2>6, <2>7 DEF Totals
<1> QED
  BY <1>4, <1>5

LEMMA SumByTotals ==
  ASSUME Len(lists) \in Nat, NEW f, \A n \in 1..Len(lists) : f[n] \in Int
  PROVE  \E u \in [0..Len(lists) -> Int] : Totals(f, u, Len(lists)) /\ Sum(f) = u[Len(lists)]
<1> DEFINE N == Len(lists)
           F(u) == [n \in 0..N |-> IF n = 0 THEN 0 ELSE u[n - 1] + f[n]]
<1>1. PICK u : u \in [0..N -> Int] /\ Totals(f, u, N)
  BY TotalsExist
<1>2. u = F(u)
  BY <1>1 DEF Totals
<1>3. Sum(f) = (CHOOSE v : v = F(v))[N]
  BY DEF Sum
<1>4. PICK v : v = F(v) /\ Sum(f) = v[N]
  BY <1>2, <1>3
<1>5. Totals(f, v, N)
  BY <1>4 DEF Totals
<1>6. \A n \in 0..N : v[n] = u[n]
  <2> SUFFICES ASSUME \E n \in 0..N : v[n] # u[n] PROVE FALSE
    OBVIOUS
  <2> DEFINE T == {n \in 0..N : v[n] # u[n]}
  <2>1. PICK n \in T : \A m \in T : n <= m
    <3>1. T \subseteq Nat /\ T # {}
      OBVIOUS
    <3> HIDE DEF T
    <3> QED
      BY <3>1, LeastNat
  <2>2. n # 0 => n \in 1..N /\ n - 1 \in 0..N /\ v[n - 1] = u[n - 1]
    BY <2>1
  <2> QED
    BY <1>1, <1>5, <2>1, <2>2 DEF Totals
<1>7. v[N] = u[N]
  BY <1>6
<1> QED
  BY <1>1, <1>4, <1>7

LEMMA SumOfNonNegative ==
  ASSUME Len(lists) \in Nat, NEW f, \A n \in 1..Len(lists) : f[n] \in Int /\ f[n] >= 0
  PROVE  /\ Sum(f) \in Int /\ Sum(f) >= 0
         /\ Sum(f) = 0 <=> \A n \in 1..Len(lists) : f[n] = 0
<1> DEFINE N == Len(lists)
<1>1. PICK u : u \in [0..N -> Int] /\ Totals(f, u, N) /\ Sum(f) = u[N]
  BY SumByTotals
<1> DEFINE Good(n) == u[n] >= 0 /\ (u[n] = 0 <=> \A m \in 1..n : f[m] = 0)
           T == {n \in 0..N : ~Good(n)}
<1>2. T = {}
  <2> SUFFICES ASSUME T # {} PROVE FALSE
    OBVIOUS
  <2>1. PICK n \in T : \A m \in T : n <= m
    <3>1. T \subseteq Nat
      OBVIOUS
    <3> HIDE DEF T
    <3> QED
      BY <3>1, LeastNat
  <2>2. n # 0
    BY <1>1, <2>1 DEF Totals
  <2>3. Good(n - 1) /\ n - 1 \in 0..N /\ n \in 1..N
    <3>1. n \in 1..N /\ n - 1 \in 0..N /\ ~(n <= n - 1)
      BY <2>1, <2>2
    <3>2. n - 1 \notin T
      <4> HIDE DEF T
      <4> QED
        BY <2>1, <3>1
    <3> HIDE DEF Good
    <3> QED
      BY <3>1, <3>2
  <2>4. u[n] = u[n - 1] + f[n] /\ f[n] >= 0 /\ f[n] \in Int /\ u[n - 1] \in Int
    BY <1>1, <2>3 DEF Totals
  <2>5. \A m \in 1..n : m = n \/ m \in 1..n - 1
    BY <2>3
  <2>6. \A m \in 1..n - 1 : m \in 1..n
    BY <2>3
  <2>7. Good(n)
    BY <2>3, <2>4, <2>5, <2>6
  <2> QED
    BY <2>1, <2>7
<1>3. N \in 0..N /\ u[N] \in Int
  BY <1>1
<1>4. Good(N)
  <2> HIDE DEF Good
  <2> QED
    BY <1>2, <1>3
<1> QED
  BY <1>1, <1>3, <1>4

-----------------------------------------------------------------------------
(* Scores. *)

\* The query numbers the words of the lists.
QueryWords == \E n \in 0..MaxWords : query \in [1..n -> 1..n] /\ lists \in [1..n -> Postings]

Results == {resultVec[k] : k \in 1..Len(resultVec)}

Frequencies == [ToSet(query) -> [FoundDocs -> 1..MaxTf]]

\* No word of the query tells the documents apart.
Flat == \A i \in Words : IdfOf(i) = 0

LEMMA WeightFacts ==
  ASSUME IInv, QueryWords
  PROVE  /\ Len(lists) \in Nat /\ Words = 1..Len(lists)
         /\ \A i \in Words : IdfOf(i) \in Int
         /\ \A i \in Words : \E c \in Nat : BaseWeight(i) = IdfOf(i) * c
         /\ \A freq \in Frequencies, r \in Results, i \in Words :
              \E c \in Nat \ {0} : DocWeight(freq, r, i) = IdfOf(i) * c
<1>1. PICK n \in 0..MaxWords : query \in [1..n -> 1..n] /\ lists \in [1..n -> Postings]
  BY DEF QueryWords
<1>2. n \in Nat /\ MaxTf \in Nat
  BY <1>1, QueryAssumption, AnswerAssumption
<1>3. Len(lists) = n /\ Words = 1..n
  <2>1. lists \in Seq(Postings)
    BY <1>1, <1>2, SeqDef
  <2>2. DOMAIN lists = 1..Len(lists) /\ Len(lists) \in Nat
    BY <2>1, LenProperties
  <2> QED
    BY <1>1, <1>2, <2>2 DEF Words
<1>4. \A i \in Words : IdfOf(i) \in Int
  BY <1>1, <1>3, AnswerAssumption DEF IdfOf
<1>5. ASSUME NEW i \in Words
      PROVE  \E c \in Nat : BaseWeight(i) = IdfOf(i) * c
  <2> DEFINE S == {j \in Words : query[j] = query[i]}
  <2>1. IsFiniteSet(1..n)
    BY <1>2, FS_Interval
  <2>2. Cardinality(S) \in Nat
    BY <1>3, <2>1, FS_Subset, FS_CardinalityType
  <2> QED
    BY <2>2 DEF BaseWeight
<1>6. ASSUME NEW freq \in Frequencies, NEW r \in Results, NEW i \in Words
      PROVE  \E c \in Nat \ {0} : DocWeight(freq, r, i) = IdfOf(i) * c
  <2>1. query[i] \in ToSet(query)
    BY <1>1, <1>3 DEF ToSet
  <2>2. r.weights[i] = r.docid /\ r.docid \in FoundDocs
    BY DEF Results, IInv, FoundIsPassed, FoundDocs
  <2>3. freq[query[i]][r.weights[i]] \in 1..MaxTf
    BY <2>1, <2>2 DEF Frequencies
  <2> QED
    BY <1>2, <2>3 DEF DocWeight
<1> QED
  BY <1>2, <1>3, <1>4, <1>5, <1>6

LEMMA ScoreFacts ==
  ASSUME IInv, QueryWords, NEW freq \in Frequencies, NEW r \in Results
  PROVE  /\ VectorLength(freq, r) \in Int /\ CrossProduct(freq, r) \in Int
         /\ VectorLength(freq, r) >= 0 /\ CrossProduct(freq, r) >= 0
         /\ VectorLength(freq, r) = 0 <=> Flat
         /\ Flat => CrossProduct(freq, r) = 0
<1>1. Len(lists) \in Nat /\ Words = 1..Len(lists)
  BY WeightFacts
<1> DEFINE sq == [i \in Words |-> DocWeight(freq, r, i) * DocWeight(freq, r, i)]
           pr == [i \in Words |-> DocWeight(freq, r, i) * BaseWeight(i)]
<1>2. ASSUME NEW i \in Words
      PROVE  /\ sq[i] \in Int /\ sq[i] >= 0 /\ (sq[i] = 0 <=> IdfOf(i) = 0)
             /\ pr[i] \in Int /\ pr[i] >= 0 /\ (IdfOf(i) = 0 => pr[i] = 0)
  <2>1. PICK c \in Nat \ {0} : DocWeight(freq, r, i) = IdfOf(i) * c
    BY WeightFacts
  <2>2. PICK b \in Nat : BaseWeight(i) = IdfOf(i) * b
    BY WeightFacts
  <2>3. PICK x \in Int : x = IdfOf(i)
    BY WeightFacts
  <2>4. sq[i] = (x * c) * (x * c) /\ pr[i] = (x * c) * (x * b)
    BY <2>1, <2>2, <2>3
  <2>5. x * x \in Int /\ x * x >= 0 /\ (x * x = 0 <=> x = 0)
    OBVIOUS
  <2>6. (x * c) * (x * c) = (x * x) * (c * c) /\ (x * c) * (x * b) = (x * x) * (c * b)
    OBVIOUS
  <2>7. c * c \in Nat \ {0} /\ c * b \in Nat
    OBVIOUS
  <2>8. \A y, d \in Int : y >= 0 /\ d >= 0 => y * d \in Int /\ y * d >= 0
    OBVIOUS
  <2>9. \A y, d \in Int : d > 0 => (y * d = 0 <=> y = 0)
    OBVIOUS
  <2>10. \A d \in Int : 0 * d = 0
    OBVIOUS
  <2> HIDE DEF sq, pr
  <2>11. sq[i] = (x * x) * (c * c) /\ pr[i] = (x * x) * (c * b)
    BY <2>4, <2>6
  <2>12. PICK y, d, e : y = x * x /\ d = c * c /\ e = c * b
    OBVIOUS
  <2> QED
    BY <2>3, <2>5, <2>7, <2>8, <2>9, <2>10, <2>11, <2>12
<1>3. VectorLength(freq, r) = Sum(sq) /\ CrossProduct(freq, r) = Sum(pr)
  BY DEF VectorLength, CrossProduct
<1> HIDE DEF sq, pr
<1>4. Sum(sq) \in Int /\ Sum(sq) >= 0 /\ (Sum(sq) = 0 <=> \A i \in Words : sq[i] = 0)
  BY <1>1, <1>2, SumOfNonNegative
<1>5. Sum(pr) \in Int /\ Sum(pr) >= 0 /\ (Sum(pr) = 0 <=> \A i \in Words : pr[i] = 0)
  BY <1>1, <1>2, SumOfNonNegative
<1> QED
  BY <1>2, <1>3, <1>4, <1>5 DEF Flat

LEMMA FractionOrder ==
  ASSUME NEW a \in Int, NEW b \in Int, NEW c \in Int, NEW u \in Int, NEW v \in Int, NEW w \in Int,
         u > 0, v > 0, w > 0, ~(a * v < b * u), ~(b * w < c * v)
  PROVE  ~(a * w < c * u)
<1>1. (a * v) * w >= (b * u) * w
  OBVIOUS
<1>2. (b * w) * u >= (c * v) * u
  OBVIOUS
<1>3. (a * w) * v >= (c * u) * v
  BY <1>1, <1>2
<1> QED
  BY <1>3

\* Scoring less is a strict weak order on what was found.
LEMMA ScoresOrdered ==
  ASSUME IInv, QueryWords, NEW freq \in Frequencies,
         NEW l \in Results, NEW r \in Results, NEW s \in Results
  PROVE  /\ ~ScoresLess(freq, l, l)
         /\ ScoresLess(freq, l, r) => ~ScoresLess(freq, r, l)
         /\ ~ScoresLess(freq, l, r) /\ ~ScoresLess(freq, r, s) => ~ScoresLess(freq, l, s)
<1>1. CASE Flat
  BY <1>1, ScoreFacts DEF ScoresLess
<1>2. CASE ~Flat
  <2>1. PICK cl, cr, cs, u, v, w :
           /\ cl = CrossProduct(freq, l) /\ cr = CrossProduct(freq, r) /\ cs = CrossProduct(freq, s)
           /\ u = VectorLength(freq, l) /\ v = VectorLength(freq, r) /\ w = VectorLength(freq, s)
    OBVIOUS
  <2>2. /\ cl \in Int /\ cr \in Int /\ cs \in Int
        /\ u \in Int /\ v \in Int /\ w \in Int /\ u > 0 /\ v > 0 /\ w > 0
    BY <1>2, <2>1, ScoreFacts
  <2>3. PICK a, b, c : a = cl * cl /\ b = cr * cr /\ c = cs * cs /\ a \in Int /\ b \in Int /\ c \in Int
    BY <2>2
  <2>4. /\ ScoresLess(freq, l, l) <=> a * u < a * u
        /\ ScoresLess(freq, l, r) <=> a * v < b * u
        /\ ScoresLess(freq, r, l) <=> b * u < a * v
        /\ ScoresLess(freq, r, s) <=> b * w < c * v
        /\ ScoresLess(freq, l, s) <=> a * w < c * u
    BY <2>1, <2>2, <2>3 DEF ScoresLess
  <2>5. a * u \in Int /\ a * v \in Int /\ b * u \in Int
    BY <2>2, <2>3
  <2>6. ~(a * v < b * u) /\ ~(b * w < c * v) => ~(a * w < c * u)
    BY <2>2, <2>3, FractionOrder
  <2> QED
    BY <2>4, <2>5, <2>6
<1> QED
  BY <1>1, <1>2

-----------------------------------------------------------------------------
(* The sort. *)

\* No document is in front of one that scores more, and none is there twice.
BestFirst(freq, s) ==
  /\ \A k, l \in 1..Len(s) : k < l => ~ScoresLess(freq, s[k], s[l])
  /\ \A k, l \in 1..Len(s) : s[k] = s[l] => k = l

\* c is b behind a.
Joined(a, b, c) ==
  /\ Len(a) \in Nat /\ Len(b) \in Nat
  /\ Len(c) = Len(a) + Len(b)
  /\ \A i \in 1..Len(a) : c[i] = a[i]
  /\ \A i \in 1..Len(b) : c[Len(a) + i] = b[i]

LEMMA ConcatFacts ==
  ASSUME NEW S, NEW a \in Seq(S), NEW b \in Seq(S)
  PROVE  /\ a \o b \in Seq(S)
         /\ Joined(a, b, a \o b)
<1>1. Len(a) \in Nat /\ Len(b) \in Nat
  BY LenProperties
<1>2. PICK c : c = a \o b
  OBVIOUS
<1>3. /\ c \in Seq(S) /\ Len(c) = Len(a) + Len(b)
      /\ \A i \in 1..Len(a) + Len(b) : c[i] = IF i <= Len(a) THEN a[i] ELSE b[i - Len(a)]
  BY <1>2, ConcatProperties
<1>4. \A i \in 1..Len(a) : c[i] = a[i]
  BY <1>1, <1>3
<1>5. ASSUME NEW i \in 1..Len(b)
      PROVE  c[Len(a) + i] = b[i]
  <2>1. Len(a) + i \in 1..Len(a) + Len(b) /\ ~(Len(a) + i <= Len(a)) /\ (Len(a) + i) - Len(a) = i
    BY <1>1
  <2> QED
    BY <1>3, <2>1
<1> QED
  <2>1. Joined(a, b, c)
    BY <1>1, <1>3, <1>4, <1>5 DEF Joined
  <2> QED
    BY <1>2, <1>3, <2>1

\* t is s with r put behind its first k elements.
Inserted(s, k, r, t) ==
  /\ Len(t) = Len(s) + 1
  /\ \A i \in 1..k : t[i] = s[i]
  /\ t[k + 1] = r
  /\ \A i \in k + 2..Len(s) + 1 : t[i] = s[i - 1]

LEMMA InsertAtProperties ==
  ASSUME NEW S, NEW s \in Seq(S), NEW k \in 0..Len(s), NEW r \in S
  PROVE  /\ InsertAt(s, k + 1, r) \in Seq(S)
         /\ Inserted(s, k, r, InsertAt(s, k + 1, r))
<1>1. PICK a, b, c, d : /\ a = SubSeq(s, 1, k) /\ b = <<r>> /\ c = SubSeq(s, k + 1, Len(s))
                        /\ d = a \o b
  OBVIOUS
<1>2. InsertAt(s, k + 1, r) = d \o c
  <2>1. (k + 1) - 1 = k
    OBVIOUS
  <2> QED
    BY <1>1, <2>1 DEF InsertAt
<1>3. a \in Seq(S) /\ Len(a) = k /\ \A i \in 1..k : a[i] = s[i]
  BY <1>1
<1>4. c \in Seq(S) /\ Len(c) = Len(s) - k /\ \A i \in 1..Len(s) - k : c[i] = s[k + i]
  BY <1>1
<1>5. b \in Seq(S) /\ Len(b) = 1 /\ b[1] = r
  BY <1>1
<1>6. Len(s) \in Nat /\ k \in Nat
  BY LenProperties
<1>7. d \in Seq(S) /\ Len(d) = k + 1 /\ (\A i \in 1..k : d[i] = a[i]) /\ d[k + 1] = b[1]
  <2>1. a \in Seq(S) /\ b \in Seq(S)
    BY <1>3, <1>5
  <2>2. a \o b \in Seq(S) /\ Joined(a, b, a \o b)
    BY <2>1, ConcatFacts, Zenon
  <2>3. d \in Seq(S) /\ Joined(a, b, d)
    BY <1>1, <2>2, Zenon
  <2>4. Len(d) = k + 1 /\ (\A i \in 1..k : d[i] = a[i])
    BY <2>3, <1>3, <1>5, <1>6 DEF Joined
  <2>5. d[k + 1] = b[1]
    BY <2>3, <1>3, <1>5, <1>6 DEF Joined
  <2> QED
    BY <2>3, <2>4, <2>5
<1>8. PICK t : t = d \o c
  OBVIOUS
<1>9. /\ t \in Seq(S) /\ Len(t) = Len(s) + 1
      /\ \A i \in 1..k + 1 : t[i] = d[i]
      /\ \A i \in 1..Len(s) - k : t[(k + 1) + i] = c[i]
  <2>1. c \in Seq(S) /\ d \in Seq(S)
    BY <1>4, <1>7
  <2>2. d \o c \in Seq(S) /\ Joined(d, c, d \o c)
    BY <2>1, ConcatFacts, Zenon
  <2>3. t \in Seq(S) /\ Joined(d, c, t)
    BY <1>8, <2>2, Zenon
  <2>4. (k + 1) + (Len(s) - k) = Len(s) + 1
    BY <1>6
  <2> QED
    BY <1>4, <1>7, <2>3, <2>4 DEF Joined
<1>10. \A i \in 1..k : t[i] = s[i]
  BY <1>3, <1>6, <1>7, <1>9
<1>11. t[k + 1] = r
  <2>1. k + 1 \in 1..k + 1
    BY <1>6
  <2> QED
    BY <2>1, <1>5, <1>7, <1>9
<1>12. ASSUME NEW i \in k + 2..Len(s) + 1 PROVE t[i] = s[i - 1]
  <2>1. i - (k + 1) \in 1..Len(s) - k /\ (k + 1) + (i - (k + 1)) = i /\ k + (i - (k + 1)) = i - 1
    BY <1>6
  <2>2. t[(k + 1) + (i - (k + 1))] = c[i - (k + 1)]
    BY <2>1, <1>9
  <2> QED
    BY <2>1, <2>2, <1>4
<1>13. Inserted(s, k, r, t)
  BY <1>9, <1>10, <1>11, <1>12 DEF Inserted
<1> QED
  BY <1>2, <1>8, <1>9, <1>13, Zenon

LEMMA PlacePlaces ==
  ASSUME IInv, QueryWords, NEW freq \in Frequencies, NEW s \in Seq(Results), BestFirst(freq, s),
         NEW r \in Results, \A i \in 1..Len(s) : s[i] # r
  PROVE  \E k \in 0..Len(s) : /\ Place(freq, s, r) = InsertAt(s, k + 1, r)
                              /\ \A i \in 1..k : ~ScoresLess(freq, s[i], r)
                              /\ \A i \in k + 1..Len(s) : ~ScoresLess(freq, r, s[i])
<1> DEFINE after == {k \in 1..Len(s) : ~RanksBefore(freq, r, s[k])}
<1>1. \A i \in 1..Len(s) : i \in after <=> ScoresLess(freq, r, s[i])
  BY DEF RanksBefore
<1>2. Len(s) \in Nat /\ \A i \in 1..Len(s) : s[i] \in Results
  BY LenProperties, ElementOfSeq
<1>3. Place(freq, s, r) =
        InsertAt(s, (IF 1 \notin after THEN 0 ELSE CHOOSE l \in after : \A m \in after : m <= l) + 1, r)
  BY DEF Place
<1>4. after \subseteq 1..Len(s)
  OBVIOUS
<1> HIDE DEF after
<1>5. CASE 1 \notin after
  <2>1. ASSUME NEW i \in 1..Len(s)
        PROVE  ~ScoresLess(freq, r, s[i])
    <3>1. 1 \in 1..Len(s) /\ ~ScoresLess(freq, r, s[1])
      BY <1>1, <1>2, <1>5
    <3>2. CASE i = 1
      BY <3>1, <3>2
    <3>3. CASE i # 1
      <4>1. ~ScoresLess(freq, s[1], s[i])
        BY <1>2, <3>1, <3>3 DEF BestFirst
      <4> QED
        BY <1>2, <3>1, <4>1, ScoresOrdered
    <3> QED
      BY <3>2, <3>3
  <2>2. Place(freq, s, r) = InsertAt(s, 0 + 1, r) /\ 0 \in 0..Len(s)
    BY <1>2, <1>3, <1>5
  <2> QED
    BY <2>1, <2>2, <1>2
<1>6. CASE 1 \in after
  <2>1. \E l \in after : \A m \in after : m <= l
    <3> DEFINE T == {Len(s) - m : m \in after}
    <3>1. T \subseteq Nat /\ T # {}
      BY <1>2, <1>4, <1>6
    <3>2. PICK n \in T : \A m \in T : n <= m
      <4> HIDE DEF T
      <4> QED
        BY <3>1, LeastNat
    <3>3. PICK l \in after : n = Len(s) - l
      BY <3>2
    <3>4. ASSUME NEW m \in after
          PROVE  m <= l
      <4>1. n <= Len(s) - m
        BY <3>2
      <4>2. m \in Int /\ l \in Int /\ Len(s) \in Int
        BY <1>2, <1>4
      <4> QED
        BY <3>3, <4>1, <4>2
    <3> QED
      BY <3>4
  <2>2. PICK k : k = CHOOSE l \in after : \A m \in after : m <= l
    OBVIOUS
  <2>3. k \in after /\ \A m \in after : m <= k
    BY <2>1, <2>2
  <2>4. k \in 1..Len(s) /\ ScoresLess(freq, r, s[k])
    BY <1>1, <1>4, <2>3
  <2>5. ASSUME NEW i \in 1..k
        PROVE  ~ScoresLess(freq, s[i], r)
    <3> SUFFICES ASSUME ScoresLess(freq, s[i], r) PROVE FALSE
      OBVIOUS
    <3>1. i \in 1..Len(s) /\ s[i] \in Results /\ s[k] \in Results
      BY <1>2, <2>4
    <3>2. ~ScoresLess(freq, r, s[i])
      BY <3>1, ScoresOrdered
    <3>3. ~ScoresLess(freq, s[i], s[k])
      <4>1. CASE i = k
        BY <4>1, <3>1, ScoresOrdered
      <4>2. CASE i # k
        BY <4>2, <2>4, <3>1 DEF BestFirst
      <4> QED
        BY <4>1, <4>2
    <3>4. ~ScoresLess(freq, r, s[k])
      BY <3>1, <3>2, <3>3, ScoresOrdered
    <3> QED
      BY <2>4, <3>4
  <2>6. ASSUME NEW i \in k + 1..Len(s)
        PROVE  ~ScoresLess(freq, r, s[i])
    <3>1. i \in 1..Len(s) /\ ~(i <= k)
      BY <1>2, <2>4
    <3> QED
      BY <3>1, <1>1, <2>3
  <2>7. Place(freq, s, r) = InsertAt(s, k + 1, r)
    BY <1>3, <1>6, <2>2
  <2> QED
    BY <2>4, <2>5, <2>6, <2>7, <1>2
<1> QED
  BY <1>5, <1>6

LEMMA PlaceKeepsOrder ==
  ASSUME IInv, QueryWords, NEW freq \in Frequencies, NEW s \in Seq(Results), BestFirst(freq, s),
         NEW r \in Results, \A i \in 1..Len(s) : s[i] # r
  PROVE  /\ Place(freq, s, r) \in Seq(Results)
         /\ Len(Place(freq, s, r)) = Len(s) + 1
         /\ BestFirst(freq, Place(freq, s, r))
         /\ ToSet(Place(freq, s, r)) = ToSet(s) \cup {r}
<1>1. PICK k \in 0..Len(s) : /\ Place(freq, s, r) = InsertAt(s, k + 1, r)
                             /\ \A i \in 1..k : ~ScoresLess(freq, s[i], r)
                             /\ \A i \in k + 1..Len(s) : ~ScoresLess(freq, r, s[i])
  BY PlacePlaces
<1>2. PICK t : t = Place(freq, s, r)
  OBVIOUS
<1>3. PICK N \in Nat : N = Len(s) /\ DOMAIN s = 1..N
  BY LenProperties
<1>4. /\ t \in Seq(Results) /\ Len(t) = N + 1 /\ DOMAIN t = 1..N + 1
      /\ \A i \in 1..k : t[i] = s[i]
      /\ t[k + 1] = r
      /\ \A i \in k + 2..N + 1 : t[i] = s[i - 1]
  <2>1. InsertAt(s, k + 1, r) \in Seq(Results) /\ Inserted(s, k, r, InsertAt(s, k + 1, r))
    BY InsertAtProperties, Zenon
  <2>2. t \in Seq(Results) /\ Inserted(s, k, r, t)
    BY <1>1, <1>2, <2>1, Zenon
  <2>3. DOMAIN t = 1..Len(t)
    BY <2>2, LenProperties
  <2> QED
    BY <1>3, <2>2, <2>3 DEF Inserted
<1>5. k \in 0..N
  BY <1>3
<1>6. ASSUME NEW i \in 1..N + 1
      PROVE  \/ i \in 1..k /\ t[i] = s[i]
             \/ i = k + 1 /\ t[i] = r
             \/ i \in k + 2..N + 1 /\ t[i] = s[i - 1]
  BY <1>4, <1>5
<1>7. ASSUME NEW i \in 1..N + 1, NEW j \in 1..N + 1, i < j
      PROVE  ~ScoresLess(freq, t[i], t[j])
  <2>1. CASE i \in 1..k /\ j \in 1..k
    BY <2>1, <1>3, <1>4, <1>5, <1>7 DEF BestFirst
  <2>2. CASE i \in 1..k /\ j = k + 1
    BY <2>2, <1>1, <1>4
  <2>3. CASE i \in 1..k /\ j \in k + 2..N + 1
    <3>1. i \in 1..N /\ j - 1 \in 1..N /\ i < j - 1
      BY <2>3, <1>5
    <3> QED
      BY <3>1, <2>3, <1>3, <1>4 DEF BestFirst
  <2>4. CASE i = k + 1 /\ j \in k + 2..N + 1
    <3>1. j - 1 \in k + 1..Len(s)
      BY <2>4, <1>3, <1>5
    <3> QED
      BY <3>1, <2>4, <1>1, <1>4
  <2>5. CASE i \in k + 2..N + 1 /\ j \in k + 2..N + 1
    <3>1. i - 1 \in 1..N /\ j - 1 \in 1..N /\ i - 1 < j - 1
      BY <2>5, <1>5, <1>7
    <3> QED
      BY <3>1, <2>5, <1>3, <1>4 DEF BestFirst
  <2> QED
    BY <1>5, <1>6, <1>7, <2>1, <2>2, <2>3, <2>4, <2>5
<1>8. ASSUME NEW i \in 1..N + 1, NEW j \in 1..N + 1, t[i] = t[j]
      PROVE  i = j
  <2> DEFINE old(m) == IF m \in 1..k THEN m ELSE m - 1
  <2>1. CASE i = k + 1 \/ j = k + 1
    <3>1. \A m \in 1..N + 1 : m # k + 1 => t[m] # r
      <4> TAKE m \in 1..N + 1
      <4>1. m \in 1..k => m \in 1..Len(s)
        BY <1>3, <1>5
      <4>2. m \in k + 2..N + 1 => m - 1 \in 1..Len(s)
        BY <1>3, <1>5
      <4> QED
        BY <4>1, <4>2, <1>6
    <3> QED
      BY <3>1, <2>1, <1>4, <1>8
  <2>2. CASE i # k + 1 /\ j # k + 1
    <3>1. t[i] = s[old(i)] /\ old(i) \in 1..Len(s) /\ t[j] = s[old(j)] /\ old(j) \in 1..Len(s)
      BY <2>2, <1>3, <1>5, <1>6
    <3>2. old(i) = old(j)
      BY <3>1, <1>8 DEF BestFirst
    <3> QED
      BY <2>2, <3>2, <1>5
  <2> QED
    BY <2>1, <2>2
<1>9. ToSet(t) = ToSet(s) \cup {r}
  <2>1. ASSUME NEW i \in 1..N
        PROVE  \E m \in 1..N + 1 : t[m] = s[i]
    <3>1. CASE i <= k
      <4>1. i \in 1..k /\ i \in 1..N + 1
        BY <3>1
      <4> QED
        BY <4>1, <1>4
    <3>2. CASE ~(i <= k)
      <4>1. i + 1 \in k + 2..N + 1 /\ i + 1 \in 1..N + 1 /\ (i + 1) - 1 = i
        BY <3>2, <1>5
      <4> QED
        BY <4>1, <1>4
    <3> QED
      BY <3>1, <3>2
  <2>2. \A i \in 1..N + 1 : t[i] \in {s[m] : m \in 1..N} \cup {r}
    <3> TAKE i \in 1..N + 1
    <3>1. i \in 1..k => i \in 1..N
      BY <1>5
    <3>2. i \in k + 2..N + 1 => i - 1 \in 1..N
      BY <1>5
    <3> QED
      BY <3>1, <3>2, <1>6
  <2>3. k + 1 \in 1..N + 1
    BY <1>5
  <2>4. ToSet(t) = {t[m] : m \in 1..N + 1} /\ ToSet(s) = {s[m] : m \in 1..N}
    BY <1>3, <1>4 DEF ToSet
  <2>5. r \in {t[m] : m \in 1..N + 1}
    BY <2>3, <1>4
  <2>6. {s[m] : m \in 1..N} \subseteq {t[m] : m \in 1..N + 1}
    BY <2>1
  <2>7. {t[m] : m \in 1..N + 1} \subseteq {s[m] : m \in 1..N} \cup {r}
    BY <2>2
  <2> QED
    BY <2>4, <2>5, <2>6, <2>7
<1> QED
  BY <1>2, <1>3, <1>4, <1>7, <1>8, <1>9 DEF BestFirst

\* u[n] holds the first n documents, sorted.
Parts(freq, u, n) ==
  /\ u[0] = <<>>
  /\ \A m \in 1..n : u[m] = Place(freq, u[m - 1], resultVec[m])

LEMMA PartsExist ==
  ASSUME NEW N \in Nat, NEW freq
  PROVE  \E u : u = [m \in 0..N |-> u[m]] /\ Parts(freq, u, N)
<1> DEFINE Upto(n) == \E u : u = [m \in 0..n |-> u[m]] /\ Parts(freq, u, n)
           T == {n \in Nat : n <= N /\ ~Upto(n)}
<1>1. SUFFICES ASSUME T # {} PROVE FALSE
  <2>1. N \notin T => Upto(N)
    OBVIOUS
  <2> QED
    BY <2>1
<1>2. PICK n \in T : \A m \in T : n <= m
  <2>1. T \subseteq Nat
    OBVIOUS
  <2> HIDE DEF T
  <2> QED
    BY <1>1, <2>1, LeastNat
<1>3. n \in Nat /\ n <= N /\ ~Upto(n)
  BY <1>2
<1>4. CASE n = 0
  <2>1. PICK u : u = [m \in 0..0 |-> <<>>]
    OBVIOUS
  <2>2. u = [m \in 0..0 |-> u[m]] /\ u[0] = <<>>
    BY <2>1
  <2>3. Upto(0)
    BY <2>2 DEF Parts
  <2> QED
    BY <1>3, <1>4, <2>3
<1>5. CASE n # 0
  <2>1. Upto(n - 1)
    <3>1. n - 1 \in Nat /\ n - 1 <= N /\ ~(n <= n - 1)
      BY <1>3, <1>5
    <3>2. n - 1 \notin T
      <4> HIDE DEF T
      <4> QED
        BY <1>2, <3>1
    <3> HIDE DEF Upto
    <3> QED
      BY <3>1, <3>2
  <2>2. PICK u : u = [m \in 0..n - 1 |-> u[m]] /\ Parts(freq, u, n - 1)
    BY <2>1
  <2>3. PICK r : r = Place(freq, u[n - 1], resultVec[n])
    OBVIOUS
  <2>4. PICK v : v = [m \in 0..n |-> IF m = n THEN r ELSE u[m]]
    OBVIOUS
  <2>5. v = [m \in 0..n |-> v[m]] /\ v[n] = r /\ \A m \in 0..n - 1 : v[m] = u[m]
    BY <1>3, <2>4
  <2>6. ASSUME NEW m \in 1..n
        PROVE  v[m] = Place(freq, v[m - 1], resultVec[m])
    <3>1. v[m - 1] = u[m - 1]
      <4>1. m - 1 \in 0..n - 1
        BY <1>3
      <4>2. PICK k : k = m - 1 /\ k \in 0..n - 1
        BY <4>1
      <4>3. v[k] = u[k]
        BY <4>2, <2>5
      <4> QED
        BY <4>2, <4>3
    <3>2. CASE m = n
      BY <3>1, <3>2, <2>3, <2>5
    <3>3. CASE m # n
      <4>1. m \in 0..n - 1 /\ m \in 1..n - 1
        BY <1>3, <3>3
      <4> QED
        BY <4>1, <3>1, <2>2, <2>5 DEF Parts
    <3> QED
      BY <3>2, <3>3
  <2>7. v[0] = <<>>
    <3>1. 0 \in 0..n - 1
      BY <1>3, <1>5
    <3> QED
      BY <3>1, <2>2, <2>5 DEF Parts
  <2>8. Parts(freq, v, n)
    BY <2>6, <2>7 DEF Parts
  <2> QED
    BY <1>3, <2>5, <2>8
<1> QED
  BY <1>4, <1>5

\* s holds the first n documents that executeQuery found, the best in front.
SortedPart(freq, s, n) ==
  /\ s \in Seq(Results)
  /\ Len(s) = n
  /\ BestFirst(freq, s)
  /\ ToSet(s) = {resultVec[m] : m \in 1..n}

LEMMA NoneYet ==
  ASSUME NEW freq
  PROVE  SortedPart(freq, <<>>, 0)
<1>1. <<>> \in Seq(Results) /\ Len(<<>>) = 0 /\ DOMAIN <<>> = {}
  BY EmptySeq
<1>2. ToSet(<<>>) = {} /\ 1..0 = {}
  BY <1>1 DEF ToSet
<1>3. BestFirst(freq, <<>>)
  BY <1>1 DEF BestFirst
<1>4. {resultVec[m] : m \in 1..0} = {}
  BY <1>2
<1> QED
  BY <1>1, <1>2, <1>3, <1>4 DEF SortedPart

LEMMA OneMore ==
  ASSUME IInv, QueryWords, NEW freq \in Frequencies,
         NEW n \in 1..Len(resultVec), NEW s, SortedPart(freq, s, n - 1)
  PROVE  SortedPart(freq, Place(freq, s, resultVec[n]), n)
<1>1. PICK r : r = resultVec[n] /\ r \in Results
  BY DEF Results
<1>2. s \in Seq(Results) /\ Len(s) = n - 1 /\ BestFirst(freq, s) /\ ToSet(s) = {resultVec[m] : m \in 1..n - 1}
  BY DEF SortedPart
<1>3. Len(resultVec) \in Nat /\ n \in Nat
  BY LenProperties DEF IInv, WellFormed
<1>4. \A k \in 1..Len(resultVec) : resultVec[k].docid \in Nat
  <2>1. \A k \in 1..Len(resultVec) : resultVec[k] \in [docid : Nat, weights : [Words -> Nat]]
    BY ElementOfSeq DEF IInv, WellFormed
  <2> QED
    BY <2>1
<1>5. ASSUME NEW i \in 1..Len(s) PROVE s[i] # r
  <2>1. s[i] \in ToSet(s)
    BY <1>2, LenProperties DEF ToSet
  <2>2. PICK m \in 1..n - 1 : s[i] = resultVec[m]
    BY <1>2, <2>1
  <2>3. m \in 1..Len(resultVec) /\ m < n
    BY <1>3
  <2>4. resultVec[m].docid < resultVec[n].docid
    BY <2>3 DEF IInv, ResultAscending
  <2>5. resultVec[m].docid # resultVec[n].docid
    BY <2>3, <2>4, <1>4
  <2> QED
    BY <1>1, <2>2, <2>5
<1>6. /\ Place(freq, s, r) \in Seq(Results)
      /\ Len(Place(freq, s, r)) = Len(s) + 1
      /\ BestFirst(freq, Place(freq, s, r))
      /\ ToSet(Place(freq, s, r)) = ToSet(s) \cup {r}
  BY <1>1, <1>2, <1>5, PlaceKeepsOrder
<1>7. {resultVec[m] : m \in 1..n} = {resultVec[m] : m \in 1..n - 1} \cup {r}
  <2>1. \A m : m \in 1..n <=> m \in 1..n - 1 \/ m = n
    BY <1>3
  <2> QED
    BY <1>1, <2>1
<1>8. (n - 1) + 1 = n
  BY <1>3
<1> QED
  BY <1>1, <1>2, <1>6, <1>7, <1>8 DEF SortedPart

\* stable_sort returns every document it was given, once, with none in front
\* of one that scores more, although its comparison holds for equal elements.
LEMMA SortIsRight ==
  ASSUME IInv, QueryWords, NEW freq \in Frequencies
  PROVE  SortedPart(freq, StableSort(freq), Len(resultVec))
<1>1. PICK N : N = Len(resultVec) /\ N \in Nat
  BY LenProperties DEF IInv, WellFormed
<1> DEFINE F(u) == [n \in 0..N |-> IF n = 0 THEN <<>> ELSE Place(freq, u[n - 1], resultVec[n])]
<1>2. PICK u : u = [m \in 0..N |-> u[m]] /\ Parts(freq, u, N)
  BY <1>1, PartsExist
<1>3. u = F(u)
  <2>1. \A n \in 0..N : u[n] = IF n = 0 THEN <<>> ELSE Place(freq, u[n - 1], resultVec[n])
    <3> TAKE n \in 0..N
    <3>1. n # 0 => n \in 1..N
      BY <1>1
    <3> QED
      BY <3>1, <1>2 DEF Parts
  <2> QED
    BY <1>2, <2>1
<1>4. StableSort(freq) = (CHOOSE v : v = F(v))[N]
  BY <1>1 DEF StableSort
<1>5. PICK v : v = F(v) /\ StableSort(freq) = v[N]
  BY <1>3, <1>4
<1>6. /\ v[0] = <<>>
      /\ \A n \in 1..N : v[n] = Place(freq, v[n - 1], resultVec[n])
  <2>1. 0 \in 0..N /\ \A n \in 1..N : n \in 0..N /\ n # 0
    BY <1>1
  <2> QED
    BY <1>5, <2>1
<1> HIDE DEF F
<1> DEFINE T == {n \in 0..N : ~SortedPart(freq, v[n], n)}
<1>7. T = {}
  <2> SUFFICES ASSUME T # {} PROVE FALSE
    OBVIOUS
  <2>1. PICK n \in T : \A m \in T : n <= m
    <3>1. T \subseteq Nat
      OBVIOUS
    <3> HIDE DEF T
    <3> QED
      BY <3>1, LeastNat
  <2>2. n # 0
    BY <2>1, <1>6, NoneYet
  <2>3. n - 1 \notin T /\ n - 1 \in 0..N /\ n \in 1..N
    <3>1. n \in 1..N /\ n - 1 \in 0..N /\ ~(n <= n - 1)
      BY <1>1, <2>1, <2>2
    <3> HIDE DEF T
    <3> QED
      BY <3>1, <2>1
  <2>4. SortedPart(freq, v[n - 1], n - 1)
    BY <2>3
  <2>5. SortedPart(freq, Place(freq, v[n - 1], resultVec[n]), n)
    BY <1>1, <2>3, <2>4, OneMore
  <2> QED
    BY <2>1, <2>3, <2>5, <1>6
<1>8. SortedPart(freq, v[N], N)
  <2>1. N \in 0..N
    BY <1>1
  <2> QED
    BY <2>1, <1>7
<1> QED
  BY <1>1, <1>5, <1>8

-----------------------------------------------------------------------------
(* The call as a whole. *)

StageTypes ==
  /\ stage \in {"cache", "lookUp", "executeQuery", "rank", "returned"}
  /\ checked \in 0..Len(query)
  /\ replies \in Seq(Replies)
  /\ cached \in Replies

\* Past the look into the cache, the query has no entry until it is answered.
EntryMissing ==
  /\ stage = "cache" => cached \in {NoEntry, Answer(OldAnswer)}
  /\ stage \in {"lookUp", "executeQuery", "rank"} => cached = NoEntry

FailureHasReason ==
  pc = "false" => query = <<>> \/ \E i \in Words : lists[i] = <<>>

\* What is ranked is what executeQuery found, the best in front.
RankingSorted ==
  /\ stage \notin {"rank", "returned"} => ranking = <<>>
  /\ stage = "rank" \/ ranking # <<>> =>
       tf \in Frequencies /\ SortedPart(tf, ranking, Len(resultVec))

Docs(s) == [k \in 1..Len(s) |-> s[k].docid]

\* Until the last reply there are apologies, one for each unknown word.
Apologised ==
  /\ known \subseteq ToSet(query)
  /\ stage = "cache" => pc = "collect" /\ replies = <<>> /\ checked = 0
  /\ stage \in {"lookUp", "executeQuery", "rank"} =>
       /\ Len(replies) = Cardinality(UnknownUpTo(checked))
       /\ \A k \in 1..Len(replies) : replies[k] = NoAnswer
  /\ stage \in {"executeQuery", "rank"} => checked = Len(query)
  /\ stage = "rank" => pc = "true"
  /\ stage = "returned" /\ pc # "collect" =>
       /\ Len(replies) = Cardinality(UnknownUpTo(Len(query))) + 1
       /\ \A k \in 1..Len(replies) - 1 : replies[k] = NoAnswer

\* What process() has sent and cached when it returns.
LastReply ==
  /\ stage = "returned" =>
       \/ pc = "collect" /\ replies = <<cached>> /\ cached = Answer(OldAnswer)
       \/ pc = "true" /\ Last(replies) = cached /\ cached.found
       \/ pc = "false" /\ Last(replies) = NoAnswer /\ cached = NoEntry
  /\ stage = "returned" /\ ranking # <<>> => Last(replies) = Answer(ListBest(Docs(ranking)))

AnswerIInv ==
  /\ IInv
  /\ QueryWords
  /\ StageTypes
  /\ EntryMissing
  /\ FailureHasReason
  /\ RankingSorted
  /\ Apologised
  /\ LastReply

\* The documents found are told apart by their ids.
LEMMA DocIdsDiffer ==
  ASSUME IInv
  PROVE  /\ \A r \in Results : r.docid \in Nat
         /\ \A r, s \in Results : r.docid = s.docid => r = s
<1>1. \A k \in 1..Len(resultVec) : resultVec[k] \in [docid : Nat, weights : [Words -> Nat]]
  BY ElementOfSeq DEF IInv, WellFormed
<1>2. Len(resultVec) \in Nat
  BY LenProperties DEF IInv, WellFormed
<1>3. \A r \in Results : r.docid \in Nat
  BY <1>1 DEF Results
<1>4. ASSUME NEW r \in Results, NEW s \in Results, r.docid = s.docid
      PROVE  r = s
  <2>1. PICK k \in 1..Len(resultVec) : r = resultVec[k]
    BY DEF Results
  <2>2. PICK l \in 1..Len(resultVec) : s = resultVec[l]
    BY DEF Results
  <2>3. ~(k < l)
    BY <1>3, <1>4, <2>1, <2>2 DEF IInv, ResultAscending
  <2>4. ~(l < k)
    BY <1>3, <1>4, <2>1, <2>2 DEF IInv, ResultAscending
  <2>5. k = l
    BY <1>2, <2>3, <2>4
  <2> QED
    BY <2>1, <2>2, <2>5
<1> QED
  BY <1>3, <1>4

\* createJson lists the first documents, Limit of them if there are as many.
LEMMA ListBestFacts ==
  ASSUME IInv, NEW s \in Seq(Results)
  PROVE  /\ ListBest(Docs(s)) \in Seq(Nat)
         /\ Len(ListBest(Docs(s))) = IF Len(s) < Limit THEN Len(s) ELSE Limit
         /\ \A k \in 1..Len(ListBest(Docs(s))) : ListBest(Docs(s))[k] = s[k].docid
<1>1. Len(s) \in Nat /\ \A k \in 1..Len(s) : s[k] \in Results
  BY LenProperties, ElementOfSeq
<1>2. PICK d : d = Docs(s)
  OBVIOUS
<1>3. d \in Seq(Nat) /\ Len(d) = Len(s) /\ \A k \in 1..Len(s) : d[k] = s[k].docid
  <2>1. \A k \in 1..Len(s) : s[k].docid \in Nat
    BY <1>1, DocIdsDiffer
  <2> QED
    BY <1>1, <1>2, <2>1 DEF Docs
<1>4. PICK m : m = IF Len(s) < Limit THEN Len(s) ELSE Limit
  OBVIOUS
<1>5. m \in 0..Len(s)
  BY <1>1, <1>4, AnswerAssumption
<1>6. ListBest(d) = SubSeq(d, 1, m)
  BY <1>3, <1>4 DEF ListBest
<1>7. /\ SubSeq(d, 1, m) \in Seq(Nat)
      /\ Len(SubSeq(d, 1, m)) = m
      /\ \A k \in 1..m : SubSeq(d, 1, m)[k] = d[k]
  BY <1>1, <1>3, <1>5
<1>8. \A k \in 1..m : d[k] = s[k].docid
  BY <1>1, <1>3, <1>5
<1> QED
  BY <1>2, <1>4, <1>6, <1>7, <1>8

\* The scores depend on the query and its lists only, which no step changes.
LEMMA ScoresStay ==
  ASSUME UNCHANGED <<lists, query>>, NEW freq, NEW l, NEW r
  PROVE  ScoresLess(freq, l, r)' = ScoresLess(freq, l, r)
<1>1. VectorLength(freq, l)' = VectorLength(freq, l) /\ VectorLength(freq, r)' = VectorLength(freq, r)
  BY DEF VectorLength, DocWeight, IdfOf, Words, Sum
<1>2. CrossProduct(freq, l)' = CrossProduct(freq, l) /\ CrossProduct(freq, r)' = CrossProduct(freq, r)
  BY DEF CrossProduct, BaseWeight, DocWeight, IdfOf, Words, Sum
<1> QED
  BY <1>1, <1>2 DEF ScoresLess

LEMMA SortedStays ==
  ASSUME UNCHANGED <<lists, query, resultVec>>, NEW freq, NEW s,
         freq \in Frequencies, SortedPart(freq, s, Len(resultVec))
  PROVE  (freq \in Frequencies)' /\ SortedPart(freq, s, Len(resultVec))'
<1>1. (freq \in Frequencies)'
  BY DEF Frequencies, FoundDocs
<1>2. BestFirst(freq, s)'
  BY ScoresStay DEF BestFirst, SortedPart
<1>3. (s \in Seq(Results))' /\ (Len(s) = Len(resultVec))'
      /\ (ToSet(s) = {resultVec[m] : m \in 1..Len(resultVec)})'
  BY DEF SortedPart, Results
<1> QED
  BY <1>1, <1>2, <1>3 DEF SortedPart

-----------------------------------------------------------------------------
(* AnswerIInv is inductive. *)

LEMMA AnswerInitInit ==
  ASSUME AnswerInit
  PROVE  Init /\ QueryWords
<1>1. PICK n \in 0..MaxWords :
        /\ query \in [1..n -> 1..n]
        /\ \E postings \in [ToSet(query) -> Postings] : lists = [i \in 1..n |-> postings[query[i]]]
  BY DEF AnswerInit
<1>2. lists \in [1..n -> Postings]
  <2>1. PICK postings \in [ToSet(query) -> Postings] : lists = [i \in 1..n |-> postings[query[i]]]
    BY <1>1
  <2>2. \A i \in 1..n : query[i] \in ToSet(query)
    BY <1>1 DEF ToSet
  <2> QED
    BY <2>1, <2>2
<1>3. Init
  BY <1>2 DEF AnswerInit, Init
<1>4. QueryWords
  BY <1>1, <1>2 DEF QueryWords
<1> QED
  BY <1>3, <1>4

LEMMA AnswerInitIInv ==
  ASSUME AnswerInit
  PROVE  AnswerIInv
<1>1. Init /\ QueryWords
  BY AnswerInitInit
<1>2. IInv
  BY <1>1, InitIInv, QueryAssumption
<1>3. StageTypes
  <2>1. PICK n \in 0..MaxWords : query \in [1..n -> 1..n]
    BY <1>1 DEF QueryWords
  <2>2. query \in Seq(1..n)
    BY <2>1, QueryAssumption
  <2>3. Len(query) \in Nat
    BY <2>2, LenProperties
  <2>4. NoEntry \in Replies /\ Answer(OldAnswer) \in Replies
    BY AnswerAssumption DEF NoEntry, Answer, Replies
  <2> QED
    BY <2>3, <2>4 DEF AnswerInit, StageTypes
<1>4. EntryMissing /\ FailureHasReason /\ RankingSorted /\ Apologised /\ LastReply
  BY DEF AnswerInit, EntryMissing, FailureHasReason, RankingSorted, Apologised, LastReply
<1> QED
  BY <1>1, <1>2, <1>3, <1>4 DEF AnswerIInv

\* Every step of the call is a step of executeQuery or leaves its state alone.
LEMMA CallsExecute ==
  ASSUME [AnswerNext]_allVars
  PROVE  [Next]_vars /\ UNCHANGED <<lists, query, known>>
<1>1. CASE AnswerNext
  <2>1. [Next]_vars
    BY <1>1 DEF AnswerNext, CacheHit, CacheMiss, LookUpWord, LookedUp, Execute, NotFound, Rank, SendAnswer
  <2>2. query' = query /\ known' = known
    BY <1>1 DEF AnswerNext, CacheHit, CacheMiss, LookUpWord, LookedUp, Execute, NotFound, Rank,
                SendAnswer, answerVars
  <2>3. lists' = lists
    BY <2>1 DEF Next, Fail, Collect, Match, Advance, vars
  <2> QED
    BY <2>1, <2>2, <2>3
<1>2. CASE UNCHANGED allVars
  BY <1>2 DEF allVars, answerVars, vars
<1> QED
  BY <1>1, <1>2

LEMMA StageTypesStep ==
  ASSUME AnswerIInv, [AnswerNext]_allVars
  PROVE  StageTypes'
<1>1. Len(query) \in Nat /\ query' = query
  <2>1. PICK n \in 0..MaxWords : query \in [1..n -> 1..n]
    BY DEF AnswerIInv, QueryWords
  <2>2. query \in Seq(1..n)
    BY <2>1, QueryAssumption
  <2> QED
    BY <2>2, LenProperties, CallsExecute
<1>2. NoAnswer \in Replies
  BY DEF NoAnswer, Replies
<1>3. CASE CacheHit
  BY <1>1, <1>3 DEF CacheHit, AnswerIInv, StageTypes
<1>4. CASE CacheMiss \/ LookedUp
  BY <1>1, <1>4 DEF CacheMiss, LookedUp, AnswerIInv, StageTypes
<1>5. CASE LookUpWord
  <2>1. replies \in Seq(Replies) /\ checked \in 0..Len(query)
    BY DEF AnswerIInv, StageTypes
  <2>2. Apologies(checked + 1) \in Seq(Replies)
    BY <1>2 DEF Apologies
  <2>3. replies' \in Seq(Replies)
    BY <1>5, <2>1, <2>2 DEF LookUpWord
  <2>4. checked' \in 0..Len(query')
    BY <1>1, <1>5, <2>1 DEF LookUpWord
  <2> QED
    BY <1>5, <2>3, <2>4 DEF LookUpWord, AnswerIInv, StageTypes
<1>6. CASE Execute \/ UNCHANGED allVars
  BY <1>1, <1>6 DEF Execute, allVars, answerVars, AnswerIInv, StageTypes
<1>7. CASE NotFound
  BY <1>1, <1>2, <1>7 DEF NotFound, AnswerIInv, StageTypes
<1>8. CASE Rank
  BY <1>1, <1>8 DEF Rank, AnswerIInv, StageTypes
<1>9. CASE SendAnswer
  <2>1. ranking \in Seq(Results)
    BY <1>9 DEF SendAnswer, AnswerIInv, RankingSorted, SortedPart
  <2>2. ListBest(Docs(ranking)) \in Seq(Nat)
    BY <2>1, ListBestFacts DEF AnswerIInv
  <2>3. Answer(ListBest(Docs(ranking))) \in Replies
    BY <2>2 DEF Answer, Replies
  <2>4. cached' = Answer(ListBest(Docs(ranking))) /\ replies' = Append(replies, cached')
    BY <1>9 DEF SendAnswer, Docs
  <2> QED
    BY <1>1, <1>9, <2>3, <2>4 DEF SendAnswer, AnswerIInv, StageTypes
<1> QED
  BY <1>3, <1>4, <1>5, <1>6, <1>7, <1>8, <1>9 DEF AnswerNext

LEMMA EntryMissingStep ==
  ASSUME AnswerIInv, [AnswerNext]_allVars
  PROVE  EntryMissing'
BY DEF AnswerIInv, EntryMissing, AnswerNext, CacheHit, CacheMiss, LookUpWord, LookedUp, Execute,
       NotFound, Rank, SendAnswer, allVars, answerVars

LEMMA FailureHasReasonStep ==
  ASSUME AnswerIInv, [AnswerNext]_allVars
  PROVE  FailureHasReason'
<1>1. [Next]_vars /\ lists' = lists /\ query' = query
  BY CallsExecute
<1>2. CASE pc' = pc
  BY <1>1, <1>2 DEF AnswerIInv, FailureHasReason, Words
<1>3. CASE Fail
  <2>1. PICK n \in 0..MaxWords : query \in [1..n -> 1..n] /\ lists \in [1..n -> Postings]
    BY DEF AnswerIInv, QueryWords
  <2>2. CASE Words = {}
    <3>1. DOMAIN query = {}
      BY <2>1, <2>2 DEF Words
    <3>2. query = <<>>
      <4>1. n \in Nat /\ query \in Seq(1..n)
        BY <2>1, QueryAssumption
      <4>2. DOMAIN query = 1..Len(query) /\ Len(query) \in Nat
        BY <4>1, LenProperties
      <4>3. ~(1 \in 1..Len(query))
        BY <3>1, <4>2
      <4>4. Len(query) = 0
        BY <4>2, <4>3
      <4> QED
        BY <4>1, <4>4, EmptySeq
    <3> QED
      BY <1>1, <3>2 DEF FailureHasReason
  <2>3. CASE collected + 1 \in Words /\ Len(lists[collected + 1]) = 0
    <3>1. lists[collected + 1] \in Seq(Nat)
      BY <2>1, <2>3, QueryAssumption DEF Words
    <3>2. lists[collected + 1] = <<>>
      BY <2>3, <3>1, EmptySeq
    <3> QED
      BY <1>1, <2>3, <3>2 DEF FailureHasReason, Words
  <2> QED
    BY <1>3, <2>2, <2>3 DEF Fail
<1>4. CASE Collect \/ Match \/ Advance
  <2>1. pc' # "false"
    BY <1>4 DEF Collect, Match, Advance, AfterRound
  <2> QED
    BY <2>1 DEF FailureHasReason
<1> QED
  BY <1>1, <1>2, <1>3, <1>4 DEF Next, vars

LEMMA RankingSortedStep ==
  ASSUME AnswerIInv, [AnswerNext]_allVars
  PROVE  RankingSorted'
<1>1. lists' = lists /\ query' = query
  BY CallsExecute
<1>2. CASE CacheHit \/ CacheMiss \/ LookUpWord \/ LookedUp \/ Execute \/ NotFound
  <2>1. ranking = <<>> /\ ranking' = ranking /\ stage' # "rank"
    BY <1>2 DEF CacheHit, CacheMiss, LookUpWord, LookedUp, Execute, NotFound, answerVars, AnswerIInv, RankingSorted
  <2> QED
    BY <2>1 DEF RankingSorted
<1>3. CASE Rank
  <2>1. PICK f : f = tf'
    OBVIOUS
  <2>2. f \in Frequencies /\ ranking' = StableSort(f) /\ stage' = "rank" /\ resultVec' = resultVec
    BY <1>3, <2>1 DEF Rank, Frequencies, vars
  <2>3. PICK s : s = StableSort(f)
    OBVIOUS
  <2>4. SortedPart(f, s, Len(resultVec))
    BY <2>2, <2>3, SortIsRight DEF AnswerIInv
  <2>5. (f \in Frequencies)' /\ SortedPart(f, s, Len(resultVec))'
    BY <1>1, <2>2, <2>4, SortedStays
  <2>6. s = ranking' /\ f = tf'
    BY <2>1, <2>2, <2>3
  <2> QED
    BY <2>2, <2>5, <2>6 DEF RankingSorted
<1>4. CASE SendAnswer \/ UNCHANGED allVars
  <2>1. UNCHANGED <<ranking, tf, resultVec>>
    BY <1>4 DEF SendAnswer, vars, allVars, answerVars
  <2>2. stage' = "rank" \/ ranking # <<>> => tf \in Frequencies /\ SortedPart(tf, ranking, Len(resultVec))
    BY <1>4 DEF SendAnswer, allVars, answerVars, AnswerIInv, RankingSorted
  <2>3. PICK f, s : f = tf /\ s = ranking
    OBVIOUS
  <2>4. stage' = "rank" \/ ranking # <<>> => (f \in Frequencies)' /\ SortedPart(f, s, Len(resultVec))'
    BY <1>1, <2>1, <2>2, <2>3, SortedStays
  <2>5. f = tf' /\ s = ranking'
    BY <2>1, <2>3
  <2>6. stage' \notin {"rank", "returned"} => ranking' = <<>>
    BY <1>4, <2>1 DEF SendAnswer, allVars, answerVars, AnswerIInv, RankingSorted
  <2> QED
    BY <2>1, <2>4, <2>5, <2>6 DEF RankingSorted
<1> QED
  BY <1>2, <1>3, <1>4 DEF AnswerNext

LEMMA LastOfAppend ==
  ASSUME NEW S, NEW s \in Seq(S), NEW e \in S
  PROVE  Append(s, e) # <<>> /\ Last(Append(s, e)) = e
BY DEF Last

\* The words that were not found, among one word more.
LEMMA UnknownFacts ==
  ASSUME NEW n \in Nat
  PROVE  /\ Cardinality(UnknownUpTo(n)) \in Nat
         /\ Cardinality(UnknownUpTo(0)) = 0
         /\ Cardinality(UnknownUpTo(n + 1)) =
              IF query[n + 1] \in known THEN Cardinality(UnknownUpTo(n)) ELSE Cardinality(UnknownUpTo(n)) + 1
<1>1. UnknownUpTo(n) \in SUBSET (1..n)
  BY DEF UnknownUpTo
<1>2. IsFiniteSet(UnknownUpTo(n)) /\ Cardinality(UnknownUpTo(n)) \in Nat
  <2>1. IsFiniteSet(1..n)
    BY FS_Interval
  <2>2. IsFiniteSet(UnknownUpTo(n))
    BY <1>1, <2>1, FS_Subset
  <2> QED
    BY <2>2, FS_CardinalityType
<1>3. UnknownUpTo(0) = {}
  BY DEF UnknownUpTo
<1>4. CASE query[n + 1] \in known
  <2>1. UnknownUpTo(n + 1) = UnknownUpTo(n)
    BY <1>4 DEF UnknownUpTo
  <2> QED
    BY <1>2, <1>3, <1>4, <2>1, FS_EmptySet
<1>5. CASE query[n + 1] \notin known
  <2>1. UnknownUpTo(n + 1) = UnknownUpTo(n) \cup {n + 1} /\ n + 1 \notin UnknownUpTo(n)
    BY <1>5 DEF UnknownUpTo
  <2> QED
    BY <1>2, <1>3, <1>5, <2>1, FS_EmptySet, FS_AddElement
<1> QED
  BY <1>4, <1>5

LEMMA ApologisedStep ==
  ASSUME AnswerIInv, [AnswerNext]_allVars
  PROVE  Apologised'
<1>1. /\ query' = query /\ known' = known
      /\ replies \in Seq(Replies) /\ Len(query) \in Nat /\ checked \in 0..Len(query)
  <2>1. PICK n \in 0..MaxWords : query \in [1..n -> 1..n]
    BY DEF AnswerIInv, QueryWords
  <2>2. query \in Seq(1..n)
    BY <2>1, QueryAssumption
  <2> QED
    BY <2>2, LenProperties, CallsExecute DEF AnswerIInv, StageTypes
<1>2. known' \subseteq ToSet(query)'
  BY <1>1 DEF AnswerIInv, Apologised, ToSet
<1>3. /\ UnknownUpTo(checked)' = UnknownUpTo(checked')
      /\ UnknownUpTo(Len(query))' = UnknownUpTo(Len(query))
  BY <1>1 DEF UnknownUpTo
<1>4. Len(replies) \in Nat /\ NoAnswer \in Replies
  BY <1>1, LenProperties DEF NoAnswer, Replies
<1>5. CASE CacheHit
  BY <1>2, <1>5 DEF CacheHit, vars, AnswerIInv, Apologised
<1>6. CASE CacheMiss
  <2>1. stage' = "lookUp" /\ replies' = <<>> /\ checked' = 0
    BY <1>6 DEF CacheMiss, AnswerIInv, Apologised
  <2>2. Len(replies') = Cardinality(UnknownUpTo(checked)')
    BY <1>3, <2>1, UnknownFacts
  <2> QED
    BY <1>2, <2>1, <2>2 DEF Apologised
<1>7. CASE LookUpWord
  <2>1. /\ stage = "lookUp" /\ stage' = "lookUp" /\ checked' = checked + 1
        /\ replies' = replies \o Apologies(checked + 1)
    BY <1>7 DEF LookUpWord
  <2>2. /\ Len(replies) = Cardinality(UnknownUpTo(checked))
        /\ \A k \in 1..Len(replies) : replies[k] = NoAnswer
    BY <2>1 DEF AnswerIInv, Apologised
  <2>3. checked \in Nat /\ UnknownUpTo(checked)' = UnknownUpTo(checked + 1)
    BY <1>1, <1>3, <2>1
  <2>4. CASE query[checked + 1] \in known
    <3>1. replies' = replies
      BY <1>1, <2>1, <2>4 DEF Apologies
    <3>2. Cardinality(UnknownUpTo(checked)') = Cardinality(UnknownUpTo(checked))
      BY <2>4, <2>3, UnknownFacts
    <3> QED
      BY <1>2, <2>1, <2>2, <3>1, <3>2 DEF Apologised
  <2>5. CASE query[checked + 1] \notin known
    <3>1. replies' = Append(replies, NoAnswer)
      BY <1>1, <1>4, <2>1, <2>5 DEF Apologies
    <3>2. Cardinality(UnknownUpTo(checked)') = Cardinality(UnknownUpTo(checked)) + 1
      BY <2>5, <2>3, UnknownFacts
    <3>3. Len(replies') = Len(replies) + 1 /\ \A k \in 1..Len(replies') : replies'[k] = NoAnswer
      BY <1>1, <1>4, <2>2, <3>1
    <3> QED
      BY <1>2, <2>1, <2>2, <3>2, <3>3 DEF Apologised
  <2> QED
    BY <2>4, <2>5
<1>8. CASE LookedUp
  <2>1. /\ stage = "lookUp" /\ stage' = "executeQuery" /\ checked = Len(query)
        /\ UNCHANGED <<replies, checked>>
    BY <1>8 DEF LookedUp
  <2> QED
    BY <1>1, <1>2, <1>3, <2>1 DEF AnswerIInv, Apologised
<1>9. CASE Execute
  <2>1. stage = "executeQuery" /\ UNCHANGED <<stage, replies, checked>>
    BY <1>9 DEF Execute, answerVars
  <2> QED
    BY <1>1, <1>2, <1>3, <2>1 DEF AnswerIInv, Apologised
<1>10. CASE Rank
  <2>1. stage = "executeQuery" /\ stage' = "rank" /\ pc' = "true" /\ UNCHANGED <<replies, checked>>
    BY <1>10 DEF Rank, vars
  <2> QED
    BY <1>1, <1>2, <1>3, <2>1 DEF AnswerIInv, Apologised
<1>11. CASE NotFound \/ SendAnswer
  <2>1. /\ stage \in {"executeQuery", "rank"} /\ stage' = "returned"
        /\ \E r : replies' = Append(replies, r)
    BY <1>11 DEF NotFound, SendAnswer
  <2>2. /\ Len(replies) = Cardinality(UnknownUpTo(Len(query)))
        /\ \A k \in 1..Len(replies) : replies[k] = NoAnswer
    BY <2>1 DEF AnswerIInv, Apologised
  <2>3. /\ Len(replies') = Len(replies) + 1
        /\ \A k \in 1..Len(replies') - 1 : replies'[k] = NoAnswer
    <3>1. PICK r : replies' = Append(replies, r)
      BY <2>1
    <3>2. Len(replies') = Len(replies) + 1 /\ \A k \in 1..Len(replies) : replies'[k] = replies[k]
      BY <1>1, <3>1, AppendProperties
    <3> QED
      BY <1>4, <2>2, <3>2
  <2> QED
    BY <1>2, <1>3, <2>1, <2>2, <2>3 DEF Apologised
<1>12. CASE UNCHANGED allVars
  <2>1. UNCHANGED <<stage, replies, checked, pc>>
    BY <1>12 DEF allVars, answerVars, vars
  <2> QED
    BY <1>1, <1>2, <1>3, <2>1 DEF AnswerIInv, Apologised
<1> QED
  BY <1>5, <1>6, <1>7, <1>8, <1>9, <1>10, <1>11, <1>12 DEF AnswerNext

LEMMA LastReplyStep ==
  ASSUME AnswerIInv, [AnswerNext]_allVars
  PROVE  LastReply'
<1>1. replies \in Seq(Replies) /\ replies' \in Seq(Replies) /\ cached' \in Replies
  BY StageTypesStep DEF AnswerIInv, StageTypes
<1>2. CASE CacheHit
  <2>1. replies' = <<cached>> /\ cached' = cached /\ cached = Answer(OldAnswer) /\ ranking' = <<>>
    BY <1>2 DEF CacheHit, AnswerIInv, EntryMissing, RankingSorted
  <2>2. pc' = "collect"
    BY <1>2 DEF CacheHit, vars, AnswerIInv, Apologised
  <2> QED
    BY <2>1, <2>2 DEF LastReply, Answer
<1>3. CASE CacheMiss \/ LookUpWord \/ LookedUp \/ Execute \/ Rank
  <2>1. stage' # "returned"
    BY <1>3 DEF CacheMiss, LookUpWord, LookedUp, Execute, Rank, answerVars
  <2> QED
    BY <2>1 DEF LastReply
<1>4. CASE NotFound
  <2>1. NoAnswer \in Replies
    BY DEF NoAnswer, Replies
  <2>2. replies' = Append(replies, NoAnswer) /\ cached' = NoEntry /\ pc' = "false" /\ ranking' = <<>>
    BY <1>4 DEF NotFound, vars, AnswerIInv, EntryMissing, RankingSorted
  <2>3. Last(replies') = NoAnswer /\ replies' # <<>>
    BY <1>1, <2>1, <2>2, LastOfAppend
  <2> QED
    BY <2>2, <2>3 DEF LastReply, NoEntry
<1>5. CASE SendAnswer
  <2>1. PICK a : a = Answer(ListBest(Docs(ranking)))
    OBVIOUS
  <2>2. cached' = a /\ replies' = Append(replies, a) /\ ranking' = ranking /\ pc' = "true"
    BY <1>5, <2>1 DEF SendAnswer, Docs, vars, AnswerIInv, Apologised
  <2>3. Last(replies') = a /\ replies' # <<>>
    BY <1>1, <2>2, LastOfAppend
  <2>4. a.found
    BY <2>1 DEF Answer
  <2>5. a = Answer(ListBest(Docs(ranking')))
    BY <2>1, <2>2
  <2>6. Answer(ListBest(Docs(ranking)))' = Answer(ListBest(Docs(ranking')))
    BY DEF Answer, ListBest, Docs
  <2> QED
    BY <2>2, <2>3, <2>4, <2>5, <2>6 DEF LastReply
<1>6. CASE UNCHANGED allVars
  BY <1>6 DEF allVars, answerVars, vars, AnswerIInv, LastReply, ListBest, Docs, Answer
<1> QED
  BY <1>2, <1>3, <1>4, <1>5, <1>6 DEF AnswerNext

LEMMA AnswerNextIInv ==
  ASSUME AnswerIInv, [AnswerNext]_allVars
  PROVE  AnswerIInv'
<1>1. [Next]_vars /\ lists' = lists /\ query' = query
  BY CallsExecute
<1>2. IInv'
  BY <1>1, NextIInv, QueryAssumption DEF AnswerIInv
<1>3. QueryWords'
  BY <1>1 DEF AnswerIInv, QueryWords
<1> QED
  BY <1>2, <1>3, StageTypesStep, EntryMissingStep, FailureHasReasonStep, RankingSortedStep,
     ApologisedStep, LastReplyStep
  DEF AnswerIInv

\* process() runs executeQuery: what holds of every call of it holds here.
THEOREM AnswerRunsExecuteQuery == AnswerSpec => Spec
<1>1. AnswerInit => Init
  BY AnswerInitInit
<1>2. [AnswerNext]_allVars => [Next]_vars
  BY CallsExecute
<1> QED
  BY <1>1, <1>2, PTL DEF AnswerSpec, Spec

\* AnswerIInv holds throughout every call of process().
THEOREM AnswerInvariant == AnswerSpec => []AnswerIInv
<1>1. AnswerInit => AnswerIInv
  BY AnswerInitIInv
<1>2. AnswerIInv /\ [AnswerNext]_allVars => AnswerIInv'
  BY AnswerNextIInv
<1> QED
  BY <1>1, <1>2, PTL DEF AnswerSpec

-----------------------------------------------------------------------------
(* The properties of an answer. *)

LEMMA InvTypes == ASSUME AnswerIInv PROVE AnswerTypeOK
<1>1. PICK n \in 0..MaxWords : query \in [1..n -> 1..n] /\ lists \in [1..n -> Postings]
  BY DEF AnswerIInv, QueryWords
<1>2. query \in [1..n -> 1..MaxWords] /\ n \in Nat
  BY <1>1, QueryAssumption
<1>3. query \in Seq(1..MaxWords)
  BY <1>2, SeqDef
<1>4. DOMAIN query = Words
  BY <1>1 DEF Words
<1> QED
  BY <1>3, <1>4 DEF AnswerTypeOK, AnswerIInv, StageTypes, Apologised

LEMMA InvSorted == ASSUME AnswerIInv PROVE RankedBestFirst
<1>1. ToSet(resultVec) = {resultVec[m] : m \in 1..Len(resultVec)}
  BY LenProperties DEF ToSet, AnswerIInv, IInv, WellFormed
<1> QED
  BY <1>1 DEF AnswerIInv, RankingSorted, RankedBestFirst, SortedPart, BestFirst

LEMMA InvScores == ASSUME AnswerIInv PROVE ScoresAllOrNone
<1>1. SUFFICES ASSUME stage = "rank", NEW k \in 1..Len(ranking), NEW l \in 1..Len(ranking),
                      VectorLength(tf, ranking[k]) = 0
               PROVE  CrossProduct(tf, ranking[l]) = 0
  BY DEF ScoresAllOrNone
<1>2. tf \in Frequencies /\ ranking \in Seq(Results)
  BY <1>1 DEF AnswerIInv, RankingSorted, SortedPart
<1>3. ranking[k] \in Results /\ ranking[l] \in Results
  BY <1>2, ElementOfSeq
<1>4. Flat
  BY <1>1, <1>2, <1>3, ScoreFacts DEF AnswerIInv
<1> QED
  BY <1>2, <1>3, <1>4, ScoreFacts DEF AnswerIInv

LEMMA InvListed == ASSUME AnswerIInv PROVE BestAreListed
<1> DEFINE record(d) == CHOOSE r \in ToSet(resultVec) : r.docid = d
<1>1. SUFFICES ASSUME stage = "returned", ranking # <<>>
               PROVE  LET docs == Last(replies).docs
                      IN  /\ ToSet(docs) \subseteq FoundDocs
                          /\ \A k, l \in 1..Len(docs) : k # l => docs[k] # docs[l]
                          /\ Len(docs) < Limit => ToSet(docs) = FoundDocs
                          /\ \A d \in FoundDocs \ ToSet(docs) : \A k \in 1..Len(docs) :
                               ~ScoresLess(tf, record(docs[k]), record(d))
  BY DEF BestAreListed
<1>2. IInv /\ SortedPart(tf, ranking, Len(resultVec))
  BY <1>1 DEF AnswerIInv, RankingSorted
<1>3. ranking \in Seq(Results) /\ BestFirst(tf, ranking) /\ ToSet(ranking) = Results
  BY <1>2 DEF SortedPart, Results
<1>4. PICK N \in Nat : N = Len(ranking) /\ DOMAIN ranking = 1..N
  BY <1>3, LenProperties
<1>5. \A k \in 1..N : ranking[k] \in Results
  BY <1>3, <1>4, ElementOfSeq
<1>6. PICK docs : docs = Last(replies).docs
  OBVIOUS
<1>7. docs = ListBest(Docs(ranking))
  BY <1>1, <1>6 DEF AnswerIInv, LastReply, Answer
<1>8. PICK m : m = Len(docs)
  OBVIOUS
<1>9. /\ docs \in Seq(Nat)
      /\ m = IF N < Limit THEN N ELSE Limit
      /\ \A k \in 1..m : docs[k] = ranking[k].docid
  BY <1>2, <1>3, <1>4, <1>7, <1>8, ListBestFacts
<1>10. m \in 0..N /\ Limit \in Nat
  BY <1>4, <1>9, AnswerAssumption
<1>11. ToSet(docs) = {ranking[k].docid : k \in 1..m}
  <2>1. DOMAIN docs = 1..m
    BY <1>8, <1>9, LenProperties
  <2> QED
    BY <2>1, <1>9 DEF ToSet
<1>12. FoundDocs = {ranking[k].docid : k \in 1..N}
  <2>1. Results = {ranking[k] : k \in 1..N}
    BY <1>3, <1>4 DEF ToSet
  <2>2. FoundDocs = {r.docid : r \in Results}
    BY DEF FoundDocs, Results
  <2> QED
    BY <2>1, <2>2
<1>13. ToSet(docs) \subseteq FoundDocs
  BY <1>10, <1>11, <1>12
<1>14. ASSUME NEW k \in 1..m, NEW l \in 1..m, k # l
       PROVE  docs[k] # docs[l]
  <2>1. k \in 1..N /\ l \in 1..N
    BY <1>10
  <2>2. ranking[k] # ranking[l]
    BY <2>1, <1>3, <1>4, <1>14 DEF BestFirst
  <2> QED
    BY <2>1, <2>2, <1>2, <1>5, <1>9, DocIdsDiffer
<1>15. m < Limit => ToSet(docs) = FoundDocs
  <2>1. m < Limit => m = N
    BY <1>4, <1>9, <1>10
  <2> QED
    BY <2>1, <1>11, <1>12
<1>16. ASSUME NEW r \in Results
       PROVE  record(r.docid) = r
  <2>1. ToSet(resultVec) = Results
    BY LenProperties DEF ToSet, Results, AnswerIInv, IInv, WellFormed
  <2>2. \A q \in Results : q.docid = r.docid => q = r
    BY <1>2, DocIdsDiffer
  <2> QED
    BY <2>1, <2>2
<1> HIDE DEF record
<1>17. ASSUME NEW d \in FoundDocs \ ToSet(docs), NEW k \in 1..m
       PROVE  ~ScoresLess(tf, record(docs[k]), record(d))
  <2>1. PICK l \in 1..N : d = ranking[l].docid
    BY <1>12
  <2>2. ~(l <= m)
    BY <2>1, <1>10, <1>11
  <2>3. k \in 1..N /\ k < l
    BY <2>2, <1>10
  <2>4. ~ScoresLess(tf, ranking[k], ranking[l])
    BY <2>3, <1>3, <1>4 DEF BestFirst
  <2>5. record(d) = ranking[l] /\ record(docs[k]) = ranking[k]
    BY <2>1, <2>3, <1>5, <1>9, <1>16
  <2> QED
    BY <2>4, <2>5
<1> QED
  BY <1>6, <1>8, <1>13, <1>14, <1>15, <1>17

\* Every answer lists the best of what the merge found, each document once and
\* none in front of one that scores more, although the documents are sorted
\* with a comparison that holds for equal elements.
THEOREM AnswersListTheBest == AnswerSpec => []RankingIsRight
<1>1. AnswerIInv => RankingIsRight
  BY InvTypes, InvSorted, InvScores, InvListed DEF RankingIsRight
<1> QED
  BY <1>1, AnswerInvariant, PTL

\* executeQuery has succeeded only if every word has documents.
LEMMA SuccessHasDocs ==
  ASSUME AnswerIInv, pc = "true"
  PROVE  EveryWordHasDocs
<1>1. PICK n \in 0..MaxWords : query \in [1..n -> 1..n] /\ lists \in [1..n -> Postings]
  BY DEF AnswerIInv, QueryWords
<1>2. Words # {} /\ minIterNum \in Nat \ {0} /\ \A i \in Words : minIterNum <= Len(lists[i])
  BY DEF AnswerIInv, IInv, WellFormed, MergeBounds
<1>3. query # <<>>
  BY <1>1, <1>2 DEF Words
<1>4. \A i \in Words : lists[i] # <<>>
  <2> SUFFICES ASSUME NEW i \in Words, lists[i] = <<>> PROVE FALSE
    OBVIOUS
  <2>1. Len(lists[i]) = 0
    OBVIOUS
  <2> QED
    BY <1>2, <2>1
<1> QED
  BY <1>3, <1>4 DEF EveryWordHasDocs

\* Every unknown word is apologised for, one more reply follows, an answer
\* exactly if every word has documents, and the cache holds the answer that was
\* sent, and never an apology.
THEOREM OnlyAnswersAreCached == AnswerSpec => []AnswersAreCached
<1>1. AnswerIInv => AnswersAreCached
  <2> SUFFICES ASSUME AnswerIInv, stage = "returned" PROVE AnswersAreCached
    BY DEF AnswersAreCached
  <2>1. CASE pc = "collect"
    BY <2>1 DEF AnswerIInv, LastReply, AnswersAreCached
  <2>2. pc # "collect" =>
          /\ Len(replies) = Cardinality(UnknownUpTo(Len(query))) + 1
          /\ \A k \in 1..Len(replies) - 1 : replies[k] = NoAnswer
    BY DEF AnswerIInv, Apologised
  <2>3. CASE pc = "true" /\ Last(replies) = cached /\ cached.found
    BY <2>2, <2>3, SuccessHasDocs DEF AnswersAreCached
  <2>4. CASE pc = "false" /\ Last(replies) = NoAnswer /\ cached = NoEntry
    <3>1. ~EveryWordHasDocs
      BY <2>4 DEF AnswerIInv, FailureHasReason, EveryWordHasDocs
    <3> QED
      BY <2>2, <2>4, <3>1 DEF AnswersAreCached
  <2> QED
    BY <2>1, <2>3, <2>4 DEF AnswerIInv, LastReply
<1> QED
  BY <1>1, AnswerInvariant, PTL
=============================================================================
