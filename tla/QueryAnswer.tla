---------------------------- MODULE QueryAnswer ----------------------------
(***************************************************************************)
(* WordQuery::process: the answer to one query, from the cache or by       *)
(* reporting the unknown words, merging the posting lists (ExecuteQuery),  *)
(* ranking the documents and listing the best.                             *)
(*                                                                         *)
(* A word of the query is numbered by its first occurrence.  The weight of *)
(* a word in a document is tf * idf up to a factor that is the same for    *)
(* the whole document and cancels in the score, so integers stand for it.  *)
(***************************************************************************)
EXTENDS ExecuteQuery, Integers, SequencesExt

CONSTANTS
  MaxTf,       \* bound: how often a word occurs in a document
  Idf,         \* idf by number of documents, rounded to integers
  Limit,       \* documents in an answer (100)
  OldAnswer    \* what the cache file may hold for the query

ASSUME AnswerAssumption ==
  /\ MaxTf \in Nat
  /\ \A list \in Postings : Idf[Len(list)] \in Int
  /\ Limit \in Nat
  /\ OldAnswer \in Seq(Nat)

VARIABLES
  query,       \* the words segmentation found, as numbers
  known,       \* those that the index has, if only with no documents
  stage,       \* where process() is
  checked,     \* how many words have been looked up
  tf,          \* how often each word occurs in each document found
  ranking,     \* resultVec after stable_sort
  replies,     \* what was sent to the client
  cached       \* the cache's entry for the query

answerVars == <<query, known, stage, checked, tf, ranking, replies, cached>>
allVars == <<vars, answerVars>>

Answer(docs) == [found |-> TRUE, docs |-> docs]
NoAnswer == [found |-> FALSE, docs |-> <<>>]     \* returnNoAnswer()
NoEntry == [found |-> FALSE, docs |-> <<0>>]     \* get() returned ""

AnswerInit ==
  /\ \E n \in 0..MaxWords :
       /\ query \in {q \in [1..n -> 1..n] : \A i \in 1..n :
                       q[i] = 1 \/ \E j \in 1..(i - 1) : q[i] <= q[j] + 1}
       /\ \E postings \in [ToSet(query) -> Postings] :
            lists = [i \in 1..n |-> postings[query[i]]]
       /\ known \in {w \in SUBSET ToSet(query) : \A i \in 1..n : lists[i] # <<>> => query[i] \in w}
  /\ collected = 0
  /\ minIterNum = NoLimit
  /\ passed = [i \in Words |-> 0]
  /\ resultVec = <<>>
  /\ pc = "collect"
  /\ stage = "cache"
  /\ checked = 0
  /\ tf = <<>>
  /\ ranking = <<>>
  /\ replies = <<>>
  /\ cached \in {NoEntry, Answer(OldAnswer)}

CacheHit ==
  /\ stage = "cache"
  /\ cached # NoEntry
  /\ replies' = <<cached>>
  /\ stage' = "returned"
  /\ UNCHANGED <<vars, query, known, checked, tf, ranking, cached>>

CacheMiss ==
  /\ stage = "cache"
  /\ cached = NoEntry
  /\ stage' = "lookUp"
  /\ UNCHANGED <<vars, query, known, checked, tf, ranking, replies, cached>>

Apologies(i) == IF query[i] \in known THEN <<>> ELSE <<NoAnswer>>

\* Mutant: the iterator advances in the loop's head and in its body.
LookUpEverySecond ==
  /\ stage = "lookUp"
  /\ checked < Len(query)
  /\ checked' = checked + 2
  /\ replies' = replies \o Apologies(checked + 1)
  /\ UNCHANGED <<vars, query, known, stage, tf, ranking, cached>>

\* Mutant: the first unknown word ends the loop.
LookUpAndBreak ==
  /\ stage = "lookUp"
  /\ checked < Len(query)
  /\ checked' = IF query[checked + 1] \in known THEN checked + 1 ELSE Len(query)
  /\ replies' = replies \o Apologies(checked + 1)
  /\ UNCHANGED <<vars, query, known, stage, tf, ranking, cached>>

\* Every word that is not in the index is answered at once.
LookUpWord ==
  /\ stage = "lookUp"
  /\ checked < Len(query)
  /\ checked' = checked + 1
  /\ replies' = replies \o Apologies(checked + 1)
  /\ UNCHANGED <<vars, query, known, stage, tf, ranking, cached>>

\* The weights of the query follow from the lists, see BaseWeight.
LookedUp ==
  /\ stage = "lookUp"
  /\ checked = Len(query)
  /\ stage' = "executeQuery"
  /\ UNCHANGED <<vars, query, known, checked, tf, ranking, replies, cached>>

Execute ==
  /\ stage = "executeQuery"
  /\ Next
  /\ UNCHANGED answerVars

\* Mutant: what was not found is cached, too.
CacheNotFound ==
  /\ stage = "executeQuery"
  /\ pc = "false"
  /\ replies' = Append(replies, NoAnswer)
  /\ cached' = NoAnswer
  /\ stage' = "returned"
  /\ UNCHANGED <<vars, query, known, checked, tf, ranking>>

NotFound ==
  /\ stage = "executeQuery"
  /\ pc = "false"
  /\ replies' = Append(replies, NoAnswer)
  /\ stage' = "returned"
  /\ UNCHANGED <<vars, query, known, checked, tf, ranking, cached>>

\* The sum of f over the words, added in their order.
Sum(f) ==
  LET upTo[n \in 0..Len(lists)] == IF n = 0 THEN 0 ELSE upTo[n - 1] + f[n]
  IN  upTo[Len(lists)]

IdfOf(i) == Idf[Len(lists[i])]

\* getQueryWordsWeightVector, before normalisation.
BaseWeight(i) == IdfOf(i) * Cardinality({j \in Words : query[j] = query[i]})

\* Mutant: damps the frequency by its logarithm, which is 0 for one occurrence.
DampedWeight(freq, r, i) == IdfOf(i) * (freq[query[i]][r.weights[i]] - 1)

\* The weight vector of a document that executeQuery found.
DocWeight(freq, r, i) == IdfOf(i) * freq[query[i]][r.weights[i]]

CrossProduct(freq, r) == Sum([i \in Words |-> DocWeight(freq, r, i) * BaseWeight(i)])
VectorLength(freq, r) == Sum([i \in Words |-> DocWeight(freq, r, i) * DocWeight(freq, r, i)])

\* a / sqrt(A) < b / sqrt(B) for a, b >= 0; if one is 0 / 0 it is false.
ScoresLess(freq, l, r) ==
  /\ VectorLength(freq, l) # 0
  /\ VectorLength(freq, r) # 0
  /\ CrossProduct(freq, l) * CrossProduct(freq, l) * VectorLength(freq, r)
       < CrossProduct(freq, r) * CrossProduct(freq, r) * VectorLength(freq, l)

\* Mutant: the comparison the wrong way round.
RanksAfter(freq, l, r) == ScoresLess(freq, l, r)

\* SimilarityCompare: true for equal elements as well.
RanksBefore(freq, l, r) == ~ScoresLess(freq, l, r)

\* stable_sort inserts each element, from behind, among those that are sorted,
\* at the front if it ranks before the first; merging such parts, as it does
\* with many, gives the same order, in which equal elements are reversed.
Place(freq, sorted, r) ==
  LET after == {k \in 1..Len(sorted) : ~RanksBefore(freq, r, sorted[k])}
      k == IF 1 \notin after THEN 0 ELSE CHOOSE l \in after : \A m \in after : m <= l
  IN  InsertAt(sorted, k + 1, r)

StableSort(freq) ==
  LET sorted[n \in 0..Len(resultVec)] ==
        IF n = 0 THEN <<>> ELSE Place(freq, sorted[n - 1], resultVec[n])
  IN  sorted[Len(resultVec)]

FoundDocs == {resultVec[k].docid : k \in 1..Len(resultVec)}

Rank ==
  /\ stage = "executeQuery"
  /\ pc = "true"
  /\ tf' \in [ToSet(query) -> [FoundDocs -> 1..MaxTf]]
  /\ ranking' = StableSort(tf')
  /\ stage' = "rank"
  /\ UNCHANGED <<vars, query, known, checked, replies, cached>>

\* Mutant: leaves the loop before the first document is added.
ListTail(docs) == SubSeq(docs, 1, IF Len(docs) < Limit THEN Len(docs) - 1 ELSE Limit - 1)

\* createJson breaks after the Limit-th document.
ListBest(docs) == SubSeq(docs, 1, IF Len(docs) < Limit THEN Len(docs) ELSE Limit)

SendAnswer ==
  /\ stage = "rank"
  /\ LET answer == Answer(ListBest([k \in 1..Len(ranking) |-> ranking[k].docid])) IN
       /\ replies' = Append(replies, answer)
       /\ cached' = answer
  /\ stage' = "returned"
  /\ UNCHANGED <<vars, query, known, checked, tf, ranking>>

AnswerNext ==
  \/ CacheHit \/ CacheMiss \/ LookUpWord \/ LookedUp
  \/ Execute \/ NotFound \/ Rank \/ SendAnswer

\* One worker runs the call: it keeps going.
AnswerSpec == AnswerInit /\ [][AnswerNext]_allVars /\ WF_allVars(AnswerNext)

-----------------------------------------------------------------------------
(* Properties. *)

Replies == [found : BOOLEAN, docs : Seq(Nat)]

AnswerTypeOK ==
  /\ query \in Seq(1..MaxWords)
  /\ DOMAIN query = Words
  /\ known \subseteq ToSet(query)
  /\ stage \in {"cache", "lookUp", "executeQuery", "rank", "returned"}
  /\ checked \in 0..Len(query)
  /\ replies \in Seq(Replies)
  /\ cached \in Replies

\* The sort keeps every document, although its comparison is no ordering
\* (two equal elements each rank before the other), and puts none in front of
\* one that scores more.
RankedBestFirst ==
  stage = "rank" =>
    /\ ToSet(ranking) = ToSet(resultVec)
    /\ Len(ranking) = Len(resultVec)
    /\ \A k, l \in 1..Len(ranking) : k < l => ~ScoresLess(tf, ranking[k], ranking[l])

\* An undefined score (0 / 0) would compare as best with everything and spoil
\* the order of the rest; a query gives either all its documents one or none.
ScoresAllOrNone ==
  stage = "rank" =>
    \A k, l \in 1..Len(ranking) :
      VectorLength(tf, ranking[k]) = 0 => CrossProduct(tf, ranking[l]) = 0

\* What is listed was found, each document once, and nothing that was found
\* and is missing from a full or short list scores more than what is listed.
BestAreListed ==
  stage = "returned" /\ ranking # <<>> =>
    LET docs == Last(replies).docs
        record(d) == CHOOSE r \in ToSet(resultVec) : r.docid = d
    IN  /\ ToSet(docs) \subseteq FoundDocs
        /\ \A k, l \in 1..Len(docs) : k # l => docs[k] # docs[l]
        /\ Len(docs) < Limit => ToSet(docs) = FoundDocs
        /\ \A d \in FoundDocs \ ToSet(docs) : \A k \in 1..Len(docs) :
             ~ScoresLess(tf, record(docs[k]), record(d))

\* The answer lists the best of what the merge found, although the documents
\* are sorted with a comparison that holds for equal elements.
RankingIsRight ==
  /\ AnswerTypeOK
  /\ RankedBestFirst
  /\ ScoresAllOrNone
  /\ BestAreListed

UnknownUpTo(n) == {i \in 1..n : query[i] \notin known}
EveryWordHasDocs == query # <<>> /\ \A i \in Words : lists[i] # <<>>

\* What the cache has is the only reply; executeQuery is not called.  Otherwise
\* every occurrence of a word that is not in the index is apologised for, and
\* one more reply follows: an answer exactly if every word has documents, which
\* is then what the cache holds, and else an apology, which is never cached.
AnswersAreCached ==
  stage = "returned" =>
    IF pc = "collect"
    THEN replies = <<cached>> /\ cached = Answer(OldAnswer)
    ELSE /\ Len(replies) = Cardinality(UnknownUpTo(Len(query))) + 1
         /\ \A k \in 1..Len(replies) - 1 : replies[k] = NoAnswer
         /\ IF EveryWordHasDocs
            THEN Last(replies).found /\ cached = Last(replies)
            ELSE Last(replies) = NoAnswer /\ cached = NoEntry

\* process() returns for every query, and has replied by then.
Answered == <>(stage = "returned" /\ replies # <<>>)
=============================================================================
