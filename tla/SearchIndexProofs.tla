------------------------- MODULE SearchIndexProofs ------------------------
(***************************************************************************)
(* The library, its index and its files, for every library, similarity and *)
(* order of the hash table.                                                *)
(*                                                                         *)
(* Of cutRedundantPages the invariant says which pairs have been compared: *)
(* all pairs whose first index is below i, and those of i with an index    *)
(* below j.  Moving the last page to j keeps it, because that page lies    *)
(* beyond j.                                                               *)
(*                                                                         *)
(* Of the files it says what each holds of the library once it is written, *)
(* and of the reader that the words of the lines it has read are in its    *)
(* table with all that can be read, except the word of the line it is at,  *)
(* of which it has the first postings and the line the others.             *)
(***************************************************************************)
EXTENDS SearchIndex, SequenceTheorems, FiniteSetTheorems, WellFoundedInduction, TLAPS

\* No page at an index from lo to hi - 1 (counted from 0) is similar to the
\* page at index k.
NoneSimilar(k, lo, hi) ==
  \A l \in 0..(Size - 1) : lo <= l /\ l < hi => <<Page(k), Page(l)>> \notin similar

Compared ==
  /\ \A k \in 0..(Size - 1) : k < i => NoneSimilar(k, k + 1, Size)
  /\ pc = "inner" /\ i < Size => NoneSimilar(i, i + 1, j)

Twins ==
  \A p \in loaded :
    \/ \E k \in 1..Size : pageLib[k] = p
    \/ \E k \in 1..Size : k <= i + 1 /\ <<pageLib[k], p>> \in similar

\* The outer index stays within the vector until the overrun.
Indices ==
  /\ pc = "inner" => i + 1 <= j
  /\ pc = "inner" /\ i < Size => j <= Size
  /\ i <= Size
  /\ pc = "done" => i = Size - 1
  /\ pc = "overrun" => i = Size

IInv == TypeOK /\ Compared /\ Twins /\ Indices

LEMMA InitIInv == ASSUME DedupAssumption, Init PROVE IInv
<1>1. PICK n \in 0..MaxPages : pageLib \in [1..n -> Pages]
  BY DEF Init
<1>2. n \in Nat
  BY DEF DedupAssumption
<1>3. pageLib \in Seq(Pages) /\ Size = n
  BY <1>1, <1>2 DEF Size
<1>4. loaded = {pageLib[k] : k \in 1..Size}
  BY DEF Init, Size
<1>5. loaded \subseteq Pages
  BY <1>1, <1>3, <1>4
<1>6. TypeOK
  BY <1>3, <1>5 DEF Init, TypeOK
<1>7. Compared
  BY <1>2, <1>3 DEF Init, Compared
<1>8. Twins
  BY <1>4 DEF Twins
<1>9. Indices
  BY <1>2, <1>3 DEF Init, Indices
<1> QED
  BY <1>6, <1>7, <1>8, <1>9 DEF IInv

\* The steps that only move the indices.
LEMMA IndexStep ==
  ASSUME IInv, OuterRound \/ OuterDone \/ InnerDone \/ ReadPastEnd \/ KeepPage
  PROVE  IInv'
<1>1. Size' = Size /\ Size \in Nat /\ i \in Nat /\ j \in Nat
  BY DEF IInv, TypeOK, Size, OuterRound, OuterDone, InnerDone, ReadPastEnd,
         KeepPage
<1>2. \A k : Page(k)' = Page(k)
  BY DEF Page, OuterRound, OuterDone, InnerDone, ReadPastEnd, KeepPage
<1>3. similar' = similar /\ loaded' = loaded /\ pageLib' = pageLib
  BY DEF OuterRound, OuterDone, InnerDone, ReadPastEnd, KeepPage
<1>4. TypeOK'
  BY <1>1, <1>3
     DEF IInv, TypeOK, OuterRound, OuterDone, InnerDone, ReadPastEnd, KeepPage
<1>5. Twins'
  <2>1. i <= i' /\ i' \in Nat
    BY <1>1 DEF OuterRound, OuterDone, InnerDone, ReadPastEnd, KeepPage
  <2> SUFFICES ASSUME NEW p \in loaded
               PROVE  \/ \E k \in 1..Size : pageLib[k] = p
                      \/ \E k \in 1..Size : k <= i' + 1 /\ <<pageLib[k], p>> \in similar
    BY <1>1, <1>3 DEF Twins
  <2>2. ASSUME NEW k \in 1..Size, k <= i + 1 PROVE k <= i' + 1
    <3>1. k \in Nat
      BY <1>1
    <3>2. i' = i \/ i' = i + 1
      BY DEF OuterRound, OuterDone, InnerDone, ReadPastEnd, KeepPage
    <3>3. CASE i' = i
      BY <2>2, <3>3
    <3>4. CASE i' = i + 1
      BY <1>1, <2>2, <3>1, <3>4
    <3> QED
      BY <3>2, <3>3, <3>4
  <2> QED
    BY <2>2 DEF IInv, Twins
<1>6. CASE OuterRound
  BY <1>1, <1>2, <1>4, <1>5, <1>6
     DEF IInv, Compared, NoneSimilar, Indices, OuterRound
<1>7. CASE OuterDone
  BY <1>1, <1>2, <1>4, <1>5, <1>7
     DEF IInv, Compared, NoneSimilar, Indices, OuterDone
<1>8. CASE InnerDone
  BY <1>1, <1>2, <1>4, <1>5, <1>8
     DEF IInv, Compared, NoneSimilar, Indices, InnerDone
<1>9. CASE ReadPastEnd
  BY <1>1, <1>2, <1>4, <1>5, <1>9
     DEF IInv, Compared, NoneSimilar, Indices, ReadPastEnd
<1>10. CASE KeepPage
  BY <1>1, <1>2, <1>4, <1>5, <1>10
     DEF IInv, Compared, NoneSimilar, Indices, KeepPage
<1> QED
  BY <1>6, <1>7, <1>8, <1>9, <1>10

\* What the vector is after the last page took the place of the j-th.
LEMMA DropFacts ==
  ASSUME IInv, DropPage
  PROVE  /\ pageLib' \in Seq(Pages)
         /\ Size \in Nat /\ i \in Nat /\ j \in Nat
         /\ i < j /\ j < Size
         /\ Size' = Size - 1
         /\ \A k \in 0..(Size - 2) : Page(k)' = IF k = j THEN Page(Size - 1) ELSE Page(k)
<1> DEFINE moved == [pageLib EXCEPT ![j + 1] = Page(Size - 1)]
<1>1. /\ Size \in Nat /\ i \in Nat /\ j \in Nat
      /\ j < Size /\ i < j
  BY DEF IInv, TypeOK, Indices, DropPage, Size
<1>2. Page(Size - 1) \in Pages
  BY <1>1 DEF IInv, TypeOK, Size, Page
<1>3. /\ moved \in Seq(Pages)
      /\ Len(moved) = Size
      /\ \A k \in 1..Size : moved[k] = IF k = j + 1 THEN Page(Size - 1) ELSE pageLib[k]
  BY <1>1, <1>2 DEF IInv, TypeOK, Size
<1>4. pageLib' = SubSeq(moved, 1, Size - 1)
  BY DEF DropPage
<1> HIDE DEF moved
<1>5. /\ pageLib' \in Seq(Pages)
      /\ Len(pageLib') = Size - 1
      /\ \A k \in 1..(Size - 1) : pageLib'[k] = moved[k]
  BY <1>1, <1>3, <1>4
<1>6. ASSUME NEW k \in 0..(Size - 2)
      PROVE  Page(k)' = IF k = j THEN Page(Size - 1) ELSE Page(k)
  <2>1. k + 1 \in 1..(Size - 1) /\ k + 1 \in 1..Size
    BY <1>1
  <2>2. pageLib'[k + 1] = IF k + 1 = j + 1 THEN Page(Size - 1) ELSE pageLib[k + 1]
    BY <1>3, <1>5, <2>1
  <2>3. Page(k)' = pageLib'[k + 1]
    BY DEF Page
  <2> QED
    BY <1>1, <2>2, <2>3 DEF Page
<1> QED
  BY <1>1, <1>5, <1>6 DEF Size

LEMMA DropStep == ASSUME IInv, DropPage PROVE IInv'
<1>1. /\ pageLib' \in Seq(Pages)
      /\ Size \in Nat /\ i \in Nat /\ j \in Nat
      /\ i < j /\ j < Size
      /\ Size' = Size - 1
      /\ \A k \in 0..(Size - 2) : Page(k)' = IF k = j THEN Page(Size - 1) ELSE Page(k)
  BY DropFacts
<1>2. /\ similar' = similar /\ loaded' = loaded
      /\ i' = i /\ j' = j /\ pc = "inner" /\ pc' = "inner"
      /\ <<Page(i), Page(j)>> \in similar
  BY DEF DropPage
<1>3. TypeOK'
  BY <1>1, <1>2 DEF IInv, TypeOK
<1>4. Indices'
  BY <1>1, <1>2 DEF IInv, Indices
<1>5. Compared'
  <2>1. ASSUME NEW k \in 0..(Size' - 1), k < i, NEW l \in 0..(Size' - 1), k + 1 <= l
        PROVE  <<Page(k)', Page(l)'>> \notin similar
    <3>1. NoneSimilar(k, k + 1, Size)
      BY <1>1, <2>1 DEF IInv, Compared
    <3>2. Page(k)' = Page(k)
      BY <1>1, <2>1
    <3>3. l \in 0..(Size - 2) /\ k \in 0..(Size - 2)
      BY <1>1, <2>1
    <3>4. PICK m \in 0..(Size - 1) : Page(l)' = Page(m) /\ k + 1 <= m
      BY <1>1, <2>1, <3>3
    <3> QED
      BY <1>1, <3>1, <3>2, <3>3, <3>4 DEF NoneSimilar
  <2>2. ASSUME NEW l \in 0..(Size' - 1), i + 1 <= l, l < j
        PROVE  <<Page(i)', Page(l)'>> \notin similar
    <3>1. NoneSimilar(i, i + 1, j)
      BY <1>1, <1>2 DEF IInv, Compared
    <3>2. Page(i)' = Page(i) /\ Page(l)' = Page(l)
      BY <1>1, <1>2, <2>2
    <3> QED
      BY <1>1, <2>2, <3>1, <3>2 DEF NoneSimilar
  <2> QED
    BY <1>1, <1>2, <2>1, <2>2 DEF Compared, NoneSimilar
<1>6. Twins'
  <2> SUFFICES ASSUME NEW p \in loaded
               PROVE  \/ \E k \in 1..Size' : pageLib'[k] = p
                      \/ \E k \in 1..Size' : k <= i + 1 /\ <<pageLib'[k], p>> \in similar
    BY <1>2 DEF Twins
  <2>1. \A k \in 1..(Size - 1) :
          pageLib'[k] = IF k = j + 1 THEN pageLib[Size] ELSE pageLib[k]
    <3> SUFFICES ASSUME NEW k \in 1..(Size - 1)
                 PROVE  pageLib'[k] = IF k = j + 1 THEN pageLib[Size] ELSE pageLib[k]
      OBVIOUS
    <3>1. k - 1 \in 0..(Size - 2) /\ (k - 1) + 1 = k /\ (Size - 1) + 1 = Size
      BY <1>1
    <3>2. Page(k - 1)' = pageLib'[k]
      BY <3>1 DEF Page
    <3>3. Page(k - 1) = pageLib[k] /\ Page(Size - 1) = pageLib[Size]
      BY <3>1 DEF Page
    <3>4. k - 1 = j <=> k = j + 1
      BY <1>1
    <3> QED
      BY <1>1, <3>1, <3>2, <3>3, <3>4
  <2>2. CASE \E k \in 1..Size : k <= i + 1 /\ <<pageLib[k], p>> \in similar
    <3>1. PICK k \in 1..Size : k <= i + 1 /\ <<pageLib[k], p>> \in similar
      BY <2>2
    <3>2. k \in 1..(Size - 1) /\ k # j + 1
      BY <1>1, <3>1
    <3> QED
      BY <1>1, <2>1, <3>1, <3>2
  <2>3. CASE \E k \in 1..Size : pageLib[k] = p
    <3>1. PICK k \in 1..Size : pageLib[k] = p
      BY <2>3
    <3>2. CASE k = j + 1
      \* The page that is dropped has its twin at i.
      <4>1. <<pageLib[i + 1], p>> \in similar
        BY <1>2, <3>1, <3>2 DEF Page
      <4>2. i + 1 \in 1..(Size - 1) /\ i + 1 # j + 1
        BY <1>1
      <4>3. pageLib'[i + 1] = pageLib[i + 1] /\ i + 1 \in 1..Size' /\ i + 1 <= i + 1
        BY <1>1, <2>1, <4>2
      <4> QED
        BY <4>1, <4>3
    <3>3. CASE k # j + 1 /\ k < Size
      BY <1>1, <2>1, <3>1, <3>3
    <3>4. CASE k # j + 1 /\ k = Size
      <4>1. j + 1 \in 1..(Size - 1)
        BY <1>1, <3>4
      <4> QED
        BY <1>1, <2>1, <3>1, <3>4, <4>1
    <3> QED
      BY <1>1, <3>2, <3>3, <3>4
  <2> QED
    BY <2>2, <2>3 DEF IInv, Twins
<1> QED
  BY <1>3, <1>4, <1>5, <1>6 DEF IInv

-----------------------------------------------------------------------------
(* The theorems. *)

LEMMA NextIInv == ASSUME IInv, [Next]_vars PROVE IInv'
<1>1. CASE UNCHANGED vars
  BY <1>1 DEF vars, IInv, TypeOK, Compared, NoneSimilar, Twins, Indices, Size, Page
<1> QED
  BY <1>1, IndexStep, DropStep DEF Next

\* IInv holds throughout the deduplication of every library.
THEOREM DedupInvariant == Spec => []IInv
<1>1. Init => IInv
  BY InitIInv, DedupAssumption
<1>2. IInv /\ [Next]_vars => IInv'
  BY NextIInv
<1> QED
  BY <1>1, <1>2, PTL DEF Spec

\* The variables keep their types.
THEOREM DedupTypes == Spec => []TypeOK
<1>1. IInv => TypeOK
  BY DEF IInv
<1> QED
  BY <1>1, DedupInvariant, PTL

\* However the loops end, no two similar pages are left.
THEOREM DedupIsComplete == Spec => []NoSimilarPairLeft
<1>1. IInv => NoSimilarPairLeft
  <2> SUFFICES ASSUME IInv, pc \in {"done", "overrun"},
                      NEW k \in 1..Size, NEW l \in 1..Size, k < l
               PROVE  <<pageLib[k], pageLib[l]>> \notin similar
    BY DEF NoSimilarPairLeft
  <2>1. Size \in Nat /\ i \in Nat /\ (i = Size - 1 \/ i = Size)
    BY DEF IInv, TypeOK, Indices, Size
  <2>2. /\ k - 1 \in 0..(Size - 1) /\ l - 1 \in 0..(Size - 1)
        /\ k - 1 < i /\ (k - 1) + 1 <= l - 1
        /\ (k - 1) + 1 = k /\ (l - 1) + 1 = l
    BY <2>1
  <2>3. NoneSimilar(k - 1, (k - 1) + 1, Size)
    BY <2>2 DEF IInv, Compared
  <2>4. <<Page(k - 1), Page(l - 1)>> \notin similar
    BY <2>1, <2>2, <2>3 DEF NoneSimilar
  <2> QED
    BY <2>2, <2>4 DEF Page
<1> QED
  BY <1>1, DedupInvariant, PTL

\* Every page that was dropped has a similar one that stays.
THEOREM DedupKeepsTwins == Spec => []DroppedHaveTwin
<1>1. IInv => DroppedHaveTwin
  BY DEF IInv, Twins, DroppedHaveTwin
<1> QED
  BY <1>1, DedupInvariant, PTL

\* cutRedundantPages leaves a library without repetition that represents all
\* pages it was given, whatever the library and the similarity.
THEOREM DedupStaysRight == Spec => []DedupIsRight
<1>1. TypeOK /\ NoSimilarPairLeft /\ DroppedHaveTwin => DedupIsRight
  BY DEF DedupIsRight
<1> QED
  BY <1>1, DedupTypes, DedupIsComplete, DedupKeepsTwins, PTL

-----------------------------------------------------------------------------
(* The library that the index is made of. *)

\* Every set of natural numbers that is not empty has a least element.
LEMMA LeastNat ==
  ASSUME NEW T, T \subseteq Nat, T # {}
  PROVE  \E n \in T : \A m \in T : n <= m
<1>1. PICK n \in T : \A m \in T : ~(<<m, n>> \in OpToRel(<, Nat))
  BY NatLessThanWellFounded, WFMin
<1>2. \A m \in T : ~(m < n)
  BY <1>1 DEF OpToRel
<1> QED
  BY <1>2

\* Sharing more than three quarters of the top words is symmetric, and a page
\* that shares any is similar to itself.
LEMMA AlikeFacts ==
  ASSUME NEW p \in Pages, NEW q \in Pages, Alike(p, q)
  PROVE  Alike(q, p) /\ Alike(p, p)
<1>1. PICK S, T, U : S = TopWords[p] /\ T = TopWords[q] /\ U = S \cap T
  OBVIOUS
<1>2. S \subseteq Words /\ T \subseteq Words /\ U \subseteq S /\ U \subseteq T /\ U = T \cap S /\ S \cap S = S
  BY <1>1, IndexAssumption
<1>3. IsFiniteSet(S) /\ IsFiniteSet(T)
  BY <1>2, IndexAssumption, FS_Subset
<1>4. /\ Cardinality(S) \in Nat /\ Cardinality(T) \in Nat /\ Cardinality(U) \in Nat
      /\ Cardinality(U) <= Cardinality(S)
  BY <1>2, <1>3, FS_Subset, FS_CardinalityType
<1>5. 4 * Cardinality(U) > 3 * Cardinality(IF Cardinality(S) < Cardinality(T) THEN S ELSE T)
  BY <1>1 DEF Alike
<1>6. 4 * Cardinality(U) > 3 * Cardinality(IF Cardinality(T) < Cardinality(S) THEN T ELSE S)
  BY <1>4, <1>5
<1>7. 4 * Cardinality(S) > 3 * Cardinality(S)
  BY <1>4, <1>5
<1>8. Alike(q, p)
  BY <1>1, <1>2, <1>6 DEF Alike
<1>9. Alike(p, p)
  BY <1>1, <1>2, <1>7 DEF Alike
<1> QED
  BY <1>8, <1>9

LEMMA IndexInitInit ==
  ASSUME IndexInit
  PROVE  Init
<1> DEFINE W == {p.words : p \in Pages}
<1>1. PICK n \in 0..MaxPages : \E words \in [1..n -> W] :
        pageLib = [k \in 1..n |-> [docId |-> k, words |-> words[k]]]
  BY DEF IndexInit
<1>2. PICK words \in [1..n -> W] : pageLib = [k \in 1..n |-> [docId |-> k, words |-> words[k]]]
  BY <1>1
<1>3. n \in Nat /\ 1..n \subseteq 1..MaxPages
  BY <1>1, DedupAssumption
<1>4. \A k \in 1..n : [docId |-> k, words |-> words[k]] \in Pages
  BY <1>2, <1>3, IndexAssumption
<1>5. pageLib \in [1..n -> Pages]
  BY <1>2, <1>4
<1>6. loaded \subseteq Pages
  <2>1. pageLib \in Seq(Pages)
    BY <1>3, <1>5, SeqDef
  <2>2. \A k \in 1..Len(pageLib) : pageLib[k] \in Pages
    BY <2>1, ElementOfSeq
  <2> QED
    BY <2>2 DEF IndexInit
<1>7. similar \in SUBSET (Pages \X Pages)
  BY <1>6 DEF IndexInit
<1>8. SharesTopWords(similar)
  <2> SUFFICES ASSUME NEW p \in Pages, NEW q \in Pages, <<p, q>> \in similar
               PROVE  <<q, p>> \in similar /\ <<p, p>> \in similar
    BY DEF SharesTopWords
  <2>1. similar = {pair \in loaded \X loaded : Alike(pair[1], pair[2])}
    BY DEF IndexInit
  <2>2. p \in loaded /\ q \in loaded /\ Alike(p, q)
    BY <2>1
  <2>3. Alike(q, p) /\ Alike(p, p)
    BY <2>2, AlikeFacts
  <2> QED
    BY <2>1, <2>2, <2>3
<1> QED
  BY <1>1, <1>5, <1>7, <1>8 DEF IndexInit, Init

\* No two pages have the same id.
IdsDiffer == \A k, l \in 1..Size : pageLib[k].docId = pageLib[l].docId => k = l

LEMMA IdsDifferAtFirst ==
  ASSUME IndexInit
  PROVE  IdsDiffer
<1>1. PICK n \in 0..MaxPages : \E words \in [1..n -> {p.words : p \in Pages}] :
        pageLib = [k \in 1..n |-> [docId |-> k, words |-> words[k]]]
  BY DEF IndexInit
<1>2. PICK words : pageLib = [k \in 1..n |-> [docId |-> k, words |-> words[k]]]
  BY <1>1
<1>3. n \in Nat
  BY <1>1, DedupAssumption
<1>4. Size = n
  BY <1>2, <1>3 DEF Size
<1>5. \A k \in 1..Size : pageLib[k].docId = k
  BY <1>2, <1>4
<1> QED
  BY <1>5 DEF IdsDiffer

LEMMA IdsDifferStep ==
  ASSUME IInv, IdsDiffer, [Next]_vars
  PROVE  IdsDiffer'
<1>1. CASE pageLib' = pageLib
  BY <1>1 DEF IdsDiffer, Size
<1>2. CASE DropPage
  <2>1. /\ Size \in Nat /\ j \in Nat /\ j < Size /\ Size' = Size - 1
        /\ \A k \in 0..(Size - 2) : Page(k)' = IF k = j THEN Page(Size - 1) ELSE Page(k)
    BY <1>2, DropFacts
  <2>2. \A k \in 1..Size : pageLib[k] = Page(k - 1)
    BY <2>1 DEF Page
  <2> DEFINE old(k) == IF k = j + 1 THEN Size ELSE k
  <2>3. ASSUME NEW k \in 1..(Size - 1)
        PROVE  pageLib'[k] = pageLib[old(k)] /\ old(k) \in 1..Size
    <3>1. k - 1 \in 0..(Size - 2) /\ (k - 1) + 1 = k /\ k \in 1..Size /\ Size \in 1..Size /\ (k - 1 = j <=> k = j + 1)
      BY <2>1
    <3>2. Page(k - 1)' = pageLib'[k]
      BY <3>1 DEF Page
    <3> QED
      BY <3>1, <3>2, <2>1, <2>2
  <2>4. \A k, l \in 1..(Size - 1) : old(k) = old(l) => k = l
    BY <2>1
  <2> QED
    BY <2>1, <2>3, <2>4 DEF IdsDiffer
<1> QED
  BY <1>1, <1>2 DEF Next, OuterRound, OuterDone, InnerDone, ReadPastEnd, KeepPage, vars

\* u takes the steps from e.
Iterates(u, e, step, n) ==
  /\ u[0] = e
  /\ \A m \in 1..n : u[m] = step[m][u[m - 1]]

LEMMA IterationExists ==
  ASSUME NEW N \in Nat, NEW S, NEW e \in S, NEW step, step \in [1..N -> [S -> S]]
  PROVE  \E u : u \in [0..N -> S] /\ Iterates(u, e, step, N)
<1> DEFINE Upto(n) == \E u : u \in [0..n -> S] /\ Iterates(u, e, step, n)
           T == {n \in Nat : n <= N /\ ~Upto(n)}
<1>1. SUFFICES ASSUME T # {} PROVE FALSE
  <2>1. N \notin T => Upto(N)
    OBVIOUS
  <2> QED
    BY <2>1
<1>2. PICK n \in T : \A m \in T : n <= m
  <2>1. T \subseteq Nat
    OBVIOUS
  <2> HIDE DEF T
  <2> QED
    BY <1>1, <2>1, LeastNat
<1>3. n \in Nat /\ n <= N /\ ~Upto(n)
  BY <1>2
<1>4. CASE n = 0
  <2>1. PICK u : u = [m \in 0..0 |-> e]
    OBVIOUS
  <2>2. u \in [0..0 -> S] /\ u[0] = e
    BY <2>1
  <2>3. Upto(0)
    BY <2>2 DEF Iterates
  <2> QED
    BY <1>3, <1>4, <2>3
<1>5. CASE n # 0
  <2>1. Upto(n - 1)
    <3>1. n - 1 \in Nat /\ n - 1 <= N /\ ~(n <= n - 1)
      BY <1>3, <1>5
    <3>2. n - 1 \notin T
      <4> HIDE DEF T
      <4> QED
        BY <1>2, <3>1
    <3> HIDE DEF Upto
    <3> QED
      BY <3>1, <3>2
  <2>2. PICK u : u \in [0..n - 1 -> S] /\ Iterates(u, e, step, n - 1)
    BY <2>1
  <2>3. PICK r : r = step[n][u[n - 1]] /\ r \in S
    <3>1. n \in 1..N /\ n - 1 \in 0..n - 1
      BY <1>3, <1>5
    <3> QED
      BY <3>1, <2>2
  <2>4. PICK v : v = [m \in 0..n |-> IF m = n THEN r ELSE u[m]]
    OBVIOUS
  <2>5. v \in [0..n -> S] /\ v[n] = r /\ \A m \in 0..n - 1 : v[m] = u[m]
    BY <1>3, <2>2, <2>3, <2>4
  <2>6. ASSUME NEW m \in 1..n
        PROVE  v[m] = step[m][v[m - 1]]
    <3>1. v[m - 1] = u[m - 1]
      <4>1. PICK k : k = m - 1 /\ k \in 0..n - 1
        BY <1>3
      <4>2. v[k] = u[k]
        BY <4>1, <2>5
      <4> QED
        BY <4>1, <4>2
    <3>2. CASE m = n
      BY <3>1, <3>2, <2>3, <2>5
    <3>3. CASE m # n
      <4>1. m \in 0..n - 1 /\ m \in 1..n - 1
        BY <1>3, <3>3
      <4> QED
        BY <4>1, <3>1, <2>2, <2>5 DEF Iterates
    <3> QED
      BY <3>2, <3>3
  <2>7. v[0] = e
    <3>1. 0 \in 0..n - 1
      BY <1>3, <1>5
    <3> QED
      BY <3>1, <2>2, <2>5 DEF Iterates
  <2>8. Iterates(v, e, step, n)
    BY <2>6, <2>7 DEF Iterates
  <2> QED
    BY <1>3, <2>5, <2>8
<1> QED
  BY <1>4, <1>5

LEMMA LibraryFacts ==
  ASSUME IInv
  PROVE  /\ Size \in Nat /\ Size = Len(pageLib)
         /\ ToSet(pageLib) = {pageLib[k] : k \in 1..Size}
         /\ \A k \in 1..Size : /\ pageLib[k] \in Pages
                               /\ pageLib[k].docId \in 1..MaxPages
                               /\ pageLib[k].docId \in Nat
                               /\ TextLength[pageLib[k].docId] \in Nat
                               /\ pageLib[k].words \subseteq Words
<1>1. pageLib \in Seq(Pages)
  BY DEF IInv, TypeOK
<1>2. Size \in Nat /\ Size = Len(pageLib) /\ DOMAIN pageLib = 1..Size
  BY <1>1, LenProperties DEF Size
<1>3. \A k \in 1..Size : pageLib[k] \in Pages
  BY <1>1, <1>2, ElementOfSeq
<1>4. \A p \in Pages : p.docId \in 1..MaxPages /\ p.words \subseteq Words
  BY IndexAssumption
<1>5. \A d \in 1..MaxPages : d \in Nat /\ TextLength[d] \in Nat
  BY IndexAssumption, DedupAssumption
<1> QED
  BY <1>2, <1>3, <1>4, <1>5 DEF ToSet

-----------------------------------------------------------------------------
(* buildInvertIndexTable. *)

\* u[n] lists the ids of those of the first n pages that have the word w.
ListsIds(u, w, n) ==
  /\ u[0] = <<>>
  /\ \A m \in 1..n :
       u[m] = IF w \in pageLib[m].words THEN Append(u[m - 1], pageLib[m].docId) ELSE u[m - 1]

LEMMA ListsExist ==
  ASSUME IInv, NEW w
  PROVE  \E u : u = [m \in 0..Size |-> u[m]] /\ ListsIds(u, w, Size)
<1> DEFINE S == Seq(1..MaxPages)
           step == [m \in 1..Size |-> [s \in S |->
                      IF w \in pageLib[m].words THEN Append(s, pageLib[m].docId) ELSE s]]
<1>1. Size \in Nat /\ \A m \in 1..Size : pageLib[m].docId \in 1..MaxPages
  BY LibraryFacts
<1>2. <<>> \in S
  BY EmptySeq
<1>3. step \in [1..Size -> [S -> S]]
  <2>1. \A m \in 1..Size : \A s \in S : Append(s, pageLib[m].docId) \in S
    BY <1>1
  <2> QED
    BY <2>1
<1>4. PICK u : u \in [0..Size -> S] /\ Iterates(u, <<>>, step, Size)
  <2> HIDE DEF S, step
  <2> QED
    BY <1>1, <1>2, <1>3, IterationExists
<1>5. u = [m \in 0..Size |-> u[m]]
  BY <1>4
<1>6. ASSUME NEW m \in 1..Size
      PROVE  u[m] = IF w \in pageLib[m].words THEN Append(u[m - 1], pageLib[m].docId) ELSE u[m - 1]
  <2>1. PICK s : s = u[m - 1] /\ s \in S
    <3>1. m - 1 \in 0..Size
      BY <1>1
    <3> HIDE DEF S
    <3> QED
      BY <3>1, <1>4
  <2>2. u[m] = step[m][s]
    BY <2>1, <1>4 DEF Iterates
  <2> QED
    BY <2>1, <2>2
<1>7. u[0] = <<>>
  BY <1>4 DEF Iterates
<1> QED
  BY <1>5, <1>6, <1>7 DEF ListsIds

\* s lists the pages among the first n that have the word w, by their ids.
Lists(s, w, n) ==
  s \in Seq(1..MaxPages) /\ ToSet(s) = {pageLib[k].docId : k \in {l \in 1..n : w \in pageLib[l].words}}

LEMMA AppendSet ==
  ASSUME NEW S, NEW s \in Seq(S), NEW e \in S
  PROVE  Append(s, e) \in Seq(S) /\ ToSet(Append(s, e)) = ToSet(s) \cup {e}
<1>1. PICK n : n = Len(s) /\ n \in Nat /\ DOMAIN s = 1..n
  BY LenProperties
<1>2. PICK t : t = Append(s, e)
  OBVIOUS
<1>3. t \in Seq(S) /\ Len(t) = n + 1 /\ t[n + 1] = e /\ \A k \in 1..n : t[k] = s[k]
  BY <1>1, <1>2
<1>4. DOMAIN t = 1..n + 1
  BY <1>3, LenProperties
<1>5. \A k : k \in 1..n + 1 <=> k \in 1..n \/ k = n + 1
  BY <1>1
<1>6. {t[k] : k \in 1..n + 1} = {s[k] : k \in 1..n} \cup {e}
  BY <1>3, <1>5
<1> QED
  BY <1>1, <1>2, <1>3, <1>4, <1>6 DEF ToSet

LEMMA IdsWithLists ==
  ASSUME IInv, NEW w
  PROVE  Lists(IdsWith(w), w, Size)
<1>1. PICK N : N = Size /\ N \in Nat
  BY LibraryFacts
<1>2. \A k \in 1..N : pageLib[k].docId \in 1..MaxPages
  BY <1>1, LibraryFacts
<1> DEFINE F(u) == [n \in 0..N |-> IF n = 0 THEN <<>>
                                   ELSE IF w \in pageLib[n].words THEN Append(u[n - 1], pageLib[n].docId)
                                   ELSE u[n - 1]]
<1>3. PICK u : u = [m \in 0..N |-> u[m]] /\ ListsIds(u, w, N)
  BY <1>1, ListsExist
<1>4. u = F(u)
  <2>1. \A n \in 0..N : u[n] = IF n = 0 THEN <<>>
                               ELSE IF w \in pageLib[n].words THEN Append(u[n - 1], pageLib[n].docId)
                               ELSE u[n - 1]
    <3> TAKE n \in 0..N
    <3>1. n # 0 => n \in 1..N
      BY <1>1
    <3> QED
      BY <3>1, <1>3 DEF ListsIds
  <2> QED
    BY <1>3, <2>1
<1>5. IdsWith(w) = (CHOOSE v : v = F(v))[N]
  BY <1>1 DEF IdsWith
<1>6. PICK v : v = F(v) /\ IdsWith(w) = v[N]
  BY <1>4, <1>5
<1>7. /\ v[0] = <<>>
      /\ \A n \in 1..N : v[n] = IF w \in pageLib[n].words THEN Append(v[n - 1], pageLib[n].docId) ELSE v[n - 1]
  <2>1. 0 \in 0..N /\ \A n \in 1..N : n \in 0..N /\ n # 0
    BY <1>1
  <2> QED
    BY <1>6, <2>1
<1> HIDE DEF F
<1> DEFINE T == {n \in 0..N : ~Lists(v[n], w, n)}
<1>8. T = {}
  <2> SUFFICES ASSUME T # {} PROVE FALSE
    OBVIOUS
  <2>1. PICK n \in T : \A m \in T : n <= m
    <3>1. T \subseteq Nat
      OBVIOUS
    <3> HIDE DEF T
    <3> QED
      BY <3>1, LeastNat
  <2>2. n # 0
    <3>1. <<>> \in Seq(1..MaxPages) /\ ToSet(<<>>) = {}
      BY EmptySeq DEF ToSet
    <3>2. Lists(<<>>, w, 0)
      BY <3>1 DEF Lists
    <3> QED
      BY <2>1, <3>2, <1>7
  <2>3. n - 1 \notin T /\ n - 1 \in 0..N /\ n \in 1..N
    <3>1. n \in 1..N /\ n - 1 \in 0..N /\ ~(n <= n - 1)
      BY <1>1, <2>1, <2>2
    <3> HIDE DEF T
    <3> QED
      BY <3>1, <2>1
  <2>4. PICK s : s = v[n - 1] /\ Lists(s, w, n - 1)
    BY <2>3
  <2>5. \A k : k \in 1..n <=> k \in 1..n - 1 \/ k = n
    BY <2>3
  <2>6. CASE w \in pageLib[n].words
    <3>1. v[n] = Append(s, pageLib[n].docId)
      BY <1>7, <2>3, <2>4, <2>6
    <3>2. v[n] \in Seq(1..MaxPages) /\ ToSet(v[n]) = ToSet(s) \cup {pageLib[n].docId}
      <4>1. PICK d : d = pageLib[n].docId /\ d \in 1..MaxPages
        BY <1>2, <2>3
      <4>2. s \in Seq(1..MaxPages)
        BY <2>4 DEF Lists
      <4>3. Append(s, d) \in Seq(1..MaxPages) /\ ToSet(Append(s, d)) = ToSet(s) \cup {d}
        BY <4>1, <4>2, AppendSet
      <4> QED
        BY <3>1, <4>1, <4>3, Zenon
    <3>3. {l \in 1..n : w \in pageLib[l].words} = {l \in 1..n - 1 : w \in pageLib[l].words} \cup {n}
      BY <2>5, <2>6
    <3>4. Lists(v[n], w, n)
      BY <3>2, <3>3, <2>4 DEF Lists
    <3> QED
      BY <2>1, <3>4
  <2>7. CASE w \notin pageLib[n].words
    <3>1. v[n] = s
      BY <1>7, <2>3, <2>4, <2>7
    <3>2. {l \in 1..n : w \in pageLib[l].words} = {l \in 1..n - 1 : w \in pageLib[l].words}
      BY <2>5, <2>7
    <3>3. Lists(v[n], w, n)
      BY <3>1, <3>2, <2>4 DEF Lists
    <3> QED
      BY <2>1, <3>3
  <2> QED
    BY <2>6, <2>7
<1>9. Lists(v[N], w, N)
  <2>1. N \in 0..N
    BY <1>1
  <2> QED
    BY <2>1, <1>8
<1> QED
  BY <1>1, <1>6, <1>9

-----------------------------------------------------------------------------
(* The pages, sorted. *)

Ascending(s, n) == \A k, l \in 1..n : k < l => s[k].docId < s[l].docId

\* s lists the first n pages in the order of their ids.
SortsFirst(s, n) ==
  /\ s \in [1..n -> ToSet(pageLib)]
  /\ {s[k] : k \in 1..n} = {pageLib[k] : k \in 1..n}
  /\ Ascending(s, n)

LEMMA SortOneMore ==
  ASSUME IInv, IdsDiffer, NEW n \in 1..Size, NEW s, SortsFirst(s, n - 1)
  PROVE  \E t : SortsFirst(t, n)
<1>1. Size \in Nat /\ n \in Nat /\ n - 1 \in Nat /\ ToSet(pageLib) = {pageLib[k] : k \in 1..Size}
  BY LibraryFacts
<1>2. \A p \in ToSet(pageLib) : p.docId \in Nat
  BY LibraryFacts
<1>3. PICK r : r = pageLib[n] /\ r \in ToSet(pageLib)
  BY <1>1
<1>4. \A k \in 1..n - 1 : s[k] \in ToSet(pageLib) /\ s[k].docId # r.docId
  <2> TAKE k \in 1..n - 1
  <2>1. PICK l \in 1..n - 1 : s[k] = pageLib[l]
    BY DEF SortsFirst
  <2>2. l \in 1..Size /\ l # n
    BY <1>1, <2>1
  <2> QED
    BY <1>1, <1>3, <2>1, <2>2 DEF IdsDiffer
<1> DEFINE T == {k \in 1..n - 1 : r.docId < s[k].docId} \cup {n}
<1>5. PICK c \in T : \A m \in T : c <= m
  <2>1. T \subseteq Nat /\ T # {}
    BY <1>1
  <2> HIDE DEF T
  <2> QED
    BY <2>1, LeastNat
<1>6. c \in 1..n /\ \A k \in 1..n - 1 : k < c => s[k].docId < r.docId
  <2>1. c \in 1..n
    BY <1>1, <1>5
  <2>2. ASSUME NEW k \in 1..n - 1, k < c
        PROVE  s[k].docId < r.docId
    <3>1. ~(c <= k)
      BY <2>1, <2>2, <1>1
    <3>2. ~(r.docId < s[k].docId)
      BY <3>1, <1>5
    <3> QED
      BY <3>2, <1>2, <1>3, <1>4
  <2> QED
    BY <2>1, <2>2
<1>7. \A k \in 1..n - 1 : c <= k => r.docId < s[k].docId
  <2> TAKE k \in 1..n - 1
  <2> SUFFICES ASSUME c <= k PROVE r.docId < s[k].docId
    OBVIOUS
  <2>1. c \in 1..n - 1 /\ r.docId < s[c].docId
    BY <1>1, <1>5, <1>6
  <2>2. k # c => s[c].docId < s[k].docId
    BY <2>1, <1>1, <1>6 DEF SortsFirst, Ascending
  <2> QED
    BY <2>1, <2>2, <1>2, <1>3, <1>4
<1> HIDE DEF T
<1>8. PICK t : t = [k \in 1..n |-> IF k < c THEN s[k] ELSE IF k = c THEN r ELSE s[k - 1]]
  OBVIOUS
<1>9. /\ \A k \in 1..n : k < c => k \in 1..n - 1 /\ t[k] = s[k]
      /\ t[c] = r
      /\ \A k \in 1..n : c < k => k - 1 \in 1..n - 1 /\ c <= k - 1 /\ t[k] = s[k - 1]
  BY <1>1, <1>6, <1>8
<1>10. \A k \in 1..n : k < c \/ k = c \/ c < k
  BY <1>1, <1>6
<1>11. t \in [1..n -> ToSet(pageLib)]
  BY <1>3, <1>4, <1>8, <1>9, <1>10
<1>12. ASSUME NEW k \in 1..n, NEW l \in 1..n, k < l
       PROVE  t[k].docId < t[l].docId
  <2>1. CASE k < c /\ l < c
    BY <2>1, <1>9, <1>12 DEF SortsFirst, Ascending
  <2>2. CASE k < c /\ l = c
    BY <2>2, <1>6, <1>9
  <2>3. CASE k < c /\ c < l
    <3>1. k \in 1..n - 1 /\ l - 1 \in 1..n - 1 /\ c <= l - 1 /\ t[k] = s[k] /\ t[l] = s[l - 1]
      BY <2>3, <1>9
    <3>2. s[k].docId < r.docId /\ r.docId < s[l - 1].docId
      BY <3>1, <2>3, <1>6, <1>7
    <3> QED
      BY <3>1, <3>2, <1>2, <1>3, <1>4
  <2>4. CASE k = c /\ c < l
    BY <2>4, <1>7, <1>9
  <2>5. CASE c < k /\ c < l
    <3>1. k - 1 < l - 1
      BY <1>12, <1>1
    <3> QED
      BY <3>1, <2>5, <1>9 DEF SortsFirst, Ascending
  <2> QED
    BY <1>1, <1>6, <1>10, <1>12, <2>1, <2>2, <2>3, <2>4, <2>5
<1>13. {t[k] : k \in 1..n} = {s[k] : k \in 1..n - 1} \cup {r}
  <2>1. \A k \in 1..n : t[k] \in {s[m] : m \in 1..n - 1} \cup {r}
    BY <1>9, <1>10
  <2>2. ASSUME NEW k \in 1..n - 1
        PROVE  \E m \in 1..n : t[m] = s[k]
    <3>1. CASE k < c
      BY <3>1, <1>1, <1>9
    <3>2. CASE ~(k < c)
      <4>1. k + 1 \in 1..n /\ c < k + 1 /\ (k + 1) - 1 = k
        BY <3>2, <1>1, <1>6
      <4> QED
        BY <4>1, <1>9
    <3> QED
      BY <3>1, <3>2
  <2>3. {s[k] : k \in 1..n - 1} \subseteq {t[k] : k \in 1..n}
    BY <2>2
  <2>4. r \in {t[k] : k \in 1..n}
    BY <1>6, <1>9
  <2> QED
    BY <2>1, <2>3, <2>4
<1>14. {pageLib[k] : k \in 1..n} = {pageLib[k] : k \in 1..n - 1} \cup {r}
  <2>1. \A k : k \in 1..n <=> k \in 1..n - 1 \/ k = n
    BY <1>1
  <2> QED
    BY <1>3, <2>1
<1>15. SortsFirst(t, n)
  BY <1>11, <1>12, <1>13, <1>14 DEF SortsFirst, Ascending
<1> QED
  BY <1>15

LEMMA SortExists ==
  ASSUME IInv, IdsDiffer, NEW N \in 0..Size
  PROVE  \E s : SortsFirst(s, N)
<1> DEFINE Upto(n) == \E s : SortsFirst(s, n)
           T == {n \in 0..N : ~Upto(n)}
<1>0. Size \in Nat /\ N \in Nat
  BY LibraryFacts
<1>1. SUFFICES ASSUME T # {} PROVE FALSE
  <2>1. N \notin T => Upto(N)
    BY <1>0
  <2> QED
    BY <2>1
<1>2. PICK n \in T : \A m \in T : n <= m
  <2>1. T \subseteq Nat
    OBVIOUS
  <2> HIDE DEF T
  <2> QED
    BY <1>1, <2>1, LeastNat
<1>3. n \in 0..N /\ ~Upto(n)
  BY <1>2
<1>4. n # 0
  <2>1. SortsFirst([k \in 1..0 |-> 0], 0)
    BY DEF SortsFirst, Ascending
  <2> QED
    BY <2>1, <1>3
<1>5. Upto(n - 1) /\ n \in 1..Size
  <2>1. n - 1 \in 0..N /\ ~(n <= n - 1) /\ n \in 1..Size
    BY <1>0, <1>3, <1>4
  <2>2. n - 1 \notin T
    <3> HIDE DEF T
    <3> QED
      BY <1>2, <2>1
  <2> HIDE DEF Upto
  <2> QED
    BY <2>1, <2>2
<1> QED
  BY <1>3, <1>5, SortOneMore

LEMMA SortedFacts ==
  ASSUME IInv, IdsDiffer
  PROVE  /\ SortedPages \in [1..Size -> ToSet(pageLib)]
         /\ {SortedPages[k] : k \in 1..Size} = ToSet(pageLib)
         /\ \A k, l \in 1..Size : SortedPages[k].docId = SortedPages[l].docId => k = l
<1>1. Size \in Nat /\ Size \in 0..Size /\ ToSet(pageLib) = {pageLib[k] : k \in 1..Size}
  BY LibraryFacts
<1>2. PICK s : SortsFirst(s, Size)
  BY <1>1, SortExists
<1>3. /\ s \in [1..Size -> ToSet(pageLib)]
      /\ ToSet(s) = ToSet(pageLib)
      /\ \A k, l \in 1..Size : k < l => s[k].docId < s[l].docId
  BY <1>1, <1>2 DEF SortsFirst, Ascending, ToSet
<1>4. PICK t : t = SortedPages
  OBVIOUS
<1>5. /\ t \in [1..Size -> ToSet(pageLib)]
      /\ ToSet(t) = ToSet(pageLib)
      /\ \A k, l \in 1..Size : k < l => t[k].docId < t[l].docId
  BY <1>3, <1>4 DEF SortedPages
<1>6. {t[k] : k \in 1..Size} = ToSet(pageLib)
  BY <1>5 DEF ToSet
<1>7. \A k \in 1..Size : t[k].docId \in Nat
  BY <1>5, LibraryFacts
<1>8. ASSUME NEW k \in 1..Size, NEW l \in 1..Size, t[k].docId = t[l].docId
      PROVE  k = l
  <2>1. ~(k < l) /\ ~(l < k)
    BY <1>5, <1>7, <1>8
  <2> QED
    BY <2>1, <1>1
<1> QED
  BY <1>4, <1>5, <1>6, <1>8

-----------------------------------------------------------------------------
(* The page file. *)

Bytes == Nat \X Nat

\* c is b behind a.
Joined(a, b, c) ==
  /\ Len(a) \in Nat /\ Len(b) \in Nat
  /\ Len(c) = Len(a) + Len(b)
  /\ \A k \in 1..Len(a) : c[k] = a[k]
  /\ \A k \in 1..Len(b) : c[Len(a) + k] = b[k]

LEMMA JoinedFacts ==
  ASSUME NEW S, NEW a \in Seq(S), NEW b \in Seq(S)
  PROVE  a \o b \in Seq(S) /\ Joined(a, b, a \o b)
<1>1. Len(a) \in Nat /\ Len(b) \in Nat
  BY LenProperties
<1>2. PICK c : c = a \o b
  OBVIOUS
<1>3. /\ c \in Seq(S) /\ Len(c) = Len(a) + Len(b)
      /\ \A k \in 1..Len(a) + Len(b) : c[k] = IF k <= Len(a) THEN a[k] ELSE b[k - Len(a)]
  BY <1>2, ConcatProperties
<1>4. \A k \in 1..Len(a) : c[k] = a[k]
  BY <1>1, <1>3
<1>5. ASSUME NEW k \in 1..Len(b)
      PROVE  c[Len(a) + k] = b[k]
  <2>1. Len(a) + k \in 1..Len(a) + Len(b) /\ ~(Len(a) + k <= Len(a)) /\ (Len(a) + k) - Len(a) = k
    BY <1>1
  <2> QED
    BY <1>3, <2>1
<1>6. Joined(a, b, c)
  BY <1>1, <1>3, <1>4, <1>5 DEF Joined
<1> QED
  BY <1>2, <1>3, <1>6, Zenon

LEMMA TextFacts ==
  ASSUME NEW d \in Nat, TextLength[d] \in Nat
  PROVE  /\ Text(d) = [k \in 1..TextLength[d] |-> <<d, k>>]
         /\ Text(d) \in Seq(Bytes) /\ Len(Text(d)) = TextLength[d]
<1>1. PICK n : n = TextLength[d] /\ n \in Nat
  OBVIOUS
<1>2. PICK t : t = Text(d) /\ t = [k \in 1..n |-> <<d, k>>]
  BY <1>1 DEF Text
<1>3. t \in [1..n -> Bytes]
  BY <1>1, <1>2 DEF Bytes
<1>4. t \in Seq(Bytes)
  BY <1>1, <1>3, SeqDef
<1>5. Len(t) = n
  BY <1>1, <1>3, <1>4, LenProperties
<1> QED
  BY <1>1, <1>2, <1>4, <1>5

\* The text of each page lies in the file at its offset.
LEMMA TextsOnFile ==
  ASSUME IInv, NEW pages \in [1..Size -> ToSet(pageLib)], NEW k \in 1..Size
  PROVE  SubSeq(FileUpTo(pages, Size), Offset(pages, k) + 1, Offset(pages, k) + TextLength[pages[k].docId])
           = Text(pages[k].docId)
<1>1. PICK N : N = Size /\ N \in Nat
  BY LibraryFacts
<1>2. N = Len(pages)
  <2>1. pages \in Seq(ToSet(pageLib))
    BY <1>1, SeqDef
  <2> QED
    BY <2>1, <1>1, LenProperties
<1>3. \A m \in 1..N : pages[m].docId \in Nat /\ TextLength[pages[m].docId] \in Nat
  BY <1>1, LibraryFacts
<1>4. \A m \in 1..N : Text(pages[m].docId) \in Seq(Bytes)
  BY <1>3, TextFacts
<1> DEFINE S == Seq(Bytes)
           step == [m \in 1..N |-> [s \in S |-> s \o Text(pages[m].docId)]]
           F(u) == [m \in 0..N |-> IF m = 0 THEN <<>> ELSE u[m - 1] \o Text(pages[m].docId)]
<1>5. step \in [1..N -> [S -> S]]
  <2>1. \A m \in 1..N : \A s \in S : s \o Text(pages[m].docId) \in S
    BY <1>4, JoinedFacts
  <2> HIDE DEF S
  <2> QED
    BY <2>1
<1>6. PICK u : u \in [0..N -> S] /\ Iterates(u, <<>>, step, N)
  <2>1. <<>> \in S
    BY EmptySeq
  <2> HIDE DEF S, step
  <2> QED
    BY <1>1, <1>5, <2>1, IterationExists
<1>7. u = F(u)
  <2>1. \A m \in 0..N : u[m] = IF m = 0 THEN <<>> ELSE u[m - 1] \o Text(pages[m].docId)
    <3> TAKE m \in 0..N
    <3>1. CASE m = 0
      BY <3>1, <1>6 DEF Iterates
    <3>2. CASE m # 0
      <4>1. m \in 1..N /\ m - 1 \in 0..N
        BY <3>2, <1>1
      <4>2. PICK s : s = u[m - 1] /\ s \in S
        <5> HIDE DEF S
        <5> QED
          BY <4>1, <1>6
      <4>3. u[m] = step[m][s]
        BY <4>1, <4>2, <1>6 DEF Iterates
      <4>4. step[m][s] = s \o Text(pages[m].docId)
        <5> HIDE DEF S
        <5> QED
          BY <4>1, <4>2
      <4> HIDE DEF step, S
      <4> QED
        BY <3>2, <4>2, <4>3, <4>4, Zenon
    <3> QED
      BY <3>1, <3>2
  <2>2. u = [m \in 0..N |-> u[m]]
    <3> HIDE DEF S
    <3> QED
      BY <1>6
  <2> HIDE DEF S, step
  <2> QED
    BY <2>1, <2>2
<1>8. PICK v : v = F(v) /\ \A n : FileUpTo(pages, n) = v[n]
  <2>1. PICK w : w = CHOOSE x : x = F(x)
    OBVIOUS
  <2>2. w = F(w)
    BY <1>7, <2>1
  <2>3. \A n : FileUpTo(pages, n) = w[n]
    BY <1>2, <2>1 DEF FileUpTo
  <2> QED
    BY <2>2, <2>3
<1>9. /\ v[0] = <<>>
      /\ \A m \in 1..N : v[m] = v[m - 1] \o Text(pages[m].docId)
  <2>1. 0 \in 0..N /\ \A m \in 1..N : m \in 0..N /\ m # 0
    BY <1>1
  <2> QED
    BY <1>8, <2>1
<1> HIDE DEF F, step, S
<1>10. \A n \in 0..N : v[n] \in Seq(Bytes)
  <2> DEFINE T == {n \in 0..N : v[n] \notin Seq(Bytes)}
  <2> SUFFICES ASSUME T # {} PROVE FALSE
    OBVIOUS
  <2>1. PICK n \in T : \A m \in T : n <= m
    <3>1. T \subseteq Nat
      OBVIOUS
    <3> HIDE DEF T
    <3> QED
      BY <3>1, LeastNat
  <2>2. n # 0
    BY <2>1, <1>9, EmptySeq
  <2>3. n \in 1..N /\ v[n - 1] \in Seq(Bytes)
    <3>1. n \in 1..N /\ n - 1 \in 0..N /\ ~(n <= n - 1)
      BY <1>1, <2>1, <2>2
    <3> QED
      BY <3>1, <2>1
  <2>4. v[n - 1] \o Text(pages[n].docId) \in Seq(Bytes)
    BY <2>3, <1>4, JoinedFacts
  <2> QED
    BY <2>1, <2>3, <2>4, <1>9
<1>11. \A m \in 1..N : Joined(v[m - 1], Text(pages[m].docId), v[m])
  <2> TAKE m \in 1..N
  <2>1. m - 1 \in 0..N
    BY <1>1
  <2>2. v[m - 1] \in Seq(Bytes) /\ Text(pages[m].docId) \in Seq(Bytes)
    BY <2>1, <1>4, <1>10
  <2>3. Joined(v[m - 1], Text(pages[m].docId), v[m - 1] \o Text(pages[m].docId))
    BY <2>2, JoinedFacts, Zenon
  <2> QED
    BY <2>3, <1>9
<1> DEFINE Prefix(n) == Len(v[k]) <= Len(v[n]) /\ \A m \in 1..Len(v[k]) : v[n][m] = v[k][m]
<1>12. \A n \in k..N : Prefix(n)
  <2> DEFINE T == {n \in k..N : ~Prefix(n)}
  <2> SUFFICES ASSUME T # {} PROVE FALSE
    OBVIOUS
  <2>1. PICK n \in T : \A m \in T : n <= m
    <3>1. T \subseteq Nat
      BY <1>1
    <3> HIDE DEF T
    <3> QED
      BY <3>1, LeastNat
  <2>2. k \in 0..N /\ Len(v[k]) \in Nat
    <3>1. k \in 0..N
      BY <1>1
    <3> QED
      BY <3>1, <1>10, LenProperties
  <2>3. n # k
    BY <2>1, <2>2
  <2>4. n \in 1..N /\ n - 1 \in 0..N /\ n - 1 \in k..N /\ ~(n <= n - 1)
    BY <1>1, <2>1, <2>3
  <2>5. Prefix(n - 1)
    <3>1. n - 1 \notin T
      <4> HIDE DEF T
      <4> QED
        BY <2>1, <2>4
    <3> HIDE DEF Prefix
    <3> QED
      BY <3>1, <2>4
  <2>6. /\ Len(v[n - 1]) \in Nat
        /\ Len(v[n]) = Len(v[n - 1]) + Len(Text(pages[n].docId))
        /\ Len(Text(pages[n].docId)) \in Nat
        /\ \A m \in 1..Len(v[n - 1]) : v[n][m] = v[n - 1][m]
    BY <2>4, <1>11 DEF Joined
  <2>7. Len(v[k]) <= Len(v[n])
    <3>1. Len(v[k]) <= Len(v[n - 1])
      BY <2>5
    <3>2. PICK p, q, r, t : p = Len(v[k]) /\ q = Len(v[n - 1]) /\ r = Len(v[n]) /\ t = Len(Text(pages[n].docId))
      OBVIOUS
    <3>3. p \in Nat /\ q \in Nat /\ t \in Nat /\ r = q + t /\ p <= q
      BY <2>2, <2>6, <3>1, <3>2, Zenon
    <3>4. p <= r
      BY <3>3
    <3> QED
      BY <3>2, <3>4, Zenon
  <2>8. \A m \in 1..Len(v[k]) : v[n][m] = v[k][m]
    <3> TAKE m \in 1..Len(v[k])
    <3>1. m \in 1..Len(v[n - 1])
      BY <2>2, <2>5, <2>6
    <3> QED
      BY <3>1, <2>5, <2>6
  <2>9. Prefix(n)
    BY <2>7, <2>8
  <2> QED
    BY <2>1, <2>9
<1>13. PICK a, t, L, o : a = v[N] /\ t = Text(pages[k].docId) /\ L = TextLength[pages[k].docId] /\ o = Len(v[k - 1])
  OBVIOUS
<1>14. /\ a \in Seq(Bytes) /\ L \in Nat /\ o \in Nat /\ Len(t) = L
       /\ t = [m \in 1..L |-> t[m]]
  <2>1. N \in 0..N /\ k - 1 \in 0..N
    BY <1>1
  <2>2. a \in Seq(Bytes) /\ o \in Nat
    BY <2>1, <1>10, <1>13, LenProperties
  <2>3. pages[k].docId \in Nat /\ L \in Nat
    BY <1>1, <1>3, <1>13
  <2>4. t = [m \in 1..L |-> <<pages[k].docId, m>>] /\ Len(t) = L
    BY <2>3, <1>13, TextFacts
  <2> QED
    BY <2>2, <2>3, <2>4
<1>15. /\ Len(v[k]) = o + L
       /\ \A m \in 1..L : v[k][o + m] = t[m]
  BY <1>1, <1>11, <1>13, <1>14 DEF Joined
<1>16. o + L <= Len(a) /\ \A m \in 1..L : a[o + m] = t[m]
  <2>1. Prefix(N)
    BY <1>1, <1>12
  <2>2. \A m \in 1..L : o + m \in 1..Len(v[k])
    BY <1>14, <1>15
  <2> QED
    BY <2>1, <2>2, <1>13, <1>15
<1>17. SubSeq(a, o + 1, o + L) = t
  <2> HIDE DEF Prefix
  <2>1. Len(a) \in Nat
    BY <1>14, LenProperties
  <2>2. SubSeq(a, o + 1, o + L) = [m \in 1..L |-> a[o + m]]
    BY <1>14, <1>16, <2>1
  <2>3. [m \in 1..L |-> a[o + m]] = [m \in 1..L |-> t[m]]
    BY <1>16
  <2> QED
    BY <2>2, <2>3, <1>14
<1>18. FileUpTo(pages, Size) = a /\ Offset(pages, k) = o
  BY <1>1, <1>8, <1>13 DEF Offset
<1> QED
  BY <1>13, <1>17, <1>18

-----------------------------------------------------------------------------
(* The files and what is read of them. *)

Starting == stage \in {"cutRedundantPages", "storeOnDisk"}
Reading == stage \in {"loadLine", "loadPair", "ready"}

\* What no function has set yet has its first value.
Untouched ==
  /\ stage = "cutRedundantPages" => index = <<>> /\ unstored = {} /\ offsetFile = <<>>
  /\ Starting /\ offsetFile = <<>> => indexFile = <<>>
  /\ ~Reading => /\ texts = <<>> /\ table = <<>> /\ pairs = {}
                 /\ word = EmptyWord /\ next = 0 /\ fields = <<>>
  /\ ~Starting => offsetFile # <<>> /\ unstored = {}
  /\ stage \in {"cutRedundantPages", "storeOnDisk", "loadPages", "loadLine", "loadPair", "ready"}

\* Each word of the library has the ids of its pages.
IndexListsPages ==
  stage # "cutRedundantPages" =>
    /\ DOMAIN index = UNION {pageLib[k].words : k \in 1..Size}
    /\ \A w \in DOMAIN index : Lists(index[w], w, Size)

\* Each page of the library has one entry, which leads to its text.
OffsetsRight ==
  offsetFile # <<>> =>
    /\ Len(offsetFile) = Size /\ DOMAIN offsetFile = 1..Size
    /\ {offsetFile[k].id : k \in 1..Size} = {pageLib[k].docId : k \in 1..Size}
    /\ \A k, l \in 1..Size : offsetFile[k].id = offsetFile[l].id => k = l
    /\ \A k \in 1..Size : SubSeq(pageFile, offsetFile[k].offset + 1, offsetFile[k].offset + offsetFile[k].length)
                            = Text(offsetFile[k].id)

TextsRight ==
  Reading =>
    /\ DOMAIN texts = {pageLib[k].docId : k \in 1..Size}
    /\ \A d \in DOMAIN texts : texts[d] = Text(d)

\* The words whose lines are written have one, and there are no other lines
\* but empty ones.
LinesRight ==
  /\ indexFile \in Seq(Seq(Fields))
  /\ \A k \in 1..Len(indexFile) : indexFile[k] = <<>> \/ \E w \in DOMAIN index : indexFile[k] = Line(w)
  /\ \A w \in DOMAIN index \ unstored : \E k \in 1..Len(indexFile) : indexFile[k] = Line(w)
  /\ unstored \subseteq DOMAIN index

Plain(w) == w \in DOMAIN index \ (Blanks \cup Shadows)

\* The pair that the k-th posting of w is.
Posting(w, k) == <<index[w][k], Field(Digits(w, index[w][k]), w, index[w][k])>>

\* The first n postings of w are read, and the others are left on the line.
ReadUpTo(w, n) ==
  /\ Len(fields) = 2 * (Len(index[w]) - n)
  /\ \A k \in 1..Len(fields) : fields[k] = Postings(w)[2 * n + k]
  /\ pairs = {Posting(w, k) : k \in 1..n}
  /\ \A k \in 1..n : Digits(w, index[w][k]) # "nan"

\* The reader's variables; while no line is read, the word has its entry.
ReaderRight ==
  /\ next \in 0..Len(indexFile)
  /\ stage = "ready" => next = Len(indexFile)
  /\ fields \in Seq(Fields)
  /\ pairs \subseteq Int \X Fields
  /\ word \in DOMAIN index \cup Shadows \cup {EmptyWord}
  /\ stage = "loadLine" => word = EmptyWord \/ word \in DOMAIN table
  /\ DOMAIN table \subseteq DOMAIN index \cup Shadows \cup {EmptyWord}
  /\ \A w \in DOMAIN table : table[w] \subseteq Int \X Fields

\* Under a plain word there is what can be read of its line.
EntriesRight == \A w \in DOMAIN table : Plain(w) => table[w] = Legible(w)

\* Every plain word whose line is read has an entry, or gets it when the line
\* is read to its end.
LinesRead ==
  \A k \in 1..next : \A w : Plain(w) /\ indexFile[k] = Line(w) =>
    w \in DOMAIN table \/ (stage = "loadPair" /\ word = w)

PairsRight ==
  stage = "loadPair" /\ Plain(word) => \E n \in 0..Len(index[word]) : ReadUpTo(word, n)

TableRight == ReaderRight /\ EntriesRight /\ LinesRead /\ PairsRight

FilesInv ==
  /\ IInv
  /\ IdsDiffer
  /\ Untouched
  /\ IndexListsPages
  /\ OffsetsRight
  /\ TextsRight
  /\ LinesRight
  /\ TableRight

LEMMA IndexedFacts ==
  ASSUME IInv, Untouched, IndexListsPages, NEW w \in DOMAIN index
  PROVE  /\ stage # "cutRedundantPages"
         /\ w \in Words
         /\ index[w] \in Seq(1..MaxPages) /\ Len(index[w]) \in Nat
         /\ \A k \in 1..Len(index[w]) : index[w][k] \in 1..MaxPages
         /\ ToSet(index[w]) = {index[w][k] : k \in 1..Len(index[w])}
<1>1. stage # "cutRedundantPages"
  <2>1. DOMAIN <<>> = {}
    OBVIOUS
  <2> QED
    BY <2>1 DEF Untouched
<1>2. DOMAIN index = UNION {pageLib[k].words : k \in 1..Size} /\ Lists(index[w], w, Size)
  BY <1>1 DEF IndexListsPages
<1>3. w \in Words
  BY <1>2, LibraryFacts
<1>4. PICK s : s = index[w] /\ s \in Seq(1..MaxPages)
  BY <1>2 DEF Lists
<1>5. Len(s) \in Nat /\ DOMAIN s = 1..Len(s) /\ \A k \in 1..Len(s) : s[k] \in 1..MaxPages
  BY <1>4, LenProperties, ElementOfSeq
<1> QED
  BY <1>1, <1>3, <1>4, <1>5 DEF ToSet

Kinds == {"word", "id", "nan", "0", "1", "-1", "0.x"}

LEMMA FieldFacts ==
  ASSUME NEW kind \in Kinds, NEW w \in Words, NEW d \in 0..MaxPages
  PROVE  /\ Field(kind, w, d) \in Fields
         /\ Field(kind, w, d).kind = kind /\ Field(kind, w, d).word = w /\ Field(kind, w, d).id = d
BY DEF Field, Fields, Kinds

LEMMA DigitsFacts ==
  ASSUME NEW w, NEW d
  PROVE  Digits(w, d) \in Kinds /\ (Digits(w, d) = "nan" <=> WeighingWords(d) = {})
BY DEF Digits, Kinds

\* The two fields of each posting.
LEMMA PostingsFacts ==
  ASSUME IInv, Untouched, IndexListsPages, NEW w \in DOMAIN index
  PROVE  /\ Postings(w) \in Seq(Fields) /\ Len(Postings(w)) = 2 * Len(index[w])
         /\ \A k \in 1..Len(index[w]) :
              /\ Postings(w)[2 * k - 1] = Field("id", w, index[w][k])
              /\ Postings(w)[2 * k] = Field(Digits(w, index[w][k]), w, index[w][k])
<1>1. PICK s, L : s = index[w] /\ L = Len(s) /\ L \in Nat /\ \A k \in 1..L : s[k] \in 1..MaxPages
  BY IndexedFacts
<1>2. PICK p : p = Postings(w) /\ p = [k \in 1..2 * L |-> LET d == s[(k + 1) \div 2]
                    IN  Field(IF k % 2 = 1 THEN "id" ELSE Digits(w, d), w, d)]
  BY <1>1 DEF Postings
<1>3. 2 * L \in Nat /\ MaxPages \in Nat /\ w \in Words
  BY <1>1, DedupAssumption, IndexedFacts
<1>4. \A k \in 1..2 * L : p[k] \in Fields
  <2> TAKE k \in 1..2 * L
  <2>1. (k + 1) \div 2 \in 1..L
    BY <1>1
  <2>2. PICK d : d = s[(k + 1) \div 2] /\ d \in 0..MaxPages
    BY <1>1, <1>3, <2>1
  <2>3. p[k] = Field(IF k % 2 = 1 THEN "id" ELSE Digits(w, d), w, d)
    BY <1>2, <2>2
  <2>4. (IF k % 2 = 1 THEN "id" ELSE Digits(w, d)) \in Kinds
    BY DigitsFacts DEF Kinds
  <2> QED
    BY <1>3, <2>2, <2>3, <2>4, FieldFacts
<1>5. p \in [1..2 * L -> Fields]
  BY <1>2, <1>4
<1>6. p \in Seq(Fields) /\ Len(p) = 2 * L
  <2>1. p \in Seq(Fields)
    BY <1>3, <1>5, SeqDef
  <2> QED
    BY <1>3, <1>5, <2>1, LenProperties
<1>7. ASSUME NEW k \in 1..L
      PROVE  /\ p[2 * k - 1] = Field("id", w, s[k])
             /\ p[2 * k] = Field(Digits(w, s[k]), w, s[k])
  <2>1. /\ 2 * k - 1 \in 1..2 * L /\ ((2 * k - 1) + 1) \div 2 = k /\ (2 * k - 1) % 2 = 1
        /\ 2 * k \in 1..2 * L /\ (2 * k + 1) \div 2 = k /\ (2 * k) % 2 = 0
    BY <1>1
  <2>2. p[2 * k - 1] = Field("id", w, s[k])
    BY <1>2, <2>1
  <2>3. p[2 * k] = Field(Digits(w, s[k]), w, s[k])
    BY <1>2, <2>1
  <2> QED
    BY <2>2, <2>3
<1> QED
  BY <1>1, <1>2, <1>6, <1>7, Zenon

\* The line of a word that is not blank begins with the word.
LEMMA LineFacts ==
  ASSUME IInv, Untouched, IndexListsPages, NEW w \in DOMAIN index
  PROVE  /\ Line(w) \in Seq(Fields)
         /\ w \in Blanks => Line(w) = Postings(w)
         /\ w \notin Blanks => Joined(<<Field("word", w, 0)>>, Postings(w), Line(w))
<1>1. w \in Words /\ Postings(w) \in Seq(Fields)
  BY IndexedFacts, PostingsFacts
<1>2. PICK f : f = Field("word", w, 0) /\ f \in Fields
  <2>1. "word" \in Kinds /\ 0 \in 0..MaxPages
    BY DedupAssumption DEF Kinds
  <2> QED
    BY <1>1, <2>1, FieldFacts
<1>3. <<f>> \in Seq(Fields)
  BY <1>2
<1>4. <<f>> \o Postings(w) \in Seq(Fields) /\ Joined(<<f>>, Postings(w), <<f>> \o Postings(w))
  BY <1>1, <1>3, JoinedFacts
<1>5. CASE w \in Blanks
  BY <1>1, <1>5 DEF Line
<1>6. CASE w \notin Blanks
  <2>1. Line(w) = <<f>> \o Postings(w)
    BY <1>2, <1>6 DEF Line
  <2> QED
    BY <1>2, <1>4, <1>6, <2>1, Zenon
<1> QED
  BY <1>5, <1>6

\* What is computed from library and index stays with them.
LEMMA KeptFacts ==
  ASSUME pageLib' = pageLib, index' = index
  PROVE  /\ Size' = Size /\ Shadows' = Shadows
         /\ \A w : /\ Postings(w)' = Postings(w)
                   /\ Line(w)' = Line(w)
                   /\ Legible(w)' = Legible(w)
                   /\ Plain(w)' = Plain(w)
         /\ \A w, d : Digits(w, d)' = Digits(w, d)
         /\ \A w, k : Posting(w, k)' = Posting(w, k)
<1>1. Size' = Size
  BY DEF Size
<1>2. Shadows' = Shadows
  BY DEF Shadows
<1>3. ASSUME NEW w PROVE IdfIsZero(w)' = IdfIsZero(w)
  BY <1>1 DEF IdfIsZero
<1>4. ASSUME NEW d PROVE WeighingWords(d)' = WeighingWords(d)
  BY <1>3 DEF WeighingWords
<1>5. ASSUME NEW w, NEW d PROVE Digits(w, d)' = Digits(w, d)
  BY <1>1, <1>3, <1>4 DEF Digits
<1>6. ASSUME NEW w
      PROVE  /\ Postings(w)' = Postings(w)
             /\ Line(w)' = Line(w)
             /\ Legible(w)' = Legible(w)
             /\ Plain(w)' = Plain(w)
  <2>1. Postings(w)' = Postings(w)
    BY <1>5 DEF Postings
  <2>2. Line(w)' = Line(w)
    BY <2>1 DEF Line
  <2>3. Legible(w)' = Legible(w)
    BY <1>5 DEF Legible
  <2>4. Plain(w)' = Plain(w)
    BY <1>2 DEF Plain
  <2> QED
    BY <2>1, <2>2, <2>3, <2>4
<1>7. ASSUME NEW w, NEW k PROVE Posting(w, k)' = Posting(w, k)
  BY <1>5 DEF Posting
<1> QED
  BY <1>1, <1>2, <1>5, <1>6, <1>7

-----------------------------------------------------------------------------
(* Each part of the invariant stays. *)

IndexActions ==
  StorePages \/ StoreItem \/ Open \/ LoadPages \/ LoadEmptyLine
    \/ LoadWord \/ LoadPair \/ LoadLineEnd \/ Loaded

\* Only the deduplication changes the library, and only Build the index.
LEMMA ActionsKeep ==
  /\ Cut => [Next]_vars /\ UNCHANGED indexVars /\ stage = "cutRedundantPages"
  /\ Build => UNCHANGED vars /\ stage = "cutRedundantPages"
  /\ IndexActions => UNCHANGED <<vars, index>> /\ stage # "cutRedundantPages" /\ stage' # "cutRedundantPages"
  /\ IndexNext <=> Cut \/ Build \/ IndexActions
<1>1. Cut => [Next]_vars /\ UNCHANGED indexVars /\ stage = "cutRedundantPages"
  BY DEF Cut
<1>2. Build => UNCHANGED vars /\ stage = "cutRedundantPages"
  BY DEF Build
<1>3. /\ StorePages => UNCHANGED <<vars, index>> /\ stage # "cutRedundantPages" /\ stage' # "cutRedundantPages"
      /\ StoreItem => UNCHANGED <<vars, index>> /\ stage # "cutRedundantPages" /\ stage' # "cutRedundantPages"
  BY DEF StorePages, StoreItem
<1>4. /\ Open => UNCHANGED <<vars, index>> /\ stage # "cutRedundantPages" /\ stage' # "cutRedundantPages"
      /\ LoadPages => UNCHANGED <<vars, index>> /\ stage # "cutRedundantPages" /\ stage' # "cutRedundantPages"
      /\ Loaded => UNCHANGED <<vars, index>> /\ stage # "cutRedundantPages" /\ stage' # "cutRedundantPages"
  BY DEF Open, LoadPages, Loaded, fileVars
<1>5. /\ LoadEmptyLine => UNCHANGED <<vars, index>> /\ stage # "cutRedundantPages" /\ stage' # "cutRedundantPages"
      /\ LoadWord => UNCHANGED <<vars, index>> /\ stage # "cutRedundantPages" /\ stage' # "cutRedundantPages"
      /\ LoadPair => UNCHANGED <<vars, index>> /\ stage # "cutRedundantPages" /\ stage' # "cutRedundantPages"
      /\ LoadLineEnd => UNCHANGED <<vars, index>> /\ stage # "cutRedundantPages" /\ stage' # "cutRedundantPages"
  BY DEF LoadEmptyLine, LoadWord, LoadPair, LoadLineEnd, fileVars
<1> QED
  BY <1>1, <1>2, <1>3, <1>4, <1>5 DEF IndexActions, IndexNext

LEMMA IndexNextNext ==
  ASSUME [IndexNext]_allVars
  PROVE  [Next]_vars
<1>1. CASE UNCHANGED allVars
  BY <1>1 DEF allVars
<1> QED
  BY <1>1, ActionsKeep

LEMMA UntouchedStep ==
  ASSUME Untouched, IndexNext
  PROVE  Untouched'
<1>1. CASE Cut
  BY <1>1 DEF Cut, indexVars, Untouched, Starting, Reading
<1>2. CASE Build
  BY <1>2 DEF Build, Untouched, Starting, Reading
<1>3. CASE StorePages \/ StoreItem
  BY <1>3 DEF StorePages, StoreItem, Untouched, Starting, Reading
<1>4. CASE Open \/ LoadPages
  BY <1>4 DEF Open, LoadPages, Untouched, Starting, Reading, fileVars
<1>5. CASE LoadEmptyLine \/ LoadWord \/ LoadPair \/ LoadLineEnd \/ Loaded
  BY <1>5 DEF LoadEmptyLine, LoadWord, LoadPair, LoadLineEnd, Loaded, Untouched, Starting, Reading, fileVars
<1> QED
  BY <1>1, <1>2, <1>3, <1>4, <1>5 DEF IndexNext

LEMMA KeptLists ==
  ASSUME pageLib' = pageLib
  PROVE  \A s, w, n : Lists(s, w, n)' <=> Lists(s, w, n)
BY DEF Lists

LEMMA IndexListsStep ==
  ASSUME IInv, IndexListsPages, IndexNext
  PROVE  IndexListsPages'
<1>1. CASE Cut
  BY <1>1, ActionsKeep DEF indexVars, IndexListsPages
<1>2. CASE Build
  <2>1. index' = [w \in UNION {pageLib[k].words : k \in 1..Size} |-> IdsWith(w)]
    BY <1>2 DEF Build
  <2>2. pageLib' = pageLib /\ Size' = Size
    BY <1>2, ActionsKeep DEF vars, Size
  <2>3. \A w : Lists(IdsWith(w), w, Size)
    BY IdsWithLists
  <2>4. \A w \in DOMAIN index' : Lists(index'[w], w, Size)
    BY <2>1, <2>3
  <2>5. \A w \in DOMAIN index' : (Lists(index[w], w, Size))'
    BY <2>2, <2>4, KeptLists
  <2> QED
    BY <2>1, <2>2, <2>5 DEF IndexListsPages
<1>3. CASE IndexActions
  <2>1. pageLib' = pageLib /\ Size' = Size /\ index' = index /\ stage # "cutRedundantPages"
    BY <1>3, ActionsKeep DEF vars, Size
  <2> QED
    BY <2>1, KeptLists DEF IndexListsPages
<1> QED
  BY <1>1, <1>2, <1>3, ActionsKeep

LEMMA OffsetsStep ==
  ASSUME IInv, IdsDiffer, Untouched, OffsetsRight, IndexNext
  PROVE  OffsetsRight'
<1>1. CASE Cut
  BY <1>1, ActionsKeep DEF indexVars, Untouched, OffsetsRight
<1>2. CASE StorePages
  <2>1. PICK N, s : N = Size /\ s = SortedPages /\ N \in Nat
    BY LibraryFacts
  <2>2. /\ s \in [1..N -> ToSet(pageLib)]
        /\ \A k \in 1..N : \E l \in 1..N : s[k] = pageLib[l]
        /\ \A l \in 1..N : \E k \in 1..N : s[k] = pageLib[l]
        /\ \A k, l \in 1..N : s[k].docId = s[l].docId => k = l
    <3>1. /\ s \in [1..N -> ToSet(pageLib)]
          /\ {s[k] : k \in 1..N} = ToSet(pageLib)
          /\ \A k, l \in 1..N : s[k].docId = s[l].docId => k = l
      BY <2>1, SortedFacts, Zenon
    <3>2. ToSet(pageLib) = {pageLib[k] : k \in 1..N}
      BY <2>1, LibraryFacts
    <3> QED
      BY <3>1, <3>2
  <2>3. PICK f : f = offsetFile'
    OBVIOUS
  <2>4. /\ pageFile' = FileUpTo(s, N)
        /\ f = [k \in 1..N |->
                  [id |-> s[k].docId, offset |-> Offset(s, k), length |-> TextLength[s[k].docId]]]
    BY <1>2, <2>1, <2>3 DEF StorePages
  <2>5. pageLib' = pageLib /\ Size' = N
    BY <1>2, <2>1, ActionsKeep DEF IndexActions, vars, Size
  <2>6. \A k \in 1..N : /\ f[k].id = s[k].docId
                        /\ f[k].offset = Offset(s, k)
                        /\ f[k].length = TextLength[s[k].docId]
    BY <2>4
  <2>7. DOMAIN f = 1..N /\ Len(f) = N
    BY <2>1, <2>4
  <2>8. {f[k].id : k \in 1..N} = {pageLib[k].docId : k \in 1..N}
    <3>1. ASSUME NEW k \in 1..N, NEW l \in 1..N, s[k] = pageLib[l]
          PROVE  f[k].id = pageLib[l].docId
      BY <2>6, <3>1
    <3>2. ASSUME NEW k \in 1..N
          PROVE  \E l \in 1..N : f[k].id = pageLib[l].docId
      <4>1. PICK l \in 1..N : s[k] = pageLib[l]
        BY <2>2
      <4> QED
        BY <3>1, <4>1, Zenon
    <3>3. ASSUME NEW l \in 1..N
          PROVE  \E k \in 1..N : f[k].id = pageLib[l].docId
      <4>1. PICK k \in 1..N : s[k] = pageLib[l]
        BY <2>2
      <4> QED
        BY <3>1, <4>1, Zenon
    <3>4. \A e : (\E k \in 1..N : e = f[k].id) <=> \E l \in 1..N : e = pageLib[l].docId
      BY <3>2, <3>3, Zenon
    <3> QED
      BY <3>4
  <2>9. \A k, l \in 1..N : f[k].id = f[l].id => k = l
    <3> TAKE k, l \in 1..N
    <3>1. f[k].id = s[k].docId /\ f[l].id = s[l].docId
      BY <2>6
    <3>2. s[k].docId = s[l].docId => k = l
      BY <2>2
    <3> QED
      BY <3>1, <3>2, Zenon
  <2>10. ASSUME NEW k \in 1..N
         PROVE  SubSeq(pageFile', f[k].offset + 1, f[k].offset + f[k].length) = Text(f[k].id)
    <3>1. SubSeq(FileUpTo(s, Size), Offset(s, k) + 1, Offset(s, k) + TextLength[s[k].docId]) = Text(s[k].docId)
      BY <2>1, <2>2, TextsOnFile
    <3>2. f[k].id = s[k].docId /\ f[k].offset = Offset(s, k) /\ f[k].length = TextLength[s[k].docId]
      BY <2>6
    <3> QED
      BY <3>1, <3>2, <2>1, <2>4, Zenon
  <2>11. (Len(offsetFile) = Size /\ DOMAIN offsetFile = 1..Size)'
    BY <2>3, <2>5, <2>7
  <2>12. ({offsetFile[k].id : k \in 1..Size} = {pageLib[k].docId : k \in 1..Size})'
    BY <2>3, <2>5, <2>8
  <2>13. (\A k, l \in 1..Size : offsetFile[k].id = offsetFile[l].id => k = l)'
    BY <2>3, <2>5, <2>9
  <2>14. (\A k \in 1..Size : SubSeq(pageFile, offsetFile[k].offset + 1, offsetFile[k].offset + offsetFile[k].length)
                                = Text(offsetFile[k].id))'
    BY <2>3, <2>5, <2>10
  <2> QED
    BY <2>11, <2>12, <2>13, <2>14, Zenon DEF OffsetsRight
<1>3. CASE ~Cut /\ ~StorePages
  <2>1. UNCHANGED <<pageLib, pageFile, offsetFile>>
    BY <1>3 DEF IndexNext, Build, StoreItem, Open, LoadPages, LoadEmptyLine, LoadWord, LoadPair,
                LoadLineEnd, Loaded, fileVars, vars
  <2> QED
    BY <2>1 DEF OffsetsRight, Size
<1> QED
  BY <1>1, <1>2, <1>3

LEMMA TextsStep ==
  ASSUME Untouched, OffsetsRight, TextsRight, IndexNext
  PROVE  TextsRight'
<1>1. \A d : Text(d)' = Text(d)
  BY DEF Text
<1>2. CASE LoadPages
  <2>1. PICK N : N = Size /\ Len(offsetFile) = N /\ DOMAIN offsetFile = 1..N
    BY <1>2 DEF LoadPages, Untouched, OffsetsRight, Starting
  <2>2. /\ {offsetFile[k].id : k \in 1..N} = {pageLib[k].docId : k \in 1..N}
        /\ \A k, l \in 1..N : offsetFile[k].id = offsetFile[l].id => k = l
        /\ \A k \in 1..N : SubSeq(pageFile, offsetFile[k].offset + 1, offsetFile[k].offset + offsetFile[k].length)
                             = Text(offsetFile[k].id)
    BY <1>2, <2>1 DEF LoadPages, Untouched, OffsetsRight, Starting
  <2>3. ToSet(offsetFile) = {offsetFile[k] : k \in 1..N}
    BY <2>1 DEF ToSet
  <2> DEFINE entry(d) == CHOOSE e \in ToSet(offsetFile) : e.id = d
             D == {offsetFile[k].id : k \in 1..N}
  <2>4. texts' = [d \in D |-> SubSeq(pageFile, entry(d).offset + 1, entry(d).offset + entry(d).length)]
    BY <1>2, <2>1 DEF LoadPages
  <2>5. ASSUME NEW d \in D
        PROVE  texts'[d] = Text(d)
    <3>1. PICK k \in 1..N : offsetFile[k].id = d
      OBVIOUS
    <3>2. PICK e : e = entry(d)
      OBVIOUS
    <3>3. e \in ToSet(offsetFile) /\ e.id = d
      BY <2>3, <3>1, <3>2
    <3>4. PICK l \in 1..N : e = offsetFile[l]
      BY <2>3, <3>3
    <3>5. SubSeq(pageFile, e.offset + 1, e.offset + e.length) = Text(d)
      BY <2>2, <3>3, <3>4
    <3> HIDE DEF entry
    <3> QED
      BY <2>4, <3>2, <3>5
  <2>6. pageLib' = pageLib /\ Size' = N
    BY <1>2, <2>1, ActionsKeep DEF IndexActions, vars, Size
  <2>7. DOMAIN texts' = D
    BY <2>4
  <2> QED
    BY <2>2, <2>5, <2>6, <2>7 DEF TextsRight, Text
<1>3. CASE ~Reading'
  BY <1>3 DEF TextsRight
<1>4. CASE Reading' /\ ~LoadPages
  <2>1. Reading /\ UNCHANGED <<pageLib, texts>>
    BY <1>4 DEF IndexNext, Cut, Build, StorePages, StoreItem, Open, LoadEmptyLine, LoadWord, LoadPair,
                LoadLineEnd, Loaded, vars, indexVars, Reading
  <2> QED
    BY <1>1, <2>1 DEF TextsRight, Size
<1> QED
  BY <1>2, <1>3, <1>4

LEMMA LinesStep ==
  ASSUME IInv, Untouched, IndexListsPages, LinesRight, IndexNext
  PROVE  LinesRight'
<1>1. CASE Cut \/ Build
  <2>1. index = <<>> /\ unstored = {} /\ indexFile = <<>>
    BY <1>1, ActionsKeep DEF Untouched, Starting
  <2>2. indexFile' = <<>>
    BY <1>1, <2>1 DEF Cut, Build, indexVars
  <2>3. unstored' = DOMAIN index'
    <3>1. DOMAIN <<>> = {}
      OBVIOUS
    <3> QED
      BY <1>1, <2>1, <3>1 DEF Cut, Build, indexVars
  <2>4. Len(<<>>) = 0 /\ <<>> \in Seq(Seq(Fields))
    OBVIOUS
  <2> QED
    BY <2>2, <2>3, <2>4 DEF LinesRight, Fields
<1>2. CASE IndexActions
  <2>1. pageLib' = pageLib /\ index' = index
    BY <1>2, ActionsKeep DEF vars
  <2>2. \A w : Line(w)' = Line(w)
    BY <2>1, KeptFacts
  <2>3. CASE ~StoreItem
    <3>1. indexFile' = indexFile /\ unstored' = unstored
      BY <1>2, <2>3 DEF IndexActions, StorePages, Open, LoadPages, LoadEmptyLine, LoadWord,
                        LoadPair, LoadLineEnd, Loaded, fileVars
    <3> QED
      BY <2>1, <2>2, <3>1 DEF LinesRight, Fields
  <2>4. CASE StoreItem
    <3>1. PICK w \in unstored :
            /\ indexFile' = indexFile \o (IF w \in Newlines THEN << <<>>, Line(w) >> ELSE <<Line(w)>>)
            /\ unstored' = unstored \ {w}
      BY <2>4 DEF StoreItem
    <3>2. w \in DOMAIN index
      BY <3>1 DEF LinesRight
    <3>3. PICK S, l : S = Seq(Fields) /\ l = Line(w) /\ l \in S /\ <<>> \in S
      <4>1. Line(w) \in Seq(Fields)
        BY <3>2, LineFacts
      <4>2. <<>> \in Seq(Fields)
        BY EmptySeq
      <4> QED
        BY <4>1, <4>2, Zenon
    <3>4. PICK more : more = IF w \in Newlines THEN << <<>>, l >> ELSE <<l>>
      OBVIOUS
    <3>5. /\ more \in Seq(S) /\ Len(more) \in Nat
          /\ \A k \in 1..Len(more) : more[k] = <<>> \/ more[k] = l
          /\ \E k \in 1..Len(more) : more[k] = l
      <4>1. CASE w \in Newlines
        <5>1. more = << <<>>, l >>
          BY <3>4, <4>1
        <5>2. more \in Seq(S) /\ Len(more) = 2 /\ more[1] = <<>> /\ more[2] = l
          BY <3>3, <5>1
        <5> QED
          BY <5>2
      <4>2. CASE w \notin Newlines
        <5>1. more = <<l>>
          BY <3>4, <4>2
        <5>2. more \in Seq(S) /\ Len(more) = 1 /\ more[1] = l
          BY <3>3, <5>1
        <5> QED
          BY <5>2
      <4> QED
        BY <4>1, <4>2
    <3>6. indexFile \in Seq(S)
      BY <3>3 DEF LinesRight
    <3>7. PICK file : file = indexFile' /\ file \in Seq(S) /\ Joined(indexFile, more, file)
      <4>1. indexFile \o more \in Seq(S) /\ Joined(indexFile, more, indexFile \o more)
        BY <3>5, <3>6, JoinedFacts
      <4>2. indexFile' = indexFile \o more
        BY <3>1, <3>3, <3>4
      <4> QED
        BY <4>1, <4>2, Zenon
    <3>8. PICK a, b : a = Len(indexFile) /\ b = Len(more) /\ a \in Nat /\ b \in Nat /\ Len(file) = a + b
      BY <3>7 DEF Joined
    <3>9. /\ \A k \in 1..a : k \in 1..(a + b) /\ file[k] = indexFile[k]
          /\ \A k \in 1..b : (a + k) \in 1..(a + b) /\ file[a + k] = more[k]
      BY <3>7, <3>8 DEF Joined
    <3>10. ASSUME NEW k \in 1..(a + b)
           PROVE  file[k] = <<>> \/ \E v \in DOMAIN index : file[k] = Line(v)
      <4>1. CASE k \in 1..a
        BY <3>8, <3>9, <4>1 DEF LinesRight
      <4>2. CASE k \notin 1..a
        <5>1. k - a \in 1..b /\ a + (k - a) = k
          BY <3>8, <4>2
        <5>2. file[k] = more[k - a]
          BY <3>9, <5>1
        <5> QED
          BY <3>2, <3>3, <3>5, <3>8, <5>1, <5>2
      <4> QED
        BY <4>1, <4>2
    <3>11. ASSUME NEW v \in DOMAIN index \ unstored'
           PROVE  \E k \in 1..(a + b) : file[k] = Line(v)
      <4>1. CASE v = w
        BY <3>3, <3>5, <3>8, <3>9, <4>1
      <4>2. CASE v # w
        <5>1. v \in DOMAIN index \ unstored
          BY <3>1, <3>11, <4>2
        <5>2. PICK k \in 1..a : indexFile[k] = Line(v)
          BY <3>8, <5>1 DEF LinesRight
        <5> QED
          BY <3>9, <5>2
      <4> QED
        BY <4>1, <4>2
    <3>12. unstored' \subseteq DOMAIN index
      BY <3>1 DEF LinesRight
    <3>13. indexFile' = file /\ Len(indexFile') = a + b
      BY <3>7, <3>8
    <3>14. (indexFile \in Seq(Seq(Fields)))'
      <4>1. file \in Seq(Seq(Fields))
        BY <3>3, <3>7, Zenon
      <4> QED
        BY <3>13, <4>1 DEF Fields
    <3>15. (\A k \in 1..Len(indexFile) : indexFile[k] = <<>> \/ \E v \in DOMAIN index : indexFile[k] = Line(v))'
      BY <2>1, <2>2, <3>10, <3>13
    <3>16. (\A v \in DOMAIN index \ unstored : \E k \in 1..Len(indexFile) : indexFile[k] = Line(v))'
      BY <2>1, <2>2, <3>11, <3>13
    <3> QED
      BY <2>1, <3>12, <3>14, <3>15, <3>16 DEF LinesRight
  <2> QED
    BY <2>3, <2>4
<1> QED
  BY <1>1, <1>2, ActionsKeep

\* The first field of a line, and what is left behind it.
LEMMA WordOfLine ==
  ASSUME IInv, Untouched, IndexListsPages, NEW w \in DOMAIN index, w \notin Blanks
  PROVE  /\ Line(w) # <<>> /\ Head(Line(w)) = Field("word", w, 0)
         /\ Tail(Line(w)) \in Seq(Fields) /\ Len(Tail(Line(w))) = 2 * Len(index[w])
         /\ \A k \in 1..Len(Tail(Line(w))) : Tail(Line(w))[k] = Postings(w)[k]
<1>1. PICK l, p, f, L : l = Line(w) /\ p = Postings(w) /\ f = Field("word", w, 0) /\ L = Len(index[w])
  OBVIOUS
<1>2. l \in Seq(Fields) /\ Joined(<<f>>, p, l)
  BY <1>1, LineFacts
<1>3. Len(p) = 2 * L /\ L \in Nat
  BY <1>1, PostingsFacts, IndexedFacts
<1>4. Len(<<f>>) = 1 /\ <<f>>[1] = f
  OBVIOUS
<1>5. Len(l) = 1 + 2 * L /\ l[1] = f /\ \A k \in 1..2 * L : l[1 + k] = p[k]
  BY <1>2, <1>3, <1>4 DEF Joined
<1>6. l # <<>>
  BY <1>3, <1>5
<1>7. Head(l) = f
  BY <1>2, <1>5, <1>6
<1>8. PICK t : t = Tail(l)
  OBVIOUS
<1>9. t \in Seq(Fields) /\ Len(t) = 2 * L /\ \A k \in 1..2 * L : t[k] = p[k]
  <2>1. t \in Seq(Fields) /\ Len(t) = Len(l) - 1 /\ \A k \in 1..Len(l) - 1 : t[k] = l[k + 1]
    BY <1>2, <1>6, <1>8
  <2>2. Len(l) - 1 = 2 * L /\ \A k \in 1..2 * L : k + 1 = 1 + k
    BY <1>3, <1>5
  <2> QED
    BY <1>5, <2>1, <2>2
<1> QED
  BY <1>1, <1>6, <1>7, <1>8, <1>9

LEMMA WordOfBlankLine ==
  ASSUME IInv, Untouched, IndexListsPages, NEW w \in DOMAIN index, w \in Blanks, Line(w) # <<>>
  PROVE  /\ Head(Line(w)).kind = "id" /\ Numeral[Head(Line(w)).id] \in Shadows
         /\ Tail(Line(w)) \in Seq(Fields)
<1>1. PICK p, L : p = Line(w) /\ p = Postings(w) /\ L = Len(index[w])
  BY LineFacts
<1>2. p \in Seq(Fields) /\ Len(p) = 2 * L /\ L \in Nat
  BY <1>1, PostingsFacts, IndexedFacts
<1>3. p # <<>> /\ 1 \in 1..L
  <2>1. Len(p) # 0
    BY <1>1, <1>2
  <2> QED
    BY <1>1, <1>2, <2>1
<1>4. p[1] = Field("id", w, index[w][1])
  <2>1. p[2 * 1 - 1] = Field("id", w, index[w][1])
    BY <1>1, <1>3, PostingsFacts
  <2> QED
    BY <2>1
<1>5. Head(p).kind = "id" /\ Head(p).id = index[w][1]
  BY <1>2, <1>3, <1>4 DEF Field
<1>6. Numeral[index[w][1]] \in Shadows
  BY DEF Shadows
<1>7. Tail(p) \in Seq(Fields)
  BY <1>2, <1>3
<1> QED
  BY <1>1, <1>5, <1>6, <1>7

LEMMA PlainFacts ==
  ASSUME IInv, Untouched, IndexListsPages, NEW w, Plain(w)
  PROVE  w \in DOMAIN index /\ w \notin Blanks /\ w \notin Shadows /\ w # EmptyWord
<1>1. w \in DOMAIN index /\ w \notin Blanks /\ w \notin Shadows
  BY DEF Plain
<1>2. w \in Words
  BY <1>1, IndexedFacts
<1> QED
  BY <1>1, <1>2, IndexAssumption

LEMMA InsertFacts ==
  ASSUME NEW set, table' = Insert(word, set)
  PROVE  /\ DOMAIN table' = DOMAIN table \cup {word}
         /\ \A w \in DOMAIN table : table'[w] = table[w]
         /\ word \notin DOMAIN table => table'[word] = set
BY DEF Insert

LEMMA ReaderKeeps ==
  ASSUME LoadEmptyLine \/ LoadWord \/ LoadPair \/ LoadLineEnd \/ Loaded
  PROVE  /\ pageLib' = pageLib /\ index' = index /\ indexFile' = indexFile
         /\ Shadows' = Shadows
         /\ \A w : Plain(w)' = Plain(w) /\ Line(w)' = Line(w) /\ Legible(w)' = Legible(w)
<1>1. pageLib' = pageLib /\ index' = index
  BY ActionsKeep DEF IndexActions, vars
<1>2. indexFile' = indexFile
  BY DEF LoadEmptyLine, LoadWord, LoadPair, LoadLineEnd, Loaded, fileVars
<1> QED
  BY <1>1, <1>2, KeptFacts

LEMMA TableAtFirst ==
  ASSUME Untouched, Untouched', LinesRight', IndexNext, ~Reading
  PROVE  TableRight'
<1>1. /\ table' = <<>> /\ pairs' = {} /\ word' = EmptyWord /\ next' = 0 /\ fields' = <<>>
      /\ stage' # "ready" /\ stage' # "loadPair"
  <2>1. CASE LoadPages
    BY <2>1 DEF LoadPages, Untouched
  <2>2. CASE ~LoadPages
    <3>1. ~Reading'
      BY <2>2 DEF IndexNext, Cut, Build, StorePages, StoreItem, Open, LoadEmptyLine, LoadWord, LoadPair,
                  LoadLineEnd, Loaded, indexVars, Reading
    <3> QED
      BY <3>1 DEF Untouched, Reading
  <2> QED
    BY <2>1, <2>2
<1>2. DOMAIN <<>> = {} /\ <<>> \in Seq(Fields)
  BY EmptySeq
<1>3. Len(indexFile') \in Nat
  <2>1. indexFile' \in Seq(Seq(Fields))
    BY DEF LinesRight, Fields
  <2> QED
    BY <2>1, LenProperties
<1>4. ReaderRight'
  BY <1>1, <1>2, <1>3 DEF ReaderRight, Fields
<1>5. EntriesRight'
  BY <1>1, <1>2 DEF EntriesRight
<1>6. LinesRead' /\ PairsRight'
  BY <1>1 DEF LinesRead, PairsRight
<1> QED
  BY <1>4, <1>5, <1>6 DEF TableRight

LEMMA EmptyLineStep ==
  ASSUME IInv, Untouched, IndexListsPages, LinesRight, TableRight, LoadEmptyLine
  PROVE  TableRight'
<1>1. /\ stage = "loadLine" /\ stage' = "loadLine" /\ next < Len(indexFile) /\ indexFile[next + 1] = <<>>
      /\ table' = Insert(word, {}) /\ next' = next + 1
      /\ UNCHANGED <<word, pairs, fields>>
  BY DEF LoadEmptyLine, CurrentLine
<1>2. /\ DOMAIN table' = DOMAIN table \cup {word}
      /\ \A w \in DOMAIN table : table'[w] = table[w]
      /\ word \notin DOMAIN table => table'[word] = {}
  BY <1>1, InsertFacts
<1>3. /\ index' = index /\ indexFile' = indexFile /\ Shadows' = Shadows
      /\ \A w : Plain(w)' = Plain(w) /\ Line(w)' = Line(w) /\ Legible(w)' = Legible(w)
  BY ReaderKeeps
<1>4. Len(indexFile) \in Nat /\ next \in Nat
  BY LenProperties DEF LinesRight, TableRight, ReaderRight
<1>5. ReaderRight'
  BY <1>1, <1>2, <1>3, <1>4 DEF TableRight, ReaderRight, Fields
<1>6. EntriesRight'
  <2> SUFFICES ASSUME NEW w \in DOMAIN table', Plain(w) PROVE table'[w] = Legible(w)
    BY <1>3 DEF EntriesRight
  <2>1. w # EmptyWord
    BY PlainFacts
  <2>2. w \in DOMAIN table
    BY <1>1, <1>2, <2>1 DEF TableRight, ReaderRight
  <2> QED
    BY <1>2, <2>2 DEF TableRight, EntriesRight
<1>7. LinesRead'
  <2> SUFFICES ASSUME NEW k \in 1..next', NEW w, Plain(w), indexFile[k] = Line(w)
               PROVE  w \in DOMAIN table'
    BY <1>3 DEF LinesRead
  <2>1. Line(w) # <<>>
    BY PlainFacts, WordOfLine
  <2>2. k \in 1..next
    BY <1>1, <1>4, <2>1
  <2> QED
    BY <1>1, <1>2, <2>2 DEF TableRight, LinesRead
<1>8. PairsRight'
  BY <1>1 DEF PairsRight
<1> QED
  BY <1>5, <1>6, <1>7, <1>8 DEF TableRight

LEMMA WordStep ==
  ASSUME IInv, Untouched, IndexListsPages, LinesRight, TableRight, LoadWord
  PROVE  TableRight'
<1>1. PICK line : /\ line = indexFile[next + 1] /\ line # <<>>
                  /\ stage = "loadLine" /\ stage' = "loadPair" /\ next < Len(indexFile)
                  /\ word' = IF Head(line).kind = "id" THEN Numeral[Head(line).id] ELSE Head(line).word
                  /\ fields' = Tail(line) /\ pairs' = {} /\ next' = next + 1
                  /\ table' = table
  BY DEF LoadWord, CurrentLine
<1>2. /\ index' = index /\ indexFile' = indexFile /\ Shadows' = Shadows
      /\ \A w : Plain(w)' = Plain(w) /\ Line(w)' = Line(w) /\ Legible(w)' = Legible(w)
  BY ReaderKeeps
<1>3. Len(indexFile) \in Nat /\ next \in Nat /\ next + 1 \in 1..Len(indexFile)
  BY <1>1, LenProperties DEF LinesRight, TableRight, ReaderRight
<1>4. PICK v \in DOMAIN index : line = Line(v)
  BY <1>1, <1>3 DEF LinesRight
<1>5. ASSUME NEW w \in DOMAIN index, w \notin Blanks, line = Line(w)
      PROVE  /\ word' = w /\ fields' \in Seq(Fields) /\ Len(fields') = 2 * Len(index[w])
             /\ \A k \in 1..Len(fields') : fields'[k] = Postings(w)[k]
  <2>1. /\ Head(line) = Field("word", w, 0)
        /\ Tail(line) \in Seq(Fields) /\ Len(Tail(line)) = 2 * Len(index[w])
        /\ \A k \in 1..Len(Tail(line)) : Tail(line)[k] = Postings(w)[k]
    BY <1>5, WordOfLine
  <2>2. Head(line).kind = "word" /\ Head(line).word = w
    BY <2>1 DEF Field
  <2> QED
    BY <1>1, <2>1, <2>2
<1>6. ASSUME v \in Blanks
      PROVE  word' \in Shadows /\ fields' \in Seq(Fields)
  BY <1>1, <1>4, <1>6, WordOfBlankLine
<1>7. word' \in DOMAIN index \cup Shadows /\ fields' \in Seq(Fields)
  BY <1>4, <1>5, <1>6
<1>8. ReaderRight'
  BY <1>1, <1>2, <1>3, <1>7 DEF TableRight, ReaderRight, Fields
<1>9. EntriesRight'
  BY <1>1, <1>2 DEF TableRight, EntriesRight
<1>10. LinesRead'
  <2> SUFFICES ASSUME NEW k \in 1..next', NEW w, Plain(w), indexFile[k] = Line(w)
               PROVE  w \in DOMAIN table' \/ word' = w
    BY <1>1, <1>2 DEF LinesRead
  <2>1. CASE k \in 1..next
    BY <1>1, <2>1 DEF TableRight, LinesRead
  <2>2. CASE k \notin 1..next
    <3>1. k = next + 1
      BY <1>1, <1>3, <2>2
    <3>2. w \in DOMAIN index /\ w \notin Blanks
      BY PlainFacts
    <3> QED
      BY <1>1, <1>5, <3>1, <3>2
  <2> QED
    BY <2>1, <2>2
<1>11. PairsRight'
  <2> SUFFICES ASSUME Plain(word')
               PROVE  (\E n \in 0..Len(index[word]) : ReadUpTo(word, n))'
    <3>1. Plain(word)' <=> Plain(word')
      BY <1>2 DEF Plain
    <3> QED
      BY <3>1 DEF PairsRight
  <2>1. PICK w : w = word'
    OBVIOUS
  <2>2. w \in DOMAIN index /\ w \notin Shadows
    BY <2>1, PlainFacts
  <2>3. v \notin Blanks
    BY <1>6, <2>1, <2>2
  <2>4. w = v
    BY <1>4, <1>5, <2>1, <2>3
  <2>5. Len(fields') = 2 * Len(index[w]) /\ \A k \in 1..Len(fields') : fields'[k] = Postings(w)[k]
    BY <1>4, <1>5, <2>3, <2>4
  <2>6. Postings(w)' = Postings(w)
    BY KeptFacts, ActionsKeep DEF IndexActions, vars
  <2>7. Len(index[w]) \in Nat
    BY <2>2, IndexedFacts
  <2>8. /\ Len(fields') = 2 * (Len(index[w]) - 0)
        /\ \A k \in 1..Len(fields') : fields'[k] = Postings(w)[2 * 0 + k]
    <3>1. \A k \in 1..Len(fields') : 2 * 0 + k = k
      OBVIOUS
    <3> QED
      BY <2>5, <2>7, <3>1
  <2>9. ReadUpTo(w, 0)'
    BY <1>1, <1>2, <2>6, <2>8 DEF ReadUpTo
  <2>10. 0 \in 0..Len(index'[w])
    BY <1>2, <2>7
  <2> QED
    BY <2>1, <2>9, <2>10
<1> QED
  BY <1>8, <1>9, <1>10, <1>11 DEF TableRight

LEMMA TailFacts ==
  ASSUME NEW S, NEW s \in Seq(S), s # <<>>
  PROVE  /\ Head(s) = s[1] /\ s[1] \in S
         /\ Tail(s) \in Seq(S) /\ Len(s) \in Nat /\ Len(s) >= 1 /\ Len(Tail(s)) = Len(s) - 1
         /\ \A k \in 1..Len(s) - 1 : Tail(s)[k] = s[k + 1]
<1>1. PICK t : t = Tail(s)
  OBVIOUS
<1>2. t \in Seq(S) /\ Len(t) = Len(s) - 1 /\ \A k \in 1..Len(t) : t[k] = s[k + 1]
  BY <1>1, HeadTailProperties
<1>3. Len(s) \in Nat /\ Len(s) # 0
  BY LenProperties, EmptySeq
<1>4. Head(s) = s[1] /\ s[1] \in S
  BY <1>3
<1> QED
  BY <1>1, <1>2, <1>3, <1>4

\* What the reader finds where it stands on a plain word's line.
LEMMA NextPosting ==
  ASSUME IInv, Untouched, IndexListsPages, NEW w \in DOMAIN index, NEW n \in 0..Len(index[w]),
         ReadUpTo(w, n), fields \in Seq(Fields)
  PROVE  /\ fields = <<>> <=> n = Len(index[w])
         /\ fields # <<>> =>
              /\ n + 1 \in 1..Len(index[w])
              /\ fields[1] = Field("id", w, index[w][n + 1])
              /\ AfterInteger = Tail(fields) /\ AfterInteger # <<>>
              /\ Head(AfterInteger) = Field(Digits(w, index[w][n + 1]), w, index[w][n + 1])
              /\ Tail(AfterInteger) \in Seq(Fields)
              /\ Len(Tail(AfterInteger)) = 2 * (Len(index[w]) - (n + 1))
              /\ \A k \in 1..Len(Tail(AfterInteger)) : Tail(AfterInteger)[k] = Postings(w)[2 * (n + 1) + k]
<1>1. PICK L, p : L = Len(index[w]) /\ L \in Nat /\ p = Postings(w)
  BY IndexedFacts
<1>2. Len(fields) = 2 * (L - n) /\ \A k \in 1..2 * (L - n) : fields[k] = p[2 * n + k]
  BY <1>1 DEF ReadUpTo
<1>3. n \in 0..L
  BY <1>1
<1>4. fields = <<>> <=> n = L
  <2>1. fields = <<>> <=> Len(fields) = 0
    OBVIOUS
  <2>2. 2 * (L - n) = 0 <=> n = L
    BY <1>1, <1>3
  <2> QED
    BY <1>2, <2>1, <2>2
<1>5. ASSUME fields # <<>>
      PROVE  /\ n + 1 \in 1..L
             /\ fields[1] = Field("id", w, index[w][n + 1])
             /\ AfterInteger = Tail(fields) /\ AfterInteger # <<>>
             /\ Head(AfterInteger) = Field(Digits(w, index[w][n + 1]), w, index[w][n + 1])
             /\ Tail(AfterInteger) \in Seq(Fields)
             /\ Len(Tail(AfterInteger)) = 2 * (L - (n + 1))
             /\ \A k \in 1..Len(Tail(AfterInteger)) : Tail(AfterInteger)[k] = p[2 * (n + 1) + k]
  <2>1. n < L /\ n + 1 \in 1..L /\ 2 * (L - n) >= 2 /\ 1 \in 1..2 * (L - n) /\ 2 \in 1..2 * (L - n)
    BY <1>1, <1>3, <1>4, <1>5
  <2>2. /\ p[2 * (n + 1) - 1] = Field("id", w, index[w][n + 1])
        /\ p[2 * (n + 1)] = Field(Digits(w, index[w][n + 1]), w, index[w][n + 1])
    BY <1>1, <2>1, PostingsFacts
  <2>3. 2 * (n + 1) - 1 = 2 * n + 1 /\ 2 * (n + 1) = 2 * n + 2
    BY <2>1
  <2>4. fields[1] = Field("id", w, index[w][n + 1])
    BY <1>2, <2>1, <2>2, <2>3
  <2>5. fields[2] = Field(Digits(w, index[w][n + 1]), w, index[w][n + 1])
    BY <1>2, <2>1, <2>2, <2>3
  <2>6. AfterInteger = Tail(fields)
    <3>1. fields[1].kind = "id"
      BY <2>4 DEF Field
    <3> QED
      BY <3>1 DEF AfterInteger
  <2>7. PICK r : r = Tail(fields)
    OBVIOUS
  <2>8. r \in Seq(Fields) /\ Len(r) = 2 * (L - n) - 1 /\ \A k \in 1..2 * (L - n) - 1 : r[k] = fields[k + 1]
    BY <1>2, <1>5, <2>7, TailFacts
  <2>9. r # <<>> /\ Head(r) = fields[2]
    <3>1. Len(r) >= 1 /\ 1 \in 1..2 * (L - n) - 1 /\ 1 + 1 = 2
      BY <2>1, <2>8, <1>1, <1>3
    <3>2. r # <<>>
      BY <3>1
    <3>3. Head(r) = r[1]
      BY <2>8, <3>2, TailFacts
    <3> QED
      BY <2>8, <3>1, <3>2, <3>3
  <2>10. PICK t : t = Tail(r)
    OBVIOUS
  <2>11. /\ t \in Seq(Fields) /\ Len(t) = 2 * (L - (n + 1))
         /\ \A k \in 1..2 * (L - (n + 1)) : t[k] = r[k + 1]
    <3>1. (2 * (L - n) - 1) - 1 = 2 * (L - (n + 1))
      BY <1>1, <1>3
    <3>2. t \in Seq(Fields) /\ Len(t) = Len(r) - 1 /\ \A k \in 1..Len(r) - 1 : t[k] = r[k + 1]
      BY <2>8, <2>9, <2>10, TailFacts
    <3> QED
      BY <2>8, <3>1, <3>2
  <2>12. ASSUME NEW k \in 1..Len(t)
         PROVE  t[k] = p[2 * (n + 1) + k]
    <3>1. /\ k \in 1..2 * (L - (n + 1)) /\ k + 1 \in 1..2 * (L - n) - 1
          /\ (k + 1) + 1 \in 1..2 * (L - n) /\ 2 * n + ((k + 1) + 1) = 2 * (n + 1) + k
      BY <1>1, <1>3, <2>11
    <3>2. t[k] = fields[(k + 1) + 1]
      BY <2>8, <2>11, <3>1
    <3> QED
      BY <1>2, <3>1, <3>2
  <2>13. AfterInteger = r /\ Tail(AfterInteger) = t
    BY <2>6, <2>7, <2>10
  <2> QED
    BY <2>1, <2>4, <2>5, <2>6, <2>9, <2>11, <2>12, <2>13
<1> QED
  BY <1>1, <1>4, <1>5

LEMMA PairStep ==
  ASSUME IInv, Untouched, IndexListsPages, LinesRight, TableRight, LoadPair
  PROVE  TableRight'
<1>1. /\ stage = "loadPair" /\ stage' = "loadPair" /\ PairAhead
      /\ pairs' = pairs \cup {<<IntegerAt(fields[1]), Head(AfterInteger)>>}
      /\ fields' = Tail(AfterInteger)
      /\ UNCHANGED <<table, word, next>>
  BY DEF LoadPair
<1>2. /\ index' = index /\ indexFile' = indexFile /\ Shadows' = Shadows
      /\ \A w : Plain(w)' = Plain(w) /\ Line(w)' = Line(w) /\ Legible(w)' = Legible(w)
  BY ReaderKeeps
<1>3. fields \in Seq(Fields) /\ fields # <<>> /\ fields[1].kind # "nan" /\ AfterInteger # <<>>
      /\ Head(AfterInteger).kind # "nan"
  BY <1>1 DEF PairAhead, TableRight, ReaderRight
<1>4. AfterInteger \in Seq(Fields)
  BY <1>3 DEF AfterInteger
<1>5. Head(AfterInteger) \in Fields /\ Tail(AfterInteger) \in Seq(Fields)
  BY <1>3, <1>4
<1>6. IntegerAt(fields[1]) \in Int
  <2>1. fields[1] \in Fields
    BY <1>3
  <2>2. fields[1].id \in Int
    BY <2>1, DedupAssumption DEF Fields
  <2> QED
    BY <2>2 DEF IntegerAt
<1>7. ReaderRight'
  <2>1. fields' \in Seq(Fields)
    BY <1>1, <1>5
  <2>2. pairs' \subseteq Int \X Fields
    BY <1>1, <1>5, <1>6 DEF TableRight, ReaderRight
  <2> QED
    BY <1>1, <1>2, <2>1, <2>2 DEF TableRight, ReaderRight, Fields
<1>8. EntriesRight' /\ LinesRead'
  BY <1>1, <1>2 DEF TableRight, EntriesRight, LinesRead
<1>9. PairsRight'
  <2> SUFFICES ASSUME Plain(word)
               PROVE  (\E n \in 0..Len(index[word]) : ReadUpTo(word, n))'
    <3>1. Plain(word)' <=> Plain(word)
      BY <1>1, <1>2 DEF Plain
    <3> QED
      BY <3>1 DEF PairsRight
  <2>1. PICK w : w = word /\ w \in DOMAIN index
    BY PlainFacts
  <2>2. PICK n \in 0..Len(index[w]) : ReadUpTo(w, n)
    BY <1>1, <2>1 DEF TableRight, PairsRight
  <2>3. PICK d : d = index[w][n + 1]
    OBVIOUS
  <2>4. /\ n + 1 \in 1..Len(index[w])
        /\ fields[1] = Field("id", w, d)
        /\ Head(AfterInteger) = Field(Digits(w, d), w, d)
        /\ Len(fields') = 2 * (Len(index[w]) - (n + 1))
        /\ \A k \in 1..Len(fields') : fields'[k] = Postings(w)[2 * (n + 1) + k]
    BY <1>1, <1>3, <2>1, <2>2, <2>3, NextPosting
  <2>5. Digits(w, d) # "nan" /\ IntegerAt(fields[1]) = d
    BY <1>3, <2>4 DEF Field, IntegerAt
  <2>6. pairs' = pairs \cup {Posting(w, n + 1)}
    BY <1>1, <2>3, <2>4, <2>5 DEF Posting
  <2>7. Len(index[w]) \in Nat
    BY <2>1, IndexedFacts
  <2>8. \A k : k \in 1..(n + 1) <=> k \in 1..n \/ k = n + 1
    BY <2>2, <2>7
  <2>9. pairs' = {Posting(w, k) : k \in 1..(n + 1)}
    BY <2>2, <2>6, <2>8 DEF ReadUpTo
  <2>10. \A k \in 1..(n + 1) : Digits(w, index[w][k]) # "nan"
    BY <2>2, <2>3, <2>5, <2>8 DEF ReadUpTo
  <2>11. Postings(w)' = Postings(w) /\ \A k : Posting(w, k)' = Posting(w, k) /\ Digits(w, index[w][k])' = Digits(w, index[w][k])
    <3>1. pageLib' = pageLib
      BY ActionsKeep DEF IndexActions, vars
    <3>2. Postings(w)' = Postings(w) /\ (\A k : Posting(w, k)' = Posting(w, k)) /\ \A e : Digits(w, e)' = Digits(w, e)
      BY <1>2, <3>1, KeptFacts
    <3> QED
      BY <1>2, <3>2
  <2>12. ReadUpTo(w, n + 1)'
    BY <1>2, <2>4, <2>9, <2>10, <2>11 DEF ReadUpTo
  <2> QED
    BY <1>1, <1>2, <2>1, <2>4, <2>7, <2>12
<1> QED
  BY <1>7, <1>8, <1>9 DEF TableRight

LEMMA LineEndStep ==
  ASSUME IInv, Untouched, IndexListsPages, LinesRight, TableRight, LoadLineEnd
  PROVE  TableRight'
<1>1. /\ stage = "loadPair" /\ stage' = "loadLine" /\ ~PairAhead /\ table' = Insert(word, pairs)
      /\ UNCHANGED <<word, pairs, next, fields>>
  BY DEF LoadLineEnd
<1>2. /\ DOMAIN table' = DOMAIN table \cup {word}
      /\ \A w \in DOMAIN table : table'[w] = table[w]
      /\ word \notin DOMAIN table => table'[word] = pairs
  BY <1>1, InsertFacts
<1>3. /\ index' = index /\ indexFile' = indexFile /\ Shadows' = Shadows
      /\ \A w : Plain(w)' = Plain(w) /\ Line(w)' = Line(w) /\ Legible(w)' = Legible(w)
  BY ReaderKeeps
<1>4. ReaderRight'
  BY <1>1, <1>2, <1>3 DEF TableRight, ReaderRight, Fields
<1>5. ASSUME Plain(word)
      PROVE  pairs = Legible(word)
  <2>1. PICK w : w = word /\ w \in DOMAIN index
    BY <1>5, PlainFacts
  <2>2. PICK n \in 0..Len(index[w]) : ReadUpTo(w, n)
    BY <1>1, <1>5, <2>1 DEF TableRight, PairsRight
  <2>3. PICK s, L : s = index[w] /\ L = Len(s) /\ L \in Nat /\ n \in 0..L
    BY <2>1, <2>2, IndexedFacts
  <2>4. CASE n = L \/ Digits(w, s[n + 1]) = "nan"
    <3>1. \A k \in 1..n : Digits(w, s[k]) # "nan"
      BY <2>2, <2>3 DEF ReadUpTo
    <3>2. ASSUME NEW k
          PROVE  k \in 1..n <=> k \in 1..L /\ \A m \in 1..k : Digits(w, s[m]) # "nan"
      <4>1. ASSUME k \in 1..n
            PROVE  k \in 1..L /\ \A m \in 1..k : Digits(w, s[m]) # "nan"
        <5>1. k \in 1..L /\ \A m \in 1..k : m \in 1..n
          BY <2>3, <4>1
        <5> QED
          BY <3>1, <5>1
      <4>2. ASSUME k \in 1..L, \A m \in 1..k : Digits(w, s[m]) # "nan", k \notin 1..n
            PROVE  FALSE
        <5>1. n # L /\ n + 1 \in 1..k
          BY <2>3, <4>2
        <5> QED
          BY <2>4, <4>2, <5>1
      <4> QED
        BY <4>1, <4>2
    <3>3. {l \in 1..L : \A m \in 1..l : Digits(w, s[m]) # "nan"} = 1..n
      BY <3>2
    <3>4. Legible(w) = {<<s[k], Field(Digits(w, s[k]), w, s[k])>> : k \in 1..n}
      BY <2>3, <3>3 DEF Legible
    <3>5. pairs = {<<s[k], Field(Digits(w, s[k]), w, s[k])>> : k \in 1..n}
      BY <2>2, <2>3 DEF ReadUpTo, Posting
    <3> QED
      BY <2>1, <3>4, <3>5
  <2>5. CASE n # L /\ Digits(w, s[n + 1]) # "nan"
    <3>1. fields \in Seq(Fields)
      BY DEF TableRight, ReaderRight
    <3>2. /\ fields # <<>> /\ fields[1] = Field("id", w, s[n + 1])
          /\ AfterInteger # <<>> /\ Head(AfterInteger) = Field(Digits(w, s[n + 1]), w, s[n + 1])
      BY <2>1, <2>2, <2>3, <2>5, <3>1, NextPosting
    <3>3. PairAhead
      BY <2>5, <3>2 DEF PairAhead, Field
    <3> QED
      BY <1>1, <3>3
  <2> QED
    BY <2>4, <2>5
<1>6. EntriesRight'
  <2> SUFFICES ASSUME NEW w \in DOMAIN table', Plain(w) PROVE table'[w] = Legible(w)
    BY <1>3 DEF EntriesRight
  <2> QED
    BY <1>2, <1>5 DEF TableRight, EntriesRight
<1>7. LinesRead'
  <2> SUFFICES ASSUME NEW k \in 1..next, NEW w, Plain(w), indexFile[k] = Line(w)
               PROVE  w \in DOMAIN table'
    BY <1>1, <1>3 DEF LinesRead
  <2> QED
    BY <1>2 DEF TableRight, LinesRead
<1>8. PairsRight'
  BY <1>1 DEF PairsRight
<1> QED
  BY <1>4, <1>6, <1>7, <1>8 DEF TableRight

LEMMA LoadedStep ==
  ASSUME TableRight, Loaded
  PROVE  TableRight'
<1>1. /\ stage = "loadLine" /\ stage' = "ready" /\ next = Len(indexFile)
      /\ UNCHANGED <<table, word, pairs, next, fields>>
  BY DEF Loaded
<1>2. /\ index' = index /\ indexFile' = indexFile /\ Shadows' = Shadows
      /\ \A w : Plain(w)' = Plain(w) /\ Line(w)' = Line(w) /\ Legible(w)' = Legible(w)
  BY ReaderKeeps
<1>3. ReaderRight'
  BY <1>1, <1>2 DEF TableRight, ReaderRight, Fields
<1>4. EntriesRight' /\ LinesRead' /\ PairsRight'
  BY <1>1, <1>2 DEF TableRight, EntriesRight, LinesRead, PairsRight
<1> QED
  BY <1>3, <1>4 DEF TableRight

LEMMA TableStep ==
  ASSUME IInv, Untouched, IndexListsPages, LinesRight, TableRight, IndexNext,
         Untouched', LinesRight'
  PROVE  TableRight'
<1>1. CASE ~Reading
  BY <1>1, TableAtFirst
<1>2. CASE Reading
  <2>1. LoadEmptyLine \/ LoadWord \/ LoadPair \/ LoadLineEnd \/ Loaded
    BY <1>2 DEF IndexNext, Reading, Cut, Build, StorePages, StoreItem, Open, LoadPages
  <2> QED
    BY <2>1, EmptyLineStep, WordStep, PairStep, LineEndStep, LoadedStep
<1> QED
  BY <1>1, <1>2

-----------------------------------------------------------------------------
(* The invariant of the specification, and what follows for the reader. *)

LEMMA FilesInit ==
  ASSUME IndexInit
  PROVE  FilesInv
<1>1. IInv
  BY IndexInitInit, InitIInv, DedupAssumption
<1>2. IdsDiffer
  BY IdsDifferAtFirst
<1>3. /\ stage = "cutRedundantPages" /\ index = <<>> /\ unstored = {} /\ indexFile = <<>> /\ offsetFile = <<>>
      /\ texts = <<>> /\ table = <<>> /\ word = EmptyWord /\ pairs = {} /\ next = 0 /\ fields = <<>>
  BY DEF IndexInit
<1>4. Untouched /\ IndexListsPages /\ OffsetsRight /\ TextsRight
  BY <1>3 DEF Untouched, Starting, Reading, IndexListsPages, OffsetsRight, TextsRight
<1>5. DOMAIN <<>> = {} /\ Len(<<>>) = 0 /\ <<>> \in Seq(Fields) /\ <<>> \in Seq(Seq(Fields))
  BY EmptySeq
<1>6. LinesRight
  BY <1>3, <1>5 DEF LinesRight
<1>7. TableRight
  BY <1>3, <1>5 DEF TableRight, ReaderRight, EntriesRight, LinesRead, PairsRight
<1> QED
  BY <1>1, <1>2, <1>4, <1>6, <1>7 DEF FilesInv

LEMMA FilesStep ==
  ASSUME FilesInv, [IndexNext]_allVars
  PROVE  FilesInv'
<1> USE DEF FilesInv
<1>1. IInv' /\ IdsDiffer'
  BY IndexNextNext, NextIInv, IdsDifferStep
<1>2. CASE IndexNext
  <2>1. Untouched' /\ IndexListsPages' /\ OffsetsRight' /\ TextsRight' /\ LinesRight'
    BY <1>2, UntouchedStep, IndexListsStep, OffsetsStep, TextsStep, LinesStep
  <2>2. TableRight'
    BY <1>2, <2>1, TableStep
  <2> QED
    BY <1>1, <2>1, <2>2
<1>3. CASE UNCHANGED allVars
  <2>1. UNCHANGED <<pageLib, stage, index, unstored, indexFile, pageFile, offsetFile>>
        /\ UNCHANGED <<texts, table, word, pairs, next, fields>>
    BY <1>3 DEF allVars, vars, indexVars
  <2>2. /\ Size' = Size /\ Shadows' = Shadows
        /\ \A w : /\ Postings(w)' = Postings(w) /\ Line(w)' = Line(w)
                  /\ Legible(w)' = Legible(w) /\ Plain(w)' = Plain(w)
        /\ \A w, d : Digits(w, d)' = Digits(w, d)
        /\ \A w, k : Posting(w, k)' = Posting(w, k)
    BY <2>1, KeptFacts
  <2>3. Untouched'
    BY <2>1 DEF Untouched, Starting, Reading
  <2>4. IndexListsPages'
    BY <2>1, <2>2, KeptLists DEF IndexListsPages
  <2>5. OffsetsRight'
    BY <2>1, <2>2 DEF OffsetsRight
  <2>6. TextsRight'
    BY <2>1, <2>2 DEF TextsRight, Reading
  <2>7. LinesRight'
    BY <2>1, <2>2 DEF LinesRight, Fields
  <2>8. ReaderRight' /\ EntriesRight' /\ LinesRead'
    BY <2>1, <2>2 DEF TableRight, ReaderRight, EntriesRight, LinesRead, Fields
  <2>9. PairsRight'
    <3>1. PICK w : w = word /\ word' = w
      BY <2>1
    <3>2. \A n : ReadUpTo(w, n)' <=> ReadUpTo(w, n)
      BY <2>1, <2>2 DEF ReadUpTo
    <3>3. Plain(word)' <=> Plain(w)
      BY <2>1, <2>2, <3>1 DEF Plain
    <3> QED
      BY <2>1, <3>1, <3>2, <3>3 DEF TableRight, PairsRight
  <2> QED
    BY <1>1, <2>3, <2>4, <2>5, <2>6, <2>7, <2>8, <2>9 DEF TableRight
<1> QED
  BY <1>2, <1>3

LEMMA TypesFollow ==
  ASSUME FilesInv
  PROVE  IndexTypeOK
<1> USE DEF FilesInv
<1>1. DOMAIN index \subseteq Words /\ \A w \in DOMAIN index : index[w] \in Seq(1..MaxPages)
  BY IndexedFacts
<1>2. ASSUME NEW b \in DOMAIN index
      PROVE  index[b][1] \in 1..MaxPages
  <2>1. PICK k \in 1..Size : b \in pageLib[k].words
    BY IndexedFacts DEF IndexListsPages
  <2>2. pageLib[k].docId \in ToSet(index[b])
    BY <2>1, IndexedFacts DEF IndexListsPages, Lists
  <2>3. PICK s : s = index[b] /\ Len(s) \in Nat /\ (\A m \in 1..Len(s) : s[m] \in 1..MaxPages)
                 /\ ToSet(s) = {s[m] : m \in 1..Len(s)}
    BY IndexedFacts
  <2>4. PICK m \in 1..Len(s) : s[m] = pageLib[k].docId
    BY <2>2, <2>3
  <2>5. 1 \in 1..Len(s)
    BY <2>3, <2>4
  <2> QED
    BY <2>3, <2>5
<1>3. Shadows \subseteq Words
  BY <1>2, IndexAssumption DEF Shadows
<1>4. DOMAIN texts \subseteq 1..MaxPages
  <2>1. CASE Reading
    BY <2>1, LibraryFacts DEF TextsRight
  <2>2. CASE ~Reading
    <3>1. DOMAIN <<>> = {}
      OBVIOUS
    <3> QED
      BY <2>2, <3>1 DEF Untouched
  <2> QED
    BY <2>1, <2>2
<1> QED
  BY <1>1, <1>3, <1>4 DEF IndexTypeOK, Untouched, LinesRight, TableRight, ReaderRight

LEMMA PagesFollow ==
  ASSUME FilesInv
  PROVE  PagesReadBack
BY DEF FilesInv, TextsRight, PagesReadBack, Reading

LEMMA PlainWordsFollow ==
  ASSUME FilesInv
  PROVE  PlainWordsReadBack
<1> USE DEF FilesInv
<1> SUFFICES ASSUME stage = "ready" PROVE PlainWordsReadBack
  BY DEF PlainWordsReadBack
<1>1. unstored = {}
  BY DEF Untouched, Starting
<1>2. ASSUME NEW w \in DOMAIN index \ (Blanks \cup Shadows)
      PROVE  w \in DOMAIN table /\ table[w] = Legible(w)
  <2>1. Plain(w)
    BY <1>2 DEF Plain
  <2>2. PICK k \in 1..next : indexFile[k] = Line(w)
    BY <1>1 DEF LinesRight, TableRight, ReaderRight
  <2>3. w \in DOMAIN table
    BY <2>1, <2>2 DEF TableRight, LinesRead
  <2> QED
    BY <2>1, <2>3 DEF TableRight, EntriesRight
<1> QED
  BY <1>2 DEF PlainWordsReadBack, TableRight, ReaderRight

LEMMA HiddenFollows ==
  ASSUME FilesInv
  PROVE  NothingHiddenOtherwise
<1> USE DEF FilesInv
<1> SUFFICES ASSUME stage = "ready", NEW w \in DOMAIN index \ (Blanks \cup Shadows), NEW d \in ToSet(index[w])
             PROVE  \/ \E pair \in table[w] : pair[1] = d
                    \/ \E p \in ToSet(pageLib) : \A v \in p.words : Len(index[v]) + 1 = Size
  BY DEF NothingHiddenOtherwise
<1>1. table[w] = Legible(w)
  BY PlainWordsFollow DEF PlainWordsReadBack
<1>2. PICK s, L : s = index[w] /\ L = Len(s) /\ L \in Nat /\ ToSet(s) = {s[m] : m \in 1..L}
  BY IndexedFacts
<1>3. PICK m \in 1..L : s[m] = d
  BY <1>2
<1>4. CASE \A l \in 1..m : Digits(w, s[l]) # "nan"
  <2>1. <<s[m], Field(Digits(w, s[m]), w, s[m])>> \in Legible(w)
    BY <1>2, <1>4 DEF Legible
  <2> QED
    BY <1>1, <1>3, <2>1
<1>5. CASE \E l \in 1..m : Digits(w, s[l]) = "nan"
  <2>1. PICK l \in 1..L : Digits(w, s[l]) = "nan"
    BY <1>2, <1>5
  <2>2. WeighingWords(s[l]) = {}
    BY <2>1, DigitsFacts
  <2>3. \A v \in DOMAIN index : Lists(index[v], v, Size)
    BY DEF IndexListsPages
  <2>4. s[l] \in ToSet(index[w])
    BY <1>2
  <2>5. PICK k \in 1..Size : pageLib[k].docId = s[l]
    BY <2>3, <2>4 DEF Lists
  <2>6. ASSUME NEW v \in pageLib[k].words
        PROVE  Len(index[v]) + 1 = Size
    <3>1. v \in DOMAIN index
      BY DEF IndexListsPages
    <3>2. s[l] \in ToSet(index[v])
      BY <2>3, <2>5, <3>1 DEF Lists
    <3> QED
      BY <2>2, <3>1, <3>2 DEF WeighingWords, IdfIsZero
  <2>7. pageLib[k] \in ToSet(pageLib)
    BY LibraryFacts
  <2> QED
    BY <2>6, <2>7
<1> QED
  BY <1>4, <1>5

\* The deduplication the index starts from is PageDedup's, run on the library
\* that readInfoFromFile has read.
THEOREM IndexRunsDedup == IndexSpec => Spec
<1>1. IndexInit => Init
  BY IndexInitInit
<1>2. [IndexNext]_allVars => [Next]_vars
  BY IndexNextNext
<1> QED
  BY <1>1, <1>2, PTL DEF IndexSpec, Spec

\* buildInvertIndexTable, storeOnDisk and the constructor of WordQuery keep the
\* invariant: what is on file and in the table follows from the library.
THEOREM IndexInvariant == IndexSpec => []FilesInv
<1>1. IndexInit => FilesInv
  BY FilesInit
<1>2. FilesInv /\ [IndexNext]_allVars => FilesInv'
  BY FilesStep
<1> QED
  BY <1>1, <1>2, PTL DEF IndexSpec

\* For every library and every order of the hash table, the reader has the pages,
\* words, documents and weights that storeOnDisk wrote, but for what the format
\* cannot hold.
THEOREM FilesAreReadRightly == IndexSpec => []FilesReadBack
<1>1. FilesInv => FilesReadBack
  BY TypesFollow, PagesFollow, PlainWordsFollow, HiddenFollows DEF FilesReadBack
<1> QED
  BY <1>1, IndexInvariant, PTL
=============================================================================
