---------------------------- MODULE PageDedup ----------------------------
(***************************************************************************)
(* PageLibPreprocessor::cutRedundantPages: two nested loops over a vector  *)
(* that shrinks while they run.  A page similar to an earlier one is       *)
(* overwritten by the last page, which is popped.  Indices are the code's, *)
(* from 0; a round of either loop is a step.  The model stops where the    *)
(* code first reads beyond the vector, which is undefined behaviour.       *)
(***************************************************************************)
EXTENDS Integers, Sequences

CONSTANTS
  Pages,       \* the pages there can be
  MaxPages     \* bound: pages in the library

ASSUME DedupAssumption == MaxPages \in Nat

VARIABLES
  loaded,      \* the pages readInfoFromFile found (history)
  similar,     \* operator== of WebPage: the pairs with enough common words
  pageLib,     \* PageLibPreprocessor::_pageLib
  i, j,        \* the loop variables
  pc           \* at the head of a loop, or how the function ended

vars == <<loaded, similar, pageLib, i, j, pc>>

\* Sharing more than three quarters of the shorter list of top words is
\* symmetric and not transitive; a page without top words (0.0 / 0) is similar
\* to none, not even to its own copy, every other page is similar to itself.
SharesTopWords(r) ==
  \A p, q \in Pages : <<p, q>> \in r => <<q, p>> \in r /\ <<p, p>> \in r

Init ==
  /\ \E n \in 0..MaxPages : pageLib \in [1..n -> Pages]
  /\ loaded = {pageLib[k] : k \in 1..Len(pageLib)}
  /\ similar \in {r \in SUBSET (Pages \X Pages) : SharesTopWords(r)}
  /\ i = 0
  /\ j = 0
  /\ pc = "outer"

Size == Len(pageLib)

\* _pageLib[k]
Page(k) == pageLib[k + 1]

\* i != _pageLib.size() - 1; with an empty vector the right-hand side is the
\* largest size_t, which no i reaches.
OuterRound ==
  /\ pc = "outer"
  /\ i # Size - 1
  /\ j' = i + 1
  /\ pc' = "inner"
  /\ UNCHANGED <<loaded, similar, pageLib, i>>

OuterDone ==
  /\ pc = "outer"
  /\ i = Size - 1
  /\ pc' = "done"
  /\ UNCHANGED <<loaded, similar, pageLib, i, j>>

\* Mutant: the index is advanced twice.
InnerDoneTwice ==
  /\ pc = "inner"
  /\ j = Size
  /\ i' = i + 2
  /\ pc' = "outer"
  /\ UNCHANGED <<loaded, similar, pageLib, j>>

InnerDone ==
  /\ pc = "inner"
  /\ j = Size
  /\ i' = i + 1
  /\ pc' = "outer"
  /\ UNCHANGED <<loaded, similar, pageLib, j>>

\* The comparison reads pages that do not exist: j has been beyond the end
\* since the loop began, and no test for equality will stop it there.
ReadPastEnd ==
  /\ pc = "inner"
  /\ j > Size
  /\ pc' = "overrun"
  /\ UNCHANGED <<loaded, similar, pageLib, i, j>>

\* Mutant: forgets ++j.
KeepForever ==
  /\ pc = "inner"
  /\ j < Size
  /\ <<Page(i), Page(j)>> \notin similar
  /\ UNCHANGED vars

KeepPage ==
  /\ pc = "inner"
  /\ j < Size
  /\ <<Page(i), Page(j)>> \notin similar
  /\ j' = j + 1
  /\ UNCHANGED <<loaded, similar, pageLib, i, pc>>

\* Mutants: no --j, --j once too often, or pop_back() without moving the last
\* page.
DropAndSkip ==
  /\ pc = "inner"
  /\ j < Size
  /\ <<Page(i), Page(j)>> \in similar
  /\ pageLib' = SubSeq([pageLib EXCEPT ![j + 1] = Page(Size - 1)], 1, Size - 1)
  /\ j' = j + 1
  /\ UNCHANGED <<loaded, similar, i, pc>>

DropAndStepBack ==
  /\ pc = "inner"
  /\ j < Size
  /\ <<Page(i), Page(j)>> \in similar
  /\ pageLib' = SubSeq([pageLib EXCEPT ![j + 1] = Page(Size - 1)], 1, Size - 1)
  /\ j' = j - 1
  /\ UNCHANGED <<loaded, similar, i, pc>>

DropLast ==
  /\ pc = "inner"
  /\ j < Size
  /\ <<Page(i), Page(j)>> \in similar
  /\ pageLib' = SubSeq(pageLib, 1, Size - 1)
  /\ UNCHANGED <<loaded, similar, i, j, pc>>

\* The last page takes the place of the duplicate and is looked at next.
DropPage ==
  /\ pc = "inner"
  /\ j < Size
  /\ <<Page(i), Page(j)>> \in similar
  /\ pageLib' = SubSeq([pageLib EXCEPT ![j + 1] = Page(Size - 1)], 1, Size - 1)
  /\ UNCHANGED <<loaded, similar, i, j, pc>>

Next ==
  OuterRound \/ OuterDone \/ InnerDone \/ ReadPastEnd \/ KeepPage \/ DropPage

Spec == Init /\ [][Next]_vars

-----------------------------------------------------------------------------
(* Properties. *)

TypeOK ==
  /\ loaded \subseteq Pages
  /\ similar \subseteq Pages \X Pages
  /\ pageLib \in Seq(Pages)
  /\ i \in Nat
  /\ j \in Nat
  /\ pc \in {"outer", "inner", "done", "overrun"}

\* Whichever way the loops end, no two pages that are left are similar,
\* although the vector was reordered and shortened under both indices.
NoSimilarPairLeft ==
  pc \in {"done", "overrun"} =>
    \A k, l \in 1..Size : k < l => <<pageLib[k], pageLib[l]>> \notin similar

\* No page disappears without a similar one that stays for good: similarity
\* is not transitive, so the twin must not be dropped in its turn.
DroppedHaveTwin ==
  \A p \in loaded :
    \/ \E k \in 1..Size : pageLib[k] = p
    \/ \E k \in 1..Size : k <= i + 1 /\ <<pageLib[k], p>> \in similar

\* What is left of the library represents all of it, without repetition: no two
\* similar pages are left, and every page that went has a similar one that stays.
DedupIsRight ==
  /\ TypeOK
  /\ NoSimilarPairLeft
  /\ DroppedHaveTwin
=============================================================================
