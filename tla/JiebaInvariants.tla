-------------------------- MODULE JiebaInvariants --------------------------
(***************************************************************************)
(* The invariants that carry the proofs about the segmentation, with what  *)
(* they are made of: of the dictionary (DictInv), of a call (CallInv), of  *)
(* the cuts that choose (BestInv) and of those that find (FindsInv).       *)
(***************************************************************************)
EXTENDS Jieba

\* A line's tag, or none.
Tags == STRING \cup {""}

Units == [word : Seq(Nat), freq : Nat, tag : Tags]

\* The units in the order in which they go into the trie, and their words.
Entries == [k \in 1..Len(static) + Len(active) |->
              IF k <= Len(static) THEN Static(k) ELSE Active(k - Len(static))]

EntryWords == [k \in 1..Len(static) + Len(active) |->
                 IF k <= Len(static) THEN static[k].word ELSE active[k - Len(static)].word]

\* The trie t leads, for each word of the first n entries, to the latest of
\* them, and for no other path to anything.
Holds(t, e, w, n) ==
  /\ \A path \in DOMAIN t : path # <<>>
  /\ \A path \in DOMAIN t : t[path] # None =>
       \E k \in 1..n : t[path] = e[k] /\ w[k] = path /\ \A j \in k + 1..n : w[j] # path
  /\ \A k \in 1..n : w[k] # <<>> => w[k] \in DOMAIN t /\ t[w[k]] # None

DictTypes ==
  /\ stage \in {"dict", "user", "trie", "ready", "aborted"}
  /\ dictFile \in DictFiles /\ userFile \in UserFiles
  /\ lineno \in Nat
  /\ info \in Units /\ static \in Seq(Units) /\ active \in Seq(Units)
  /\ weights.min \in Nat /\ weights.user \in Nat

\* How far the trie is.
TrieIsRight ==
  \E n \in 0..Len(static) + Len(active) :
    /\ Holds(trie, Entries, EntryWords, n)
    /\ stage \in {"dict", "user"} => active = <<>> /\ trie = <<>>
    /\ stage = "trie" => active = <<>> /\ n = lineno
    /\ stage = "ready" => n = Len(static) + Len(active)

DictInv == DictTypes /\ TrieIsRight

\* Words that have a rune.
Filled == Seq(Nat) \ {<<>>}

\* The calls that keep every rune, and those whose result is the words.
Keeping == {"mp", "hmm", "cut", "tag"}

Plain == {"mp", "hmm", "cut"}

CallInv ==
  /\ pc \in {"idle", "cut", "level", "tag", "done"}
  /\ sentence \in Seq(Byte) /\ cursor \in 0..Len(text)
  /\ pc = "level" => call.mode = "level"
  /\ pc = "tag" => call.mode = "tag"
  /\ pc = "cut" /\ call.mode \in Keeping => uwords \in Seq(Seq(Nat)) /\ FlattenSeq(uwords) = Seen
  /\ pc = "done" /\ call.mode \in Plain =>
       /\ uwords \in Seq(Seq(Nat)) /\ FlattenSeq(uwords) = text
       /\ res = [i \in DOMAIN uwords |-> Encode(uwords[i])]

JiebaInv == DictInv /\ CallInv

\* With a path come the nodes on the way.
Closed(D) == \A path \in D : path \in Seq(Nat) /\ \A k \in 1..Len(path) : SubSeq(path, 1, k) \in D

DictMore ==
  /\ Closed(DOMAIN trie)
  /\ stage \in {"user", "trie", "ready"} => weights.total \in Nat \ {0}

\* PreFilter stops only next to a symbol.
AtBorder(s, c) == c = 0 \/ c = Len(s) \/ s[c] \in Symbols \/ s[c + 1] \in Symbols

\* Whoever cuts has a dictionary and a model.
Running == pc # "idle" => stage = "ready" /\ model # <<>>

\* The cursor stops next to symbols only.
CursorInv == pc = "cut" => AtBorder(text, cursor)

\* What all parts of the cuts' invariants rest on.
CutInv == JiebaInv /\ DictMore /\ Running /\ CursorInv

\* What LoadModel reads is logarithms of probabilities.
ModelIsTyped ==
  \A y \in States :
    /\ model.start[y] \in LogProb
    /\ \A p \in States : model.trans[p][y] \in LogProb
    /\ \A rune \in DOMAIN model.emit[y] : model.emit[y][rune] \in LogProb

ModelInv == model # <<>> => ModelIsTyped

FileInv == modelFile \in ModelFiles

\* What the two best cuts need of the state.
BestInv == CutInv /\ FileInv /\ ModelInv /\ BestCut /\ BestPath

\* What HMMSegment makes: one rune, runes outside ASCII, a letter and what
\* follows it, or a number.
Shape ==
  {word \in Filled : \/ Len(word) = 1
                     \/ \A r \in ToSet(word) : ~IsAscii(r)
                     \/ word[1] \in Letter
                     \/ \A r \in ToSet(word) : r \in Digit \cup {46}}

\* The words that are tagged.
TagWords == Shape \cup (DictWords \cap Filled)

\* What TagsFollowRunes says of one word.
TagFits(word, tag) ==
  Len(word) > 1 /\ word \notin DictWords =>
    tag = IF \A r \in ToSet(word) : ~IsAscii(r) THEN "x"
          ELSE IF \E r \in ToSet(word) : IsLetter(r) THEN "eng"
          ELSE IF \E k \in 1..Len(word) \div 2 : word[k] = 46 THEN "eng"
          ELSE "m"

OneOf(x, T) == IF x \in T THEN <<x>> ELSE <<>>

ChosenIn(ss, T) == FlattenSeq([k \in DOMAIN ss |-> OneOf(ss[k], T)])

\* Words of more than one rune, and of one.
Long == {word \in Filled : Len(word) > 1}

Single == {word \in Filled : Len(word) = 1}

\* The ends, up to j, of the words of the set that begin at i.
EndsAt(s, i, j, W) == {e \in i..j : SubSeq(s, i, e) \in W}

\* A word of the set covers the rune at i.
CoveredAt(s, i, W) == \E k \in 1..i : \E j \in k + 1..Len(s) : i <= j /\ SubSeq(s, k, j) \in W

\* A word of the set from n to e is the last one found before k.
LastFound(s, n, e, k, W) ==
  /\ e \in EndsAt(s, n, Len(s), W)
  /\ \A x \in n..k - 1 : \A y \in EndsAt(s, x, Len(s), W) : x = n /\ y <= e

\* The rune at i is covered by such a word again.
Echoed(s, i, W) ==
  \E k \in 1..i - 1 : <<s[k]>> \notin W /\
    \E n \in 1..k - 1 : \E e \in n..Len(s) :
      LastFound(s, n, e, k, W) /\ i <= k + e - n /\ \A x \in n..i : s[x] \notin Symbols

\* The rune at i, unless it is covered.
Lone(s, i, W) == IF CoveredAt(s, i, W) \/ Echoed(s, i, W) THEN <<>> ELSE <<<<s[i]>>>>

\* What the first n positions have, of both kinds.
LongRow(s, W, n) == [k \in 1..n |-> WordsAt(s, k, W)]

LoneRow(s, W, n) == [k \in 1..n |-> Lone(s, k, W)]

\* The words that a walk through the trie can come by.
Reached == {word \in DictWords : Len(word) <= MaxWordLength}

\* Every part of a long word is among the words.
HasPart(whole, part) == 1 < Len(part) /\ \E n \in DOMAIN whole : Occurs(part, whole, n)

FindsParts(words, max) ==
  \A whole \in ToSet(words) : TooLong(whole, max) =>
    \A part \in Reached : HasPart(whole, part) => part \in ToSet(words)

\* Nothing is left of a call that is over, and no word is empty.
IdleInv == pc = "idle" => call = [mode |-> "none"] /\ uwords = <<>> /\ res = <<>>

WordsInv == IdleInv /\ uwords \in Seq(Filled)

\* QuerySegment's words have their parts with them, and are the result.
QueryInv ==
  call.mode = "query" /\ pc # "idle" =>
    /\ FindsParts(uwords, call.max)
    /\ pc = "done" => res = [i \in DOMAIN uwords |-> Encode(uwords[i])]

\* What Tag is given, and what it makes of it.
TagInv ==
  call.mode = "tag" =>
    /\ pc \in {"cut", "tag"} => uwords \in Seq(TagWords)
    /\ pc = "done" => \A i \in DOMAIN res : TagFits(res[i][1], res[i][2])

\* The levels of LevelSegment: each word lies inside a longer one of the level
\* before.
IsInside(part, whole) == Len(whole) > Len(part) /\ \E n \in DOMAIN whole : Occurs(part, whole, n)

LiesUnder(word, lev, r) == \E k \in DOMAIN r : r[k][2] = lev - 1 /\ IsInside(word, r[k][1])

Nested(r) ==
  \A i \in DOMAIN r : r[i][2] > 0 =>
    \E k \in 1..i - 1 : r[k][2] = r[i][2] - 1 /\ IsInside(r[i][1], r[k][1])

Leveled(r, lev, words) ==
  /\ r \in Seq(Filled \X Nat) /\ lev \in Nat /\ Nested(r)
  /\ lev > 0 => \A word \in ToSet(words) : LiesUnder(word, lev, r)

\* What LevelSegment has so far.
NestInv ==
  call.mode = "level" /\ pc # "idle" =>
    /\ pc \in {"level", "done"} /\ Nested(res)
    /\ pc = "level" => Leveled(res, level, uwords)

\* What CutAll has found in s.
AllSoFar(s, u) ==
  /\ ChosenIn(u, Long) = FlattenSeq(LongRow(s, Findable, Len(s)))
  /\ ChosenIn(u, Single) = FlattenSeq(LoneRow(s, Findable, Len(s)))

\* What CutAll has found of what was seen.
AllInv == pc = "cut" /\ call.mode = "all" => AllSoFar(Seen, uwords)

\* What all the searches for words need of the state.
FindsInv == CutInv /\ WordsInv /\ AllInv /\ QueryInv /\ NestInv /\ TagInv

=============================================================================
