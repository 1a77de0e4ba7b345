------------------------------- MODULE Jieba -------------------------------
(***************************************************************************)
(* A Jieba object: it reads its dictionaries and its model, and then cuts  *)
(* one sentence after another, range by range, in the way the call asks    *)
(* for.  The search engine calls CutAll only (WordSegmentation.h:40).      *)
(***************************************************************************)
EXTENDS Segments

CONSTANTS
  ModelFiles,   \* possible model files: sequences of lines
  Sentences,    \* the texts that are cut, as bytes
  Calls         \* the calls: records of mode, hmm and max

VARIABLES
  modelFile,    \* what LoadModel reads
  pc,           \* "idle", "cut", "level", "tag" or "done"
  call,         \* the call under way
  sentence,     \* its bytes
  cursor,       \* cursor_: runes that PreFilter has handed out
  uwords,       \* the words so far (level: the words of this level)
  level,        \* LevelSegment's level
  res           \* the result: words, words with level or tag

\* The model's numbers are logarithms of probabilities.
LogProb == {n \in Int : n <= 0}

\* Each line of the model is what both ways to split it make of it, at blanks
\* and at commas.
ASSUME JiebaAssumption ==
  /\ Sentences \subseteq Seq(Byte)
  /\ ModelFiles \subseteq Seq([skipped : BOOLEAN, nums : Seq(LogProb),
                              probs : Seq([word : Seq(Byte), p : LogProb, cols : Nat])])

callVars == <<pc, call, sentence, cursor, uwords, level, res>>
vars == <<dictVars, model, modelFile, callVars>>

text == Decode(sentence)

\* The members that pass the test, in their order: SelectSeq, by a definition
\* that proofs can open.
Chosen(s, Test(_)) == FlattenSeq([i \in DOMAIN s |-> IF Test(s[i]) THEN <<s[i]>> ELSE <<>>])

Init ==
  /\ DictInit
  /\ modelFile \in ModelFiles
  /\ model = <<>>
  /\ pc = "idle" /\ call = [mode |-> "none"] /\ sentence = <<>> /\ cursor = 0
  /\ uwords = <<>> /\ level = 0 /\ res = <<>>

\* LoadModel: blank lines and comments are skipped; one line for the start,
\* four for the transitions, four for the emissions.  A missing line, a wrong
\* number of columns or a word that is not one rune aborts.
ModelLines == Chosen(modelFile, LAMBDA line : ~line.skipped)
ModelIsLegal ==
  /\ Len(ModelLines) >= 9
  /\ \A i \in 1..5 : Len(ModelLines[i].nums) = 4
  /\ \A i \in 6..9 : ModelLines[i].probs # <<>> /\ \A k \in DOMAIN ModelLines[i].probs :
       LET prob == ModelLines[i].probs[k]
       IN prob.cols = 2 /\ Decodes(prob.word) /\ Len(Decode(prob.word)) = 1
\* The last entry for a rune counts.
EmitMap(line) ==
  LET Rune(k) == Decode(line.probs[k].word)[1]
  IN [r \in {Rune(k) : k \in DOMAIN line.probs} |-> line.probs[Max({k \in DOMAIN line.probs : Rune(k) = r})].p]

LoadModel ==
  /\ stage = "ready" /\ model = <<>>
  /\ IF ModelIsLegal
     THEN /\ model' = [start |-> [y \in States |-> ModelLines[1].nums[y + 1]],
                       trans |-> [p \in States |-> [y \in States |-> ModelLines[p + 2].nums[y + 1]]],
                       emit  |-> [y \in States |-> EmitMap(ModelLines[y + 6])]]
          /\ UNCHANGED dictVars
     ELSE Abort /\ UNCHANGED model
  /\ UNCHANGED <<modelFile, callVars>>

Loaded == stage = "ready" /\ model # <<>>

Start ==
  /\ Loaded /\ pc = "idle"
  /\ call' \in Calls /\ sentence' \in Sentences
  /\ pc' = IF call'.mode = "level" THEN "level" ELSE "cut"
  /\ cursor' = 0 /\ level' = 0 /\ res' = <<>>
  /\ uwords' = IF call'.mode = "level" THEN MPCut(Decode(sentence'), MaxWordLength) ELSE <<>>
  /\ UNCHANGED <<dictVars, model, modelFile>>

---------------------------------------------------------------------------
Symbols == {32, 9, 10, 65292, 12290}

\* Mutant: a symbol is not a range of its own.
RangeEndStuck(s, from) ==
  LET ends == {i \in from + 1..Len(s) : s[i] \in Symbols}
  IN IF ends = {} THEN Len(s) ELSE Min(ends) - 1

\* PreFilter::Next: up to the next symbol, or the symbol itself.
RangeEnd(s, from) ==
  LET ends == {i \in from + 1..Len(s) : s[i] \in Symbols}
  IN IF ends = {} THEN Len(s) ELSE IF Min(ends) = from + 1 THEN from + 1 ELSE Min(ends) - 1

CutWords(range) ==
  CASE call.mode = "all" -> FullCut(range)
    [] call.mode = "mp" -> MPCut(range, call.max)
    [] call.mode = "hmm" -> HMMCut(range)
    [] call.mode = "query" -> QueryCut(range, call.hmm, call.max)
    [] OTHER -> IF call.hmm THEN MixCut(range) ELSE MPCut(range, MaxWordLength)

CutRange ==
  /\ pc = "cut" /\ cursor < Len(text)
  /\ LET end == RangeEnd(text, cursor) IN
       /\ cursor' = end
       /\ uwords' = uwords \o CutWords(SubSeq(text, cursor + 1, end))
  /\ UNCHANGED <<dictVars, model, modelFile, pc, call, sentence, level, res>>

\* TransCode::Encode of the words; Tag goes on with them.
CutDone ==
  /\ pc = "cut" /\ cursor = Len(text)
  /\ pc' = IF call.mode = "tag" THEN "tag" ELSE "done"
  /\ res' = IF pc' = "done" THEN [i \in DOMAIN uwords |-> Encode(uwords[i])] ELSE <<>>
  /\ UNCHANGED <<dictVars, model, modelFile, call, sentence, cursor, uwords, level>>

\* Mutant: a word may be cut into itself again.
SmallerSame(word) == IF Len(word) >= 3 THEN MPCut(word, MaxWordLength) ELSE <<>>

\* A word of three or more runes is cut with words that are shorter.
Smaller(word) == IF Len(word) >= 3 THEN MPCut(word, Len(word) - 1) ELSE <<>>

LevelStep ==
  /\ pc = "level" /\ uwords # <<>>
  /\ LET long == Chosen(uwords, LAMBDA word : Len(word) > 1) IN
       res' = res \o [i \in DOMAIN long |-> <<long[i], level>>]
  /\ uwords' = FlattenSeq([i \in DOMAIN uwords |-> Smaller(uwords[i])])
  /\ level' = level + 1
  /\ UNCHANGED <<dictVars, model, modelFile, pc, call, sentence, cursor>>

LevelDone ==
  /\ pc = "level" /\ uwords = <<>>
  /\ pc' = "done"
  /\ UNCHANGED <<dictVars, model, modelFile, call, sentence, cursor, uwords, level, res>>

Tag ==
  /\ pc = "tag"
  /\ res' = [i \in DOMAIN uwords |-> <<uwords[i], TagOf(uwords[i])>>]
  /\ pc' = "done"
  /\ UNCHANGED <<dictVars, model, modelFile, call, sentence, cursor, uwords, level>>

\* The caller takes the words; the next call may come.
Return ==
  /\ pc = "done"
  /\ pc' = "idle" /\ call' = [mode |-> "none"] /\ sentence' = <<>> /\ cursor' = 0 /\ uwords' = <<>> /\ level' = 0 /\ res' = <<>>
  /\ UNCHANGED <<dictVars, model, modelFile>>

Cut == CutRange \/ CutDone \/ LevelStep \/ LevelDone \/ Tag \/ Return

Next ==
  \/ (Load \/ CannotOpen) /\ UNCHANGED <<model, modelFile, callVars>>
  \/ LoadModel
  \/ pc = "idle" /\ model # <<>> /\ InsertUserWord /\ UNCHANGED <<model, modelFile, callVars>>
  \/ Start
  \/ Cut

\* When a step of the call changes anything.
CutMoves ==
  \/ pc \in {"level", "tag", "done"}
  \/ pc = "cut" /\ (cursor = Len(text) \/ RangeEnd(text, cursor) # cursor)

\* A call runs to its end: nothing in it waits.  This is WF_vars(Cut) with its
\* ENABLED written out, for which TLC would have to compute each cut again, and
\* with any step, since between two calls' ends only Cut takes one.
Spec == Init /\ [][Next]_vars /\ (<>[]CutMoves => []<><<TRUE>>_vars)

---------------------------------------------------------------------------

TypeOK ==
  /\ DictTypeOK
  /\ pc \in {"idle", "cut", "level", "tag", "done"}
  /\ cursor \in 0..Len(text)

DictWords == {unit.word : unit \in ToSet(static \o active)} \ {<<>>}

\* The words of the dictionary that PreFilter does not cut apart, and those of
\* them that are not too long for a walk through the trie.
WholeWords == {word \in DictWords : Len(word) = 1 \/ ToSet(word) \cap Symbols = {}}
Findable == {word \in WholeWords : Len(word) <= MaxWordLength}

Occurs(word, s, i) == i + Len(word) - 1 <= Len(s) /\ SubSeq(s, i, i + Len(word) - 1) = word
Seen == SubSeq(text, 1, cursor)

\* Cutting by weight, by the model, or by both neither loses nor repeats nor
\* reorders a rune, at every range (MixSegment.hpp:35-77, HMMSegment.hpp:38-67).
WordsSpellText ==
  pc = "cut" /\ call.mode \in {"mp", "hmm", "cut", "tag"} => FlattenSeq(uwords) = Seen

\* The bytes are UTF-8, as far as they decode: each character begins right
\* behind the one before, has its shortest form, and goes on with 10xxxxxx.
Utf8Text(s) ==
  LET Goes(i) == s[i] >= 128 /\ s[i] < 192 IN
  \A i \in DOMAIN s :
    LET n == CharLen(s[i], Len(s) - i + 1) IN
    /\ i = 1 => ~Goes(i)
    /\ ~Goes(i) /\ n # 0 =>
         /\ s[i] \notin {192, 193} /\ (s[i] = 224 => s[i + 1] >= 160)
         /\ \A k \in 1..n - 1 : Goes(i + k)
         /\ i + n \in DOMAIN s => ~Goes(i + n)

\* The words that come out of a text in UTF-8 are its own bytes again, up to
\* the first character that takes four bytes or is cut short at the end; what
\* follows it is dropped without a word (StringUtil.hpp:183, PreFilter.hpp:29).
BytesKept ==
  pc = "done" /\ call.mode \in {"mp", "hmm", "cut"} /\ Utf8Text(sentence) =>
    /\ IsPrefix(FlattenSeq(res), sentence)
    /\ (\A b \in ToSet(sentence) : b < 240) => Len(sentence) - Len(FlattenSeq(res)) <= 2

\* The words of two or more runes that begin at i, from the shortest on.
WordsAt(s, i, words) ==
  Chosen([k \in 1..Len(s) - i |-> SubSeq(s, i, i + k)], LAMBDA word : word \in words)

\* CutAll finds each dictionary word of two or more runes at each place where
\* it occurs, in the order of the places, and nothing else of that length
\* (FullSegment.hpp:57-73).
AllWordsFound ==
  pc = "cut" /\ call.mode = "all" =>
    LET words == Findable
    IN Chosen(uwords, LAMBDA word : Len(word) > 1)
         = FlattenSeq([i \in 1..cursor |-> WordsAt(Seen, i, words)])

\* The word at n is the last one found before k: the longest at n, and between
\* n and k no other begins.
LastBefore(word, s, n, k, words) ==
  /\ Occurs(word, s, n)
  /\ \A other \in words : \A x \in n..k - 1 :
       Occurs(other, s, x) => x = n /\ Len(other) <= Len(word)

\* The rune at k is no word: it covers as many runes as the last word before it
\* in the same range has, wordLen being stale (FullSegment.hpp:70).
Echoes(s, k, i, words) ==
  /\ <<s[k]>> \notin words
  /\ \E n \in 1..k - 1 : \E word \in words :
       /\ LastBefore(word, s, n, k, words) /\ i < k + Len(word)
       /\ \A x \in n..i : s[x] \notin Symbols

\* CutAll yields alone each rune that no longer word covers, and nothing else of
\* that length; but those it loses that follow an unknown rune closer than the
\* last word before that rune is long (FullSegment.hpp:57-73).
UncoveredRunesKept ==
  pc = "cut" /\ call.mode = "all" =>
    LET words == Findable
        Covered(i) == \E word \in words : Len(word) > 1 /\
                        \E k \in 1..i : Occurs(word, Seen, k) /\ i < k + Len(word)
        Lost(i) == \E k \in 1..i - 1 : Echoes(Seen, k, i, words)
    IN Chosen(uwords, LAMBDA word : Len(word) = 1)
         = FlattenSeq([i \in 1..cursor |-> IF Covered(i) \/ Lost(i) THEN <<>> ELSE <<<<Seen[i]>>>>])

\* One more word in front of a way to cut what follows it.
InFront(word, way) ==
  [words |-> <<word>> \o way.words, num |-> FreqAt(Find(word)) * way.num, len |-> way.len + 1]

\* All ways to cut s into words of the set and single runes, and what they are
\* worth; no word is longer than max.
Ways(s, words, max) ==
  LET Ends(i) == {j \in i..Len(s) : j = i \/ (j - i + 1 <= max /\ SubSeq(s, i, j) \in words)}
      From[i \in 1..Len(s) + 1] ==
        IF i > Len(s) THEN {[words |-> <<>>, num |-> 1, len |-> 0]}
        ELSE UNION {{InFront(SubSeq(s, i, j), way) : way \in From[j + 1]} : j \in Ends(i)}
  IN From[1]

\* No way to cut the text into dictionary words of the allowed length and
\* single runes weighs more than the one chosen (MPSegment.hpp:63-91).
BestCut ==
  pc = "cut" /\ call.mode = "mp" =>
    LET ways == Ways(Seen, WholeWords, call.max)
    IN \E way \in ways : way.words = uwords /\ \A other \in ways : ~Less(way, other)

\* The paths over s that end a word at its end, and what the model says of one.
Paths(s) == {path \in [1..Len(s) -> States] : path[Len(s)] \in {1, 3}}
Likelihood(s, path) ==
  LET At[x \in 1..Len(s)] ==
        IF x = 1 THEN Plus(model.start[path[1]], Emit(path[1], s[1]))
        ELSE Plus(Plus(At[x - 1], model.trans[path[x - 1]][path[x]]), Emit(path[x], s[x]))
  IN At[Len(s)]

\* None that is possible is more probable.
IsMostLikely(s, path) ==
  \A other \in Paths(s) : Likelihood(s, other) > MinDouble => Likelihood(s, other) <= Likelihood(s, path)

\* Where words end, as positions of what they spell.
WordEnds(words) == {Len(FlattenSeq(SubSeq(words, 1, k))) : k \in 1..Len(words)}

\* From i to j the text lies outside ASCII, with no symbol, and goes on so on
\* neither side.
IsStretch(s, i, j) ==
  LET Inside(k) == ~IsAscii(s[k]) /\ s[k] \notin Symbols
  IN /\ \A k \in i..j : Inside(k)
     /\ i = 1 \/ ~Inside(i - 1)
     /\ j = Len(s) \/ ~Inside(j + 1)

\* Text outside ASCII is cut as one of the most probable sequences of states
\* says, among those that end a word at the end, unless all are impossible
\* (HMMSegment.hpp:120-172).
BestPath ==
  pc = "cut" /\ call.mode = "hmm" =>
    LET ends == WordEnds(uwords)
    IN \A i \in 1..cursor : \A j \in i..cursor : IsStretch(Seen, i, j) =>
         \E path \in Paths(SubSeq(Seen, i, j)) :
           /\ IsMostLikely(SubSeq(Seen, i, j), path)
           /\ \A x \in DOMAIN path : i - 1 + x \in ends <=> path[x] \in {1, 3}

\* Each word of a level lies strictly inside a word of the level before, so
\* the levels come to an end (LevelSegment.hpp:31-46).
LevelsNest ==
  call.mode = "level" =>
    \A i \in DOMAIN res : res[i][2] > 0 =>
      \E k \in 1..i - 1 :
        /\ res[k][2] = res[i][2] - 1 /\ Len(res[k][1]) > Len(res[i][1])
        /\ \E n \in DOMAIN res[k][1] : Occurs(res[i][1], res[k][1], n)

\* The dictionary words inside a long word of a search are found as well
\* (QuerySegment.hpp:46-59).
SubwordsFound ==
  pc = "done" /\ call.mode = "query" =>
    \A whole \in ToSet(uwords) : TooLong(whole, call.max) =>
      \A part \in DictWords :
        /\ 1 < Len(part) /\ Len(part) <= MaxWordLength
        /\ \E n \in DOMAIN whole : Occurs(part, whole, n)
        => Encode(part) \in ToSet(res)

\* A word of more than one rune that has no tag is English if it has a letter,
\* wherever that stands, and otherwise, unless it lies outside ASCII, a number;
\* but a point in its first half makes a number English too, "1.11", though
\* PosTagger.hpp:70 speaks of letters (PosTagger.hpp:51-72). One ASCII rune alone
\* counts as none: half of its length is 0.
TagsFollowRunes ==
  pc = "done" /\ call.mode = "tag" =>
    \A i \in DOMAIN res : LET word == res[i][1] IN
      Len(word) > 1 /\ word \notin DictWords =>
        res[i][2] = IF \A r \in ToSet(word) : ~IsAscii(r) THEN "x"
                    ELSE IF \E r \in ToSet(word) : IsLetter(r) THEN "eng"
                    ELSE IF \E k \in 1..Len(word) \div 2 : word[k] = 46 THEN "eng"
                    ELSE "m"

\* A look-up finds, for every word of the dictionaries and the words added
\* later, the unit that counts (DictTrie.hpp:41-49, Trie.hpp:131-143).
DictionaryIsRight ==
  /\ TypeOK
  /\ PointersValid
  /\ LatestWins

\* The cuts of Cut, CutSmall and CutHMM lose nothing of their text, but for
\* what does not decode: neither runes on the way nor bytes in the end.
NothingDropped ==
  /\ WordsSpellText
  /\ BytesKept

\* The two cuts that choose, MPSegment by weight and HMMSegment by
\* probability, choose a best one of all cuts there are.
CutsAreBest ==
  /\ BestCut
  /\ BestPath

\* The cuts for an index find all words there are, one inside the other, and
\* the tags fit the words (FullSegment, QuerySegment, LevelSegment, PosTagger).
\* None is empty, and no rune is lost but for what FullSegment.hpp:70 drops
\* behind unknown runes.
WordsFound ==
  /\ \A word \in ToSet(uwords) : word # <<>>
  /\ AllWordsFound
  /\ UncoveredRunesKept
  /\ SubwordsFound
  /\ LevelsNest
  /\ TagsFollowRunes

\* Every call comes back (the loops of PreFilter, CutByDag and LevelSegment
\* make progress; PreFilter.hpp:37-52).
CallsReturn == pc # "idle" ~> pc = "idle"


=============================================================================
