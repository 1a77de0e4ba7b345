------------------------------ MODULE Segments ------------------------------
(***************************************************************************)
(* How cppjieba cuts a range of runes into words: every operator takes the *)
(* range and yields its words in order.  Positions count from 1.           *)
(***************************************************************************)
EXTENDS DictTrie, Integers

VARIABLE model   \* the hidden Markov model: start, trans and emit

\* What stands for -3.14e100, which swallows what is added to it.
MinDouble == -1000
Plus(a, b) == IF a <= MinDouble /\ b > MinDouble THEN a
              ELSE IF b <= MinDouble /\ a > MinDouble THEN b ELSE a + b

MaxWordLength == 512

\* Trie::Find of a range: the ends of the entries in the Dag at i.  The first
\* is i itself, a word or not; then the words the walk comes by.
Nexts(s, i, maxLen) ==
  {i} \cup {j \in i + 1..Len(s) :
              /\ j - i + 1 <= maxLen
              /\ \A k \in i + 1..j : SubSeq(s, i, k) \in DOMAIN trie
              /\ Find(SubSeq(s, i, j)) # None}

\* Mutant: a word that ends right before the rune covers it.
AloneTooFew(s, i, maxIdx) == Nexts(s, i, MaxWordLength) = {i} /\ maxIdx < i - 1

\* No word begins at i, and none that was found before covers it.
Alone(s, i, maxIdx) == Nexts(s, i, MaxWordLength) = {i} /\ maxIdx <= i - 1

\* FullSegment at one position: all words of two or more runes, and a rune
\* that stands alone.  wordLen is not reset at a rune that is no word, and then
\* counts once more for maxIdx.
FullWords(s, i, state) ==
  LET ends == Nexts(s, i, MaxWordLength)
      Step(st, j) ==
        LET p == Find(SubSeq(s, i, j))
            len == IF p = None THEN st.wordLen ELSE Len(Unit(p).word)
            word == IF p = None THEN <<s[i]>> ELSE Unit(p).word
            taken == Alone(s, i, st.maxIdx) \/ (p # None /\ len >= 2)
        IN [words   |-> IF taken THEN Append(st.words, word) ELSE st.words,
            wordLen |-> len,
            maxIdx  |-> Max({i - 1 + len, st.maxIdx})]
      At[j \in i - 1..Len(s)] ==
        IF j = i - 1 THEN state ELSE IF j \in ends THEN Step(At[j - 1], j) ELSE At[j - 1]
  IN At[Len(s)]

FullCut(s) ==
  LET At[i \in 0..Len(s)] ==
        IF i = 0 THEN [words |-> <<>>, wordLen |-> 0, maxIdx |-> 0] ELSE FullWords(s, i, At[i - 1])
  IN At[Len(s)].words

\* A sum of n logarithms of freq / total is the logarithm of num / TotalTo(n).
TotalTo(n) ==
  LET Power[k \in 0..n] == IF k = 0 THEN 1 ELSE weights.total * Power[k - 1]
  IN Power[n]
Less(v, w) == v.num * TotalTo(w.len) < w.num * TotalTo(v.len)
FreqAt(p) == IF p = None THEN weights.min ELSE Unit(p).freq

\* Mutant: what follows the word does not count.
DagValueAlone(s, i, j, rest) == [num |-> FreqAt(Find(SubSeq(s, i, j))), len |-> 1]

\* val: the entry from i to j and the best of the rest.
DagValue(s, i, j, rest) == [num |-> rest.num * FreqAt(Find(SubSeq(s, i, j))), len |-> rest.len + 1]

\* The first of the best entries at i (val > weight), by where it ends; rest
\* tells what follows.
BestEnd(s, i, maxLen, rest) ==
  LET ends == Nexts(s, i, maxLen)
      Val(j) == DagValue(s, i, j, rest[j + 1 - i])
      End[j \in i..Len(s)] ==
        IF j = i THEN i
        ELSE LET e == End[j - 1] IN IF j \in ends /\ Less(Val(e), Val(j)) THEN j ELSE e
  IN End[Len(s)]

\* CalcDP at the position before the last n: where its best entry ends, and
\* what that is worth with all that follows.
OneMore(s, maxLen, n, rest) ==
  LET i == Len(s) - n + 1
      end == BestEnd(s, i, maxLen, rest)
      val == DagValue(s, i, end, rest[end + 1 - i])
  IN <<[num |-> val.num, len |-> val.len, at |-> end]>> \o rest

\* CalcDP, from the end, for the last n positions.
CalcDP(s, maxLen) ==
  LET Table[n \in 0..Len(s)] ==
        IF n = 0 THEN <<[num |-> 1, len |-> 0, at |-> 0]>> ELSE OneMore(s, maxLen, n, Table[n - 1])
  IN Table[Len(s)]

\* CutByDag goes on behind the unit's word.
CutByDag(s, best) ==
  LET Cut[i \in 1..Len(s) + 1] ==
        IF i > Len(s) THEN <<>>
        ELSE LET p == Find(SubSeq(s, i, best[i].at))
                 word == IF p = None THEN <<s[i]>> ELSE Unit(p).word
             IN <<word>> \o Cut[i + Len(word)]
  IN Cut[1]

MPCut(s, maxLen) == CutByDag(s, CalcDP(s, maxLen))

---------------------------------------------------------------------------
\* The states of the model: B, E, M and S are 0 to 3.
States == 0..3
Emit(y, rune) == IF rune \in DOMAIN model.emit[y] THEN model.emit[y][rune] ELSE MinDouble

\* Mutant: the transition does not count.
PathWeightUntied(w, p, y, rune) == Plus(w, Emit(y, rune))

\* tmp: the path over p to y.
PathWeight(w, p, y, rune) == Plus(Plus(w, model.trans[p][y]), Emit(y, rune))

\* The first of the best predecessors, or E where none is better than MinDouble;
\* tmp[k] is the weight of the path over state k - 1.
BestOf(tmp) ==
  LET best == {k \in 1..4 : tmp[k] > MinDouble /\ \A n \in 1..4 : tmp[n] <= tmp[k]}
  IN IF best = {} THEN [w |-> MinDouble, from |-> 1] ELSE [w |-> tmp[Min(best)], from |-> Min(best) - 1]

\* The column of weights at x, behind the one before; state k - 1 is at k.
FirstColumn(rune) == [k \in 1..4 |-> [w |-> Plus(model.start[k - 1], Emit(k - 1, rune)), from |-> -1]]
NextColumn(old, rune) ==
  [k \in 1..4 |-> BestOf([n \in 1..4 |-> PathWeight(old[n].w, n - 1, k - 1, rune)] \o <<>>)]
OneColumn(s, x, cols) ==
  Append(cols, (IF x = 1 THEN FirstColumn(s[1]) ELSE NextColumn(cols[x - 1], s[x])) \o <<>>)

\* Viterbi's weights, from the front.
Weights(s) ==
  LET Columns[x \in 0..Len(s)] == IF x = 0 THEN <<>> ELSE OneColumn(s, x, Columns[x - 1])
  IN Columns[Len(s)]

\* The states that the weights were reached by, from the end, where a word
\* must end.
StatesBack(cols, n) ==
  LET Back[x \in 1..n] ==
        IF x = n THEN IF cols[x][2].w >= cols[x][4].w THEN 1 ELSE 3
        ELSE cols[x + 1][Back[x + 1] + 1].from
  IN Back

Viterbi(s) == StatesBack(Weights(s), Len(s))

\* InternalCut: a word ends where the state is E or S.
InternalCut(s) ==
  LET status == Viterbi(s)
      Cut[i \in 0..Len(s)] ==
        IF i = 0 THEN [words |-> <<>>, left |-> 1]
        ELSE LET st == Cut[i - 1]
             IN IF status[i] % 2 = 1 THEN [words |-> Append(st.words, SubSeq(s, st.left, i)), left |-> i + 1] ELSE st
  IN Cut[Len(s)].words

IsAscii(r) == r < 128
Digit == 48..57
Letter == 65..90 \cup 97..122
IsDigit(r) == r \in Digit
IsLetter(r) == r \in Letter

\* The end of the longest run of these runes from i.
RunFrom(s, i, runes) == Max({j \in i - 1..Len(s) : \A k \in i..j : s[k] \in runes})

\* SequentialLetterRule, NumbersRule, or one rune.
AsciiEnd(s, i) ==
  IF IsLetter(s[i]) THEN RunFrom(s, i, Letter \cup Digit)
  ELSE IF IsDigit(s[i]) THEN RunFrom(s, i, Digit \cup {46})
  ELSE i

\* HMMSegment::Cut: ASCII by the rules, what is between by the model.
HMMCut(s) ==
  LET Cut[i \in 1..Len(s) + 1] ==
        IF i > Len(s) THEN <<>>
        ELSE IF IsAscii(s[i]) THEN LET j == AsciiEnd(s, i) IN <<SubSeq(s, i, j)>> \o Cut[j + 1]
        ELSE LET j == RunFrom(s, i, {r \in ToSet(s) : ~IsAscii(r)})
             IN InternalCut(SubSeq(s, i, j)) \o Cut[j + 1]
  IN Cut[1]

---------------------------------------------------------------------------
\* A word of one rune that the user dictionary does not name.
Loose(word) == Len(word) = 1 /\ word[1] \notin singles

\* Mutant: the piece is not cleared after it is cut.
MixCutUncleared(s) ==
  LET words == MPCut(s, MaxWordLength)
      Cut[i \in 1..Len(words) + 1] ==
        IF i > Len(words) THEN <<>>
        ELSE IF ~Loose(words[i]) THEN <<words[i]>> \o Cut[i + 1]
        ELSE LET j == Max({k \in i..Len(words) : \A n \in i..k : Loose(words[n])})
             IN HMMCut(FlattenSeq(SelectSeq(SubSeq(words, 1, j), Loose))) \o Cut[j + 1]
  IN Cut[1]

\* MixSegment::Cut: runs of loose runes go to the model.
MixCut(s) ==
  LET words == MPCut(s, MaxWordLength)
      Cut[i \in 1..Len(words) + 1] ==
        IF i > Len(words) THEN <<>>
        ELSE IF ~Loose(words[i]) THEN <<words[i]>> \o Cut[i + 1]
        ELSE LET j == Max({k \in i..Len(words) : \A n \in i..k : Loose(words[n])})
             IN HMMCut(FlattenSeq(SubSeq(words, i, j))) \o Cut[j + 1]
  IN Cut[1]

\* Mutant: the length is compared in the other direction.
TooLongMissed(word, maxWordLen) == Len(word) < maxWordLen /\ \E k \in DOMAIN word : ~IsAscii(word[k])

TooLong(word, maxWordLen) == Len(word) > maxWordLen /\ \E k \in DOMAIN word : ~IsAscii(word[k])

\* QuerySegment::Cut: a long word that is not all ASCII is cut in full.
QueryCut(s, hmm, maxWordLen) ==
  LET mix == IF hmm THEN MixCut(s) ELSE MPCut(s, MaxWordLength)
  IN FlattenSeq([i \in DOMAIN mix |-> IF TooLong(mix[i], maxWordLen) THEN FullCut(mix[i]) ELSE <<mix[i]>>])

\* Mutant: every ASCII rune counts as a digit.
SpecialRuleDigits(word) == IF \E r \in ToSet(word) : IsAscii(r) THEN "m" ELSE "x"

\* SpecialRule: the loop ends once half of the runes are ASCII.
SpecialRule(word) ==
  LET Count(st, r) ==
        IF st.eng < Len(word) \div 2 /\ IsAscii(r)
        THEN [eng |-> st.eng + 1, m |-> st.m + (IF IsDigit(r) THEN 1 ELSE 0)] ELSE st
      At[k \in 0..Len(word)] == IF k = 0 THEN [eng |-> 0, m |-> 0] ELSE Count(At[k - 1], word[k])
      n == At[Len(word)]
  IN IF n.eng = 0 THEN "x" ELSE IF n.m = n.eng THEN "m" ELSE "eng"

TagOf(word) ==
  LET p == Find(word) IN IF p = None \/ Unit(p).tag = "" THEN SpecialRule(word) ELSE Unit(p).tag
=============================================================================
