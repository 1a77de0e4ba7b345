---------------------------- MODULE JiebaProofs ----------------------------
(***************************************************************************)
(* The segmentation, for every dictionary, model, sentence and call.       *)
(*                                                                         *)
(* The dictionary (DictInv): the trie leads each word to the latest of the *)
(* entries that are in it, and no other node anywhere, while all units     *)
(* have runes, frequencies and tags.  Inserting an entry moves its own     *)
(* word only.                                                              *)
(*                                                                         *)
(* The cuts (CallInv): the words so far spell the runes handed out.        *)
(* Decode, CutByDag, HMMCut and MixCut are recursive functions that jump   *)
(* forward through a sequence and collect a piece at each stop; where each *)
(* piece spells what its jump passes, the pieces spell the whole           *)
(* (CutSpells).  That they do rests on the dictionary, since CutByDag goes *)
(* on behind the unit's word, on CalcDP, whose ends lie within the text,   *)
(* and on Viterbi, whose last state is E or S whatever the model is.       *)
(*                                                                         *)
(* The bytes: encoding undoes decoding, character by character, for a text *)
(* in UTF-8 up to where decoding fails (TextComesBack).                    *)
(*                                                                         *)
(* The best cuts (BestInv): CalcDP's table holds at every place the best   *)
(* weight of what follows, and Viterbi's the best likelihood of every      *)
(* state, so that what is read off them beats every other way; as no word  *)
(* lies across the border of a range, the best cuts of the ranges are one  *)
(* of the text.  This needs of the trie that it has each beginning of its  *)
(* nodes and of the frequencies that their sum is not 0 (DictMore), and of *)
(* the model that its numbers are logarithms of probabilities (ModelInv).  *)
(*                                                                         *)
(* The words that are found (FindsInv): FullSegment's entries at a rune    *)
(* are the words that begin there, and maxIdx tells whether one covers it, *)
(* or the last one's length counted again (FullCutFacts); the other cuts   *)
(* are made of that one and MPSegment's.                                   *)
(***************************************************************************)
EXTENDS JiebaInvariants, SequenceTheorems, FiniteSetTheorems, WellFoundedInduction, TLAPS

\* Every set of natural numbers that is not empty has a least element.
LEMMA LeastNat ==
  ASSUME NEW T, T \subseteq Nat, T # {}
  PROVE  \E n \in T : \A m \in T : n <= m
<1>1. PICK n \in T : \A m \in T : ~(<<m, n>> \in OpToRel(<, Nat))
  BY NatLessThanWellFounded, WFMin
<1>2. \A m \in T : ~(m < n)
  BY <1>1 DEF OpToRel
<1> QED
  BY <1>2

-----------------------------------------------------------------------------
(* Min and Max of the sets the model uses them for.                        *)

\* Min is in the set, and least.
LEMMA MinFacts ==
  ASSUME NEW S, S \subseteq Nat, S # {}
  PROVE  Min(S) \in S /\ \A n \in S : Min(S) <= n
BY LeastNat DEF Min

\* Max is in a bounded set, and greatest.
LEMMA MaxFacts ==
  ASSUME NEW S, NEW b \in Nat, S \subseteq 0..b, S # {}
  PROVE  Max(S) \in S /\ \A n \in S : n <= Max(S)
<1> DEFINE T == {b - n : n \in S}
<1>1. T \subseteq Nat /\ T # {}
  <2>1. \A n \in S : n \in Int /\ 0 <= n /\ n <= b
    OBVIOUS
  <2>2. \A n \in S : b - n \in Nat
    BY <2>1
  <2>3. \E n \in S : b - n \in T
    OBVIOUS
  <2> QED
    BY <2>2, <2>3
<1>2. PICK m \in T : \A n \in T : m <= n
  <2> HIDE DEF T
  <2> QED
    BY <1>1, LeastNat
<1>3. PICK x \in S : m = b - x
  BY <1>2
<1>4. \A y \in S : x >= y
  <2> TAKE y \in S
  <2>1. b - y \in T
    OBVIOUS
  <2>2. m <= b - y /\ x \in Int /\ y \in Int
    BY <1>2, <2>1
  <2> HIDE DEF T
  <2> QED
    BY <1>3, <2>2
<1>5. Max(S) \in S /\ \A y \in S : Max(S) >= y
  BY <1>4 DEF Max
<1> QED
  BY <1>5

-----------------------------------------------------------------------------
(* The dictionary. *)

\* Inserting one more entry makes the trie right for that one, too.
LEMMA InsertHolds ==
  ASSUME NEW t, NEW e, NEW w, NEW n \in Nat, Holds(t, e, w, n),
         NEW word \in Seq(Nat), w[n + 1] = word, e[n + 1] # None,
         NEW u, u = [path \in DOMAIN t \cup NodesTo(word) |->
                       IF path = word THEN e[n + 1] ELSE IF path \in DOMAIN t THEN t[path] ELSE None]
  PROVE  Holds(u, e, w, n + 1)
<1>1. \A k \in 1..n : k \in 1..n + 1 /\ k # n + 1
  OBVIOUS
<1>2. \A k \in 1..n + 1 : k \in 1..n \/ k = n + 1
  OBVIOUS
<1>3. \A path \in NodesTo(word) : path # <<>>
  <2>1. \A m \in 1..Len(word) : Len(SubSeq(word, 1, m)) = m
    OBVIOUS
  <2>2. \A m \in 1..Len(word) : SubSeq(word, 1, m) # <<>>
    <3> TAKE m \in 1..Len(word)
    <3> QED
      BY <2>1
  <2> QED
    BY <2>2 DEF NodesTo
<1>4. word # <<>> => word \in NodesTo(word)
  BY DEF NodesTo
<1>5. /\ DOMAIN u = DOMAIN t \cup NodesTo(word)
      /\ \A path \in DOMAIN u :
           u[path] = IF path = word THEN e[n + 1] ELSE IF path \in DOMAIN t THEN t[path] ELSE None
  OBVIOUS
<1>6. \A path \in DOMAIN u : path # <<>>
  BY <1>3, <1>5 DEF Holds
<1>7. ASSUME NEW path \in DOMAIN u, u[path] # None
      PROVE  \E k \in 1..n + 1 : u[path] = e[k] /\ w[k] = path /\ \A j \in k + 1..n + 1 : w[j] # path
  <2>1. CASE path = word
    BY <2>1, <1>5
  <2>2. CASE path # word
    <3>1. path \in DOMAIN t /\ u[path] = t[path] /\ t[path] # None
      BY <2>2, <1>5, <1>7
    <3>2. PICK k \in 1..n : t[path] = e[k] /\ w[k] = path /\ \A j \in k + 1..n : w[j] # path
      BY <3>1 DEF Holds
    <3>3. \A j \in k + 1..n + 1 : j \in k + 1..n \/ j = n + 1
      OBVIOUS
    <3>4. \A j \in k + 1..n + 1 : w[j] # path
      BY <3>2, <3>3, <2>2
    <3> QED
      BY <1>1, <3>1, <3>2, <3>4
  <2> QED
    BY <2>1, <2>2
<1>8. ASSUME NEW k \in 1..n + 1, w[k] # <<>>
      PROVE  w[k] \in DOMAIN u /\ u[w[k]] # None
  BY <1>4, <1>5, <1>8, <1>2 DEF Holds
<1> QED
  BY <1>6, <1>7, <1>8 DEF Holds

\* Only the entries' words matter.
LEMMA HoldsAgree ==
  ASSUME NEW t, NEW e, NEW w, NEW f, NEW v, NEW n \in Nat, Holds(t, e, w, n),
         \A k \in 1..n : f[k] = e[k] /\ v[k] = w[k]
  PROVE  Holds(t, f, v, n)
BY DEF Holds

-----------------------------------------------------------------------------
(* Going through a sequence in jumps: from i to next[i], until the end is  *)
(* passed, with what is collected on the way.                              *)

Jumps(N, next, piece, C) ==
  C = [i \in 1..N + 1 |-> IF i > N THEN <<>> ELSE piece[i] \o C[next[i]]]

\* The jumps go forward, and concatenation stays in V.
Forward(N, V, next, piece) ==
  /\ N \in Nat /\ <<>> \in V /\ \A r, s \in V : r \o s \in V
  /\ next \in [1..N -> 1..N + 1] /\ \A i \in 1..N : next[i] > i
  /\ piece \in [1..N -> V]

\* Jumps forward define a function.
LEMMA JumpsExist ==
  ASSUME NEW N, NEW V, NEW next, NEW piece, Forward(N, V, next, piece)
  PROVE  \E C : Jumps(N, next, piece, C)
<1>0. /\ N \in Nat /\ <<>> \in V /\ \A r, s \in V : r \o s \in V
      /\ next \in [1..N -> 1..N + 1] /\ \A i \in 1..N : next[i] > i
      /\ piece \in [1..N -> V]
  BY DEF Forward
<1> USE <1>0
<1> DEFINE Rest(f, i) == IF i > N THEN <<>> ELSE piece[i] \o f[next[i]]
           From(m) == \E f \in [N + 1 - m..N + 1 -> V] : \A i \in N + 1 - m..N + 1 : f[i] = Rest(f, i)
           T == {m \in Nat : m <= N /\ ~From(m)}
<1>1. SUFFICES ASSUME T # {} PROVE FALSE
  <2>1. CASE T = {}
    <3>1. From(N)
      <4> HIDE DEF From
      <4> QED
        BY <2>1
    <3>2. N + 1 - N = 1
      OBVIOUS
    <3>3. PICK f \in [1..N + 1 -> V] : \A i \in 1..N + 1 : f[i] = Rest(f, i)
      BY <3>1, <3>2
    <3>4. f = [i \in 1..N + 1 |-> Rest(f, i)]
      <4> HIDE DEF Rest
      <4> QED
        BY <3>3
    <3> QED
      BY <3>4 DEF Jumps
  <2> QED
    BY <2>1
<1>2. PICK m \in T : \A k \in T : m <= k
  <2>1. T \subseteq Nat
    OBVIOUS
  <2> HIDE DEF T
  <2> QED
    BY <1>1, <2>1, LeastNat
<1>3. m \in Nat /\ m <= N /\ ~From(m)
  BY <1>2
<1>4. CASE m = 0
  <2> DEFINE f == [i \in N + 1..N + 1 |-> <<>>]
  <2>1. N + 1 - m = N + 1 /\ f \in [N + 1..N + 1 -> V]
    BY <1>4
  <2>2. \A i \in N + 1..N + 1 : f[i] = Rest(f, i)
    <3> TAKE i \in N + 1..N + 1
    <3>1. f[i] = <<>> /\ i > N
      OBVIOUS
    <3> HIDE DEF f
    <3> QED
      BY <3>1
  <2> QED
    BY <2>1, <2>2, <1>3
<1>5. CASE m # 0
  <2>1. From(m - 1)
    <3>1. m - 1 \in Nat /\ m - 1 <= N /\ ~(m <= m - 1)
      BY <1>3, <1>5
    <3>2. m - 1 \notin T
      <4> HIDE DEF T
      <4> QED
        BY <3>1, <1>2
    <3> HIDE DEF From
    <3> QED
      BY <3>1, <3>2
  <2> DEFINE b == N + 1 - m
  <2>2. b \in 1..N /\ N + 1 - (m - 1) = b + 1
    BY <1>3, <1>5
  <2>3. PICK f \in [b + 1..N + 1 -> V] : \A i \in b + 1..N + 1 : f[i] = Rest(f, i)
    BY <2>1, <2>2
  <2> HIDE DEF b
  <2>4. next[b] \in b + 1..N + 1 /\ piece[b] \in V
    BY <2>2
  <2> DEFINE g == [i \in b..N + 1 |-> IF i = b THEN piece[b] \o f[next[b]] ELSE f[i]]
  <2>5. b \in b..N + 1 /\ \A i \in b..N + 1 : i # b => i \in b + 1..N + 1
    BY <2>2
  <2>6. piece[b] \o f[next[b]] \in V
    BY <2>3, <2>4
  <2>7. g \in [b..N + 1 -> V]
    BY <2>3, <2>5, <2>6
  <2>8. \A i \in b + 1..N + 1 : i \in b..N + 1 /\ g[i] = f[i]
    BY <2>2
  <2>9. \A i \in b..N + 1 : g[i] = Rest(g, i)
    <3> TAKE i \in b..N + 1
    <3>1. CASE i = b
      <4>1. g[i] = piece[b] \o f[next[b]] /\ ~(b > N)
        BY <3>1, <2>2, <2>5
      <4>2. g[next[b]] = f[next[b]]
        BY <2>4, <2>8
      <4> HIDE DEF g
      <4> QED
        BY <4>1, <4>2, <3>1
    <3>2. CASE i # b
      <4>1. i \in b + 1..N + 1 /\ g[i] = f[i] /\ f[i] = Rest(f, i)
        BY <3>2, <2>3, <2>5, <2>8
      <4>2. i <= N => next[i] \in b + 1..N + 1
        BY <4>1, <2>2
      <4>3. i <= N => g[next[i]] = f[next[i]]
        BY <4>2, <2>8
      <4> HIDE DEF g
      <4> QED
        BY <4>1, <4>3, <2>2
    <3> QED
      BY <3>1, <3>2
  <2>10. From(m)
    <3> HIDE DEF g, Rest
    <3> QED
      BY <2>7, <2>9 DEF b
  <2> QED
    BY <2>10, <1>3
<1> QED
  BY <1>4, <1>5

\* What holds at the end, and at i if it holds at next[i], holds everywhere.
LEMMA JumpsReach ==
  ASSUME NEW N \in Nat, NEW next \in [1..N -> 1..N + 1], \A i \in 1..N : next[i] > i,
         NEW Good, N + 1 \in Good, \A i \in 1..N : next[i] \in Good => i \in Good
  PROVE  \A i \in 1..N + 1 : i \in Good
<1> SUFFICES ASSUME \E i \in 1..N + 1 : i \notin Good PROVE FALSE
  OBVIOUS
<1> DEFINE T == {i \in 1..N + 1 : i \notin Good}
<1>1. Max(T) \in T /\ \A i \in T : i <= Max(T)
  <2>1. N + 1 \in Nat /\ T \subseteq 0..N + 1 /\ T # {}
    OBVIOUS
  <2> HIDE DEF T
  <2> QED
    BY <2>1, MaxFacts
<1>2. PICK i : i = Max(T)
  OBVIOUS
<1>3. i \in 1..N /\ i \notin Good
  BY <1>1, <1>2
<1>4. next[i] \in 1..N + 1 /\ next[i] > i /\ next[i] \notin Good
  BY <1>3
<1>5. next[i] \in T
  BY <1>4
<1>6. next[i] <= i
  <2> HIDE DEF T
  <2> QED
    BY <1>1, <1>2, <1>5
<1> QED
  BY <1>3, <1>4, <1>6

Collects(N, V, next, piece, C) ==
  /\ \A i \in 1..N + 1 : C[i] \in V
  /\ C[N + 1] = <<>>
  /\ \A i \in 1..N : C[i] = piece[i] \o C[next[i]]

\* What is collected is a sequence of what the pieces have.
LEMMA JumpsType ==
  ASSUME NEW N, NEW V, NEW next, NEW piece, Forward(N, V, next, piece),
         NEW C, Jumps(N, next, piece, C)
  PROVE  Collects(N, V, next, piece, C)
<1>0. /\ N \in Nat /\ <<>> \in V /\ \A r, s \in V : r \o s \in V
      /\ next \in [1..N -> 1..N + 1] /\ \A i \in 1..N : next[i] > i
      /\ piece \in [1..N -> V]
  BY DEF Forward
<1> USE <1>0
<1>1. C[N + 1] = <<>>
  BY DEF Jumps
<1>2. \A i \in 1..N : C[i] = piece[i] \o C[next[i]]
  <2> TAKE i \in 1..N
  <2>1. i \in 1..N + 1 /\ ~(i > N)
    OBVIOUS
  <2> QED
    BY <2>1 DEF Jumps
<1> DEFINE Good == {i \in 1..N + 1 : C[i] \in V}
<1>3. N + 1 \in Good
  BY <1>1
<1>4. ASSUME NEW i \in 1..N, next[i] \in Good PROVE i \in Good
  <2>1. piece[i] \in V /\ C[next[i]] \in V
    BY <1>4
  <2>2. piece[i] \o C[next[i]] \in V
    BY <2>1
  <2>3. C[i] \in V
    BY <2>2, <1>2
  <2> QED
    BY <2>3
<1>5. \A i \in 1..N + 1 : i \in Good
  <2> HIDE DEF Good
  <2> QED
    BY <1>3, <1>4, JumpsReach
<1> QED
  BY <1>1, <1>2, <1>5 DEF Collects

\* Sequences over a set are closed under concatenation.
LEMMA SeqClosed ==
  ASSUME NEW S
  PROVE  /\ <<>> \in Seq(S)
         /\ \A r, s \in Seq(S) : r \o s \in Seq(S)
         /\ \A r \in Seq(S) : <<>> \o r = r /\ r \o <<>> = r
         /\ \A q, r, s \in Seq(S) : (q \o r) \o s = q \o (r \o s)
BY ConcatProperties, ConcatEmptySeq, EmptySeq, ConcatAssociative, SMTT(30)

\* Jumps forward with pieces that are sequences.
LEMMA ForwardInSeq ==
  ASSUME NEW S, NEW N \in Nat, NEW next \in [1..N -> 1..N + 1], \A i \in 1..N : next[i] > i,
         NEW piece \in [1..N -> Seq(S)]
  PROVE  Forward(N, Seq(S), next, piece)
BY SeqClosed DEF Forward

-----------------------------------------------------------------------------
(* Decoding. *)

\* How far the character at i reaches, to the end where decoding fails; and
\* the rune it is, none where decoding fails.
CharNext(s) == [i \in 1..Len(s) |-> LET n == CharLen(s[i], Len(s) - i + 1)
                                    IN IF n = 0 THEN Len(s) + 1 ELSE i + n]

CharRunes(s) == [i \in 1..Len(s) |-> LET n == CharLen(s[i], Len(s) - i + 1)
                                     IN IF n = 0 THEN <<>> ELSE <<RuneOf(s, i, n)>>]

\* A character lies within the bytes.
LEMMA CharFacts ==
  ASSUME NEW s \in Seq(Byte), NEW i \in 1..Len(s), NEW n, n = CharLen(s[i], Len(s) - i + 1)
  PROVE  /\ n \in 0..3 /\ i + n <= Len(s) + 1
         /\ n = 1 => s[i] < 128
         /\ n = 2 => s[i] \in 128..223 /\ i + 1 \in 1..Len(s)
         /\ n = 3 => s[i] \in 224..239 /\ i + 1 \in 1..Len(s) /\ i + 2 \in 1..Len(s)
         /\ n # 0 => RuneOf(s, i, n) \in Nat
<1>0. \A k \in 1..Len(s) : s[k] \in Nat /\ s[k] <= 255
  <2>1. \A k \in 1..Len(s) : s[k] \in Byte
    OBVIOUS
  <2>2. \A b \in Byte : b \in Nat /\ b <= 255
    BY DEF Byte
  <2> QED
    BY <2>1, <2>2
<1>1. s[i] \in Nat /\ s[i] <= 255
  BY <1>0
<1>2. /\ n \in 0..3 /\ i + n <= Len(s) + 1
      /\ n = 1 => s[i] < 128
      /\ n = 2 => s[i] \in 128..223 /\ i + 1 \in 1..Len(s)
      /\ n = 3 => s[i] \in 224..239 /\ i + 1 \in 1..Len(s) /\ i + 2 \in 1..Len(s)
  <2> DEFINE left == Len(s) - i + 1
  <2>0. left \in 1..Len(s)
    OBVIOUS
  <2>1. \/ s[i] < 128 /\ n = 1
        \/ s[i] \in 128..223 /\ left >= 2 /\ n = 2
        \/ s[i] \in 224..239 /\ left >= 3 /\ n = 3
        \/ n = 0
    <3> HIDE DEF left
    <3>1. n = CharLen(s[i], left)
      BY DEF left
    <3> QED
      BY <1>1, <3>1 DEF CharLen
  <2> QED
    BY <2>1
<1>3. n = 1 => RuneOf(s, i, n) \in Nat
  BY <1>1 DEF RuneOf
<1>4. n = 2 => RuneOf(s, i, n) \in Nat
  <2> SUFFICES ASSUME n = 2 PROVE RuneOf(s, i, n) \in Nat
    OBVIOUS
  <2>1. s[i + 1] \in Nat
    BY <1>0, <1>2
  <2>2. s[i] % 32 \in Nat /\ s[i + 1] % 64 \in Nat
    BY <1>1, <2>1
  <2>3. RuneOf(s, i, n) = (s[i] % 32) * 64 + (s[i + 1] % 64)
    BY DEF RuneOf
  <2> QED
    BY <2>2, <2>3
<1>5. n = 3 => RuneOf(s, i, n) \in Nat
  <2> SUFFICES ASSUME n = 3 PROVE RuneOf(s, i, n) \in Nat
    OBVIOUS
  <2>1. s[i + 1] \in Nat /\ s[i + 2] \in Nat
    BY <1>0, <1>2
  <2>2. \A x \in Nat : x % 16 \in Nat /\ x % 64 \in Nat
    OBVIOUS
  <2>4. s[i] % 16 \in Nat /\ s[i + 1] % 64 \in Nat /\ s[i + 2] % 64 \in Nat
    BY <1>1, <2>1, <2>2, Zenon
  <2>3. RuneOf(s, i, n) = (s[i] % 16) * 4096 + (s[i + 1] % 64) * 64 + (s[i + 2] % 64)
    BY DEF RuneOf
  <2> QED
    BY <2>3, <2>4, SMTT(30)
<1> QED
  BY <1>2, <1>3, <1>4, <1>5

\* Decoding jumps forward, from character to character.
LEMMA CharJumps ==
  ASSUME NEW s \in Seq(Byte)
  PROVE  Forward(Len(s), Seq(Nat), CharNext(s), CharRunes(s))
<1>1. ASSUME NEW i \in 1..Len(s)
      PROVE  /\ CharNext(s)[i] \in 1..Len(s) + 1 /\ CharNext(s)[i] > i
             /\ CharRunes(s)[i] \in Seq(Nat)
  <2>1. PICK n : n = CharLen(s[i], Len(s) - i + 1)
    OBVIOUS
  <2>2. n \in 0..3 /\ i + n <= Len(s) + 1 /\ (n # 0 => RuneOf(s, i, n) \in Nat)
    BY <2>1, CharFacts
  <2>3. CharNext(s)[i] = IF n = 0 THEN Len(s) + 1 ELSE i + n
    BY <2>1 DEF CharNext
  <2>4. CharRunes(s)[i] = IF n = 0 THEN <<>> ELSE <<RuneOf(s, i, n)>>
    BY <2>1 DEF CharRunes
  <2> QED
    BY <2>2, <2>3, <2>4
<1>2. CharNext(s) = [i \in 1..Len(s) |-> CharNext(s)[i]] /\ CharRunes(s) = [i \in 1..Len(s) |-> CharRunes(s)[i]]
  BY DEF CharNext, CharRunes
<1>3. PICK next, piece : next = CharNext(s) /\ piece = CharRunes(s)
  OBVIOUS
<1>4. /\ next \in [1..Len(s) -> 1..Len(s) + 1] /\ \A i \in 1..Len(s) : next[i] > i
      /\ piece \in [1..Len(s) -> Seq(Nat)] /\ Len(s) \in Nat
  BY <1>1, <1>2, <1>3
<1>5. Forward(Len(s), Seq(Nat), next, piece)
  BY <1>4, ForwardInSeq
<1> QED
  BY <1>3, <1>5

\* Decode collects the runes in the jumps that its characters make.
LEMMA DecodeByJumps ==
  ASSUME NEW s \in Seq(Byte)
  PROVE  \E R : Jumps(Len(s), CharNext(s), CharRunes(s), R) /\ Decode(s) = R[1]
<1> DEFINE Step(R, i) == IF i > Len(s) THEN <<>>
                         ELSE LET len == CharLen(s[i], Len(s) - i + 1)
                              IN IF len = 0 THEN <<>> ELSE <<RuneOf(s, i, len)>> \o R[i + len]
           IsRunes(R) == R = [i \in 1..Len(s) + 1 |-> Step(R, i)]
           Again(R, i) == IF i > Len(s) THEN <<>> ELSE CharRunes(s)[i] \o R[CharNext(s)[i]]
<1>1. Decode(s) = (CHOOSE R : IsRunes(R))[1]
  BY DEF Decode
<1>2. ASSUME NEW R, R[Len(s) + 1] = <<>>, NEW i \in 1..Len(s) + 1 PROVE Step(R, i) = Again(R, i)
  <2>1. CASE i > Len(s)
    BY <2>1
  <2>2. CASE ~(i > Len(s))
    <3>1. PICK n : n = CharLen(s[i], Len(s) - i + 1)
      OBVIOUS
    <3>2. i \in 1..Len(s)
      BY <2>2
    <3>3. CharNext(s)[i] = IF n = 0 THEN Len(s) + 1 ELSE i + n
      BY <3>1, <3>2 DEF CharNext
    <3>4. CharRunes(s)[i] = IF n = 0 THEN <<>> ELSE <<RuneOf(s, i, n)>>
      BY <3>1, <3>2 DEF CharRunes
    <3>5. <<>> \o <<>> = <<>>
      OBVIOUS
    <3>6. Step(R, i) = IF n = 0 THEN <<>> ELSE <<RuneOf(s, i, n)>> \o R[i + n]
      BY <3>1, <2>2
    <3>7. Again(R, i) = CharRunes(s)[i] \o R[CharNext(s)[i]]
      BY <2>2
    <3>8. CASE n = 0
      BY <3>3, <3>4, <3>5, <3>6, <3>7, <3>8, <1>2
    <3>9. CASE n # 0
      BY <3>3, <3>4, <3>6, <3>7, <3>9
    <3> QED
      BY <3>8, <3>9
  <2> QED
    BY <2>1, <2>2
<1>3. ASSUME NEW R, IsRunes(R) \/ Jumps(Len(s), CharNext(s), CharRunes(s), R) PROVE R[Len(s) + 1] = <<>>
  <2>1. Len(s) + 1 \in 1..Len(s) + 1 /\ Len(s) + 1 > Len(s)
    OBVIOUS
  <2> QED
    BY <2>1, <1>3 DEF Jumps
<1>4. ASSUME NEW R PROVE IsRunes(R) <=> Jumps(Len(s), CharNext(s), CharRunes(s), R)
  <2>1. Jumps(Len(s), CharNext(s), CharRunes(s), R) <=> R = [i \in 1..Len(s) + 1 |-> Again(R, i)]
    BY DEF Jumps
  <2>2. R[Len(s) + 1] = <<>> => [i \in 1..Len(s) + 1 |-> Again(R, i)] = [i \in 1..Len(s) + 1 |-> Step(R, i)]
    <3>1. R[Len(s) + 1] = <<>> => \A i \in 1..Len(s) + 1 : Again(R, i) = Step(R, i)
      BY <1>2
    <3> HIDE DEF Again, Step
    <3> QED
      BY <3>1
  <2> HIDE DEF Again, Step
  <2> QED
    BY <2>1, <2>2, <1>3
<1>5. \E R : IsRunes(R)
  <2>1. \E R : Jumps(Len(s), CharNext(s), CharRunes(s), R)
    BY CharJumps, JumpsExist
  <2> HIDE DEF IsRunes
  <2> QED
    BY <2>1, <1>4
<1>6. PICK R : IsRunes(R) /\ Decode(s) = R[1]
  <2> HIDE DEF IsRunes
  <2> QED
    BY <1>1, <1>5
<1> HIDE DEF IsRunes
<1> QED
  BY <1>4, <1>6

\* Decode yields runes.
LEMMA DecodeType ==
  ASSUME NEW s \in Seq(Byte)
  PROVE  Decode(s) \in Seq(Nat)
<1>1. PICK R : Jumps(Len(s), CharNext(s), CharRunes(s), R) /\ Decode(s) = R[1]
  BY DecodeByJumps
<1>2. Collects(Len(s), Seq(Nat), CharNext(s), CharRunes(s), R)
  BY <1>1, CharJumps, JumpsType
<1>3. 1 \in 1..Len(s) + 1
  OBVIOUS
<1>4. R[1] \in Seq(Nat)
  BY <1>2, <1>3 DEF Collects
<1> QED
  BY <1>1, <1>4

-----------------------------------------------------------------------------
(* The steps of the dictionary. *)

\* Of finitely many numbers one is the largest.
LEMMA LargestAt ==
  ASSUME NEW N \in Nat, N # 0, NEW F, \A i \in 1..N : F[i] \in Nat
  PROVE  \E i \in 1..N : \A j \in 1..N : F[j] <= F[i]
<1> DEFINE Bounded(n) == \E i \in 1..n : \A j \in 1..n : F[j] <= F[i]
           T == {n \in 1..N : ~Bounded(n)}
<1>1. SUFFICES ASSUME T # {} PROVE FALSE
  <2>1. T = {} => Bounded(N)
    <3> HIDE DEF Bounded
    <3> QED
      OBVIOUS
  <2> QED
    BY <2>1
<1>2. PICK n \in T : \A m \in T : n <= m
  <2>1. T \subseteq Nat
    OBVIOUS
  <2> HIDE DEF T
  <2> QED
    BY <1>1, <2>1, LeastNat
<1>3. n \in 1..N /\ ~Bounded(n)
  BY <1>2
<1>4. n # 1
  BY <1>3
<1>5. Bounded(n - 1)
  <2>1. n - 1 \in 1..N /\ ~(n <= n - 1)
    BY <1>3, <1>4
  <2>2. n - 1 \notin T
    <3> HIDE DEF T
    <3> QED
      BY <2>1, <1>2
  <2> HIDE DEF Bounded
  <2> QED
    BY <2>1, <2>2
<1>6. PICK i \in 1..n - 1 : \A j \in 1..n - 1 : F[j] <= F[i]
  BY <1>5
<1>7. /\ i \in 1..n /\ n \in 1..n /\ F[i] \in Nat /\ F[n] \in Nat
      /\ \A j \in 1..n : F[j] \in Nat /\ (j \in 1..n - 1 \/ j = n)
  BY <1>3
<1>8. CASE F[n] <= F[i]
  BY <1>3, <1>6, <1>7, <1>8
<1>9. CASE ~(F[n] <= F[i])
  BY <1>6, <1>7, <1>9, <1>3
<1> QED
  BY <1>8, <1>9

\* Each rank below the number of units has a frequency.
LEMMA RankType ==
  ASSUME static \in Seq(Units), static # <<>>, NEW k \in Nat, k < Len(static)
  PROVE  AtRank(k) \in Nat
<1> DEFINE N == Len(static)
           F == Freqs
           S == {f \in ToSet(F) : Cardinality({i \in DOMAIN F : F[i] <= f}) > k}
<1>1. N \in Nat /\ N # 0 /\ DOMAIN F = 1..N /\ \A i \in 1..N : F[i] \in Nat
  <2>1. N \in Nat /\ N # 0 /\ DOMAIN static = 1..N
    OBVIOUS
  <2>2. \A i \in 1..N : static[i] \in Units
    OBVIOUS
  <2>3. DOMAIN F = 1..N /\ \A i \in 1..N : F[i] = static[i].freq
    BY <2>1 DEF Freqs
  <2>4. \A i \in 1..N : F[i] \in Nat
    BY <2>2, <2>3 DEF Units
  <2> QED
    BY <2>1, <2>3, <2>4
<1>2. AtRank(k) = Min(S)
  BY DEF AtRank
<1> HIDE DEF F
<1>3. ToSet(F) \subseteq Nat /\ \A i \in 1..N : F[i] \in ToSet(F)
  BY <1>1 DEF ToSet
<1>4. PICK m \in 1..N : \A j \in 1..N : F[j] <= F[m]
  <2> HIDE DEF N
  <2> QED
    BY <1>1, LargestAt
<1>5. {i \in DOMAIN F : F[i] <= F[m]} = 1..N
  BY <1>1, <1>4
<1>6. Cardinality(1..N) = N
  <2> HIDE DEF N
  <2>1. 1 \in Int /\ N \in Int
    BY <1>1
  <2>2. Cardinality(1..N) = IF 1 > N THEN 0 ELSE N - 1 + 1
    BY <2>1, FS_Interval
  <2> QED
    BY <2>2, <1>1
<1>7. F[m] \in S
  BY <1>1, <1>3, <1>4, <1>5, <1>6
<1>8. S \subseteq Nat
  BY <1>3
<1> HIDE DEF S
<1>9. Min(S) \in S
  BY <1>7, <1>8, MinFacts
<1> QED
  BY <1>2, <1>8, <1>9

\* MakeNodeInfo makes a unit of a unit, whether the word decodes or not.
LEMMA NodeInfoType ==
  ASSUME NEW old \in Units, NEW bytes \in Seq(Byte), NEW freq \in Nat, NEW tag \in Tags
  PROVE  MakeNodeInfo(old, bytes, freq, tag) \in Units
<1>1. PICK word : word = Decode(bytes)
  OBVIOUS
<1>2. word \in Seq(Nat)
  BY <1>1, DecodeType
<1>3. MakeNodeInfo(old, bytes, freq, tag) \in
        {[word |-> word, freq |-> freq, tag |-> tag], [old EXCEPT !.word = word]}
  BY <1>1 DEF MakeNodeInfo
<1>4. [word |-> word, freq |-> freq, tag |-> tag] \in Units
  BY <1>2 DEF Units
<1>5. [old EXCEPT !.word = word] \in Units
  BY <1>2 DEF Units
<1> QED
  BY <1>3, <1>4, <1>5

\* The unit of a user word, of a weight that may be garbage.
LEMMA FreshUnit ==
  ASSUME NEW freq \in Nat
  PROVE  [word |-> <<>>, freq |-> freq, tag |-> ""] \in Units
<1>1. PICK word : word = <<>>
  OBVIOUS
<1>2. word \in Seq(Nat)
  BY <1>1, SeqClosed
<1>3. [word |-> word, freq |-> freq, tag |-> ""] \in Units
  BY <1>2 DEF Units, Tags
<1> QED
  BY <1>1, <1>3

\* The dictionary at first.
LEMMA DictInitInv == ASSUME DictAssumption, DictInit PROVE DictInv
<1>1. info \in Units
  <2>1. PICK word : word = <<>>
    OBVIOUS
  <2>2. info \in [word : {word}, freq : Garbage, tag : {""}] /\ Garbage \subseteq Nat
    BY <2>1 DEF DictInit, DictAssumption
  <2>3. PICK freq \in Garbage : info = [word |-> word, freq |-> freq, tag |-> ""]
    BY <2>2
  <2>4. freq \in Nat
    BY <2>2
  <2> QED
    BY <2>1, <2>3, <2>4, FreshUnit
<1>2. DictTypes
  BY SeqClosed, <1>1 DEF DictInit, DictTypes
<1>3. TrieIsRight
  <2>1. Len(static) = 0 /\ Len(active) = 0 /\ DOMAIN trie = {}
    <3>1. static = <<>> /\ active = <<>> /\ trie = <<>>
      BY DEF DictInit
    <3>2. Len(<<>>) = 0 /\ DOMAIN <<>> = {}
      OBVIOUS
    <3> QED
      BY <3>1, <3>2
  <2>2. Holds(trie, Entries, EntryWords, 0)
    BY <2>1 DEF Holds
  <2>3. 0 \in 0..Len(static) + Len(active)
    BY <2>1
  <2>4. stage = "dict" /\ active = <<>> /\ trie = <<>>
    BY DEF DictInit
  <2> QED
    BY <2>2, <2>3, <2>4 DEF TrieIsRight
<1> QED
  BY <1>2, <1>3 DEF DictInv

\* While no trie is there yet it is right.
LEMMA NoTrieYet ==
  ASSUME DictTypes, TrieIsRight, stage \in {"dict", "user"},
         active' = active, trie' = trie, static' \in Seq(Units),
         stage' \in {"dict", "user", "aborted"} \/ (stage' = "trie" /\ lineno' = 0)
  PROVE  TrieIsRight'
<1>1. active = <<>> /\ trie = <<>>
  BY DEF TrieIsRight
<1>2. PICK e, w : e = Entries' /\ w = EntryWords'
  OBVIOUS
<1>3. Holds(<<>>, e, w, 0)
  BY DEF Holds
<1>4. Holds(trie', e, w, 0)
  BY <1>1, <1>3
<1>5. 0 \in 0..Len(static') + Len(active')
  BY <1>1
<1>6. Holds(trie, Entries, EntryWords, 0)'
  BY <1>2, <1>4 DEF Holds
<1>7. active' = <<>> /\ trie' = <<>> /\ stage' # "ready" /\ (stage' = "trie" => 0 = lineno')
  BY <1>1
<1> QED
  BY <1>5, <1>6, <1>7 DEF TrieIsRight

\* A failed check leaves the units alone.
LEMMA AbortStep == ASSUME DictInv, Abort PROVE DictInv'
<1>1. DictTypes'
  BY DEF DictInv, DictTypes, Abort
<1>2. Entries' = Entries /\ EntryWords' = EntryWords
  BY DEF Abort, Entries, EntryWords, Static, Active
<1>3. PICK n \in 0..Len(static) + Len(active) : Holds(trie, Entries, EntryWords, n)
  BY DEF DictInv, TrieIsRight
<1>4. Holds(trie, Entries, EntryWords, n)'
  BY <1>2, <1>3 DEF Abort, Holds
<1>5. n \in 0..Len(static') + Len(active') /\ stage' = "aborted"
  BY <1>3 DEF Abort
<1>6. TrieIsRight'
  BY <1>4, <1>5 DEF TrieIsRight
<1> QED
  BY <1>1, <1>6 DEF DictInv

\* A line adds a unit.
LEMMA LoadLineStep == ASSUME DictAssumption, DictInv, LoadLine PROVE DictInv'
<1>1. PICK line : line = dictFile[lineno + 1]
  OBVIOUS
<1>2. line \in [word : Seq(Byte), freq : Nat, tag : STRING, cols : Nat]
  <2>1. dictFile \in Seq([word : Seq(Byte), freq : Nat, tag : STRING, cols : Nat])
    BY DEF DictAssumption, DictInv, DictTypes
  <2>2. lineno \in Nat /\ lineno < Len(dictFile) /\ Len(dictFile) \in Nat
    BY <2>1 DEF LoadLine, DictInv, DictTypes
  <2>3. lineno + 1 \in 1..Len(dictFile)
    BY <2>2
  <2> QED
    BY <1>1, <2>1, <2>3, ElementOfSeq
<1>3. CASE line.cols # 3
  BY <1>1, <1>3, AbortStep DEF LoadLine
<1>4. CASE line.cols = 3
  <2>1. PICK unit : unit = MakeNodeInfo(info, line.word, line.freq, line.tag)
    OBVIOUS
  <2>2. unit \in Units
    BY <1>2, <2>1, NodeInfoType DEF Tags, DictInv, DictTypes
  <2>3. /\ lineno' = lineno + 1 /\ info' = unit /\ static' = Append(static, unit)
        /\ UNCHANGED <<dictFile, userFile, stage, active, weights, singles, trie>>
    BY <1>1, <1>4, <2>1 DEF LoadLine
  <2>4. static' \in Seq(Units)
    BY <2>2, <2>3 DEF DictInv, DictTypes
  <2>5. DictTypes'
    BY <2>2, <2>3, <2>4 DEF DictInv, DictTypes
  <2>6. TrieIsRight'
    BY <2>3, <2>4, NoTrieYet DEF LoadLine, DictInv
  <2> QED
    BY <2>5, <2>6 DEF DictInv
<1> QED
  BY <1>3, <1>4

\* The weights are numbers.
LEMMA WeightsStep == ASSUME DictInv, CalculateWeights PROVE DictInv'
<1>1. CASE static = <<>> \/ 0 \in ToSet(Freqs)
  BY <1>1, AbortStep DEF CalculateWeights
<1>2. CASE ~(static = <<>> \/ 0 \in ToSet(Freqs))
  <2>1. /\ stage' = "user" /\ lineno' = 0
        /\ weights' = [total |-> Total, min |-> AtRank(0), user |-> AtRank(Len(static) \div 2)]
        /\ info' = [word |-> <<>>, freq |-> 0, tag |-> ""]
        /\ UNCHANGED <<dictFile, userFile, static, active, singles, trie>>
    BY <1>2 DEF CalculateWeights
  <2>2. 0 < Len(static) /\ Len(static) \div 2 \in Nat /\ Len(static) \div 2 < Len(static)
    BY <1>2 DEF DictInv, DictTypes
  <2>3. AtRank(0) \in Nat /\ AtRank(Len(static) \div 2) \in Nat
    BY <1>2, <2>2, RankType DEF DictInv, DictTypes
  <2>4. weights'.min \in Nat /\ weights'.user \in Nat
    BY <2>1, <2>3
  <2>5. info' \in Units
    BY <2>1, FreshUnit
  <2>6. DictTypes'
    BY <2>1, <2>4, <2>5 DEF DictInv, DictTypes
  <2>7. TrieIsRight'
    BY <2>1, NoTrieYet DEF CalculateWeights, DictInv, DictTypes
  <2> QED
    BY <2>6, <2>7 DEF DictInv
<1> QED
  BY <1>1, <1>2

\* A user line adds a unit, or nothing if it is empty.
LEMMA LoadUserLineStep == ASSUME DictAssumption, DictInv, LoadUserLine PROVE DictInv'
<1>1. PICK line : line = userFile[lineno + 1]
  OBVIOUS
<1>2. line \in [word : Seq(Byte), tag : STRING, cols : Nat]
  <2>1. userFile \in Seq([word : Seq(Byte), tag : STRING, cols : Nat])
    BY DEF DictAssumption, DictInv, DictTypes
  <2>2. lineno \in Nat /\ lineno < Len(userFile) /\ Len(userFile) \in Nat
    <3>1. lineno < Len(userFile)
      BY DEF LoadUserLine
    <3>2. Len(userFile) \in Nat
      BY <2>1
    <3> QED
      BY <3>1, <3>2 DEF DictInv, DictTypes
  <2>3. lineno + 1 \in 1..Len(userFile)
    BY <2>2
  <2> QED
    BY <1>1, <2>1, <2>3, ElementOfSeq
<1>3. lineno' = lineno + 1 /\ UNCHANGED <<dictFile, userFile, stage, info, active, weights, trie>>
  BY DEF LoadUserLine
<1>4. static' \in Seq(Units)
  <2>1. CASE line.cols = 0
    BY <1>1, <2>1 DEF LoadUserLine, DictInv, DictTypes
  <2>2. CASE line.cols # 0
    <3>1. PICK freq \in Garbage :
            static' = Append(static, MakeNodeInfo([word |-> <<>>, freq |-> freq, tag |-> ""], line.word,
                                                  weights.user, IF line.cols = 2 THEN line.tag ELSE ""))
      BY <1>1, <2>2 DEF LoadUserLine
    <3>2. [word |-> <<>>, freq |-> freq, tag |-> ""] \in Units
      BY FreshUnit DEF DictAssumption
    <3>3. PICK tag \in Tags : tag = IF line.cols = 2 THEN line.tag ELSE ""
      BY <1>2 DEF Tags
    <3>4. PICK unit : unit = MakeNodeInfo([word |-> <<>>, freq |-> freq, tag |-> ""], line.word, weights.user, tag)
      OBVIOUS
    <3>5. unit \in Units
      BY <1>2, <3>2, <3>4, NodeInfoType DEF DictInv, DictTypes
    <3>6. static' = Append(static, unit)
      BY <3>1, <3>3, <3>4
    <3> QED
      BY <3>5, <3>6 DEF DictInv, DictTypes
  <2> QED
    BY <2>1, <2>2
<1>5. DictTypes'
  BY <1>3, <1>4 DEF DictInv, DictTypes
<1>6. TrieIsRight'
  BY <1>3, <1>4, NoTrieYet DEF LoadUserLine, DictInv
<1> QED
  BY <1>5, <1>6 DEF DictInv

\* The trie is begun.
LEMMA UserLoadedStep == ASSUME DictInv, UserLoaded PROVE DictInv'
BY NoTrieYet DEF DictInv, DictTypes, UserLoaded

\* The trie leads to one more unit.
LEMMA InsertStaticStep == ASSUME DictInv, InsertStatic PROVE DictInv'
<1>1. DictTypes'
  BY DEF DictInv, DictTypes, InsertStatic
<1>2. PICK n \in 0..Len(static) + Len(active) :
        Holds(trie, Entries, EntryWords, n) /\ active = <<>> /\ n = lineno
  BY DEF DictInv, TrieIsRight, InsertStatic
<1>3. PICK e, w : e = Entries /\ w = EntryWords
  OBVIOUS
<1>4. n \in Nat /\ n + 1 \in 1..Len(static) /\ Len(active) = 0 /\ Len(static) \in Nat
  BY <1>2 DEF InsertStatic, DictInv, DictTypes
<1>5. e[n + 1] = Static(n + 1) /\ w[n + 1] = static[n + 1].word
  BY <1>3, <1>4 DEF Entries, EntryWords
<1>6. Static(n + 1) # None
  BY DEF Static, None
<1>7. static[n + 1].word \in Seq(Nat)
  <2>1. static[n + 1] \in Units
    BY <1>4 DEF DictInv, DictTypes
  <2> QED
    BY <2>1 DEF Units
<1>8. PICK u : u = trie'
  OBVIOUS
<1>9. u = [path \in DOMAIN trie \cup NodesTo(static[n + 1].word) |->
             IF path = static[n + 1].word THEN e[n + 1] ELSE IF path \in DOMAIN trie THEN trie[path] ELSE None]
  BY <1>2, <1>5, <1>8 DEF InsertStatic, InsertNode
<1>10. Holds(u, e, w, n + 1)
  <2>1. PICK word \in Seq(Nat) : word = static[n + 1].word
    BY <1>7
  <2>2. /\ Holds(trie, e, w, n) /\ n \in Nat /\ w[n + 1] = word /\ e[n + 1] # None
        /\ u = [path \in DOMAIN trie \cup NodesTo(word) |->
                  IF path = word THEN e[n + 1] ELSE IF path \in DOMAIN trie THEN trie[path] ELSE None]
    BY <1>2, <1>3, <1>4, <1>5, <1>6, <1>9, <2>1
  <2> QED
    BY <2>2, InsertHolds
<1>11. Entries' = e /\ EntryWords' = w
  BY <1>3 DEF InsertStatic, Entries, EntryWords, Static, Active
<1>12. Holds(trie, Entries, EntryWords, n + 1)'
  BY <1>8, <1>10, <1>11 DEF Holds
<1>13. /\ stage' = "trie" /\ active' = <<>> /\ n + 1 = lineno'
       /\ n + 1 \in 0..Len(static') + Len(active')
  BY <1>2, <1>4 DEF InsertStatic
<1>14. TrieIsRight'
  BY <1>12, <1>13 DEF TrieIsRight
<1> QED
  BY <1>1, <1>14 DEF DictInv

\* The trie has all units.
LEMMA TrieCreatedStep == ASSUME DictInv, TrieCreated PROVE DictInv'
<1>1. DictTypes'
  BY DEF DictInv, DictTypes, TrieCreated
<1>2. PICK n \in 0..Len(static) + Len(active) :
        Holds(trie, Entries, EntryWords, n) /\ active = <<>> /\ n = lineno
  BY DEF DictInv, TrieIsRight, TrieCreated
<1>3. Entries' = Entries /\ EntryWords' = EntryWords
  BY DEF TrieCreated, Entries, EntryWords, Static, Active
<1>4. Holds(trie, Entries, EntryWords, n)'
  BY <1>2, <1>3 DEF Holds, TrieCreated
<1>5. stage' = "ready" /\ n = Len(static') + Len(active') /\ n \in 0..Len(static') + Len(active')
  BY <1>2 DEF TrieCreated, DictInv, DictTypes
<1>6. TrieIsRight'
  BY <1>4, <1>5 DEF TrieIsRight
<1> QED
  BY <1>1, <1>6 DEF DictInv

\* The word that is added comes last, and so counts.
LEMMA InsertUserWordStep == ASSUME DictAssumption, DictInv, InsertUserWord PROVE DictInv'
<1>1. PICK bytes \in UserWords :
        /\ active' = Append(active, [word |-> Decode(bytes), freq |-> weights.user, tag |-> ""])
        /\ trie' = InsertNode(Decode(bytes), Active(Len(active) + 1))
  BY DEF InsertUserWord
<1>2. stage = "ready" /\ UNCHANGED <<dictFile, userFile, stage, lineno, info, static, weights, singles>>
  BY DEF InsertUserWord
<1>3. PICK word \in Seq(Nat) : word = Decode(bytes)
  BY DecodeType DEF DictAssumption
<1>4. PICK unit : unit = [word |-> word, freq |-> weights.user, tag |-> ""]
  OBVIOUS
<1>5. unit \in Units /\ unit.word = word
  BY <1>3, <1>4 DEF DictInv, DictTypes, Units, Tags
<1>6. static \in Seq(Units) /\ active \in Seq(Units) /\ Len(static) \in Nat /\ Len(active) \in Nat
  BY DEF DictInv, DictTypes
<1>7. /\ active' \in Seq(Units) /\ Len(active') = Len(active) + 1
      /\ active'[Len(active) + 1] = unit
      /\ \A i \in 1..Len(active) : active'[i] = active[i]
  <2>1. active' = Append(active, unit)
    BY <1>1, <1>3, <1>4
  <2> QED
    BY <2>1, <1>5, <1>6, AppendProperties
<1>8. DictTypes'
  BY <1>2, <1>7 DEF DictInv, DictTypes
<1>9. PICK n \in Nat : n = Len(static) + Len(active) /\ Holds(trie, Entries, EntryWords, n)
  BY <1>2, <1>6 DEF DictInv, TrieIsRight
<1>10. PICK e, w : e = Entries' /\ w = EntryWords'
  OBVIOUS
<1>11. /\ \A k \in 1..n + 1 : e[k] = IF k <= Len(static) THEN Static(k) ELSE Active(k - Len(static))
       /\ \A k \in 1..n + 1 : w[k] = IF k <= Len(static) THEN static[k].word ELSE active'[k - Len(static)].word
  BY <1>2, <1>6, <1>7, <1>9, <1>10 DEF Entries, EntryWords, Static, Active
<1>12. \A k \in 1..n : e[k] = Entries[k] /\ w[k] = EntryWords[k]
  <2> TAKE k \in 1..n
  <2>1. /\ Entries[k] = IF k <= Len(static) THEN Static(k) ELSE Active(k - Len(static))
        /\ EntryWords[k] = IF k <= Len(static) THEN static[k].word ELSE active[k - Len(static)].word
    BY <1>9 DEF Entries, EntryWords
  <2>2. k \in 1..n + 1
    BY <1>9
  <2>3. ~(k <= Len(static)) => active'[k - Len(static)] = active[k - Len(static)]
    <3>1. ~(k <= Len(static)) => k - Len(static) \in 1..Len(active)
      BY <1>6, <1>9
    <3> QED
      BY <1>7, <3>1
  <2> QED
    BY <1>11, <2>1, <2>2, <2>3
<1>13. Holds(trie, e, w, n)
  BY <1>9, <1>12, HoldsAgree
<1>14. e[n + 1] = Active(Len(active) + 1) /\ w[n + 1] = word
  <2>1. n + 1 \in 1..n + 1 /\ ~(n + 1 <= Len(static)) /\ n + 1 - Len(static) = Len(active) + 1
    BY <1>6, <1>9
  <2>2. e[n + 1] = Active(n + 1 - Len(static)) /\ w[n + 1] = active'[n + 1 - Len(static)].word
    BY <1>11, <2>1
  <2> QED
    BY <1>5, <1>7, <2>1, <2>2
<1>15. e[n + 1] # None
  BY <1>14 DEF Active, None
<1>16. PICK u : u = trie'
  OBVIOUS
<1>17. u = [path \in DOMAIN trie \cup NodesTo(word) |->
              IF path = word THEN e[n + 1] ELSE IF path \in DOMAIN trie THEN trie[path] ELSE None]
  BY <1>1, <1>3, <1>14, <1>16 DEF InsertNode
<1>18. Holds(u, e, w, n + 1)
  BY <1>3, <1>13, <1>14, <1>15, <1>17, InsertHolds
<1>19. Holds(trie, Entries, EntryWords, n + 1)'
  BY <1>10, <1>16, <1>18 DEF Holds
<1>20. /\ stage' = "ready" /\ n + 1 = Len(static') + Len(active')
       /\ n + 1 \in 0..Len(static') + Len(active')
  BY <1>2, <1>6, <1>7, <1>9
<1>21. TrieIsRight'
  BY <1>19, <1>20 DEF TrieIsRight
<1> QED
  BY <1>8, <1>21 DEF DictInv

-----------------------------------------------------------------------------
(* The dictionary is right in every state. *)

\* Every unit of either container has a frequency, and a word of runes.
LEMMA UnitsTyped ==
  ASSUME DictTypes
  PROVE  /\ \A unit \in ToSet(static \o active) : unit.freq \in Nat
         /\ \A i \in 1..Len(static) : static[i].word \in Seq(Nat)
         /\ \A i \in 1..Len(active) : active[i].word \in Seq(Nat)
<1>1. static \in Seq(Units) /\ active \in Seq(Units)
  BY DEF DictTypes
<1>2. PICK all \in Seq(Units) : all = static \o active
  BY <1>1, SeqClosed
<1>3. \A unit \in ToSet(all) : unit \in Units
  BY <1>2 DEF ToSet
<1>4. \A unit \in Units : unit.freq \in Nat /\ unit.word \in Seq(Nat)
  BY DEF Units
<1>5. /\ \A i \in 1..Len(static) : static[i] \in Units
      /\ \A i \in 1..Len(active) : active[i] \in Units
  BY <1>1
<1> QED
  BY <1>2, <1>3, <1>4, <1>5

\* What an entry is: a pointer to the unit of its word.
LEMMA EntryFacts ==
  ASSUME DictTypes, NEW k \in 1..Len(static) + Len(active)
  PROVE  /\ Entries[k] \in Pointers /\ Entries[k] # None
         /\ Unit(Entries[k]).word = EntryWords[k]
         /\ EntryWords[k] \in Seq(Nat)
<1>1. Len(static) \in Nat /\ Len(active) \in Nat /\ DOMAIN static = 1..Len(static) /\ DOMAIN active = 1..Len(active)
  BY DEF DictTypes
<1>2. CASE k <= Len(static)
  BY <1>1, <1>2, UnitsTyped DEF Entries, EntryWords, Static, Pointers, Unit, None
<1>3. CASE ~(k <= Len(static))
  <2> DEFINE i == k - Len(static)
  <2>1. Entries[k] = <<"active", i>> /\ EntryWords[k] = active[i].word /\ i \in 1..Len(active)
    BY <1>1, <1>3 DEF Entries, EntryWords, Active
  <2> HIDE DEF i
  <2>2. Entries[k] \in Pointers
    BY <1>1, <2>1 DEF Pointers, Active
  <2>3. Unit(Entries[k]) = active[i] /\ Entries[k] # None
    BY <2>1 DEF Unit, None
  <2> QED
    BY <2>1, <2>2, <2>3, UnitsTyped
<1> QED
  BY <1>2, <1>3

\* The dictionary's types follow.
LEMMA TypesFollow == ASSUME DictInv PROVE DictTypeOK
<1>1. PICK n \in 0..Len(static) + Len(active) : Holds(trie, Entries, EntryWords, n)
  BY DEF DictInv, TrieIsRight
<1>2. \A path \in DOMAIN trie : path # <<>>
  BY <1>1 DEF Holds
<1>3. ASSUME NEW path \in DOMAIN trie PROVE trie[path] \in Pointers
  <2>1. CASE trie[path] = None
    BY <2>1 DEF Pointers
  <2>2. CASE trie[path] # None
    <3>1. PICK k \in 1..n : trie[path] = Entries[k]
      BY <1>1, <2>2 DEF Holds
    <3>2. k \in 1..Len(static) + Len(active)
      BY <1>1 DEF DictInv, DictTypes
    <3> QED
      BY <3>1, <3>2, EntryFacts DEF DictInv
  <2> QED
    BY <2>1, <2>2
<1> QED
  BY <1>2, <1>3, UnitsTyped DEF DictInv, DictTypes, DictTypeOK

\* So do its pointers.
LEMMA PointersFollow == ASSUME DictInv PROVE PointersValid
<1>1. PICK n \in 0..Len(static) + Len(active) : Holds(trie, Entries, EntryWords, n)
  BY DEF DictInv, TrieIsRight
<1>2. ASSUME NEW path \in DOMAIN trie, trie[path] # None
      PROVE  trie[path] \in Pointers /\ Unit(trie[path]).word = path
  <2>1. PICK k \in 1..n : trie[path] = Entries[k] /\ EntryWords[k] = path
    BY <1>1, <1>2 DEF Holds
  <2>2. k \in 1..Len(static) + Len(active)
    BY <1>1 DEF DictInv, DictTypes
  <2> QED
    BY <2>1, <2>2, EntryFacts DEF DictInv
<1> QED
  BY <1>2 DEF PointersValid

\* So does what a look-up finds.
LEMMA LatestFollows == ASSUME DictInv PROVE LatestWins
<1> SUFFICES ASSUME stage = "ready" PROVE LatestWins
  BY DEF LatestWins
<1> DEFINE a == [i \in DOMAIN static |-> Static(i)]
           b == [i \in DOMAIN active |-> Active(i)]
           P == (STRING \cup {"static", "active"}) \X Nat
<1>1. PICK n \in Nat : n = Len(static) + Len(active) /\ Holds(trie, Entries, EntryWords, n)
  BY DEF DictInv, DictTypes, TrieIsRight
<1>2. Len(static) \in Nat /\ Len(active) \in Nat /\ DOMAIN static = 1..Len(static) /\ DOMAIN active = 1..Len(active)
  BY DEF DictInv, DictTypes
<1>3. a \in Seq(P) /\ b \in Seq(P) /\ Len(a) = Len(static) /\ Len(b) = Len(active)
  <2>1. \A i \in 1..Len(static) : Static(i) \in P
    BY DEF Static
  <2>2. \A i \in 1..Len(active) : Active(i) \in P
    BY DEF Active
  <2> HIDE DEF P
  <2>3. a \in [1..Len(static) -> P] /\ b \in [1..Len(active) -> P]
    BY <1>2, <2>1, <2>2
  <2> QED
    BY <1>2, <2>3, SeqDef
<1>4. PICK all : all = a \o b
  OBVIOUS
<1>5. DOMAIN all = 1..n /\ \A i \in 1..n : all[i] = Entries[i]
  <2> HIDE DEF P
  <2>1. /\ Len(all) = n /\ all \in Seq(P)
        /\ \A i \in 1..n : all[i] = IF i <= Len(static) THEN a[i] ELSE b[i - Len(static)]
    <3> HIDE DEF a, b
    <3>1. /\ all \in Seq(P) /\ Len(all) = Len(a) + Len(b)
          /\ \A i \in 1..Len(a) + Len(b) : all[i] = IF i <= Len(a) THEN a[i] ELSE b[i - Len(a)]
      <4>1. PICK c, d : c = a /\ d = b /\ c \in Seq(P) /\ d \in Seq(P)
        BY <1>3
      <4>2. /\ c \o d \in Seq(P) /\ Len(c \o d) = Len(c) + Len(d)
            /\ \A i \in 1..Len(c) + Len(d) : (c \o d)[i] = IF i <= Len(c) THEN c[i] ELSE d[i - Len(c)]
        BY <4>1, ConcatProperties
      <4> QED
        BY <1>4, <4>1, <4>2, Zenon
    <3> QED
      BY <1>1, <1>2, <1>3, <3>1
  <2>2. \A i \in 1..n : i <= Len(static) => a[i] = Static(i)
    BY <1>1, <1>2
  <2>3. \A i \in 1..n : ~(i <= Len(static)) => b[i - Len(static)] = Active(i - Len(static))
    BY <1>1, <1>2
  <2>4. \A i \in 1..n : Entries[i] = IF i <= Len(static) THEN Static(i) ELSE Active(i - Len(static))
    BY <1>1 DEF Entries
  <2> HIDE DEF a, b
  <2> QED
    BY <2>1, <2>2, <2>3, <2>4
<1>6. \A i \in 1..n : Unit(all[i]).word = EntryWords[i]
  BY <1>1, <1>5, EntryFacts DEF DictInv
<1>7. ASSUME NEW i \in DOMAIN all, NEW word, word = Unit(all[i]).word, word # <<>>,
             NEW S, S = {k \in DOMAIN all : Unit(all[k]).word = word}
      PROVE  Find(word) = all[Max(S)]
  <2>1. S = {k \in 1..n : EntryWords[k] = word}
    BY <1>5, <1>6, <1>7
  <2>2. EntryWords[i] = word /\ i \in 1..n
    BY <1>5, <1>6, <1>7
  <2>3. word \in DOMAIN trie /\ trie[word] # None
    BY <1>1, <1>7, <2>2 DEF Holds
  <2>4. PICK k \in 1..n : trie[word] = Entries[k] /\ EntryWords[k] = word /\ \A j \in k + 1..n : EntryWords[j] # word
    BY <1>1, <2>3 DEF Holds
  <2>5. S \subseteq 0..n /\ S # {} /\ k \in S
    BY <2>1, <2>4
  <2>6. Max(S) \in S /\ k <= Max(S)
    BY <2>5, MaxFacts
  <2>7. Max(S) = k
    BY <2>1, <2>6, <2>4
  <2> QED
    BY <1>5, <2>3, <2>4, <2>7 DEF Find
<1> HIDE DEF a, b
<1>8. \A i \in DOMAIN all :
        LET word == Unit(all[i]).word
        IN word # <<>> => Find(word) = all[Max({k \in DOMAIN all : Unit(all[k]).word = word})]
  BY <1>7
<1> QED
  BY <1>4, <1>8 DEF LatestWins, a, b

-----------------------------------------------------------------------------
(* FlattenSeq, by the steps of its definition.                             *)

\* f[i] is the concatenation of the first i members of ss.
Concats(ss, f) ==
  f = [i \in 1..Len(ss) |-> IF i = 1 THEN ss[i] ELSE f[i - 1] \o ss[i]]

\* The concatenations of the first words, one by one.
LEMMA ConcatsExist ==
  ASSUME NEW R, \A r, s \in R : r \o s \in R, NEW ss \in Seq(R)
  PROVE  \E f \in [1..Len(ss) -> R] : Concats(ss, f)
<1> DEFINE Step(f, i) == IF i = 1 THEN ss[i] ELSE f[i - 1] \o ss[i]
           Upto(n) == \E f \in [1..n -> R] : \A i \in 1..n : f[i] = Step(f, i)
           T == {n \in Nat : n <= Len(ss) /\ ~Upto(n)}
<1>0. Len(ss) \in Nat /\ \A i \in 1..Len(ss) : ss[i] \in R
  OBVIOUS
<1>1. SUFFICES ASSUME T # {} PROVE FALSE
  <2>1. CASE T = {}
    <3>1. PICK f \in [1..Len(ss) -> R] : \A i \in 1..Len(ss) : f[i] = Step(f, i)
      <4>1. Upto(Len(ss))
        <5> HIDE DEF Upto
        <5> QED
          BY <2>1, <1>0
      <4> QED
        BY <4>1
    <3> QED
      BY <3>1 DEF Concats
  <2> QED
    BY <2>1
<1>2. PICK n \in T : \A m \in T : n <= m
  <2>1. T \subseteq Nat
    OBVIOUS
  <2> HIDE DEF T
  <2> QED
    BY <1>1, <2>1, LeastNat
<1>3. CASE n = 0
  <2>1. [i \in 1..n |-> <<>>] \in [1..n -> R]
    BY <1>3
  <2>2. 1..n = {}
    BY <1>3
  <2>3. Upto(n)
    BY <2>1, <2>2
  <2> QED
    BY <2>3
<1>4. CASE n # 0
  <2>1. n - 1 \in Nat /\ n - 1 <= Len(ss) /\ n - 1 \notin T /\ n \in 1..Len(ss)
    <3>1. n \in Nat /\ n <= Len(ss) /\ n - 1 \in Nat /\ ~(n <= n - 1)
      BY <1>2, <1>4
    <3> HIDE DEF T
    <3> QED
      BY <1>0, <1>2, <3>1
  <2>2. PICK f \in [1..n - 1 -> R] : \A i \in 1..n - 1 : f[i] = Step(f, i)
    BY <2>1
  <2>3. Step(f, n) \in R
    BY <2>1, <2>2
  <2> DEFINE g == [i \in 1..n |-> IF i = n THEN Step(f, n) ELSE f[i]]
  <2>4. g \in [1..n -> R]
    BY <2>1, <2>2, <2>3
  <2>5. \A i \in 1..n - 1 : g[i] = f[i]
    <3> HIDE DEF Step
    <3> QED
      BY <2>1
  <2>6. \A i \in 1..n : g[i] = Step(g, i)
    <3>1. g[n] = Step(f, n)
      BY <2>1
    <3> HIDE DEF g
    <3> TAKE i \in 1..n
    <3>2. CASE i = n
      BY <3>2, <2>1, <2>5, <3>1
    <3>3. CASE i # n
      <4>1. i \in 1..n - 1 /\ (i # 1 => i - 1 \in 1..n - 1)
        BY <3>3, <2>1
      <4>2. g[i] = f[i] /\ (i # 1 => g[i - 1] = f[i - 1]) /\ f[i] = Step(f, i)
        BY <4>1, <2>2, <2>5
      <4> QED
        BY <4>2
    <3> QED
      BY <3>2, <3>3
  <2> HIDE DEF g
  <2> QED
    BY <2>4, <2>6
<1> QED
  BY <1>3, <1>4

\* They depend on the words up to there only.
LEMMA ConcatsAgree ==
  ASSUME NEW ss, NEW tt, NEW n \in Nat, Len(ss) \in Nat, Len(tt) \in Nat,
         n <= Len(ss), n <= Len(tt), \A i \in 1..n : ss[i] = tt[i],
         NEW f, NEW g, Concats(ss, f), Concats(tt, g)
  PROVE  \A i \in 1..n : f[i] = g[i]
<1> SUFFICES ASSUME \E i \in 1..n : f[i] # g[i]
             PROVE  FALSE
  OBVIOUS
<1> DEFINE T == {i \in 1..n : f[i] # g[i]}
<1>1. PICK i \in T : \A j \in T : i <= j
  <2>1. T \subseteq Nat /\ T # {}
    OBVIOUS
  <2> HIDE DEF T
  <2> QED
    BY <2>1, LeastNat
<1>2. i \in 1..n /\ i \in 1..Len(ss) /\ i \in 1..Len(tt) /\ f[i] # g[i] /\ ss[i] = tt[i]
  BY <1>1
<1>3. f[i] = IF i = 1 THEN ss[i] ELSE f[i - 1] \o ss[i]
  BY <1>2 DEF Concats
<1>4. g[i] = IF i = 1 THEN tt[i] ELSE g[i - 1] \o tt[i]
  BY <1>2 DEF Concats
<1>5. i # 1 => i - 1 \in 1..n /\ f[i - 1] = g[i - 1]
  BY <1>1, <1>2
<1> QED
  BY <1>2, <1>3, <1>4, <1>5

\* The last of them is what FlattenSeq yields.
LEMMA FlattenByConcats ==
  ASSUME NEW R, NEW ss \in Seq(R), Len(ss) # 0, NEW f, Concats(ss, f)
  PROVE  FlattenSeq(ss) = f[Len(ss)]
<1>1. FlattenSeq(ss) =
        (CHOOSE g : g = [i \in 1..Len(ss) |-> IF i = 1 THEN ss[i] ELSE g[i - 1] \o ss[i]])[Len(ss)]
  BY DEF FlattenSeq
<1>2. PICK g : Concats(ss, g) /\ FlattenSeq(ss) = g[Len(ss)]
  BY <1>1 DEF Concats
<1>3. Len(ss) \in Nat /\ Len(ss) \in 1..Len(ss)
  OBVIOUS
<1>4. \A i \in 1..Len(ss) : f[i] = g[i]
  BY <1>2, <1>3, ConcatsAgree
<1> QED
  BY <1>2, <1>3, <1>4

\* No words spell nothing.
LEMMA FlattenEmpty == FlattenSeq(<<>>) = <<>>
BY DEF FlattenSeq

\* One more word is spelt at the end.
LEMMA FlattenAppend ==
  ASSUME NEW S, NEW ss \in Seq(Seq(S)), NEW s \in Seq(S)
  PROVE  /\ FlattenSeq(ss) \in Seq(S)
         /\ FlattenSeq(Append(ss, s)) = FlattenSeq(ss) \o s
<1> DEFINE R == Seq(S)
           tt == Append(ss, s)
           n == Len(ss)
<1>1. /\ ss \in Seq(R) /\ s \in R /\ <<>> \in R
      /\ \A r, u \in R : r \o u \in R
      /\ \A r \in R : <<>> \o r = r
  BY ConcatProperties, ConcatEmptySeq, EmptySeq
<1>2. SUFFICES /\ FlattenSeq(ss) \in R
               /\ FlattenSeq(tt) = FlattenSeq(ss) \o s
  OBVIOUS
<1> HIDE DEF R
<1>3. n \in Nat /\ tt \in Seq(R) /\ Len(tt) = n + 1 /\ tt[n + 1] = s /\ \A i \in 1..n : tt[i] = ss[i]
  BY <1>1
<1>4. PICK f : f \in [1..n -> R] /\ Concats(ss, f)
  BY <1>1, ConcatsExist
<1>5. PICK g : g \in [1..n + 1 -> R] /\ Concats(tt, g)
  <2> HIDE DEF tt, n
  <2> QED
    BY <1>1, <1>3, ConcatsExist
<1>6. FlattenSeq(tt) = g[n + 1]
  <2> HIDE DEF tt, n
  <2> QED
    BY <1>3, <1>5, FlattenByConcats
<1>7. g[n + 1] = IF n = 0 THEN s ELSE g[n] \o s
  <2> HIDE DEF tt
  <2>1. n + 1 \in 1..Len(tt) /\ (n + 1) - 1 = n /\ (n + 1 = 1 <=> n = 0)
    BY <1>3
  <2>2. g[n + 1] = IF n + 1 = 1 THEN tt[n + 1] ELSE g[(n + 1) - 1] \o tt[n + 1]
    BY <1>5, <2>1 DEF Concats
  <2> HIDE DEF n
  <2> QED
    BY <1>3, <2>1, <2>2
<1>8. CASE n = 0
  BY <1>8, <1>1, FlattenEmpty, <1>6, <1>7
<1>9. CASE n # 0
  <2>1. FlattenSeq(ss) = f[n]
    BY <1>1, <1>4, <1>9, FlattenByConcats
  <2>2. \A i \in 1..n : f[i] = g[i]
    <3>1. n \in Nat /\ Len(ss) \in Nat /\ Len(tt) \in Nat /\ n <= Len(ss) /\ n <= Len(tt)
      BY <1>3
    <3>2. \A i \in 1..n : ss[i] = tt[i]
      BY <1>3
    <3>3. Concats(ss, f) /\ Concats(tt, g)
      BY <1>4, <1>5
    <3> HIDE DEF tt, n
    <3> QED
      BY <3>1, <3>2, <3>3, ConcatsAgree
  <2>3. n \in 1..n /\ f[n] \in R /\ f[n] = g[n]
    BY <1>3, <1>4, <1>9, <2>2
  <2> HIDE DEF tt, n
  <2> QED
    BY <1>6, <1>7, <1>9, <2>1, <2>3
<1> QED
  BY <1>8, <1>9

\* Appending is concatenating.
LEMMA AppendToConcat ==
  ASSUME NEW R, NEW s \in Seq(R), NEW t \in Seq(R), NEW x \in R
  PROVE  s \o Append(t, x) = Append(s \o t, x)
BY SeqClosed, AppendIsConcat, ConcatAssociative

\* The words of both spell what both spell.
LEMMA FlattenConcat ==
  ASSUME NEW S, NEW ss \in Seq(Seq(S)), NEW tt \in Seq(Seq(S))
  PROVE  FlattenSeq(ss \o tt) = FlattenSeq(ss) \o FlattenSeq(tt)
<1> DEFINE Right(n) == \A u \in Seq(Seq(S)) : Len(u) = n => FlattenSeq(ss \o u) = FlattenSeq(ss) \o FlattenSeq(u)
           T == {n \in Nat : ~Right(n)}
<1>1. SUFFICES ASSUME T # {} PROVE FALSE
  <2>1. T = {} => Right(Len(tt))
    <3>1. Len(tt) \in Nat
      OBVIOUS
    <3> HIDE DEF Right
    <3> QED
      BY <3>1
  <2>2. Right(Len(tt)) => FlattenSeq(ss \o tt) = FlattenSeq(ss) \o FlattenSeq(tt)
    OBVIOUS
  <2> QED
    BY <2>1, <2>2
<1>2. PICK n \in T : \A m \in T : n <= m
  <2>1. T \subseteq Nat
    OBVIOUS
  <2> HIDE DEF T
  <2> QED
    BY <1>1, <2>1, LeastNat
<1>3. PICK u \in Seq(Seq(S)) : Len(u) = n /\ FlattenSeq(ss \o u) # FlattenSeq(ss) \o FlattenSeq(u)
  BY <1>2
<1>4. FlattenSeq(ss) \in Seq(S)
  BY SeqClosed, FlattenAppend
<1>5. CASE n = 0
  BY <1>3, <1>5, <1>4, SeqClosed, FlattenEmpty
<1>6. CASE n # 0
  <2>1. n \in Nat /\ n - 1 \in Nat /\ n - 1 \notin T
    <3>1. n \in Nat /\ n - 1 \in Nat /\ ~(n <= n - 1)
      BY <1>2, <1>6
    <3> HIDE DEF T
    <3> QED
      BY <3>1, <1>2
  <2>2. Right(n - 1)
    <3> HIDE DEF Right
    <3> QED
      BY <2>1
  <2>3. PICK v \in Seq(Seq(S)), x \in Seq(S) : u = Append(v, x) /\ Len(v) = n - 1
    <3> DEFINE R == Seq(S)
    <3>1. u \in Seq(R) /\ u # <<>>
      BY <1>3, <1>6
    <3> HIDE DEF R
    <3>2. PICK v \in Seq(R), x \in R : u = Append(v, x)
      BY <3>1, SequenceEmptyOrAppend
    <3>3. Len(u) = Len(v) + 1 /\ Len(v) \in Nat
      BY <3>2, AppendProperties
    <3>4. Len(v) = n - 1
      BY <3>3, <1>3, <2>1
    <3> QED
      BY <3>2, <3>4 DEF R
  <2>4. FlattenSeq(ss \o v) = FlattenSeq(ss) \o FlattenSeq(v)
    BY <2>2, <2>3
  <2>5. ss \o v \in Seq(Seq(S)) /\ ss \o u = Append(ss \o v, x)
    <3>1. ss \o v \in Seq(Seq(S))
      BY SeqClosed
    <3>2. ss \o Append(v, x) = Append(ss \o v, x)
      <4> HIDE DEF Right, T
      <4> QED
        BY <2>3, AppendToConcat, SMT
    <3> QED
      BY <3>1, <3>2, <2>3
  <2>6. FlattenSeq(ss \o u) = FlattenSeq(ss \o v) \o x
    BY <2>5, FlattenAppend
  <2>7. FlattenSeq(u) = FlattenSeq(v) \o x /\ FlattenSeq(v) \in Seq(S)
    BY <2>3, FlattenAppend
  <2>8. (FlattenSeq(ss) \o FlattenSeq(v)) \o x = FlattenSeq(ss) \o (FlattenSeq(v) \o x)
    <3>1. FlattenSeq(ss) \in Seq(S) /\ FlattenSeq(v) \in Seq(S) /\ x \in Seq(S)
      BY <1>4, <2>7
    <3>2. \A q, r, s \in Seq(S) : (q \o r) \o s = q \o (r \o s)
      BY SeqClosed
    <3> QED
      BY <3>1, <3>2, Zenon
  <2> QED
    BY <1>3, <2>4, <2>6, <2>7, <2>8, Zenon
<1> QED
  BY <1>5, <1>6

\* One word spells itself.
LEMMA FlattenOne ==
  ASSUME NEW S, NEW s \in Seq(S)
  PROVE  FlattenSeq(<<s>>) = s /\ <<s>> \in Seq(Seq(S))
<1>1. <<>> \in Seq(Seq(S)) /\ <<>> \o s = s
  BY SeqClosed
<1>2. FlattenSeq(Append(<<>>, s)) = FlattenSeq(<<>>) \o s
  BY <1>1, FlattenAppend
<1>3. Append(<<>>, s) = <<s>>
  OBVIOUS
<1>4. <<s>> \in Seq(Seq(S))
  OBVIOUS
<1> QED
  BY <1>1, <1>2, <1>3, <1>4, FlattenEmpty, Zenon

\* What words spell has their runes.
LEMMA FlattenType ==
  ASSUME NEW S, NEW ss \in Seq(Seq(S))
  PROVE  FlattenSeq(ss) \in Seq(S)
BY SeqClosed, FlattenAppend

-----------------------------------------------------------------------------
(* Pieces of a sequence. *)

\* The length and the elements of a piece.
LEMMA PieceFacts ==
  ASSUME NEW S, NEW s \in Seq(S), NEW i \in 1..Len(s) + 1, NEW k \in i - 1..Len(s)
  PROVE  /\ SubSeq(s, i, k) \in Seq(S)
         /\ Len(SubSeq(s, i, k)) = k - i + 1
         /\ \A n \in 1..k - i + 1 : SubSeq(s, i, k)[n] = s[i + n - 1]
BY ElementOfSeq, SubSeqProperties

\* A piece is its two parts.
LEMMA PieceSplits ==
  ASSUME NEW S, NEW s \in Seq(S), NEW i \in 1..Len(s) + 1, NEW j \in i - 1..Len(s), NEW k \in j..Len(s)
  PROVE  SubSeq(s, i, k) = SubSeq(s, i, j) \o SubSeq(s, j + 1, k)
<1> DEFINE a == SubSeq(s, i, j)
           b == SubSeq(s, j + 1, k)
           c == SubSeq(s, i, k)
<1>1. a \in Seq(S) /\ Len(a) = j - i + 1 /\ \A n \in 1..j - i + 1 : a[n] = s[i + n - 1]
  BY PieceFacts
<1>2. b \in Seq(S) /\ Len(b) = k - j /\ \A n \in 1..k - j : b[n] = s[j + n]
  BY PieceFacts
<1>3. c \in Seq(S) /\ Len(c) = k - i + 1 /\ \A n \in 1..k - i + 1 : c[n] = s[i + n - 1]
  BY PieceFacts
<1> HIDE DEF a, b, c
<1>4. /\ a \o b \in Seq(S) /\ Len(a \o b) = Len(a) + Len(b)
      /\ \A n \in 1..Len(a) + Len(b) : (a \o b)[n] = IF n <= Len(a) THEN a[n] ELSE b[n - Len(a)]
  BY <1>1, <1>2, ConcatProperties
<1>5. Len(a) + Len(b) = k - i + 1
  BY <1>1, <1>2
<1>6. \A n \in 1..k - i + 1 : (a \o b)[n] = c[n]
  <2> TAKE n \in 1..k - i + 1
  <2>1. CASE n <= j - i + 1
    BY <2>1, <1>1, <1>3, <1>4, <1>5
  <2>2. CASE ~(n <= j - i + 1)
    <3>1. n - (j - i + 1) \in 1..k - j /\ j + (n - (j - i + 1)) = i + n - 1
      BY <2>2
    <3>2. b[n - (j - i + 1)] = s[i + n - 1]
      BY <1>2, <3>1
    <3> QED
      BY <2>2, <3>2, <1>1, <1>3, <1>4, <1>5
  <2> QED
    BY <2>1, <2>2
<1>7. a \o b = c
  BY <1>3, <1>4, <1>5, <1>6, SeqEqual
<1> QED
  BY <1>7 DEF a, b, c

\* The longest piece is the sequence.
LEMMA PieceWhole ==
  ASSUME NEW S, NEW s \in Seq(S)
  PROVE  SubSeq(s, 1, Len(s)) = s /\ SubSeq(s, Len(s) + 1, Len(s)) = <<>> /\ SubSeq(s, 1, 0) = <<>>
OBVIOUS

\* The shortest piece is one element.
LEMMA PieceOne ==
  ASSUME NEW S, NEW s \in Seq(S), NEW i \in 1..Len(s)
  PROVE  SubSeq(s, i, i) = <<s[i]>>
<1>1. SubSeq(s, i, i) \in Seq(S) /\ Len(SubSeq(s, i, i)) = 1 /\ SubSeq(s, i, i)[1] = s[i]
  BY PieceFacts
<1>2. s[i] \in S
  OBVIOUS
<1>3. <<s[i]>> \in Seq(S) /\ Len(<<s[i]>>) = 1 /\ <<s[i]>>[1] = s[i]
  BY <1>2
<1>4. \A n \in 1..1 : n = 1
  OBVIOUS
<1> QED
  BY <1>1, <1>3, <1>4, SeqEqual

\* What is left to spell at each position.
Spells(N, next, piece, goal) ==
  goal[N + 1] = <<>> /\ \A i \in 1..N : goal[i] = FlattenSeq(piece[i]) \o goal[next[i]]

\* What the pieces of the jumps spell.
LEMMA JumpsSpell ==
  ASSUME NEW S, NEW N, NEW next, NEW piece, Forward(N, Seq(Seq(S)), next, piece),
         NEW C, Jumps(N, next, piece, C), NEW goal, Spells(N, next, piece, goal)
  PROVE  \A i \in 1..N + 1 : C[i] \in Seq(Seq(S)) /\ FlattenSeq(C[i]) = goal[i]
<1>1. /\ N \in Nat /\ piece \in [1..N -> Seq(Seq(S))]
      /\ next \in [1..N -> 1..N + 1] /\ \A i \in 1..N : next[i] > i
  BY DEF Forward
<1>2. /\ \A i \in 1..N + 1 : C[i] \in Seq(Seq(S))
      /\ C[N + 1] = <<>>
      /\ \A i \in 1..N : C[i] = piece[i] \o C[next[i]]
  <2>1. Collects(N, Seq(Seq(S)), next, piece, C)
    BY JumpsType
  <2> QED
    BY <2>1 DEF Collects
<1> DEFINE Good == {i \in 1..N + 1 : FlattenSeq(C[i]) = goal[i]}
<1>3. N + 1 \in Good
  BY <1>1, <1>2, FlattenEmpty DEF Spells
<1>4. ASSUME NEW i \in 1..N, next[i] \in Good PROVE i \in Good
  <2>1. /\ piece[i] \in Seq(Seq(S)) /\ C[next[i]] \in Seq(Seq(S))
        /\ FlattenSeq(C[next[i]]) = goal[next[i]]
    BY <1>1, <1>2, <1>4
  <2>2. FlattenSeq(piece[i] \o C[next[i]]) = FlattenSeq(piece[i]) \o FlattenSeq(C[next[i]])
    BY <2>1, FlattenConcat
  <2>3. C[i] = piece[i] \o C[next[i]]
    BY <1>2
  <2>4. goal[i] = FlattenSeq(piece[i]) \o goal[next[i]]
    BY DEF Spells
  <2>5. FlattenSeq(C[i]) = goal[i]
    BY <2>1, <2>2, <2>3, <2>4, Zenon
  <2>6. i \in 1..N + 1
    BY <1>1
  <2> QED
    BY <2>5, <2>6
<1>5. \A i \in 1..N + 1 : i \in Good
  <2> HIDE DEF Good
  <2> QED
    BY <1>1, <1>3, <1>4, JumpsReach
<1> QED
  BY <1>2, <1>5

-----------------------------------------------------------------------------
(* Going up one by one, each value from the one before. *)

\* Induction upwards between two bounds.
LEMMA UpReach ==
  ASSUME NEW lo \in Nat, NEW hi \in Nat, NEW Good, lo \in Good,
         \A j \in lo + 1..hi : j - 1 \in Good => j \in Good
  PROVE  \A j \in lo..hi : j \in Good
<1> DEFINE T == {j \in lo..hi : j \notin Good}
<1> SUFFICES ASSUME T # {} PROVE FALSE
  OBVIOUS
<1>1. PICK j \in T : \A k \in T : j <= k
  <2>1. T \subseteq Nat
    OBVIOUS
  <2> HIDE DEF T
  <2> QED
    BY <2>1, LeastNat
<1>2. j \in lo + 1..hi /\ j \notin Good /\ j - 1 \in lo..hi /\ ~(j <= j - 1)
  BY <1>1
<1>3. j - 1 \notin T
  <2> HIDE DEF T
  <2> QED
    BY <1>1, <1>2
<1>4. j - 1 \in Good
  BY <1>2, <1>3
<1> QED
  BY <1>2, <1>4

Climbs(lo, hi, z, G, f) == f = [j \in lo..hi |-> IF j = lo THEN z ELSE G[<<j, f[j - 1]>>]]

\* Steps upwards define a function.
LEMMA UpExists ==
  ASSUME NEW lo \in Nat, NEW hi \in Nat, lo <= hi, NEW V, NEW z \in V, NEW G \in [(lo + 1..hi) \X V -> V]
  PROVE  \E f \in [lo..hi -> V] : Climbs(lo, hi, z, G, f)
<1> DEFINE Step(f, j) == IF j = lo THEN z ELSE G[<<j, f[j - 1]>>]
           Upto(n) == \E f \in [lo..n -> V] : \A j \in lo..n : f[j] = Step(f, j)
           Good == {n \in Nat : Upto(n)}
<1>1. lo \in Good
  <2> DEFINE f == [j \in lo..lo |-> z]
  <2>1. f \in [lo..lo -> V]
    OBVIOUS
  <2>2. \A j \in lo..lo : f[j] = Step(f, j)
    <3> TAKE j \in lo..lo
    <3>1. f[j] = z /\ j = lo
      OBVIOUS
    <3> HIDE DEF f
    <3> QED
      BY <3>1
  <2>3. Upto(lo)
    <3> HIDE DEF f, Step
    <3> QED
      BY <2>1, <2>2
  <2> QED
    BY <2>3
<1>2. ASSUME NEW n \in lo + 1..hi, n - 1 \in Good PROVE n \in Good
  <2>1. PICK f \in [lo..n - 1 -> V] : \A j \in lo..n - 1 : f[j] = Step(f, j)
    BY <1>2
  <2>2. n - 1 \in lo..n - 1 /\ n \in lo..n /\ n # lo
    BY <1>2
  <2>3. G[<<n, f[n - 1]>>] \in V
    BY <2>1, <2>2
  <2> DEFINE g == [j \in lo..n |-> IF j = n THEN G[<<n, f[n - 1]>>] ELSE f[j]]
  <2>4. \A j \in lo..n : j # n => j \in lo..n - 1
    BY <1>2
  <2>5. g \in [lo..n -> V]
    BY <2>1, <2>3, <2>4
  <2>6. \A j \in lo..n - 1 : j \in lo..n /\ g[j] = f[j]
    BY <1>2
  <2>7. g[n] = G[<<n, f[n - 1]>>]
    BY <2>2
  <2> HIDE DEF g
  <2>8. \A j \in lo..n : g[j] = Step(g, j)
    <3> TAKE j \in lo..n
    <3>1. CASE j = n
      BY <2>2, <2>6, <3>1, <2>7
    <3>2. CASE j # n
      <4>1. j \in lo..n - 1 /\ g[j] = f[j] /\ f[j] = Step(f, j)
        BY <3>2, <2>1, <2>4, <2>6
      <4>2. j # lo => j - 1 \in lo..n - 1
        BY <4>1
      <4>3. j # lo => g[j - 1] = f[j - 1]
        BY <4>2, <2>6
      <4> QED
        BY <4>1, <4>3
    <3> QED
      BY <3>1, <3>2
  <2>9. Upto(n)
    <3> HIDE DEF Step
    <3> QED
      BY <2>5, <2>8
  <2>10. n \in Nat
    OBVIOUS
  <2> QED
    BY <2>9, <2>10
<1>3. hi \in Good
  <2>1. \A n \in lo + 1..hi : n - 1 \in Good => n \in Good
    BY <1>2
  <2>2. hi \in lo..hi
    OBVIOUS
  <2> HIDE DEF Good
  <2> QED
    BY <1>1, <2>1, <2>2, UpReach
<1>4. PICK f \in [lo..hi -> V] : \A j \in lo..hi : f[j] = Step(f, j)
  BY <1>3
<1>5. f = [j \in lo..hi |-> Step(f, j)]
  <2> HIDE DEF Step
  <2> QED
    BY <1>4
<1> QED
  BY <1>4, <1>5 DEF Climbs

-----------------------------------------------------------------------------
(* MPSegment. *)

\* A best entry ends within the text.
LEMMA BestEndFacts ==
  ASSUME NEW s \in Seq(Nat), NEW i \in 1..Len(s), NEW maxLen, NEW rest
  PROVE  BestEnd(s, i, maxLen, rest) \in i..Len(s)
<1> DEFINE Beats(j, e) == /\ j \in Nexts(s, i, maxLen)
                          /\ Less(DagValue(s, i, e, rest[e + 1 - i]), DagValue(s, i, j, rest[j + 1 - i]))
           Step(f, j) == IF j = i THEN i ELSE IF Beats(j, f[j - 1]) THEN j ELSE f[j - 1]
           V == i..Len(s)
           G == [t \in (i + 1..Len(s)) \X V |-> IF Beats(t[1], t[2]) THEN t[1] ELSE t[2]]
<1>1. BestEnd(s, i, maxLen, rest) = (CHOOSE f : f = [j \in i..Len(s) |-> Step(f, j)])[Len(s)]
  BY DEF BestEnd
<1> HIDE DEF Beats
<1>2. G \in [(i + 1..Len(s)) \X V -> V]
  <2>1. \A t \in (i + 1..Len(s)) \X V : t[1] \in V /\ t[2] \in V
    OBVIOUS
  <2> HIDE DEF V
  <2> QED
    BY <2>1
<1>3. PICK f \in [i..Len(s) -> V] : Climbs(i, Len(s), i, G, f)
  <2>1. i \in Nat /\ Len(s) \in Nat /\ i <= Len(s) /\ i \in V
    OBVIOUS
  <2> HIDE DEF G, V
  <2> QED
    BY <1>2, <2>1, UpExists
<1>4. f = [j \in i..Len(s) |-> Step(f, j)]
  <2>1. \A j \in i..Len(s) : f[j] = Step(f, j)
    <3> TAKE j \in i..Len(s)
    <3>1. f[j] = IF j = i THEN i ELSE G[<<j, f[j - 1]>>]
      <4> HIDE DEF G, Step
      <4> QED
        BY <1>3 DEF Climbs
    <3>2. j # i => <<j, f[j - 1]>> \in (i + 1..Len(s)) \X V
      <4>1. j # i => j \in i + 1..Len(s) /\ j - 1 \in i..Len(s)
        OBVIOUS
      <4>2. j # i => f[j - 1] \in V
        BY <1>3, <4>1
      <4> HIDE DEF V
      <4> QED
        BY <4>1, <4>2
    <3>3. j # i => G[<<j, f[j - 1]>>] = IF Beats(j, f[j - 1]) THEN j ELSE f[j - 1]
      <4> HIDE DEF V
      <4> QED
        BY <3>2
    <3> HIDE DEF G
    <3> QED
      BY <3>1, <3>3
  <2> HIDE DEF Step
  <2> QED
    BY <1>3, <2>1
<1>5. PICK e : e = [j \in i..Len(s) |-> Step(e, j)] /\ BestEnd(s, i, maxLen, rest) = e[Len(s)]
  <2> HIDE DEF Step
  <2> QED
    BY <1>1, <1>4
<1>6. \A j \in i..Len(s) : e[j] = Step(e, j)
  <2> HIDE DEF Step
  <2> QED
    BY <1>5
<1> DEFINE Good == {j \in i..Len(s) : e[j] \in i..Len(s)}
<1>7. i \in Good
  BY <1>6
<1>8. ASSUME NEW j \in i + 1..Len(s), j - 1 \in Good PROVE j \in Good
  BY <1>6, <1>8
<1>9. Len(s) \in Good
  <2>1. i \in Nat /\ Len(s) \in Nat /\ Len(s) \in i..Len(s)
    OBVIOUS
  <2> HIDE DEF Good
  <2> QED
    BY <1>7, <1>8, <2>1, UpReach
<1> QED
  BY <1>5, <1>9

\* The entry that Find yields is of the word looked for.
LEMMA FoundFacts ==
  ASSUME DictInv, NEW path, NEW p, p = Find(path)
  PROVE  FreqAt(p) \in Nat /\ (p # None => Unit(p).word = path)
<1>1. CASE p = None
  BY <1>1 DEF FreqAt, DictInv, DictTypes
<1>2. CASE p # None
  <2>1. path \in DOMAIN trie /\ p = trie[path]
    BY <1>2 DEF Find
  <2>2. Unit(p).word = path
    BY <1>2, <2>1, PointersFollow DEF PointersValid
  <2>3. p \in Pointers
    BY <2>1, TypesFollow DEF DictTypeOK
  <2>4. \A i \in DOMAIN static : static[i].freq \in Nat
    <3>1. \A i \in DOMAIN static : static[i] \in Units
      BY DEF DictInv, DictTypes
    <3> QED
      BY <3>1 DEF Units
  <2>5. \A i \in DOMAIN active : active[i].freq \in Nat
    <3>1. \A i \in DOMAIN active : active[i] \in Units
      BY DEF DictInv, DictTypes
    <3> QED
      BY <3>1 DEF Units
  <2>6. Unit(p).freq \in Nat
    BY <2>4, <2>5, <1>2, <2>3 DEF Unit, Static, Active, Pointers
  <2> QED
    BY <1>2, <2>2, <2>6 DEF FreqAt
<1> QED
  BY <1>1, <1>2

\* What CalcDP keeps of a position.
Bests == [num : Nat, len : Nat, at : Nat]

\* The best entries of the last n positions, from those of one less.
IsOneMore(N, n, rest, more) ==
  /\ more \in Seq(Bests) /\ Len(more) = n + 1
  /\ more[1].at \in N - n + 1..N
  /\ \A k \in 1..n : more[k + 1] = rest[k]

\* What is put in front of the table moves the rest by one.
LEMMA OneMoreFacts ==
  ASSUME DictInv, NEW s \in Seq(Nat), NEW maxLen, NEW n \in 1..Len(s),
         NEW rest \in Seq(Bests), Len(rest) = n
  PROVE  IsOneMore(Len(s), n, rest, OneMore(s, maxLen, n, rest))
<1>1. PICK i \in 1..Len(s) : i = Len(s) - n + 1
  <2>1. Len(s) - n + 1 \in 1..Len(s)
    OBVIOUS
  <2> QED
    BY <2>1
<1>2. PICK end \in i..Len(s) : end = BestEnd(s, i, maxLen, rest)
  BY BestEndFacts
<1>3. end + 1 - i \in 1..n
  BY <1>1, <1>2
<1>4. PICK follow \in Bests : follow = rest[end + 1 - i]
  BY <1>3
<1>5. PICK val : val = DagValue(s, i, end, follow)
  OBVIOUS
<1>6. val.num \in Nat /\ val.len \in Nat
  <2>1. PICK freq \in Nat : freq = FreqAt(Find(SubSeq(s, i, end)))
    BY FoundFacts
  <2>2. follow.num \in Nat /\ follow.len \in Nat
    BY DEF Bests
  <2>3. val = [num |-> follow.num * freq, len |-> follow.len + 1]
    BY <1>5, <2>1 DEF DagValue
  <2>4. follow.num * freq \in Nat
    BY <2>2
  <2> QED
    BY <2>2, <2>3, <2>4
<1>7. PICK best \in Bests : best = [num |-> val.num, len |-> val.len, at |-> end]
  <2>1. end \in Nat
    OBVIOUS
  <2> QED
    BY <1>6, <2>1 DEF Bests
<1>8. PICK more : more = OneMore(s, maxLen, n, rest)
  OBVIOUS
<1>9. more = <<best>> \o rest
  BY <1>1, <1>2, <1>4, <1>5, <1>7, <1>8 DEF OneMore
<1>10. PICK one \in Seq(Bests) : one = <<best>> /\ Len(one) = 1 /\ one[1] = best
  <2> DEFINE B == Bests
  <2>1. best \in B
    OBVIOUS
  <2> HIDE DEF B
  <2>2. <<best>> \in Seq(B) /\ Len(<<best>>) = 1 /\ <<best>>[1] = best
    BY <2>1
  <2> QED
    BY <2>2 DEF B
<1>11. /\ more \in Seq(Bests) /\ Len(more) = n + 1
       /\ \A k \in 1..n + 1 : more[k] = IF k <= 1 THEN one[k] ELSE rest[k - 1]
  BY ConcatProperties, <1>10, <1>9
<1>12. more[1] = best /\ \A k \in 1..n : more[k + 1] = rest[k]
  BY <1>10, <1>11
<1>13. best.at = end
  BY <1>7
<1> QED
  BY <1>1, <1>8, <1>11, <1>12, <1>13 DEF IsOneMore

\* The tables of CalcDP, from the end on.
AreTables(s, maxLen, g) ==
  /\ g[0] = <<[num |-> 1, len |-> 0, at |-> 0]>>
  /\ \A n \in 0..Len(s) : g[n] \in Seq(Bests) /\ Len(g[n]) = n + 1
  /\ \A n \in 1..Len(s) : g[n] = OneMore(s, maxLen, n, g[n - 1])

\* CalcDP is the last of them.
LEMMA CalcDPByTables ==
  ASSUME DictInv, NEW s \in Seq(Nat), NEW maxLen
  PROVE  \E g : AreTables(s, maxLen, g) /\ CalcDP(s, maxLen) = g[Len(s)]
<1> DEFINE N == Len(s)
           z == <<[num |-> 1, len |-> 0, at |-> 0]>>
           Step(f, n) == IF n = 0 THEN z ELSE OneMore(s, maxLen, n, f[n - 1])
           V == Seq(Bests)
           G == [t \in (0 + 1..N) \X V |-> IF Len(t[2]) = t[1] THEN OneMore(s, maxLen, t[1], t[2]) ELSE t[2]]
<1>1. CalcDP(s, maxLen) = (CHOOSE f : f = [n \in 0..N |-> Step(f, n)])[N]
  BY DEF CalcDP
<1>2. N \in Nat /\ z \in V /\ Len(z) = 1
  BY DEF Bests
<1> HIDE DEF z
<1>3. G \in [(0 + 1..N) \X V -> V]
  <2>1. ASSUME NEW t \in (0 + 1..N) \X V
        PROVE  (IF Len(t[2]) = t[1] THEN OneMore(s, maxLen, t[1], t[2]) ELSE t[2]) \in V
    <3>1. t[1] \in 1..Len(s) /\ t[2] \in Seq(Bests)
      OBVIOUS
    <3>2. PICK n \in 1..Len(s), rest \in Seq(Bests) : n = t[1] /\ rest = t[2]
      BY <3>1
    <3>3. Len(rest) = n => OneMore(s, maxLen, n, rest) \in Seq(Bests)
      BY OneMoreFacts DEF IsOneMore
    <3> QED
      BY <3>2, <3>3
  <2> HIDE DEF V, N
  <2> QED
    BY <2>1
<1>4. PICK f \in [0..N -> V] : Climbs(0, N, z, G, f)
  <2>1. 0 \in Nat /\ 0 <= N
    BY <1>2
  <2> HIDE DEF G, V, N
  <2> QED
    BY <1>2, <1>3, <2>1, UpExists
<1> HIDE DEF N, V
<1>5. \A n \in 0..N : f[n] = IF n = 0 THEN z ELSE G[<<n, f[n - 1]>>]
  <2> HIDE DEF G
  <2> QED
    BY <1>4 DEF Climbs
<1>6. ASSUME NEW n \in 1..N
      PROVE  f[n] = IF Len(f[n - 1]) = n THEN OneMore(s, maxLen, n, f[n - 1]) ELSE f[n - 1]
  <2>1. n \in 0..N /\ n # 0 /\ n - 1 \in 0..N /\ n \in 0 + 1..N
    BY <1>2
  <2>2. f[n - 1] \in V
    BY <1>4, <2>1
  <2>3. f[n] = G[<<n, f[n - 1]>>]
    <3> HIDE DEF G
    <3> QED
      BY <1>5, <2>1
  <2>4. <<n, f[n - 1]>> \in (0 + 1..N) \X V
    BY <2>1, <2>2
  <2>5. G[<<n, f[n - 1]>>] = IF Len(f[n - 1]) = n THEN OneMore(s, maxLen, n, f[n - 1]) ELSE f[n - 1]
    BY <2>4
  <2> QED
    BY <2>3, <2>5, Zenon
<1> HIDE DEF G
<1>7. \A n \in 0..N : Len(f[n]) = n + 1
  <2> DEFINE Good == {n \in 0..N : Len(f[n]) = n + 1}
  <2>1. 0 \in Good
    <3>1. 0 \in 0..N
      BY <1>2
    <3>2. f[0] = z
      BY <1>5, <3>1
    <3> QED
      BY <1>2, <3>1, <3>2
  <2>2. ASSUME NEW n \in 0 + 1..N, n - 1 \in Good PROVE n \in Good
    <3>1. n \in 1..N /\ Len(f[n - 1]) = n /\ n - 1 \in 0..N /\ n \in 0..N
      BY <1>2, <2>2
    <3>2. f[n - 1] \in Seq(Bests)
      BY <1>4, <3>1 DEF V
    <3>3. f[n] = OneMore(s, maxLen, n, f[n - 1])
      BY <1>6, <3>1
    <3>4. Len(OneMore(s, maxLen, n, f[n - 1])) = n + 1
      <4>1. PICK rest \in Seq(Bests) : rest = f[n - 1]
        BY <3>2
      <4>2. n \in 1..Len(s)
        BY <3>1 DEF N
      <4>3. Len(OneMore(s, maxLen, n, rest)) = n + 1
        BY <3>1, <4>1, <4>2, OneMoreFacts DEF IsOneMore
      <4> QED
        BY <4>1, <4>3
    <3> QED
      BY <3>1, <3>3, <3>4
  <2>3. 0 \in Nat
    OBVIOUS
  <2> HIDE DEF Good
  <2>4. \A n \in 0..N : n \in Good
    BY <1>2, <2>1, <2>2, <2>3, UpReach
  <2> QED
    BY <2>4 DEF Good
<1>8. f = [n \in 0..N |-> Step(f, n)]
  <2>1. \A n \in 0..N : f[n] = Step(f, n)
    <3> TAKE n \in 0..N
    <3>1. CASE n = 0
      BY <1>5, <3>1
    <3>2. CASE n # 0
      BY <1>2, <3>2, <1>7, <1>6
    <3> QED
      BY <3>1, <3>2
  <2> HIDE DEF Step
  <2> QED
    BY <1>4, <2>1
<1>9. PICK g : g = [n \in 0..N |-> Step(g, n)] /\ CalcDP(s, maxLen) = g[N]
  <2> HIDE DEF Step
  <2> QED
    BY <1>1, <1>8 DEF N
<1>10. g[0] = z /\ \A n \in 1..N : g[n] = OneMore(s, maxLen, n, g[n - 1])
  <2>1. \A n \in 0..N : g[n] = Step(g, n)
    <3> HIDE DEF Step
    <3> QED
      BY <1>9
  <2>2. 0 \in 0..N /\ \A n \in 1..N : n \in 0..N /\ n # 0
    BY <1>2
  <2> QED
    BY <2>1, <2>2
<1> DEFINE Good == {n \in 0..N : g[n] \in Seq(Bests) /\ Len(g[n]) = n + 1}
<1>11. 0 \in Good
  BY <1>2, <1>10 DEF V
<1>12. ASSUME NEW n \in 0 + 1..N, n - 1 \in Good PROVE n \in Good
  <2>1. n \in 1..N /\ n \in 0..N /\ n \in 1..Len(s) /\ (n - 1) + 1 = n
    BY <1>2 DEF N
  <2>2. PICK rest \in Seq(Bests) : rest = g[n - 1] /\ Len(rest) = n
    BY <1>12, <2>1
  <2>3. IsOneMore(Len(s), n, rest, OneMore(s, maxLen, n, rest))
    BY <2>1, <2>2, OneMoreFacts
  <2>4. g[n] = OneMore(s, maxLen, n, rest)
    BY <1>10, <2>1, <2>2
  <2>5. OneMore(s, maxLen, n, rest) \in Seq(Bests) /\ Len(OneMore(s, maxLen, n, rest)) = n + 1
    <3> HIDE DEF Good
    <3> QED
      BY <2>3 DEF IsOneMore
  <2> QED
    BY <2>1, <2>4, <2>5
<1>13. \A n \in 0..N : g[n] \in Seq(Bests) /\ Len(g[n]) = n + 1
  <2>1. 0 \in Nat
    OBVIOUS
  <2> HIDE DEF Good
  <2>2. \A n \in 0..N : n \in Good
    BY <1>2, <1>11, <1>12, <2>1, UpReach
  <2> QED
    BY <2>2 DEF Good
<1>14. AreTables(s, maxLen, g)
  BY <1>10, <1>13 DEF z, AreTables, N
<1> QED
  BY <1>9, <1>14 DEF N

\* No entry that CalcDP chooses begins or ends outside the text.
LEMMA CalcDPFacts ==
  ASSUME DictInv, NEW s \in Seq(Nat), NEW maxLen
  PROVE  \A i \in 1..Len(s) : CalcDP(s, maxLen)[i].at \in i..Len(s)
<1> DEFINE N == Len(s)
           V == Seq(Bests)
<1>1. PICK g : AreTables(s, maxLen, g) /\ CalcDP(s, maxLen) = g[N]
  BY CalcDPByTables
<1>2. N \in Nat
  OBVIOUS
<1>10. /\ g[0] = <<[num |-> 1, len |-> 0, at |-> 0]>> /\ g[0] \in V /\ Len(g[0]) = 1
       /\ \A n \in 1..N : g[n] = OneMore(s, maxLen, n, g[n - 1])
  BY <1>2, <1>1 DEF AreTables
<1> HIDE DEF N
<1> DEFINE Right(n) == /\ g[n] \in Seq(Bests) /\ Len(g[n]) = n + 1
                       /\ \A k \in 1..n : g[n][k].at \in N - n + k..N
           Good == {n \in 0..N : Right(n)}
<1>11. 0 \in Good
  <2>1. 0 \in 0..N /\ 1..0 = {}
    BY <1>2
  <2>2. 0 + 1 = 1
    OBVIOUS
  <2>3. Right(0)
    BY <1>10, <2>2, <2>1
  <2> QED
    BY <2>1, <2>3
<1>12. ASSUME NEW n \in 0 + 1..N, n - 1 \in Good PROVE n \in Good
  <2>1. n \in 1..N /\ n \in 0..N /\ n \in 1..Len(s) /\ N = Len(s)
    BY <1>2 DEF N
  <2>2. PICK rest \in Seq(Bests) : rest = g[n - 1] /\ Len(rest) = n
    BY <1>2, <1>12
  <2>3. \A k \in 1..n - 1 : rest[k].at \in N - (n - 1) + k..N
    BY <1>12, <2>2
  <2>4. PICK more : more = g[n] /\ more = OneMore(s, maxLen, n, rest)
    BY <1>10, <2>1, <2>2
  <2>5. /\ more \in Seq(Bests) /\ Len(more) = n + 1
        /\ more[1].at \in N - n + 1..N
        /\ \A k \in 1..n : more[k + 1] = rest[k]
    <3>1. IsOneMore(Len(s), n, rest, OneMore(s, maxLen, n, rest))
      BY <2>1, <2>2, OneMoreFacts
    <3> HIDE DEF Good, Right
    <3> QED
      BY <2>1, <2>4, <3>1 DEF IsOneMore
  <2>6. \A k \in 1..n : more[k].at \in N - n + k..N
    <3> TAKE k \in 1..n
    <3>1. CASE k = 1
      BY <2>5, <3>1
    <3>2. CASE k # 1
      <4>1. k - 1 \in 1..n - 1 /\ k - 1 \in 1..n /\ (k - 1) + 1 = k /\ N - (n - 1) + (k - 1) = N - n + k
        BY <1>2, <3>2
      <4>2. more[k] = rest[k - 1]
        BY <2>5, <4>1
      <4>3. rest[k - 1].at \in N - (n - 1) + (k - 1)..N
        BY <2>3, <4>1
      <4> QED
        BY <4>1, <4>2, <4>3
    <3> QED
      BY <3>1, <3>2
  <2>7. Right(n)
    BY <2>4, <2>5, <2>6
  <2> QED
    BY <2>1, <2>7
<1>13. N \in Good
  <2>1. 0 \in Nat /\ N \in 0..N
    BY <1>2
  <2> HIDE DEF Good
  <2> QED
    BY <1>2, <1>11, <1>12, <2>1, UpReach
<1>14. \A k \in 1..N : g[N][k].at \in N - N + k..N
  BY <1>13
<1>15. \A k \in 1..N : N - N + k = k
  BY <1>2
<1> QED
  BY <1>1, <1>14, <1>15 DEF N

\* The pieces at each position are words that spell s up to the next.
Partition(S, s, next, piece) ==
  /\ next \in [1..Len(s) -> 1..Len(s) + 1] /\ \A i \in 1..Len(s) : next[i] > i
  /\ piece \in [1..Len(s) -> Seq(Seq(S))]
  /\ \A i \in 1..Len(s) : FlattenSeq(piece[i]) = SubSeq(s, i, next[i] - 1)

\* A partition goes forward.
LEMMA PartitionForward ==
  ASSUME NEW S, NEW s \in Seq(S), NEW next, NEW piece, Partition(S, s, next, piece)
  PROVE  Forward(Len(s), Seq(Seq(S)), next, piece)
<1>1. /\ next \in [1..Len(s) -> 1..Len(s) + 1] /\ \A i \in 1..Len(s) : next[i] > i
      /\ piece \in [1..Len(s) -> Seq(Seq(S))] /\ Len(s) \in Nat
  BY DEF Partition
<1> QED
  BY <1>1, ForwardInSeq

\* A sequence that is cut into pieces spells itself.
LEMMA CutSpells ==
  ASSUME NEW S, NEW s \in Seq(S), NEW next, NEW piece, Partition(S, s, next, piece),
         NEW C, Jumps(Len(s), next, piece, C)
  PROVE  C[1] \in Seq(Seq(S)) /\ FlattenSeq(C[1]) = s
<1> DEFINE N == Len(s)
<1>1. PICK goal : goal = [i \in 1..N + 1 |-> SubSeq(s, i, N)]
  OBVIOUS
<1>2. N \in Nat /\ next \in [1..N -> 1..N + 1] /\ \A i \in 1..N : next[i] > i
  BY DEF Partition
<1>3. goal[N + 1] = <<>>
  BY <1>2, <1>1, PieceWhole
<1>4. ASSUME NEW i \in 1..N PROVE goal[i] = FlattenSeq(piece[i]) \o goal[next[i]]
  <2>1. PICK j \in i..N : next[i] = j + 1
    <3>1. next[i] - 1 \in i..N /\ next[i] = (next[i] - 1) + 1
      BY <1>2
    <3> QED
      BY <3>1
  <2>2. i \in 1..N + 1 /\ j \in i - 1..N /\ N \in j..N /\ j + 1 \in 1..N + 1 /\ (j + 1) - 1 = j
    BY <1>2
  <2>3. SubSeq(s, i, N) = SubSeq(s, i, j) \o SubSeq(s, j + 1, N)
    BY <2>2, PieceSplits
  <2>4. FlattenSeq(piece[i]) = SubSeq(s, i, j)
    BY <2>1, <2>2 DEF Partition
  <2>5. goal[i] = SubSeq(s, i, N) /\ goal[next[i]] = SubSeq(s, j + 1, N)
    BY <1>1, <2>1, <2>2
  <2> QED
    BY <2>3, <2>4, <2>5, Zenon
<1>5. \A i \in 1..N + 1 : C[i] \in Seq(Seq(S)) /\ FlattenSeq(C[i]) = goal[i]
  <2>1. Spells(N, next, piece, goal)
    <3> HIDE DEF N
    <3> QED
      BY <1>3, <1>4 DEF Spells
  <2>2. Forward(N, Seq(Seq(S)), next, piece)
    BY PartitionForward
  <2> QED
    BY <2>1, <2>2, JumpsSpell
<1>6. 1 \in 1..N + 1 /\ goal[1] = s
  BY <1>2, <1>1, PieceWhole
<1> QED
  BY <1>5, <1>6

\* The word that CutByDag takes at i.
DagWord(s, maxLen, i) ==
  LET p == Find(SubSeq(s, i, CalcDP(s, maxLen)[i].at)) IN IF p = None THEN <<s[i]>> ELSE Unit(p).word

IsDagCut(s, maxLen, next, piece, C) ==
  /\ Partition(Nat, s, next, piece) /\ Jumps(Len(s), next, piece, C)
  /\ MPCut(s, maxLen) = C[1]
  /\ \A i \in 1..Len(s) : /\ piece[i] = <<DagWord(s, maxLen, i)>>
                          /\ next[i] = i + Len(DagWord(s, maxLen, i))

\* CutByDag goes through s in jumps from word to word.
LEMMA MPCutJumps ==
  ASSUME DictInv, NEW s \in Seq(Nat), NEW maxLen
  PROVE  \E next, piece, C : IsDagCut(s, maxLen, next, piece, C)
<1>1. PICK best : best = CalcDP(s, maxLen)
  OBVIOUS
<1> DEFINE WordAt(i) == LET p == Find(SubSeq(s, i, best[i].at)) IN IF p = None THEN <<s[i]>> ELSE Unit(p).word
           Step(f, i) == IF i > Len(s) THEN <<>> ELSE <<WordAt(i)>> \o f[i + Len(WordAt(i))]
           IsCut(f) == f = [i \in 1..Len(s) + 1 |-> Step(f, i)]
<1>2. MPCut(s, maxLen) = (CHOOSE f : IsCut(f))[1]
  BY <1>1 DEF MPCut, CutByDag
<1>3. ASSUME NEW i \in 1..Len(s)
      PROVE  \E j \in i..Len(s) : WordAt(i) = SubSeq(s, i, j) /\ Len(WordAt(i)) = j - i + 1
  <2>1. PICK j \in i..Len(s) : j = best[i].at
    BY <1>1, CalcDPFacts
  <2>2. PICK p : p = Find(SubSeq(s, i, j))
    OBVIOUS
  <2>3. WordAt(i) = IF p = None THEN <<s[i]>> ELSE Unit(p).word
    BY <2>1, <2>2
  <2> HIDE DEF WordAt
  <2>4. \A k \in i..Len(s) : Len(SubSeq(s, i, k)) = k - i + 1
    BY PieceFacts
  <2>5. CASE p = None
    BY <2>3, <2>5, PieceOne, <2>4
  <2>6. CASE p # None
    BY <2>2, <2>3, <2>6, FoundFacts, <2>4
  <2> QED
    BY <2>5, <2>6
<1>4. PICK word : word = [i \in 1..Len(s) |-> WordAt(i)]
  OBVIOUS
<1>5. \A i \in 1..Len(s) : \E j \in i..Len(s) : word[i] = SubSeq(s, i, j) /\ Len(word[i]) = j - i + 1
  <2> HIDE DEF WordAt
  <2> QED
    BY <1>3, <1>4
<1>6. PICK next, piece : /\ next = [i \in 1..Len(s) |-> i + Len(word[i])]
                         /\ piece = [i \in 1..Len(s) |-> <<word[i]>>]
  OBVIOUS
<1>7. Partition(Nat, s, next, piece)
  <2>1. ASSUME NEW i \in 1..Len(s)
        PROVE  /\ next[i] \in 1..Len(s) + 1 /\ next[i] > i /\ piece[i] \in Seq(Seq(Nat))
               /\ FlattenSeq(piece[i]) = SubSeq(s, i, next[i] - 1)
    <3>1. PICK j \in i..Len(s) : word[i] = SubSeq(s, i, j) /\ Len(word[i]) = j - i + 1
      BY <1>5
    <3>2. next[i] = j + 1 /\ next[i] - 1 = j /\ piece[i] = <<word[i]>>
      <4>1. next[i] = i + Len(word[i]) /\ piece[i] = <<word[i]>>
        BY <1>6
      <4>2. PICK n \in Int : n = Len(word[i]) /\ n = j - i + 1
        BY <3>1
      <4>3. i + n = j + 1 /\ (j + 1) - 1 = j
        BY <4>2
      <4> QED
        BY <4>1, <4>2, <4>3
    <3>3. word[i] \in Seq(Nat)
      BY <3>1, PieceFacts
    <3>4. FlattenSeq(<<word[i]>>) = word[i] /\ <<word[i]>> \in Seq(Seq(Nat))
      BY <3>3, FlattenOne
    <3>5. next[i] \in 1..Len(s) + 1 /\ next[i] > i
      BY <3>2
    <3> QED
      BY <3>1, <3>2, <3>4, <3>5
  <2>2. next = [i \in 1..Len(s) |-> next[i]] /\ piece = [i \in 1..Len(s) |-> piece[i]]
    BY <1>6
  <2> QED
    BY <2>1, <2>2 DEF Partition
<1>8. ASSUME NEW f PROVE IsCut(f) <=> Jumps(Len(s), next, piece, f)
  <2> DEFINE Again(i) == IF i > Len(s) THEN <<>> ELSE piece[i] \o f[next[i]]
  <2>1. \A i \in 1..Len(s) + 1 : Step(f, i) = Again(i)
    <3> TAKE i \in 1..Len(s) + 1
    <3>1. CASE i > Len(s)
      BY <3>1
    <3>2. CASE ~(i > Len(s))
      <4>1. i \in 1..Len(s)
        BY <3>2
      <4>2. piece[i] = <<WordAt(i)>> /\ next[i] = i + Len(WordAt(i))
        <5> HIDE DEF WordAt
        <5> QED
          BY <4>1, <1>4, <1>6
      <4> HIDE DEF WordAt
      <4> QED
        BY <3>2, <4>2
    <3> QED
      BY <3>1, <3>2
  <2>2. Jumps(Len(s), next, piece, f) <=> f = [i \in 1..Len(s) + 1 |-> Again(i)]
    BY DEF Jumps
  <2> HIDE DEF Again, Step
  <2> QED
    BY <2>1, <2>2
<1> HIDE DEF IsCut
<1>9. \E f : IsCut(f)
  BY <1>7, PartitionForward, JumpsExist, <1>8
<1>10. PICK f : IsCut(f) /\ MPCut(s, maxLen) = f[1]
  BY <1>2, <1>9
<1>11. Jumps(Len(s), next, piece, f)
  BY <1>8, <1>10
<1>12. \A i \in 1..Len(s) : piece[i] = <<DagWord(s, maxLen, i)>> /\ next[i] = i + Len(DagWord(s, maxLen, i))
  <2> TAKE i \in 1..Len(s)
  <2>1. DagWord(s, maxLen, i) = WordAt(i)
    BY <1>1 DEF DagWord
  <2>2. piece[i] = <<word[i]>> /\ next[i] = i + Len(word[i]) /\ word[i] = WordAt(i)
    <3> HIDE DEF WordAt
    <3> QED
      BY <1>4, <1>6
  <2> HIDE DEF WordAt
  <2> QED
    BY <2>1, <2>2
<1> QED
  BY <1>7, <1>10, <1>11, <1>12 DEF IsDagCut

\* MPSegment's words spell the range.
LEMMA MPCutSpells ==
  ASSUME DictInv, NEW s \in Seq(Nat), NEW maxLen
  PROVE  MPCut(s, maxLen) \in Seq(Seq(Nat)) /\ FlattenSeq(MPCut(s, maxLen)) = s
<1>1. PICK next, piece, C : IsDagCut(s, maxLen, next, piece, C)
  BY MPCutJumps
<1> QED
  BY <1>1, CutSpells DEF IsDagCut

-----------------------------------------------------------------------------
(* HMMSegment. *)

\* A path back through the columns, from the better of E and S at the end.
GoesBack(cols, n, path) ==
  path = [x \in 1..n |-> IF x = n THEN IF cols[x][2].w >= cols[x][4].w THEN 1 ELSE 3
                         ELSE cols[x + 1][path[x + 1] + 1].from]

\* The states are those of such a path.
LEMMA ViterbiBack ==
  ASSUME NEW s \in Seq(Nat), Len(s) # 0
  PROVE  GoesBack(Weights(s), Len(s), Viterbi(s))
<1>1. PICK cols : cols = Weights(s)
  OBVIOUS
<1> DEFINE N == Len(s)
           EndsAs(x) == IF cols[x][2].w >= cols[x][4].w THEN 1 ELSE 3
           Step(f, x) == IF x = N THEN EndsAs(x) ELSE cols[x + 1][f[x + 1] + 1].from
           IsBack(f) == f = [x \in 1..N |-> Step(f, x)]
           From(n) == \E f : f = [x \in N - n..N |-> Step(f, x)]
           Good == {n \in Nat : From(n)}
<1>2. Viterbi(s) = CHOOSE f : IsBack(f)
  BY <1>1 DEF Viterbi, StatesBack
<1>3. N \in Nat /\ N # 0 /\ N - 1 \in Nat
  OBVIOUS
<1> HIDE DEF N, EndsAs
<1>4. 0 \in Good
  <2> DEFINE f == [x \in N - 0..N |-> EndsAs(x)]
  <2>1. \A x \in N - 0..N : Step(f, x) = EndsAs(x)
    BY <1>3
  <2>2. f = [x \in N - 0..N |-> Step(f, x)]
    <3> HIDE DEF Step
    <3> QED
      BY <2>1
  <2> QED
    BY <2>2
<1>5. ASSUME NEW n \in 0 + 1..N - 1, n - 1 \in Good PROVE n \in Good
  <2>1. PICK f : f = [x \in N - (n - 1)..N |-> Step(f, x)]
    BY <1>5
  <2>2. PICK v : v = cols[N - n + 1][f[N - n + 1] + 1].from
    OBVIOUS
  <2> DEFINE g == [x \in N - n..N |-> IF x = N - n THEN v ELSE f[x]]
  <2>3. n \in Nat /\ N - n # N /\ N - n \in N - n..N
    BY <1>3, <1>5
  <2>4. \A x \in N - n..N : x # N - n => x \in N - (n - 1)..N
    BY <1>3, <2>3
  <2>5. \A x \in N - n..N : x # N => x + 1 \in N - (n - 1)..N /\ x + 1 \in N - n..N /\ x + 1 # N - n
    BY <1>3, <2>3
  <2>6. \A x \in N - n..N : Step(g, x) = IF x = N - n THEN v ELSE f[x]
    <3> TAKE x \in N - n..N
    <3>1. x # N => g[x + 1] = f[x + 1]
      BY <2>5
    <3>2. Step(g, x) = Step(f, x)
      <4> HIDE DEF g
      <4> QED
        BY <3>1
    <3>3. x = N - n => Step(f, x) = v
      BY <2>2, <2>3
    <3>4. x # N - n => f[x] = Step(f, x)
      <4> HIDE DEF Step
      <4> QED
        BY <2>1, <2>4
    <3> HIDE DEF g, Step
    <3> QED
      BY <3>2, <3>3, <3>4
  <2>7. g = [x \in N - n..N |-> Step(g, x)]
    <3> HIDE DEF Step
    <3> QED
      BY <2>6
  <2>8. From(n)
    <3> HIDE DEF g, Step
    <3> QED
      BY <2>7
  <2> QED
    BY <2>3, <2>8
<1>6. N - 1 \in Good
  <2>1. 0 \in Nat /\ N - 1 \in 0..N - 1
    BY <1>3
  <2> HIDE DEF Good
  <2> QED
    BY <1>3, <1>4, <1>5, <2>1, UpReach
<1>7. N - (N - 1) = 1
  BY <1>3
<1>8. \E f : IsBack(f)
  <2> HIDE DEF Step
  <2> QED
    BY <1>6, <1>7
<1>9. PICK f : IsBack(f) /\ Viterbi(s) = f
  <2> HIDE DEF IsBack
  <2> QED
    BY <1>2, <1>8
<1>10. GoesBack(cols, N, f)
  BY <1>9 DEF GoesBack, EndsAs
<1> QED
  BY <1>1, <1>9, <1>10 DEF N

\* Whatever the model says, the last state is E or S.
LEMMA ViterbiLast ==
  ASSUME NEW s \in Seq(Nat), Len(s) # 0
  PROVE  Viterbi(s)[Len(s)] \in {1, 3}
<1>1. GoesBack(Weights(s), Len(s), Viterbi(s))
  BY ViterbiBack
<1>2. ASSUME NEW cols, NEW path, NEW n \in Nat, n # 0, GoesBack(cols, n, path) PROVE path[n] \in {1, 3}
  BY <1>2 DEF GoesBack
<1>3. Len(s) \in Nat
  OBVIOUS
<1> QED
  BY <1>1, <1>2, <1>3

\* The words cut off so far, and where the next begins.
Cuts(s) == [words : Seq(Seq(Nat)), left : 1..Len(s) + 1]

\* The beginnings of two sequences, one behind the other.
LEMMA PieceOfConcat ==
  ASSUME NEW S, NEW u \in Seq(S), NEW v \in Seq(S)
  PROVE  /\ \A k \in 0..Len(u) : SubSeq(u \o v, 1, k) = SubSeq(u, 1, k)
         /\ \A k \in 0..Len(v) : SubSeq(u \o v, 1, Len(u) + k) = u \o SubSeq(v, 1, k)
OBVIOUS

\* How far the words of two sequences reach, one behind the other.
LEMMA WordEndsConcat ==
  ASSUME NEW u \in Seq(Seq(Nat)), NEW v \in Seq(Seq(Nat))
  PROVE  /\ \A e : e \in WordEnds(u \o v) <=>
              e \in WordEnds(u) \/ \E d \in WordEnds(v) : e = Len(FlattenSeq(u)) + d
         /\ WordEnds(u) \subseteq 0..Len(FlattenSeq(u))
<1> DEFINE R == Seq(Nat)
           w == u \o v
           At(q, k) == Len(FlattenSeq(SubSeq(q, 1, k)))
<1>1. u \in Seq(R) /\ v \in Seq(R) /\ w \in Seq(R) /\ Len(w) = Len(u) + Len(v) /\ Len(u) \in Nat /\ Len(v) \in Nat
  <2> HIDE DEF R
  <2>1. u \in Seq(R) /\ v \in Seq(R)
    BY DEF R
  <2> QED
    BY <2>1
<1>2. /\ \A k \in 0..Len(u) : SubSeq(w, 1, k) = SubSeq(u, 1, k)
      /\ \A k \in 0..Len(v) : SubSeq(w, 1, Len(u) + k) = u \o SubSeq(v, 1, k)
  <2> HIDE DEF R
  <2> QED
    BY <1>1, PieceOfConcat, ZenonT(60)
<1>3. \A q \in {u, v} : \A k \in 0..Len(q) : SubSeq(q, 1, k) \in Seq(R)
  <2> HIDE DEF R
  <2> TAKE q \in {u, v}
  <2> TAKE k \in 0..Len(q)
  <2>1. q \in Seq(R) /\ 1 \in 1..Len(q) + 1 /\ k \in 1 - 1..Len(q)
    BY <1>1
  <2> QED
    BY <2>1, PieceFacts
<1>4. FlattenSeq(u) \in R /\ Len(FlattenSeq(u)) \in Nat
  BY FlattenType
<1>5. ASSUME NEW k \in 0..Len(v) PROVE At(w, Len(u) + k) = Len(FlattenSeq(u)) + At(v, k)
  <2>1. PICK t \in Seq(R) : t = SubSeq(v, 1, k)
    BY <1>3
  <2>2. FlattenSeq(u \o t) = FlattenSeq(u) \o FlattenSeq(t)
    BY <2>1, FlattenConcat
  <2>3. PICK a \in R, b \in R : a = FlattenSeq(u) /\ b = FlattenSeq(t)
    BY <1>4, <2>1, FlattenType
  <2>4. Len(a \o b) = Len(a) + Len(b)
    OBVIOUS
  <2>5. SubSeq(w, 1, Len(u) + k) = u \o t
    BY <1>2, <2>1
  <2> QED
    BY <2>1, <2>2, <2>3, <2>4, <2>5
<1>6. ASSUME NEW k \in 0..Len(u) PROVE At(w, k) = At(u, k) /\ At(u, k) \in 0..Len(FlattenSeq(u))
  <2>1. At(w, k) = At(u, k)
    BY <1>2
  <2>2. PICK a \in Seq(R), b \in Seq(R) : a = SubSeq(u, 1, k) /\ b = SubSeq(u, k + 1, Len(u))
    <3> HIDE DEF R
    <3>1. k + 1 \in 1..Len(u) + 1 /\ Len(u) \in (k + 1) - 1..Len(u)
      BY <1>1
    <3>2. SubSeq(u, k + 1, Len(u)) \in Seq(R)
      BY <1>1, <3>1, PieceFacts
    <3> QED
      BY <1>3, <3>2
  <2>3. u = a \o b
    <3> HIDE DEF R
    <3>1. 1 \in 1..Len(u) + 1 /\ k \in 1 - 1..Len(u) /\ Len(u) \in k..Len(u)
      BY <1>1
    <3>2. SubSeq(u, 1, Len(u)) = SubSeq(u, 1, k) \o SubSeq(u, k + 1, Len(u))
      BY <1>1, <3>1, PieceSplits
    <3>3. SubSeq(u, 1, Len(u)) = u
      BY <1>1, PieceWhole
    <3> QED
      BY <2>2, <3>2, <3>3
  <2>4. FlattenSeq(u) = FlattenSeq(a) \o FlattenSeq(b)
    BY <2>2, <2>3, FlattenConcat
  <2>5. PICK c \in R, d \in R : c = FlattenSeq(a) /\ d = FlattenSeq(b)
    BY <2>2, FlattenType
  <2>6. Len(c \o d) = Len(c) + Len(d) /\ Len(c) \in Nat /\ Len(d) \in Nat
    OBVIOUS
  <2>7. Len(c) \in 0..Len(FlattenSeq(u))
    BY <2>4, <2>5, <2>6
  <2> QED
    BY <2>1, <2>2, <2>5, <2>7
<1>7. \A q \in {u, v, w} : \A e : e \in WordEnds(q) <=> \E k \in 1..Len(q) : e = At(q, k)
  BY DEF WordEnds
<1> HIDE DEF At, w, R
<1>8. WordEnds(u) \subseteq 0..Len(FlattenSeq(u))
  BY <1>6, <1>7
<1>9. ASSUME NEW e
      PROVE  e \in WordEnds(w) <=> e \in WordEnds(u) \/ \E d \in WordEnds(v) : e = Len(FlattenSeq(u)) + d
  <2>1. ASSUME NEW k \in 1..Len(w), e = At(w, k)
        PROVE  e \in WordEnds(u) \/ \E d \in WordEnds(v) : e = Len(FlattenSeq(u)) + d
    <3>1. CASE k <= Len(u)
      BY <1>1, <3>1, <1>6, <1>7, <2>1
    <3>2. CASE ~(k <= Len(u))
      <4>1. PICK m \in 1..Len(v) : k = Len(u) + m
        <5>1. k - Len(u) \in 1..Len(v) /\ k = Len(u) + (k - Len(u))
          BY <1>1, <3>2
        <5> QED
          BY <5>1
      <4>2. m \in 0..Len(v)
        BY <1>1
      <4>3. e = Len(FlattenSeq(u)) + At(v, m)
        BY <1>5, <2>1, <4>1, <4>2
      <4> QED
        BY <1>7, <4>3
    <3> QED
      BY <3>1, <3>2
  <2>2. ASSUME e \in WordEnds(u) PROVE e \in WordEnds(w)
    <3>1. PICK k \in 1..Len(u) : e = At(u, k)
      BY <1>7, <2>2
    <3>2. k \in 0..Len(u) /\ k \in 1..Len(w)
      BY <1>1
    <3> QED
      BY <1>6, <1>7, <3>1, <3>2
  <2>3. ASSUME NEW d \in WordEnds(v), e = Len(FlattenSeq(u)) + d PROVE e \in WordEnds(w)
    <3>1. PICK k \in 1..Len(v) : d = At(v, k)
      BY <1>7
    <3>2. k \in 0..Len(v) /\ Len(u) + k \in 1..Len(w)
      BY <1>1
    <3>3. e = At(w, Len(u) + k)
      BY <1>5, <2>3, <3>1, <3>2
    <3> QED
      BY <1>7, <3>2, <3>3
  <2> QED
    BY <1>7, <2>1, <2>2, <2>3
<1> QED
  BY <1>8, <1>9 DEF w

\* No words end nowhere, and one word where it ends.
LEMMA WordEndsOne ==
  ASSUME NEW word \in Seq(Nat)
  PROVE  WordEnds(<<>>) = {} /\ WordEnds(<<word>>) = {Len(word)}
<1>1. WordEnds(<<>>) = {}
  BY DEF WordEnds
<1>2. FlattenSeq(<<word>>) = word /\ <<word>> \in Seq(Seq(Nat))
  BY FlattenOne
<1>3. SubSeq(<<word>>, 1, 1) = <<word>>
  BY <1>2, PieceWhole
<1>4. \A e : e \in WordEnds(<<word>>) <=> e = Len(FlattenSeq(SubSeq(<<word>>, 1, 1)))
  <2>1. Len(<<word>>) = 1 /\ \A k : k \in 1..1 <=> k = 1
    OBVIOUS
  <2> QED
    BY <2>1 DEF WordEnds
<1> QED
  BY <1>1, <1>2, <1>3, <1>4

\* One more word.
LEMMA WordEndsAppend ==
  ASSUME NEW u \in Seq(Seq(Nat)), NEW word \in Seq(Nat)
  PROVE  WordEnds(Append(u, word)) = WordEnds(u) \cup {Len(FlattenSeq(u)) + Len(word)}
<1>1. <<word>> \in Seq(Seq(Nat))
  BY FlattenOne
<1>2. Append(u, word) = u \o <<word>>
  OBVIOUS
<1>3. \A e : e \in WordEnds(u \o <<word>>) <=>
              e \in WordEnds(u) \/ \E d \in WordEnds(<<word>>) : e = Len(FlattenSeq(u)) + d
  BY <1>1, WordEndsConcat
<1> QED
  BY <1>2, <1>3, WordEndsOne

\* One more word among such words.
LEMMA AppendFilled ==
  ASSUME NEW u \in Seq(Filled), NEW word \in Seq(Nat), Len(word) # 0
  PROVE  Append(u, word) \in Seq(Filled)
BY AppendProperties DEF Filled

\* As the last state ends a word, InternalCut leaves nothing over;
\* its words end where the states say.
LEMMA InternalCutWords ==
  ASSUME NEW s \in Seq(Nat)
  PROVE  /\ InternalCut(s) \in Seq(Seq(Nat)) /\ FlattenSeq(InternalCut(s)) = s
         /\ InternalCut(s) \in Seq(Filled)
         /\ WordEnds(InternalCut(s)) = {x \in 1..Len(s) : Viterbi(s)[x] % 2 = 1}
<1>1. PICK status : status = Viterbi(s)
  OBVIOUS
<1> DEFINE N == Len(s)
           V == Cuts(s)
           z == [words |-> <<>>, left |-> 1]
           More(v, i) == IF status[i] % 2 = 1 THEN [words |-> Append(v.words, SubSeq(s, v.left, i)), left |-> i + 1] ELSE v
           Step(f, i) == IF i = 0 THEN z ELSE More(f[i - 1], i)
           IsCut(f) == f = [i \in 0..N |-> Step(f, i)]
           G == [t \in (0 + 1..N) \X V |-> More(t[2], t[1])]
<1>2. InternalCut(s) = (CHOOSE f : IsCut(f))[N].words
  BY <1>1 DEF InternalCut
<1>3. N \in Nat /\ 1 \in 1..N + 1
  OBVIOUS
<1>4. z \in V
  BY SeqClosed, <1>3 DEF Cuts
<1>5. ASSUME NEW v \in V, NEW i \in 1..N
      PROVE  More(v, i) \in V
  <2>1. v.words \in Seq(Seq(Nat)) /\ v.left \in 1..N + 1
    BY DEF Cuts
  <2>2. SubSeq(s, v.left, i) \in Seq(Nat)
    BY <2>1, PieceFacts
  <2>3. Append(v.words, SubSeq(s, v.left, i)) \in Seq(Seq(Nat))
    <3> DEFINE R == Seq(Nat)
    <3>1. v.words \in Seq(R) /\ SubSeq(s, v.left, i) \in R
      BY <2>1, <2>2
    <3> HIDE DEF R
    <3>2. Append(v.words, SubSeq(s, v.left, i)) \in Seq(R)
      BY <3>1, AppendProperties
    <3> QED
      BY <3>2 DEF R
  <2>4. i + 1 \in 1..N + 1
    OBVIOUS
  <2> QED
    BY <2>3, <2>4 DEF Cuts
<1> HIDE DEF V, z, More, N
<1>6. G \in [(0 + 1..N) \X V -> V]
  BY <1>5
<1>7. PICK f \in [0..N -> V] : Climbs(0, N, z, G, f)
  <2>1. 0 \in Nat /\ 0 <= N
    BY <1>3
  <2> HIDE DEF G
  <2> QED
    BY <1>3, <1>4, <1>6, <2>1, UpExists
<1>8. IsCut(f)
  <2>1. \A i \in 0..N : f[i] = Step(f, i)
    <3> TAKE i \in 0..N
    <3>1. f[i] = IF i = 0 THEN z ELSE G[<<i, f[i - 1]>>]
      <4> HIDE DEF G
      <4> QED
        BY <1>7 DEF Climbs
    <3>2. i # 0 => i \in 0 + 1..N /\ i - 1 \in 0..N
      BY <1>3
    <3>3. i # 0 => <<i, f[i - 1]>> \in (0 + 1..N) \X V
      BY <3>2, <1>7
    <3>4. i # 0 => G[<<i, f[i - 1]>>] = More(f[i - 1], i)
      BY <3>3
    <3> HIDE DEF G
    <3> QED
      BY <3>1, <3>4
  <2> HIDE DEF Step
  <2> QED
    BY <1>7, <2>1
<1>9. PICK g : IsCut(g) /\ InternalCut(s) = g[N].words
  <2> HIDE DEF IsCut
  <2> QED
    BY <1>2, <1>8
<1>10. \A i \in 0..N : g[i] = Step(g, i)
  <2> HIDE DEF Step
  <2> QED
    BY <1>9
<1> HIDE DEF IsCut
<1> DEFINE Odd(i) == {x \in 1..i : status[x] % 2 = 1}
           Right(i) == /\ g[i] \in V /\ g[i].left <= i + 1
                       /\ FlattenSeq(g[i].words) = SubSeq(s, 1, g[i].left - 1)
                       /\ WordEnds(g[i].words) = Odd(i) /\ g[i].words \in Seq(Filled)
           Good == {i \in 0..N : Right(i)}
<1>11. 0 \in Good
  <2>1. 0 \in 0..N
    BY <1>3
  <2>2. g[0] = z
    BY <2>1, <1>10
  <2>3. z.left = 1 /\ z.words = <<>> /\ 1 <= 0 + 1 /\ 1 - 1 = 0
    BY DEF z
  <2>4. SubSeq(s, 1, 0) = <<>>
    BY PieceWhole
  <2>5. FlattenSeq(z.words) = SubSeq(s, 1, z.left - 1)
    BY <2>3, <2>4, FlattenEmpty
  <2>7. WordEnds(z.words) = Odd(0)
    <3>1. <<>> \in Seq(Nat)
      BY SeqClosed
    <3>2. WordEnds(<<>>) = {}
      BY <3>1, WordEndsOne
    <3>3. Odd(0) = {}
      OBVIOUS
    <3> QED
      BY <2>3, <3>2, <3>3
  <2>8. z.words \in Seq(Filled)
    BY <2>3, SeqClosed
  <2> HIDE DEF Odd
  <2>6. Right(0)
    BY <2>2, <2>3, <2>5, <2>7, <2>8, <1>4
  <2> HIDE DEF Right
  <2> QED
    BY <2>1, <2>6
<1>12. ASSUME NEW i \in 0 + 1..N, i - 1 \in Good PROVE i \in Good
  <2>1. i \in 1..N /\ i \in 0..N /\ i # 0 /\ Right(i - 1)
    BY <1>3, <1>12
  <2>2. PICK v : v = g[i - 1]
    OBVIOUS
  <2> HIDE DEF Odd
  <2>3. v \in V /\ v.left <= i /\ FlattenSeq(v.words) = SubSeq(s, 1, v.left - 1) /\ WordEnds(v.words) = Odd(i - 1)
        /\ v.words \in Seq(Filled)
    BY <2>1, <2>2
  <2>4. g[i] = More(v, i)
    BY <1>10, <2>1, <2>2
  <2>5. g[i] \in V
    BY <1>5, <2>1, <2>3, <2>4
  <2>6. CASE ~(status[i] % 2 = 1)
    <3>1. g[i] = v
      BY <2>4, <2>6 DEF More
    <3>2. v.left \in Int
      BY <2>3 DEF V, Cuts
    <3>3. v.left <= i + 1
      BY <2>3, <3>2
    <3>5. Odd(i) = Odd(i - 1)
      BY <2>1, <2>6 DEF Odd
    <3>4. Right(i)
      BY <2>3, <3>1, <3>3, <3>5
    <3> HIDE DEF Right
    <3> QED
      BY <2>1, <3>4
  <2>7. CASE status[i] % 2 = 1
    <3>1. g[i] = [words |-> Append(v.words, SubSeq(s, v.left, i)), left |-> i + 1]
      BY <2>4, <2>7 DEF More
    <3>2. v.words \in Seq(Seq(Nat)) /\ v.left \in 1..N + 1
      BY <2>3 DEF V, Cuts, N
    <3>3. PICK l \in 1..i : l = v.left
      BY <2>3, <3>2
    <3>4. SubSeq(s, l, i) \in Seq(Nat)
      BY <2>1, PieceFacts DEF N
    <3>5. FlattenSeq(Append(v.words, SubSeq(s, l, i))) = FlattenSeq(v.words) \o SubSeq(s, l, i)
      BY <3>2, <3>4, FlattenAppend
    <3>6. SubSeq(s, 1, i) = SubSeq(s, 1, l - 1) \o SubSeq(s, (l - 1) + 1, i)
      BY <2>1, PieceSplits DEF N
    <3>7. (l - 1) + 1 = l /\ (i + 1) - 1 = i /\ i + 1 <= i + 1
      OBVIOUS
    <3>8. FlattenSeq(v.words) = SubSeq(s, 1, l - 1)
      BY <2>3, <3>3
    <3>9. FlattenSeq(Append(v.words, SubSeq(s, l, i))) = SubSeq(s, 1, i)
      BY <3>5, <3>6, <3>7, <3>8, Zenon
    <3>10. g[i].left = i + 1 /\ g[i].words = Append(v.words, SubSeq(s, l, i))
      <4>1. PICK words : words = Append(v.words, SubSeq(s, v.left, i))
        OBVIOUS
      <4>2. g[i] = [words |-> words, left |-> i + 1]
        BY <3>1, <4>1
      <4>3. words = Append(v.words, SubSeq(s, l, i))
        BY <3>3, <4>1
      <4> QED
        BY <4>2, <4>3
    <3>11. FlattenSeq(g[i].words) = SubSeq(s, 1, g[i].left - 1)
      BY <3>7, <3>9, <3>10, Zenon
    <3>12. WordEnds(g[i].words) = Odd(i)
      <4>1. PICK a \in Seq(Nat), b \in Seq(Nat) : a = FlattenSeq(v.words) /\ b = SubSeq(s, l, i)
        BY <3>2, <3>4, FlattenType
      <4>2. FlattenSeq(g[i].words) = a \o b
        BY <3>5, <3>10, <4>1
      <4>3. Len(a \o b) = Len(a) + Len(b)
        OBVIOUS
      <4>4. Len(SubSeq(s, 1, i)) = i
        BY <2>1, PieceFacts DEF N
      <4>5. Len(a) + Len(b) = i
        BY <3>7, <3>11, <3>10, <4>2, <4>3, <4>4
      <4>6. WordEnds(Append(v.words, b)) = WordEnds(v.words) \cup {Len(a) + Len(b)}
        BY <3>2, <4>1, WordEndsAppend
      <4>7. WordEnds(g[i].words) = Odd(i - 1) \cup {i}
        BY <2>3, <3>10, <4>1, <4>5, <4>6
      <4>8. Odd(i) = Odd(i - 1) \cup {i}
        BY <2>1, <2>7 DEF Odd
      <4> QED
        BY <4>7, <4>8
    <3>14. g[i].words \in Seq(Filled)
      <4>1. Len(SubSeq(s, l, i)) # 0
        BY <2>1, PieceFacts DEF N
      <4> QED
        BY <2>3, <3>4, <3>10, <4>1, AppendFilled
    <3>13. Right(i)
      BY <2>5, <3>7, <3>10, <3>11, <3>12, <3>14
    <3> HIDE DEF Right
    <3> QED
      BY <2>1, <3>13
  <2> QED
    BY <2>6, <2>7
<1>13. Right(N)
  <2>1. 0 \in Nat /\ N \in 0..N
    BY <1>3
  <2> HIDE DEF Good
  <2>2. N \in Good
    BY <1>3, <1>11, <1>12, <2>1, UpReach
  <2> HIDE DEF Right
  <2> QED
    BY <2>2 DEF Good
<1>14. g[N].left = N + 1
  <2>1. CASE N = 0
    BY <1>3, <1>10, <2>1 DEF z
  <2>2. CASE N # 0
    <3>1. status[N] \in {1, 3}
      BY <1>1, <2>2, ViterbiLast DEF N
    <3>2. status[N] % 2 = 1
      BY <3>1
    <3>3. N \in 0..N
      BY <1>3
    <3>4. PICK v : v = g[N - 1]
      OBVIOUS
    <3>5. g[N] = More(v, N)
      BY <1>10, <2>2, <3>3, <3>4
    <3>6. g[N] = [words |-> Append(v.words, SubSeq(s, v.left, N)), left |-> N + 1]
      BY <3>2, <3>5 DEF More
    <3> QED
      BY <3>6
  <2> QED
    BY <2>1, <2>2
<1>15. FlattenSeq(g[N].words) = SubSeq(s, 1, N)
  BY <1>3, <1>13, <1>14
<1>16. g[N].words \in Seq(Seq(Nat)) /\ g[N].words \in Seq(Filled)
  BY <1>13 DEF V, Cuts
<1>17. WordEnds(g[N].words) = {x \in 1..N : Viterbi(s)[x] % 2 = 1}
  BY <1>1, <1>13
<1> QED
  BY <1>9, <1>15, <1>16, <1>17, PieceWhole DEF N

\* A run lies within the text, has such runes only, and goes as far as it can.
LEMMA RunFromMore ==
  ASSUME NEW s \in Seq(Nat), NEW i \in 1..Len(s), NEW runes, s[i] \in runes,
         NEW j, j = RunFrom(s, i, runes)
  PROVE  j \in i..Len(s) /\ (\A k \in i..j : s[k] \in runes) /\ (j = Len(s) \/ s[j + 1] \notin runes)
<1> DEFINE T == {m \in i - 1..Len(s) : \A k \in i..m : s[k] \in runes}
<1>1. i \in T
  OBVIOUS
<1>2. T \subseteq 0..Len(s) /\ Len(s) \in Nat /\ T \subseteq i - 1..Len(s)
      /\ \A m : m \in T <=> m \in i - 1..Len(s) /\ \A k \in i..m : s[k] \in runes
  OBVIOUS
<1>3. j = Max(T)
  BY DEF RunFrom
<1> HIDE DEF T
<1>4. j \in T /\ \A n \in T : n <= j
  BY <1>1, <1>2, <1>3, MaxFacts
<1>5. j \in i..Len(s) /\ \A k \in i..j : s[k] \in runes
  BY <1>1, <1>2, <1>4
<1>6. ASSUME j # Len(s), s[j + 1] \in runes PROVE FALSE
  <2>1. j + 1 \in i - 1..Len(s) /\ ~(j + 1 <= j)
    BY <1>5, <1>6
  <2>2. \A k \in i..j + 1 : k \in i..j \/ k = j + 1
    BY <1>5
  <2>3. j + 1 \in T
    BY <1>2, <1>5, <1>6, <2>1, <2>2
  <2> QED
    BY <1>4, <2>1, <2>3
<1> QED
  BY <1>5, <1>6

\* The rules for ASCII take letters and digits behind a letter, or digits and
\* dots, or one rune.
LEMMA AsciiEndMore ==
  ASSUME NEW s \in Seq(Nat), NEW i \in 1..Len(s), NEW j, j = AsciiEnd(s, i)
  PROVE  /\ j \in i..Len(s)
         /\ \/ s[i] \in Letter /\ \A k \in i..j : s[k] \in Letter \cup Digit
            \/ \A k \in i..j : s[k] \in Digit \cup {46}
            \/ j = i
<1>1. CASE IsLetter(s[i])
  <2>0. PICK runes : runes = Letter \cup Digit
    OBVIOUS
  <2>1. s[i] \in runes /\ s[i] \in Letter
    BY <1>1, <2>0 DEF IsLetter
  <2>2. j = RunFrom(s, i, runes)
    BY <1>1, <2>0 DEF AsciiEnd
  <2>3. j \in i..Len(s) /\ \A k \in i..j : s[k] \in runes
    BY <2>1, <2>2, RunFromMore
  <2> QED
    BY <2>0, <2>1, <2>3
<1>2. CASE ~IsLetter(s[i]) /\ IsDigit(s[i])
  <2>0. PICK runes : runes = Digit \cup {46}
    OBVIOUS
  <2>1. s[i] \in runes
    BY <1>2, <2>0 DEF IsDigit
  <2>2. j = RunFrom(s, i, runes)
    BY <1>2, <2>0 DEF AsciiEnd
  <2>3. j \in i..Len(s) /\ \A k \in i..j : s[k] \in runes
    BY <2>1, <2>2, RunFromMore
  <2> QED
    BY <2>0, <2>3
<1>3. CASE ~IsLetter(s[i]) /\ ~IsDigit(s[i])
  BY <1>3 DEF AsciiEnd
<1> QED
  BY <1>1, <1>2, <1>3

\* HMMSegment::Cut in jumps: what it takes at i, and how far that reaches.
HMMTakes(s, i, j, words) ==
  /\ j \in i..Len(s)
  /\ IF IsAscii(s[i]) THEN j = AsciiEnd(s, i) /\ words = <<SubSeq(s, i, j)>>
     ELSE /\ words = InternalCut(SubSeq(s, i, j))
          /\ \A k \in i..j : ~IsAscii(s[k])
          /\ j = Len(s) \/ IsAscii(s[j + 1])

IsHMMCut(s, next, piece, f) ==
  /\ Partition(Nat, s, next, piece) /\ Jumps(Len(s), next, piece, f)
  /\ HMMCut(s) = f[1]
  /\ \A i \in 1..Len(s) : HMMTakes(s, i, next[i] - 1, piece[i])

\* HMMCut is such a way through the range.
LEMMA HMMCutJumps ==
  ASSUME NEW s \in Seq(Nat)
  PROVE  \E next, piece, f : IsHMMCut(s, next, piece, f)
<1> DEFINE Others == {r \in ToSet(s) : ~IsAscii(r)}
           EndAt(i) == IF IsAscii(s[i]) THEN AsciiEnd(s, i) ELSE RunFrom(s, i, Others)
           Words(i, j) == IF IsAscii(s[i]) THEN <<SubSeq(s, i, j)>> ELSE InternalCut(SubSeq(s, i, j))
           Step(f, i) == IF i > Len(s) THEN <<>>
                         ELSE IF IsAscii(s[i]) THEN LET j == AsciiEnd(s, i) IN <<SubSeq(s, i, j)>> \o f[j + 1]
                         ELSE LET j == RunFrom(s, i, {r \in ToSet(s) : ~IsAscii(r)})
                              IN InternalCut(SubSeq(s, i, j)) \o f[j + 1]
           IsCut(f) == f = [i \in 1..Len(s) + 1 |-> Step(f, i)]
<1>1. HMMCut(s) = (CHOOSE f : IsCut(f))[1]
  BY DEF HMMCut
<1>2. ASSUME NEW i \in 1..Len(s) PROVE EndAt(i) \in i..Len(s)
  <2>1. CASE IsAscii(s[i])
    BY <2>1, AsciiEndMore
  <2>2. CASE ~IsAscii(s[i])
    <3>1. s[i] \in Others
      BY <2>2 DEF ToSet
    <3>2. RunFrom(s, i, Others) \in i..Len(s)
      <4> HIDE DEF Others
      <4> QED
        BY <3>1, RunFromMore
    <3> HIDE DEF Others
    <3> QED
      BY <2>2, <3>2
  <2> QED
    BY <2>1, <2>2
<1>3. PICK end : end = [i \in 1..Len(s) |-> EndAt(i)]
  OBVIOUS
<1>4. \A i \in 1..Len(s) : end[i] \in i..Len(s)
  <2> HIDE DEF EndAt
  <2> QED
    BY <1>2, <1>3
<1>5. PICK next, piece : /\ next = [i \in 1..Len(s) |-> end[i] + 1]
                         /\ piece = [i \in 1..Len(s) |-> Words(i, end[i])]
  OBVIOUS
<1>6. Partition(Nat, s, next, piece)
  <2>1. ASSUME NEW i \in 1..Len(s)
        PROVE  /\ next[i] \in 1..Len(s) + 1 /\ next[i] > i /\ piece[i] \in Seq(Seq(Nat))
               /\ FlattenSeq(piece[i]) = SubSeq(s, i, next[i] - 1)
    <3>1. PICK j \in i..Len(s) : j = end[i]
      BY <1>4
    <3>2. next[i] = j + 1 /\ (j + 1) - 1 = j
      BY <1>5, <3>1
    <3>3. piece[i] = Words(i, j)
      <4> HIDE DEF Words
      <4> QED
        BY <1>5, <3>1
    <3>4. PICK t \in Seq(Nat) : t = SubSeq(s, i, j)
      <4>1. i \in 1..Len(s) + 1 /\ j \in i - 1..Len(s)
        OBVIOUS
      <4> QED
        BY <4>1, PieceFacts
    <3>5. piece[i] = IF IsAscii(s[i]) THEN <<t>> ELSE InternalCut(t)
      BY <3>3, <3>4
    <3>6. piece[i] \in Seq(Seq(Nat)) /\ FlattenSeq(piece[i]) = t
      BY <3>5, FlattenOne, InternalCutWords
    <3>7. next[i] \in 1..Len(s) + 1 /\ next[i] > i
      BY <3>2
    <3> QED
      BY <3>2, <3>4, <3>6, <3>7
  <2>2. next = [i \in 1..Len(s) |-> next[i]] /\ piece = [i \in 1..Len(s) |-> piece[i]]
    BY <1>5
  <2> QED
    BY <2>1, <2>2 DEF Partition
<1>7. ASSUME NEW f PROVE IsCut(f) <=> Jumps(Len(s), next, piece, f)
  <2> DEFINE Again(i) == IF i > Len(s) THEN <<>> ELSE piece[i] \o f[next[i]]
  <2>1. \A i \in 1..Len(s) + 1 : Step(f, i) = Again(i)
    <3> TAKE i \in 1..Len(s) + 1
    <3>1. CASE i > Len(s)
      BY <3>1
    <3>2. CASE ~(i > Len(s))
      <4>1. i \in 1..Len(s)
        BY <3>2
      <4>2. PICK j : j = EndAt(i)
        OBVIOUS
      <4>3. next[i] = j + 1 /\ piece[i] = Words(i, j)
        <5> HIDE DEF EndAt, Words
        <5> QED
          BY <4>1, <4>2, <1>3, <1>5
      <4>4. Step(f, i) = Words(i, j) \o f[j + 1]
        BY <3>2, <4>2
      <4> HIDE DEF Words, Step
      <4> QED
        BY <3>2, <4>3, <4>4
    <3> QED
      BY <3>1, <3>2
  <2>2. Jumps(Len(s), next, piece, f) <=> f = [i \in 1..Len(s) + 1 |-> Again(i)]
    BY DEF Jumps
  <2> HIDE DEF Again, Step
  <2> QED
    BY <2>1, <2>2
<1> HIDE DEF IsCut
<1>8. \E f : IsCut(f)
  BY <1>6, PartitionForward, JumpsExist, <1>7
<1>9. PICK f : IsCut(f) /\ HMMCut(s) = f[1]
  BY <1>1, <1>8
<1>10. Jumps(Len(s), next, piece, f)
  BY <1>7, <1>9
<1>11. ASSUME NEW i \in 1..Len(s) PROVE HMMTakes(s, i, next[i] - 1, piece[i])
  <2>1. PICK j \in i..Len(s) : j = end[i] /\ j = EndAt(i)
    <3> HIDE DEF EndAt
    <3> QED
      BY <1>3, <1>4
  <2>2. next[i] - 1 = j /\ piece[i] = Words(i, j)
    <3>1. next[i] = j + 1 /\ piece[i] = Words(i, j)
      <4> HIDE DEF Words, EndAt
      <4> QED
        BY <1>5, <2>1
    <3> HIDE DEF Words
    <3> QED
      BY <3>1
  <2>3. CASE IsAscii(s[i])
    BY <2>1, <2>2, <2>3 DEF HMMTakes
  <2>4. CASE ~IsAscii(s[i])
    <3>1. j = RunFrom(s, i, Others) /\ piece[i] = InternalCut(SubSeq(s, i, j)) /\ s[i] \in Others
      BY <2>1, <2>2, <2>4 DEF ToSet
    <3>2. \A k \in 1..Len(s) : s[k] \in Others <=> ~IsAscii(s[k])
      BY DEF ToSet
    <3> HIDE DEF Others
    <3>3. (\A k \in i..j : s[k] \in Others) /\ (j = Len(s) \/ s[j + 1] \notin Others)
      BY <3>1, RunFromMore
    <3>4. \A k \in i..j : ~IsAscii(s[k])
      BY <3>2, <3>3
    <3>5. j = Len(s) \/ IsAscii(s[j + 1])
      BY <3>2, <3>3
    <3> QED
      BY <2>2, <2>4, <3>1, <3>4, <3>5 DEF HMMTakes
  <2> QED
    BY <2>3, <2>4
<1> QED
  BY <1>6, <1>9, <1>10, <1>11 DEF IsHMMCut

\* HMMCut spells the range.
LEMMA HMMCutSpells ==
  ASSUME NEW s \in Seq(Nat)
  PROVE  HMMCut(s) \in Seq(Seq(Nat)) /\ FlattenSeq(HMMCut(s)) = s
<1>1. PICK next, piece, f : IsHMMCut(s, next, piece, f)
  BY HMMCutJumps
<1> QED
  BY <1>1, CutSpells DEF IsHMMCut

-----------------------------------------------------------------------------
(* MixSegment. *)

\* The word of MPSegment, or what HMMSegment makes of some runes.
MixTakes(word, words) ==
  words = <<word>> \/ \E t \in Seq(Nat) : words = HMMCut(t)

IsMixCut(s, words, next, piece, goal, f) ==
  /\ words = MPCut(s, MaxWordLength) /\ words \in Seq(Seq(Nat))
  /\ Forward(Len(words), Seq(Seq(Nat)), next, piece) /\ Jumps(Len(words), next, piece, f)
  /\ Spells(Len(words), next, piece, goal) /\ goal[1] = s
  /\ MixCut(s) = f[1]
  /\ \A i \in 1..Len(words) : MixTakes(words[i], piece[i])

\* MixCut goes through the words of MPSegment in jumps.
LEMMA MixCutJumps ==
  ASSUME DictInv, NEW s \in Seq(Nat)
  PROVE  \E words, next, piece, goal, f : IsMixCut(s, words, next, piece, goal, f)
<1>1. PICK words \in Seq(Seq(Nat)) : words = MPCut(s, MaxWordLength) /\ FlattenSeq(words) = s
  BY MPCutSpells
<1> DEFINE N == Len(words)
           Run(i) == {k \in i..N : \A n \in i..k : Loose(words[n])}
           EndAt(i) == IF ~Loose(words[i]) THEN i ELSE Max(Run(i))
           Words(i, j) == IF ~Loose(words[i]) THEN <<words[i]>> ELSE HMMCut(FlattenSeq(SubSeq(words, i, j)))
           Step(f, i) == IF i > N THEN <<>>
                         ELSE IF ~Loose(words[i]) THEN <<words[i]>> \o f[i + 1]
                         ELSE LET j == Max({k \in i..N : \A n \in i..k : Loose(words[n])})
                              IN HMMCut(FlattenSeq(SubSeq(words, i, j))) \o f[j + 1]
           IsCut(f) == f = [i \in 1..N + 1 |-> Step(f, i)]
<1>2. MixCut(s) = (CHOOSE f : IsCut(f))[1]
  BY <1>1 DEF MixCut
<1>3. N \in Nat
  OBVIOUS
<1>4. ASSUME NEW i \in 1..N PROVE EndAt(i) \in i..N
  <2>1. CASE ~Loose(words[i])
    BY <2>1
  <2>2. CASE Loose(words[i])
    <3>1. i \in Run(i)
      BY <2>2
    <3>2. Run(i) \subseteq 0..N /\ Run(i) \subseteq i..N
      BY <1>3
    <3> HIDE DEF Run, N
    <3>3. Max(Run(i)) \in Run(i)
      BY <1>3, <3>1, <3>2, MaxFacts
    <3> QED
      BY <2>2, <3>2, <3>3
  <2> QED
    BY <2>1, <2>2
<1>5. PICK end : end = [i \in 1..N |-> EndAt(i)]
  OBVIOUS
<1>6. \A i \in 1..N : end[i] \in i..N
  <2> HIDE DEF EndAt, N
  <2> QED
    BY <1>4, <1>5
<1>7. PICK next, piece, goal : /\ next = [i \in 1..N |-> end[i] + 1]
                               /\ piece = [i \in 1..N |-> Words(i, end[i])]
                               /\ goal = [i \in 1..N + 1 |-> FlattenSeq(SubSeq(words, i, N))]
  OBVIOUS
<1>8. ASSUME NEW i \in 1..N
      PROVE  /\ next[i] \in 1..N + 1 /\ next[i] > i /\ piece[i] \in Seq(Seq(Nat))
             /\ goal[i] = FlattenSeq(piece[i]) \o goal[next[i]]
  <2>1. PICK j \in i..N : j = end[i]
    BY <1>6
  <2>2. next[i] = j + 1 /\ j + 1 \in 1..N + 1 /\ j + 1 > i
    BY <1>3, <1>7, <2>1
  <2>3. piece[i] = Words(i, j)
    <3> HIDE DEF Words
    <3> QED
      BY <1>7, <2>1
  <2> DEFINE R == Seq(Nat)
  <2>4. words \in Seq(R) /\ i \in 1..Len(words) + 1 /\ j \in i - 1..Len(words) /\ N \in j..Len(words)
        /\ j + 1 \in 1..Len(words) + 1 /\ N \in (j + 1) - 1..Len(words)
    BY <1>3
  <2> HIDE DEF R
  <2>5. SubSeq(words, i, j) \in Seq(R) /\ SubSeq(words, j + 1, N) \in Seq(R)
    BY <2>4, PieceFacts
  <2>6. SubSeq(words, i, N) = SubSeq(words, i, j) \o SubSeq(words, j + 1, N)
    BY <2>4, PieceSplits
  <2>7. PICK a \in Seq(Seq(Nat)), b \in Seq(Seq(Nat)) : a = SubSeq(words, i, j) /\ b = SubSeq(words, j + 1, N)
    BY <2>5 DEF R
  <2>8. FlattenSeq(a \o b) = FlattenSeq(a) \o FlattenSeq(b)
    BY FlattenConcat
  <2>9. goal[i] = FlattenSeq(SubSeq(words, i, N)) /\ goal[next[i]] = FlattenSeq(b)
    BY <1>3, <1>7, <2>2, <2>7
  <2>10. piece[i] \in Seq(Seq(Nat)) /\ FlattenSeq(piece[i]) = FlattenSeq(a)
    <3>1. CASE ~Loose(words[i])
      BY <3>1, <2>1, <2>3, <1>5, <2>4, ElementOfSeq, <2>7, PieceOne
    <3>2. CASE Loose(words[i])
      BY <2>3, <2>7, <3>2, FlattenType, HMMCutSpells
    <3> QED
      BY <3>1, <3>2
  <2>11. goal[i] = FlattenSeq(piece[i]) \o goal[next[i]]
    BY <2>6, <2>7, <2>8, <2>9, <2>10, Zenon
  <2> QED
    BY <2>2, <2>10, <2>11
<1>9. Forward(N, Seq(Seq(Nat)), next, piece)
  <2>1. next = [i \in 1..N |-> next[i]] /\ piece = [i \in 1..N |-> piece[i]]
    BY <1>7
  <2>2. next \in [1..N -> 1..N + 1] /\ (\A i \in 1..N : next[i] > i) /\ piece \in [1..N -> Seq(Seq(Nat))]
    <3> HIDE DEF N
    <3> QED
      BY <1>8, <2>1
  <2> QED
    BY <1>3, <2>2, ForwardInSeq
<1>10. Spells(N, next, piece, goal)
  <2>1. goal[N + 1] = FlattenSeq(SubSeq(words, N + 1, N))
    BY <1>3, <1>7
  <2>2. SubSeq(words, N + 1, N) = <<>>
    BY PieceWhole
  <2>3. goal[N + 1] = <<>>
    BY <2>1, <2>2, FlattenEmpty
  <2> HIDE DEF N
  <2> QED
    BY <1>8, <2>3 DEF Spells
<1>11. ASSUME NEW f PROVE IsCut(f) <=> Jumps(N, next, piece, f)
  <2> DEFINE Again(i) == IF i > N THEN <<>> ELSE piece[i] \o f[next[i]]
  <2>1. \A i \in 1..N + 1 : Step(f, i) = Again(i)
    <3> TAKE i \in 1..N + 1
    <3>1. CASE i > N
      BY <3>1
    <3>2. CASE ~(i > N)
      <4>1. i \in 1..N
        BY <1>3, <3>2
      <4>2. PICK j : j = EndAt(i)
        OBVIOUS
      <4>3. next[i] = j + 1 /\ piece[i] = Words(i, j)
        <5> HIDE DEF EndAt, Words
        <5> QED
          BY <4>1, <4>2, <1>5, <1>7
      <4>4. Step(f, i) = Words(i, j) \o f[j + 1]
        BY <3>2, <4>2
      <4> HIDE DEF Words, Step
      <4> QED
        BY <3>2, <4>3, <4>4
    <3> QED
      BY <3>1, <3>2
  <2>2. Jumps(N, next, piece, f) <=> f = [i \in 1..N + 1 |-> Again(i)]
    BY DEF Jumps
  <2> HIDE DEF Again, Step
  <2> QED
    BY <2>1, <2>2
<1> HIDE DEF IsCut
<1>12. \E f : IsCut(f)
  <2>1. \E f : Jumps(N, next, piece, f)
    <3> HIDE DEF N
    <3> QED
      BY <1>9, JumpsExist
  <2> QED
    BY <2>1, <1>11
<1>13. PICK f : IsCut(f) /\ MixCut(s) = f[1]
  BY <1>2, <1>12
<1>14. Jumps(N, next, piece, f)
  BY <1>11, <1>13
<1>15. \A i \in 1..N : MixTakes(words[i], piece[i])
  <2> TAKE i \in 1..N
  <2>1. PICK j \in i..N : j = end[i]
    BY <1>6
  <2>2. piece[i] = Words(i, j)
    <3> HIDE DEF Words
    <3> QED
      BY <1>7, <2>1
  <2>3. FlattenSeq(SubSeq(words, i, j)) \in Seq(Nat)
    <3> DEFINE R == Seq(Nat)
    <3>1. words \in Seq(R) /\ i \in 1..Len(words) + 1 /\ j \in i - 1..Len(words)
      BY <1>3
    <3> HIDE DEF R
    <3>2. SubSeq(words, i, j) \in Seq(R)
      BY <3>1, PieceFacts
    <3> QED
      BY <3>2, FlattenType DEF R
  <2> QED
    BY <2>2, <2>3 DEF MixTakes
<1>16. goal[1] = s
  <2>1. 1 \in 1..N + 1
    BY <1>3
  <2>2. SubSeq(words, 1, N) = words
    BY PieceWhole
  <2> QED
    BY <1>1, <1>7, <2>1, <2>2
<1>17. IsMixCut(s, words, next, piece, goal, f)
  BY <1>1, <1>9, <1>10, <1>13, <1>14, <1>15, <1>16 DEF IsMixCut
<1> QED
  BY <1>17

\* MixCut spells the range.
LEMMA MixCutSpells ==
  ASSUME DictInv, NEW s \in Seq(Nat)
  PROVE  MixCut(s) \in Seq(Seq(Nat)) /\ FlattenSeq(MixCut(s)) = s
<1>1. PICK words, next, piece, goal, f : IsMixCut(s, words, next, piece, goal, f)
  BY MixCutJumps
<1>2. PICK n : n = Len(words)
  OBVIOUS
<1>3. Forward(n, Seq(Seq(Nat)), next, piece) /\ Jumps(n, next, piece, f) /\ Spells(n, next, piece, goal)
      /\ goal[1] = s /\ MixCut(s) = f[1] /\ 1 \in 1..n + 1
  BY <1>1, <1>2 DEF IsMixCut
<1> QED
  BY <1>3, JumpsSpell

-----------------------------------------------------------------------------
(* The calls. *)

\* PreFilter hands out at least one rune.
LEMMA RangeEndFacts ==
  ASSUME NEW s \in Seq(Nat), NEW from \in 0..Len(s), from < Len(s)
  PROVE  RangeEnd(s, from) \in from + 1..Len(s)
<1> DEFINE ends == {i \in from + 1..Len(s) : s[i] \in Symbols}
<1>1. RangeEnd(s, from) = IF ends = {} THEN Len(s) ELSE IF Min(ends) = from + 1 THEN from + 1 ELSE Min(ends) - 1
  BY DEF RangeEnd
<1>2. ends \subseteq from + 1..Len(s) /\ ends \subseteq Nat /\ Len(s) \in Nat
  OBVIOUS
<1> HIDE DEF ends
<1>3. ends # {} => Min(ends) \in from + 1..Len(s)
  BY <1>2, MinFacts
<1>4. CASE ends = {}
  BY <1>1, <1>2, <1>4
<1>5. CASE ends # {}
  <2>1. PICK m \in from + 1..Len(s) : m = Min(ends)
    BY <1>3, <1>5
  <2> QED
    BY <1>1, <1>5, <2>1
<1> QED
  BY <1>4, <1>5

\* The words of a range spell it, in the calls that keep everything.
LEMMA CutWordsSpell ==
  ASSUME DictInv, NEW range \in Seq(Nat), call.mode \in Keeping
  PROVE  CutWords(range) \in Seq(Seq(Nat)) /\ FlattenSeq(CutWords(range)) = range
BY MPCutSpells, HMMCutSpells, MixCutSpells DEF CutWords, Keeping

\* The text is of runes.
LEMMA TextType ==
  ASSUME CallInv
  PROVE  text \in Seq(Nat)
BY DecodeType DEF CallInv, text

\* Steps that leave the dictionary alone.
LEMMA DictStays ==
  ASSUME DictInv, UNCHANGED dictVars
  PROVE  DictInv'
<1>1. DictTypes'
  BY DEF DictInv, DictTypes, dictVars
<1>2. TrieIsRight'
  <2>1. TrieIsRight
    BY DEF DictInv
  <2>2. static' = static /\ active' = active /\ trie' = trie /\ stage' = stage /\ lineno' = lineno
    BY DEF dictVars
  <2>3. Entries' = Entries /\ EntryWords' = EntryWords
    BY <2>2 DEF Entries, EntryWords
  <2>4. \A n : Holds(trie, Entries, EntryWords, n)' <=> Holds(trie, Entries, EntryWords, n)
    BY <2>2, <2>3 DEF Holds
  <2> QED
    BY <2>1, <2>2, <2>4 DEF TrieIsRight
<1> QED
  BY <1>1, <1>2 DEF DictInv

\* Steps that leave the call alone.
LEMMA CallStays ==
  ASSUME CallInv, UNCHANGED callVars
  PROVE  CallInv'
BY DEF CallInv, callVars, text, Seen

\* A call begins with no words and no runes.
LEMMA StartStep == ASSUME JiebaAssumption, CallInv, Start PROVE CallInv'
<1>1. sentence' \in Seq(Byte) /\ cursor' = 0 /\ pc' = IF call'.mode = "level" THEN "level" ELSE "cut"
  BY DEF Start, JiebaAssumption
<1>2. text' \in Seq(Nat)
  BY <1>1, DecodeType DEF text
<1>3. cursor' \in 0..Len(text')
  BY <1>2, <1>1
<1>4. pc' = "cut" => uwords' = <<>>
  BY <1>1 DEF Start
<1>5. Seen' = <<>>
  BY <1>2, PieceWhole, <1>1 DEF Seen
<1>6. <<>> \in Seq(Seq(Nat)) /\ FlattenSeq(<<>>) = <<>>
  BY SeqClosed, FlattenEmpty
<1>7. (pc = "cut" /\ call.mode \in Keeping => uwords \in Seq(Seq(Nat)) /\ FlattenSeq(uwords) = Seen)'
  BY <1>4, <1>5, <1>6
<1>8. (pc \in {"idle", "cut", "level", "tag", "done"} /\ (pc = "level" => call.mode = "level")
        /\ pc # "tag" /\ pc # "done")'
  BY <1>1
<1> QED
  BY <1>1, <1>3, <1>7, <1>8 DEF CallInv

\* The words of a range are spelt behind those before.
LEMMA CutRangeStep == ASSUME DictInv, CallInv, CutRange PROVE CallInv'
<1>1. text \in Seq(Nat) /\ cursor \in 0..Len(text) /\ cursor < Len(text)
  BY TextType DEF CallInv, CutRange
<1>2. PICK end \in cursor + 1..Len(text) : end = RangeEnd(text, cursor)
  BY <1>1, RangeEndFacts
<1>3. cursor' = end /\ uwords' = uwords \o CutWords(SubSeq(text, cursor + 1, end))
  BY <1>2 DEF CutRange
<1>4. UNCHANGED <<pc, call, sentence, res>> /\ pc = "cut"
  BY DEF CutRange
<1>5. text' = text
  BY <1>4 DEF text
<1>6. cursor' \in 0..Len(text')
  BY <1>1, <1>2, <1>3, <1>5
<1>7. ASSUME call.mode \in Keeping
      PROVE  uwords' \in Seq(Seq(Nat)) /\ FlattenSeq(uwords') = Seen'
  <2>1. PICK range \in Seq(Nat) : range = SubSeq(text, cursor + 1, end)
    <3>1. cursor + 1 \in 1..Len(text) + 1 /\ end \in (cursor + 1) - 1..Len(text)
      BY <1>1
    <3> QED
      BY <1>1, <3>1, PieceFacts
  <2>2. PICK words \in Seq(Seq(Nat)) : words = CutWords(range) /\ FlattenSeq(words) = range
    BY <1>7, CutWordsSpell
  <2>3. uwords \in Seq(Seq(Nat)) /\ FlattenSeq(uwords) = Seen
    BY <1>4, <1>7 DEF CallInv
  <2>4. FlattenSeq(uwords \o words) = FlattenSeq(uwords) \o FlattenSeq(words)
    BY <2>3, FlattenConcat
  <2>5. SubSeq(text, 1, end) = SubSeq(text, 1, cursor) \o SubSeq(text, cursor + 1, end)
    <3>1. 1 \in 1..Len(text) + 1 /\ cursor \in 1 - 1..Len(text) /\ end \in cursor..Len(text)
      BY <1>1
    <3> QED
      BY <1>1, <3>1, PieceSplits
  <2>6. Seen = SubSeq(text, 1, cursor) /\ Seen' = SubSeq(text, 1, end)
    BY <1>3, <1>5 DEF Seen
  <2>7. uwords' = uwords \o words
    BY <1>3, <2>1, <2>2
  <2>8. uwords' \in Seq(Seq(Nat))
    BY <2>3, <2>7, SeqClosed
  <2>9. FlattenSeq(uwords') = Seen'
    BY <2>1, <2>2, <2>3, <2>4, <2>5, <2>6, <2>7, Zenon
  <2> QED
    BY <2>8, <2>9
<1>8. (pc = "cut" /\ call.mode \in Keeping => uwords \in Seq(Seq(Nat)) /\ FlattenSeq(uwords) = Seen)'
  BY <1>4, <1>7
<1>9. sentence' \in Seq(Byte) /\ pc' \in {"idle", "cut", "level", "tag", "done"} /\ pc' = "cut"
  BY <1>4 DEF CallInv
<1> QED
  BY <1>6, <1>8, <1>9 DEF CallInv

\* At the end the words have spelt the whole text.
LEMMA CutDoneStep == ASSUME CallInv, CutDone PROVE CallInv'
<1> DEFINE bytes == [i \in DOMAIN uwords |-> Encode(uwords[i])]
<1>1. /\ call' = call /\ sentence' = sentence /\ cursor' = cursor /\ uwords' = uwords
      /\ pc = "cut" /\ cursor = Len(text)
      /\ pc' = IF call.mode = "tag" THEN "tag" ELSE "done"
      /\ res' = IF pc' = "done" THEN bytes ELSE <<>>
  BY DEF CutDone
<1> HIDE DEF bytes
<1>2. text' = text /\ cursor' \in 0..Len(text')
  BY <1>1 DEF text, CallInv
<1>3. Seen = text
  BY <1>1, TextType, PieceWhole DEF Seen
<1>4. ASSUME pc' = "done", call'.mode \in Plain
      PROVE  uwords' \in Seq(Seq(Nat)) /\ FlattenSeq(uwords') = text' /\ res' = bytes
  BY <1>1, <1>4, <1>3, <1>2 DEF Plain, Keeping, CallInv
<1>5. (pc = "done" /\ call.mode \in Plain =>
         /\ uwords \in Seq(Seq(Nat)) /\ FlattenSeq(uwords) = text
         /\ res = [i \in DOMAIN uwords |-> Encode(uwords[i])])'
  BY <1>1, <1>4 DEF bytes
<1>6. sentence' \in Seq(Byte) /\ (pc \in {"idle", "cut", "level", "tag", "done"})' /\ (pc # "cut" /\ pc # "level")'
      /\ (pc = "tag" => call.mode = "tag")'
  BY <1>1 DEF CallInv
<1> QED
  BY <1>2, <1>5, <1>6 DEF CallInv

\* The other steps are of calls that need not spell, or end them.
LEMMA OtherCutStep == ASSUME CallInv, LevelStep \/ LevelDone \/ Tag \/ Return PROVE CallInv'
<1>1. CASE LevelStep
  BY <1>1 DEF LevelStep, CallInv, text
<1>2. CASE LevelDone
  BY <1>2 DEF LevelDone, CallInv, Plain, text
<1>3. CASE Tag
  BY <1>3 DEF Tag, CallInv, Plain, text
<1>4. CASE Return
  BY <1>4, SeqClosed, DecodeType DEF Return, text, CallInv
<1> QED
  BY <1>1, <1>2, <1>3, <1>4

\* The invariant holds at first.
LEMMA JiebaInit == ASSUME DictAssumption, Init PROVE JiebaInv
<1>1. DictInv
  BY DictInitInv DEF Init
<1>2. pc = "idle" /\ sentence = <<>> /\ cursor = 0
  BY DEF Init
<1>3. sentence \in Seq(Byte)
  BY <1>2, SeqClosed
<1>4. text \in Seq(Nat)
  BY <1>3, DecodeType DEF text
<1>5. cursor \in 0..Len(text)
  BY <1>4, <1>2
<1> QED
  BY <1>1, <1>2, <1>3, <1>5 DEF JiebaInv, CallInv

\* Every step of the dictionary keeps its invariant.
LEMMA DictStep ==
  ASSUME DictAssumption, DictInv, Load \/ CannotOpen \/ InsertUserWord
  PROVE  DictInv'
BY LoadLineStep, WeightsStep, LoadUserLineStep, UserLoadedStep, InsertStaticStep, TrieCreatedStep,
   AbortStep, InsertUserWordStep DEF Load, CannotOpen

\* Every step keeps the invariant.
LEMMA JiebaStep == ASSUME DictAssumption, JiebaAssumption, JiebaInv, [Next]_vars PROVE JiebaInv'
<1>0. DictInv /\ CallInv
  BY DEF JiebaInv
<1>1. CASE (Load \/ CannotOpen) /\ UNCHANGED <<model, modelFile, callVars>>
  BY <1>0, <1>1, DictStep, CallStays DEF JiebaInv
<1>2. CASE LoadModel
  BY <1>2, <1>0, DictStays, AbortStep, CallStays DEF LoadModel, JiebaInv
<1>3. CASE pc = "idle" /\ model # <<>> /\ InsertUserWord /\ UNCHANGED <<model, modelFile, callVars>>
  BY <1>0, <1>3, DictStep, CallStays DEF JiebaInv
<1>4. CASE Start
  BY <1>4, <1>0, DictStays, StartStep DEF Start, JiebaInv
<1>5. CASE Cut
  <2>1. UNCHANGED dictVars
    BY <1>5 DEF Cut, CutRange, CutDone, LevelStep, LevelDone, Tag, Return
  <2>2. CallInv'
    BY <1>0, <1>5, CutRangeStep, CutDoneStep, OtherCutStep DEF Cut
  <2> QED
    BY <1>0, <2>1, <2>2, DictStays DEF JiebaInv
<1>6. CASE UNCHANGED vars
  BY <1>6, <1>0, DictStays, CallStays DEF vars, JiebaInv
<1> QED
  BY <1>1, <1>2, <1>3, <1>4, <1>5, <1>6 DEF Next

\* Whatever dictionaries and models there are, and whatever words are added
\* between the calls, a look-up finds the right unit at every time.
THEOREM DictionaryStaysRight == Spec => []DictionaryIsRight
<1>1. Init => JiebaInv
  BY JiebaInit, DictAssumption
<1>2. JiebaInv /\ [Next]_vars => JiebaInv'
  BY JiebaStep, DictAssumption, JiebaAssumption
<1>3. JiebaInv => DictionaryIsRight
  <2> SUFFICES ASSUME JiebaInv PROVE DictionaryIsRight
    OBVIOUS
  <2>1. DictTypeOK /\ PointersValid /\ LatestWins
    BY TypesFollow, PointersFollow, LatestFollows DEF JiebaInv
  <2>2. TypeOK
    BY <2>1 DEF TypeOK, JiebaInv, CallInv
  <2> QED
    BY <2>1, <2>2 DEF DictionaryIsRight
<1> QED
  BY <1>1, <1>2, <1>3, PTL DEF Spec

-----------------------------------------------------------------------------
(* Encoding. *)

Runewise(w) == [i \in 1..Len(w) |-> EncodeRune(w[i])]

\* A rune is encoded in bytes.
LEMMA EncodeRuneType ==
  ASSUME NEW u \in Nat
  PROVE  EncodeRune(u) \in Seq(Nat)
BY DEF EncodeRune

\* The runes of two words, one by one.
LEMMA RunewiseFacts ==
  ASSUME NEW w \in Seq(Nat)
  PROVE  /\ Runewise(w) \in Seq(Seq(Nat)) /\ Len(Runewise(w)) = Len(w)
         /\ \A i \in 1..Len(w) : Runewise(w)[i] = EncodeRune(w[i])
         /\ Encode(w) = FlattenSeq(Runewise(w)) /\ Encode(w) \in Seq(Nat)
<1>1. \A i \in 1..Len(w) : EncodeRune(w[i]) \in Seq(Nat)
  BY ElementOfSeq, EncodeRuneType
<1>2. PICK f : f = Runewise(w)
  OBVIOUS
<1> DEFINE R == Seq(Nat)
<1>3. f \in [1..Len(w) -> R] /\ \A i \in 1..Len(w) : f[i] = EncodeRune(w[i])
  BY <1>1, <1>2 DEF Runewise
<1>4. f \in Seq(R) /\ Len(f) = Len(w)
  <2> HIDE DEF R
  <2> QED
    BY <1>3
<1>5. Encode(w) = FlattenSeq(f)
  BY <1>2 DEF Encode, Runewise
<1>6. FlattenSeq(f) \in Seq(Nat)
  BY <1>4, FlattenType
<1> QED
  BY <1>2, <1>3, <1>4, <1>5, <1>6

\* No runes, no bytes.
LEMMA EncodeEmpty == Encode(<<>>) = <<>>
<1>1. <<>> \in Seq(Nat) /\ Len(<<>>) = 0
  BY SeqClosed
<1>2. Runewise(<<>>) \in Seq(Seq(Nat)) /\ Len(Runewise(<<>>)) = 0 /\ Encode(<<>>) = FlattenSeq(Runewise(<<>>))
  BY <1>1, RunewiseFacts
<1>3. Runewise(<<>>) = <<>>
  BY <1>2
<1> QED
  BY <1>2, <1>3, FlattenEmpty

\* The bytes of one rune.
LEMMA EncodeOne ==
  ASSUME NEW u \in Nat
  PROVE  Encode(<<u>>) = EncodeRune(u)
<1>1. PICK w \in Seq(Nat) : w = <<u>> /\ Len(w) = 1 /\ w[1] = u
  <2>1. <<u>> \in Seq(Nat) /\ Len(<<u>>) = 1 /\ <<u>>[1] = u
    OBVIOUS
  <2> QED
    BY <2>1
<1>2. PICK f \in Seq(Seq(Nat)) : f = Runewise(w) /\ Len(f) = 1 /\ f[1] = EncodeRune(u) /\ Encode(w) = FlattenSeq(f)
  <2>1. 1 \in 1..1
    OBVIOUS
  <2> QED
    BY <1>1, <2>1, RunewiseFacts
<1>3. FlattenSeq(<<EncodeRune(u)>>) = EncodeRune(u)
  BY EncodeRuneType, FlattenOne
<1>4. f = <<EncodeRune(u)>>
  BY <1>2
<1> QED
  BY <1>1, <1>2, <1>3, <1>4

\* The bytes of both are the bytes of each.
LEMMA EncodeConcat ==
  ASSUME NEW v \in Seq(Nat), NEW w \in Seq(Nat)
  PROVE  Encode(v \o w) = Encode(v) \o Encode(w)
<1> DEFINE R == Seq(Nat)
<1>1. PICK x \in Seq(Nat) : x = v \o w /\ Len(x) = Len(v) + Len(w)
                            /\ \A i \in 1..Len(v) + Len(w) : x[i] = IF i <= Len(v) THEN v[i] ELSE w[i - Len(v)]
  <2>1. /\ v \o w \in Seq(Nat) /\ Len(v \o w) = Len(v) + Len(w)
        /\ \A i \in 1..Len(v) + Len(w) : (v \o w)[i] = IF i <= Len(v) THEN v[i] ELSE w[i - Len(v)]
    BY ConcatProperties
  <2>2. PICK x : x = v \o w
    OBVIOUS
  <2> QED
    BY <2>1, <2>2
<1>2. PICK a \in Seq(R) : a = Runewise(v) /\ Len(a) = Len(v) /\ (\A i \in 1..Len(v) : a[i] = EncodeRune(v[i]))
                          /\ Encode(v) = FlattenSeq(a)
  BY RunewiseFacts
<1>3. PICK b \in Seq(R) : b = Runewise(w) /\ Len(b) = Len(w) /\ (\A i \in 1..Len(w) : b[i] = EncodeRune(w[i]))
                          /\ Encode(w) = FlattenSeq(b)
  BY RunewiseFacts
<1>4. PICK c \in Seq(R) : c = Runewise(x) /\ Len(c) = Len(x) /\ (\A i \in 1..Len(x) : c[i] = EncodeRune(x[i]))
                          /\ Encode(x) = FlattenSeq(c)
  BY RunewiseFacts
<1>5. FlattenSeq(a \o b) = FlattenSeq(a) \o FlattenSeq(b)
  BY FlattenConcat
<1> HIDE DEF R
<1>6. PICK d \in Seq(R) : d = a \o b /\ Len(d) = Len(a) + Len(b)
                          /\ \A i \in 1..Len(a) + Len(b) : d[i] = IF i <= Len(a) THEN a[i] ELSE b[i - Len(a)]
  <2>1. /\ a \o b \in Seq(R) /\ Len(a \o b) = Len(a) + Len(b)
        /\ \A i \in 1..Len(a) + Len(b) : (a \o b)[i] = IF i <= Len(a) THEN a[i] ELSE b[i - Len(a)]
    BY ConcatProperties
  <2>2. PICK d : d = a \o b
    OBVIOUS
  <2> QED
    BY <2>1, <2>2
<1>7. c = d
  <2>1. Len(v) \in Nat /\ Len(w) \in Nat /\ Len(c) = Len(v) + Len(w) /\ Len(d) = Len(v) + Len(w)
    BY <1>1, <1>2, <1>3, <1>4, <1>6
  <2>2. \A i \in 1..Len(c) : c[i] = d[i]
    <3> TAKE i \in 1..Len(c)
    <3>1. c[i] = EncodeRune(x[i])
      BY <1>1, <1>4, <2>1
    <3>2. CASE i <= Len(v)
      BY <2>1, <3>2, <1>1, <1>2, <1>3, <1>6, <3>1
    <3>3. CASE ~(i <= Len(v))
      <4>1. i - Len(v) \in 1..Len(w) /\ i \in 1..Len(v) + Len(w)
        BY <2>1, <3>3
      <4>2. x[i] = w[i - Len(v)]
        BY <1>1, <3>3, <4>1
      <4>3. d[i] = b[i - Len(v)]
        BY <1>2, <1>3, <1>6, <3>3, <4>1
      <4>4. b[i - Len(v)] = EncodeRune(w[i - Len(v)])
        BY <1>3, <4>1
      <4> QED
        BY <3>1, <4>2, <4>3, <4>4
    <3> QED
      BY <3>2, <3>3
  <2> QED
    BY <2>1, <2>2, SeqEqual
<1> QED
  BY <1>1, <1>2, <1>3, <1>4, <1>5, <1>6, <1>7, Zenon

Wordwise(ws) == [i \in 1..Len(ws) |-> Encode(ws[i])]

\* The words one by one give the bytes of all.
LEMMA EncodeWords ==
  ASSUME NEW ws \in Seq(Seq(Nat))
  PROVE  FlattenSeq(Wordwise(ws)) = Encode(FlattenSeq(ws)) /\ Wordwise(ws) \in Seq(Seq(Nat))
<1> DEFINE R == Seq(Nat)
           Right(n) == \A u \in Seq(R) : Len(u) = n =>
                         FlattenSeq(Wordwise(u)) = Encode(FlattenSeq(u)) /\ Wordwise(u) \in Seq(R)
           Good == {n \in Nat : Right(n)}
<1>1. Len(ws) \in Nat
  OBVIOUS
<1>2. 0 \in Good
  <2>1. Right(0)
    <3> SUFFICES ASSUME NEW u \in Seq(R), Len(u) = 0
                 PROVE  FlattenSeq(Wordwise(u)) = Encode(FlattenSeq(u)) /\ Wordwise(u) \in Seq(R)
      OBVIOUS
    <3>1. u = <<>>
      <4> HIDE DEF R
      <4> QED
        OBVIOUS
    <3>2. Wordwise(u) = <<>>
      BY <3>1 DEF Wordwise
    <3> QED
      BY <3>1, <3>2, FlattenEmpty, EncodeEmpty, SeqClosed
  <2> QED
    BY <2>1
<1>3. ASSUME NEW n \in 0 + 1..Len(ws), n - 1 \in Good PROVE n \in Good
  <2>1. n \in Nat /\ Right(n - 1)
    BY <1>3
  <2>2. ASSUME NEW u \in Seq(R), Len(u) = n
        PROVE  FlattenSeq(Wordwise(u)) = Encode(FlattenSeq(u)) /\ Wordwise(u) \in Seq(R)
    <3>1. PICK v \in Seq(R), x \in R : u = Append(v, x) /\ Len(v) = n - 1 /\ u[n] = x /\ \A i \in 1..n - 1 : u[i] = v[i]
      <4> HIDE DEF R
      <4>1. u # <<>>
        BY <2>2
      <4>2. PICK v \in Seq(R), x \in R : u = Append(v, x)
        BY <4>1, SequenceEmptyOrAppend
      <4>3. /\ Len(Append(v, x)) = Len(v) + 1 /\ Len(v) \in Nat
            /\ Append(v, x)[Len(v) + 1] = x /\ \A i \in 1..Len(v) : Append(v, x)[i] = v[i]
        BY AppendProperties
      <4>4. Len(v) = n - 1 /\ Len(v) + 1 = n
        BY <2>2, <4>2, <4>3
      <4> QED
        BY <4>2, <4>3, <4>4
    <3>2. FlattenSeq(Wordwise(v)) = Encode(FlattenSeq(v)) /\ Wordwise(v) \in Seq(R)
      BY <2>1, <3>1
    <3>3. PICK y \in R : y = Encode(x)
      BY RunewiseFacts
    <3>4. PICK a \in Seq(R), c \in Seq(R) : a = Wordwise(v) /\ c = Append(a, y)
      <4>1. PICK a \in Seq(R) : a = Wordwise(v)
        BY <3>2
      <4> HIDE DEF R
      <4>2. Append(a, y) \in Seq(R)
        BY AppendProperties
      <4> QED
        BY <4>1, <4>2
    <3>5. c = Wordwise(u)
      <4>1. Len(a) = n - 1 /\ \A i \in 1..n - 1 : a[i] = Encode(v[i])
        BY <3>1, <3>4, <2>1 DEF Wordwise
      <4> HIDE DEF R
      <4>2. Len(c) = n /\ c[n] = y /\ \A i \in 1..n - 1 : c[i] = a[i]
        BY AppendProperties, <2>1, <3>4, <4>1
      <4>3. \A i \in 1..n : c[i] = Encode(u[i])
        <5> TAKE i \in 1..n
        <5>1. CASE i = n
          BY <3>1, <3>3, <4>2, <5>1
        <5>2. CASE i # n
          BY <2>1, <5>2, <3>1, <4>1, <4>2
        <5> QED
          BY <5>1, <5>2
      <4>4. c = [i \in 1..n |-> c[i]]
        BY <4>2
      <4>5. Wordwise(u) = [i \in 1..n |-> Encode(u[i])]
        BY <2>2 DEF Wordwise
      <4> QED
        BY <4>3, <4>4, <4>5
    <3>6. FlattenSeq(Append(a, y)) = FlattenSeq(a) \o y
      BY FlattenAppend
    <3>7. FlattenSeq(Append(v, x)) = FlattenSeq(v) \o x /\ FlattenSeq(v) \in Seq(Nat)
      BY FlattenAppend
    <3>8. Encode(FlattenSeq(v) \o x) = Encode(FlattenSeq(v)) \o Encode(x)
      BY <3>7, EncodeConcat
    <3>9. FlattenSeq(Wordwise(u)) = Encode(FlattenSeq(u))
      BY <3>1, <3>2, <3>3, <3>4, <3>5, <3>6, <3>7, <3>8, Zenon
    <3> QED
      BY <3>4, <3>5, <3>9
  <2>3. Right(n)
    BY <2>2
  <2> HIDE DEF Right
  <2> QED
    BY <2>1, <2>3
<1>4. Right(Len(ws))
  <2>1. 0 \in Nat /\ Len(ws) \in 0..Len(ws)
    BY <1>1
  <2> HIDE DEF Good
  <2>2. Len(ws) \in Good
    BY <1>1, <1>2, <1>3, <2>1, UpReach
  <2> HIDE DEF Right
  <2> QED
    BY <2>2 DEF Good
<1> QED
  BY <1>4

\* The bytes of a rune between 128 and 2047.
LEMMA TwoBytes ==
  ASSUME NEW b \in 194..223, NEW c \in 128..191
  PROVE  EncodeRune((b % 32) * 64 + (c % 64)) = <<b, c>>
<1>1. PICK x \in 2..31 : b = 192 + x
  OBVIOUS
<1>2. PICK y \in 0..63 : c = 128 + y
  OBVIOUS
<1>3. b % 32 = x /\ c % 64 = y
  BY <1>1, <1>2
<1>4. PICK u \in Nat : u = x * 64 + y
  OBVIOUS
<1>5. u > 127 /\ u <= 2047
  BY <1>4
<1>6. EncodeRune(u) = <<192 + (u \div 64), 128 + (u % 64)>>
  BY <1>5 DEF EncodeRune
<1>7. u \div 64 = x /\ u % 64 = y
  BY <1>4
<1> QED
  BY <1>1, <1>2, <1>3, <1>4, <1>6, <1>7

\* The rune of three bytes.
Three(b, c, d) == (b % 16) * 4096 + (c % 64) * 64 + (d % 64)

\* A rune is made of three parts, and has them.
Made(x, y, z, u) == u = x * 4096 + y * 64 + z

Parts(x, y, z, u) == u \div 4096 = x /\ (u \div 64) % 64 = y /\ u % 64 = z

\* A rune that is made of its parts has them as its own.
LEMMA ThreeParts ==
  ASSUME NEW x \in 0..15, NEW y \in 0..63, NEW z \in 0..63, NEW u \in Nat, Made(x, y, z, u)
  PROVE  Parts(x, y, z, u)
BY DEF Made, Parts

\* The bytes of a rune from 2048 on.
LEMMA ThreeBytes ==
  ASSUME NEW b \in 224..239, NEW c \in 128..191, NEW d \in 128..191, b > 224 \/ c >= 160
  PROVE  EncodeRune(Three(b, c, d)) = <<b, c, d>>
<1>1. PICK x \in 0..15 : b = 224 + x
  OBVIOUS
<1>2. PICK y \in 0..63 : c = 128 + y
  OBVIOUS
<1>3. PICK z \in 0..63 : d = 128 + z
  OBVIOUS
<1>4. b % 16 = x /\ c % 64 = y /\ d % 64 = z
  BY <1>1, <1>2, <1>3
<1>5. PICK u \in Nat : u = x * 4096 + y * 64 + z
  OBVIOUS
<1>6. u > 2047
  BY <1>1, <1>2, <1>5
<1>7. Parts(x, y, z, u)
  <2>1. Made(x, y, z, u)
    BY <1>5 DEF Made
  <2> QED
    BY <2>1, ThreeParts
<1>8. EncodeRune(u) = <<224 + (u \div 4096), 128 + ((u \div 64) % 64), 128 + (u % 64)>>
  BY <1>6 DEF EncodeRune
<1>9. EncodeRune(u) = <<b, c, d>>
  BY <1>1, <1>2, <1>3, <1>7, <1>8 DEF Parts
<1>10. Three(b, c, d) = u
  BY <1>4, <1>5 DEF Three
<1> QED
  BY <1>9, <1>10

\* No byte that goes on with a character stands at i.
Leads(s, i) == ~(s[i] >= 128 /\ s[i] < 192)

\* What UTF-8 says of the character at i.
LEMMA Utf8Facts ==
  ASSUME NEW s \in Seq(Byte), Utf8Text(s), NEW i \in 1..Len(s),
         NEW n \in 1..3, n = CharLen(s[i], Len(s) - i + 1), Leads(s, i)
  PROVE  /\ s[i] \notin {192, 193} /\ (s[i] = 224 => s[i + 1] >= 160)
         /\ \A k \in 1..n - 1 : s[i + k] >= 128 /\ s[i + k] < 192
         /\ i + n \in DOMAIN s => Leads(s, i + n)
<1>1. i \in DOMAIN s
  OBVIOUS
<1> QED
  BY <1>1 DEF Utf8Text, Leads

\* Behind a character begins the next.
LEMMA GoesOn ==
  ASSUME NEW s \in Seq(Byte), Utf8Text(s), NEW i \in 1..Len(s),
         NEW n \in 1..3, n = CharLen(s[i], Len(s) - i + 1), Leads(s, i),
         NEW k \in 1..n - 1, i + k \in 1..Len(s)
  PROVE  s[i + k] \in 128..191
<1>1. PICK c : c = s[i + k]
  OBVIOUS
<1>2. c \in 0..255
  BY <1>1, ElementOfSeq DEF Byte
<1>3. c >= 128 /\ c < 192
  BY <1>1, Utf8Facts
<1>4. c \in 128..191
  BY <1>2, <1>3
<1> QED
  BY <1>1, <1>4

\* A character that is well formed comes back.
LEMMA RuneComesBack ==
  ASSUME NEW s \in Seq(Byte), Utf8Text(s), NEW i \in 1..Len(s),
         NEW n \in 1..3, n = CharLen(s[i], Len(s) - i + 1), Leads(s, i)
  PROVE  EncodeRune(RuneOf(s, i, n)) = SubSeq(s, i, i + n - 1)
<1>0. \A k \in 1..Len(s) : s[k] \in 0..255
  BY ElementOfSeq DEF Byte
<1>1. i + n <= Len(s) + 1
  BY CharFacts
<1>2. PICK t \in Seq(Byte) : t = SubSeq(s, i, i + n - 1) /\ Len(t) = n /\ \A k \in 1..n : t[k] = s[i + k - 1]
  <2>1. i \in 1..Len(s) + 1 /\ i + n - 1 \in i - 1..Len(s) /\ (i + n - 1) - i + 1 = n
    BY <1>1
  <2>2. /\ SubSeq(s, i, i + n - 1) \in Seq(Byte) /\ Len(SubSeq(s, i, i + n - 1)) = n
        /\ \A k \in 1..n : SubSeq(s, i, i + n - 1)[k] = s[i + k - 1]
    BY <2>1, PieceFacts
  <2> QED
    BY <2>2
<1>3. CASE n = 1
  <2>1. PICK a : a = s[i]
    OBVIOUS
  <2>2. PICK b \in 0..127 : b = s[i]
    <3>1. a \in 0..255
      BY <1>0, <2>1
    <3>2. a < 128
      BY <1>3, <2>1, CharFacts
    <3>3. a \in 0..127
      BY <3>1, <3>2
    <3> QED
      BY <2>1, <3>3
  <2>3. RuneOf(s, i, n) = b
    BY <1>3, <2>2 DEF RuneOf
  <2>4. EncodeRune(b) = <<b>>
    BY DEF EncodeRune
  <2>5. Len(t) = 1 /\ t[1] = b
    BY <1>2, <1>3, <2>2
  <2>6. t = <<b>>
    BY <2>5
  <2> QED
    BY <1>2, <2>3, <2>4, <2>6
<1>4. CASE n = 2
  <2>1. s[i] \in 128..223 /\ i + 1 \in 1..Len(s)
    BY <1>4, CharFacts
  <2>2. PICK b \in 128..223 : b = s[i]
    BY <2>1
  <2>3. ~(b >= 128 /\ b < 192) /\ b # 192 /\ b # 193
    BY <2>2, Utf8Facts DEF Leads
  <2>4. b \in 194..223
    BY <2>3
  <2>5. s[i + 1] \in 128..191
    BY <1>4, <1>0, <2>1, GoesOn
  <2>6. PICK c \in 128..191 : c = s[i + 1]
    BY <2>5
  <2>7. RuneOf(s, i, n) = (b % 32) * 64 + (c % 64)
    BY <1>4, <2>2, <2>6 DEF RuneOf
  <2>8. EncodeRune((b % 32) * 64 + (c % 64)) = <<b, c>>
    BY <2>4, TwoBytes
  <2>9. Len(t) = 2 /\ t[1] = b /\ t[2] = c
    BY <1>4, <1>2, <2>2, <2>6
  <2>10. t = <<b, c>>
    BY <2>9
  <2> QED
    BY <1>2, <2>7, <2>8, <2>10, Zenon
<1>5. CASE n = 3
  <2>1. s[i] \in 224..239 /\ i + 1 \in 1..Len(s) /\ i + 2 \in 1..Len(s)
    BY <1>5, CharFacts
  <2>2. PICK b \in 224..239 : b = s[i]
    BY <2>1
  <2>3. s[i + 1] \in 128..191 /\ s[i + 2] \in 128..191
    BY <1>5, <2>1, GoesOn
  <2>4. PICK c \in 128..191, d \in 128..191 : c = s[i + 1] /\ d = s[i + 2]
    BY <2>3
  <2>5. b > 224 \/ c >= 160
    <3>1. s[i] = 224 => s[i + 1] >= 160
      BY Utf8Facts
    <3>2. b = 224 => c >= 160
      BY <2>2, <2>4, <3>1, Zenon
    <3> QED
      BY <3>2
  <2>6. RuneOf(s, i, n) = Three(b, c, d)
    BY <1>5, <2>2, <2>4 DEF RuneOf, Three
  <2>7. EncodeRune(Three(b, c, d)) = <<b, c, d>>
    BY <2>5, ThreeBytes
  <2>8. Len(t) = 3 /\ t[1] = b /\ t[2] = c /\ t[3] = d
    BY <1>5, <1>2, <2>2, <2>4
  <2>9. t = <<b, c, d>>
    BY <2>8
  <2> QED
    BY <1>2, <2>6, <2>7, <2>9, Zenon
<1>6. n = 1 \/ n = 2 \/ n = 3
  OBVIOUS
<1> QED
  BY <1>3, <1>4, <1>5, <1>6, Zenon

\* Decoding fails at a byte from 240 on, or near the end.
LEMMA CharLenZero ==
  ASSUME NEW b \in 0..239, NEW left \in Nat, CharLen(b, left) = 0
  PROVE  left < 3
<1> SUFFICES ASSUME left >= 3 PROVE CharLen(b, left) # 0
  OBVIOUS
<1>1. left >= 2
  OBVIOUS
<1>2. CASE b \in 0..127
  BY <1>2 DEF CharLen
<1>3. CASE b \in 128..223
  BY <1>3, <1>1 DEF CharLen
<1>4. CASE b \in 224..239
  BY <1>4 DEF CharLen
<1> QED
  BY <1>2, <1>3, <1>4

\* Where decoding fails all the same, a character of four bytes begins, or
\* one or two bytes are left.
LEMMA FailsNearEnd ==
  ASSUME NEW s \in Seq(Byte), NEW i \in 1..Len(s), CharLen(s[i], Len(s) - i + 1) = 0, s[i] \in 0..239
  PROVE  Len(s) - (i - 1) <= 2
<1>2. PICK b \in 0..239 : b = s[i]
  OBVIOUS
<1>3. PICK left \in Nat : left = Len(s) - i + 1
  OBVIOUS
<1>4. CharLen(b, left) = 0
  BY <1>2, <1>3
<1>5. left < 3
  BY <1>4, CharLenZero
<1> QED
  BY <1>3, <1>5

\* Encoding undoes decoding up to where decoding fails.
LEMMA TextComesBack ==
  ASSUME NEW s \in Seq(Byte), Utf8Text(s)
  PROVE  \E m \in 0..Len(s) : /\ Encode(Decode(s)) = SubSeq(s, 1, m)
                              /\ (\A b \in ToSet(s) : b < 240) => Len(s) - m <= 2
<1> DEFINE N == Len(s)
<1>1. PICK next, piece, R : /\ next = CharNext(s) /\ piece = CharRunes(s)
                            /\ Jumps(Len(s), CharNext(s), CharRunes(s), R) /\ Decode(s) = R[1]
  BY DecodeByJumps
<1>2. Collects(Len(s), Seq(Nat), next, piece, R) /\ Forward(Len(s), Seq(Nat), next, piece)
  BY <1>1, CharJumps, JumpsType
<1>3. /\ N \in Nat /\ next \in [1..N -> 1..N + 1] /\ (\A i \in 1..N : next[i] > i)
      /\ (\A i \in 1..N + 1 : R[i] \in Seq(Nat)) /\ R[N + 1] = <<>>
      /\ \A i \in 1..N : R[i] = piece[i] \o R[next[i]]
  BY <1>2 DEF Collects, Forward
<1> DEFINE Short == \A b \in ToSet(s) : b < 240
           Begins(i) == i <= N => Leads(s, i)
           Back(i, m) == Encode(R[i]) = SubSeq(s, i, m) /\ (Short => N - m <= 2)
           Good == {i \in 1..N + 1 : Begins(i) => \E m \in i - 1..N : Back(i, m)}
<1>4. N + 1 \in Good
  <2>1. SubSeq(s, N + 1, N) = <<>>
    BY PieceWhole
  <2>2. Encode(R[N + 1]) = <<>>
    BY <1>3, EncodeEmpty
  <2>3. N \in (N + 1) - 1..N /\ N - N <= 2 /\ N + 1 \in 1..N + 1
    BY <1>3
  <2>4. Back(N + 1, N)
    BY <2>1, <2>2, <2>3
  <2> HIDE DEF Back, N
  <2> QED
    BY <2>3, <2>4
<1>5. ASSUME NEW i \in 1..N, next[i] \in Good PROVE i \in Good
  <2>1. i \in 1..N + 1
    BY <1>3
  <2>2. SUFFICES ASSUME Begins(i) PROVE \E m \in i - 1..N : Back(i, m)
    <3> HIDE DEF Back, Begins
    <3> QED
      BY <2>1
  <2>3. Leads(s, i) /\ i \in 1..Len(s)
    BY <1>3, <2>2
  <2>4. PICK n : n = CharLen(s[i], Len(s) - i + 1)
    OBVIOUS
  <2>5. CASE n = 0
    <3>1. piece[i] = <<>> /\ next[i] = N + 1
      BY <1>1, <2>4, <2>5 DEF CharNext, CharRunes
    <3>2. R[i] = <<>> \o <<>>
      BY <1>3, <3>1
    <3>3. R[i] = <<>>
      BY <3>2
    <3>4. SubSeq(s, i, i - 1) = <<>>
      OBVIOUS
    <3>5. Short => N - (i - 1) <= 2
      <4>1. SUFFICES ASSUME Short PROVE N - (i - 1) <= 2
        OBVIOUS
      <4>2. PICK b : b = s[i]
        OBVIOUS
      <4>3. s[i] \in 0..239
        <5>1. b < 240
          BY <4>1, <4>2, <2>3 DEF ToSet
        <5>2. b \in 0..255
          BY <4>2, <2>3, ElementOfSeq DEF Byte
        <5> HIDE DEF Short, Begins, Back
        <5>3. b \in 0..239
          BY <5>1, <5>2
        <5> QED
          BY <4>2, <5>3
      <4> HIDE DEF Short, Begins
      <4> QED
        BY <2>3, <2>4, <2>5, <4>3, FailsNearEnd
    <3>6. Back(i, i - 1)
      BY <3>3, <3>4, <3>5, EncodeEmpty
    <3>7. i - 1 \in i - 1..N
      BY <1>3
    <3> HIDE DEF Back
    <3> QED
      BY <3>6, <3>7
  <2>6. CASE n # 0
    <3>1. n \in 1..3 /\ i + n <= N + 1 /\ RuneOf(s, i, n) \in Nat
      BY <2>4, <2>6, CharFacts
    <3>2. PICK u \in Nat : u = RuneOf(s, i, n)
      BY <3>1
    <3>3. piece[i] = <<u>> /\ next[i] = i + n
      BY <1>1, <2>4, <2>6, <3>2 DEF CharNext, CharRunes
    <3>4. EncodeRune(u) = SubSeq(s, i, i + n - 1)
      BY <2>3, <2>4, <3>1, <3>2, RuneComesBack
    <3>5. Begins(i + n)
      BY <3>1, <2>3, <2>4, Utf8Facts
    <3>6. PICK m \in (i + n) - 1..N : Back(i + n, m)
      <4> HIDE DEF Back, Begins
      <4> QED
        BY <1>5, <3>3, <3>5
    <3>7. R[i] = <<u>> \o R[i + n] /\ R[i + n] \in Seq(Nat) /\ <<u>> \in Seq(Nat)
      <4>1. i + n \in 1..N + 1
        BY <3>1
      <4>2. R[i] = piece[i] \o R[next[i]] /\ R[i + n] \in Seq(Nat)
        BY <1>3, <4>1
      <4>3. <<u>> \in Seq(Nat)
        BY <3>2
      <4> QED
        BY <3>3, <4>2, <4>3
    <3>8. Encode(<<u>> \o R[i + n]) = Encode(<<u>>) \o Encode(R[i + n])
      BY <3>7, EncodeConcat
    <3>9. SubSeq(s, i, m) = SubSeq(s, i, i + n - 1) \o SubSeq(s, (i + n - 1) + 1, m)
      BY <3>1, PieceSplits
    <3>10. (i + n - 1) + 1 = i + n /\ m \in i - 1..N
      BY <3>1
    <3>11. Encode(<<u>>) = EncodeRune(u)
      BY EncodeOne
    <3>12. Encode(R[i + n]) = SubSeq(s, i + n, m) /\ (Short => N - m <= 2)
      BY <3>6
    <3>13. Encode(R[i]) = SubSeq(s, i, m)
      BY <3>4, <3>7, <3>8, <3>9, <3>10, <3>11, <3>12, Zenon
    <3>14. Back(i, m)
      BY <3>12, <3>13
    <3> HIDE DEF Back
    <3> QED
      BY <3>10, <3>14
  <2> QED
    BY <2>5, <2>6
<1>6. \A i \in 1..N + 1 : i \in Good
  <2> HIDE DEF Good, N
  <2> QED
    BY <1>3, <1>4, <1>5, JumpsReach
<1>7. 1 \in Good /\ Begins(1)
  <2>1. 1 \in 1..N + 1
    BY <1>3
  <2>2. Begins(1)
    <3>1. 1 <= N => 1 \in DOMAIN s
      BY <1>3
    <3> QED
      BY <3>1 DEF Utf8Text, Leads
  <2> HIDE DEF Good, Begins
  <2> QED
    BY <1>6, <2>1, <2>2
<1>8. PICK m \in 1 - 1..N : Back(1, m)
  <2> HIDE DEF Back, Begins
  <2> QED
    BY <1>7
<1> QED
  BY <1>1, <1>8

\* The bytes of the words are those of the text.
LEMMA BytesFollow == ASSUME JiebaInv PROVE BytesKept
<1>1. SUFFICES ASSUME pc = "done", call.mode \in Plain, Utf8Text(sentence)
               PROVE  /\ IsPrefix(FlattenSeq(res), sentence)
                      /\ (\A b \in ToSet(sentence) : b < 240) => Len(sentence) - Len(FlattenSeq(res)) <= 2
  BY DEF BytesKept, Plain
<1>2. uwords \in Seq(Seq(Nat)) /\ FlattenSeq(uwords) = text /\ res = [i \in DOMAIN uwords |-> Encode(uwords[i])]
      /\ sentence \in Seq(Byte)
  BY <1>1 DEF JiebaInv, CallInv
<1>3. res = Wordwise(uwords)
  BY <1>2 DEF Wordwise
<1>4. FlattenSeq(res) = Encode(text)
  BY <1>2, <1>3, EncodeWords
<1>5. PICK m \in 0..Len(sentence) : /\ Encode(Decode(sentence)) = SubSeq(sentence, 1, m)
                                    /\ (\A b \in ToSet(sentence) : b < 240) => Len(sentence) - m <= 2
  BY <1>1, <1>2, TextComesBack
<1>6. PICK r \in Seq(Byte) : r = SubSeq(sentence, 1, m) /\ Len(r) = m
  <2>1. 1 \in 1..Len(sentence) + 1 /\ m \in 1 - 1..Len(sentence) /\ m - 1 + 1 = m
    BY <1>2
  <2>2. SubSeq(sentence, 1, m) \in Seq(Byte) /\ Len(SubSeq(sentence, 1, m)) = m - 1 + 1
    BY <1>2, <2>1, PieceFacts
  <2> QED
    BY <2>1, <2>2
<1>7. FlattenSeq(res) = r
  BY <1>4, <1>5, <1>6 DEF text
<1>8. IsPrefix(r, sentence)
  BY <1>6, PieceWhole, <1>2 DEF IsPrefix
<1> QED
  BY <1>5, <1>6, <1>7, <1>8

\* No call that cuts without overlaps loses anything of its text that decodes.
THEOREM NothingIsDropped == Spec => []NothingDropped
<1>1. Init => JiebaInv
  BY JiebaInit, DictAssumption
<1>2. JiebaInv /\ [Next]_vars => JiebaInv'
  BY JiebaStep, DictAssumption, JiebaAssumption
<1>3. JiebaInv => NothingDropped
  <2> SUFFICES ASSUME JiebaInv PROVE NothingDropped
    OBVIOUS
  <2>1. WordsSpellText
    BY DEF JiebaInv, CallInv, WordsSpellText, Keeping
  <2> QED
    BY <2>1, BytesFollow DEF NothingDropped
<1> QED
  BY <1>1, <1>2, <1>3, PTL DEF Spec

-----------------------------------------------------------------------------
(* The total of the frequencies, and its powers. *)

\* The sum of frequencies of which none is 0.
LEMMA TotalFacts ==
  ASSUME static \in Seq(Units), static # <<>>, 0 \notin ToSet(Freqs)
  PROVE  Total \in Nat \ {0}
<1> DEFINE n == Len(static)
           Step(f, i) == IF i = 0 THEN 0 ELSE f[i - 1] + Freqs[i]
           G == [t \in (0 + 1..n) \X Nat |-> t[2] + Freqs[t[1]]]
<1>1. Total = (CHOOSE f : f = [i \in 0..n |-> Step(f, i)])[n]
  BY DEF Total
<1>2. n \in Nat /\ n # 0
  OBVIOUS
<1>3. \A i \in 1..n : Freqs[i] \in Nat /\ Freqs[i] # 0
  <2> TAKE i \in 1..n
  <2>1. static[i] \in Units /\ Freqs[i] = static[i].freq /\ i \in DOMAIN Freqs
    BY DEF Freqs
  <2>2. Freqs[i] \in ToSet(Freqs)
    BY <2>1 DEF ToSet
  <2> QED
    BY <2>1, <2>2 DEF Units
<1> HIDE DEF n
<1>4. G \in [(0 + 1..n) \X Nat -> Nat]
  BY <1>3
<1>5. PICK f \in [0..n -> Nat] : Climbs(0, n, 0, G, f)
  <2>1. 0 \in Nat /\ 0 <= n
    BY <1>2
  <2> HIDE DEF G
  <2> QED
    BY <1>2, <1>4, <2>1, UpExists
<1>6. f = [i \in 0..n |-> Step(f, i)]
  <2>1. \A i \in 0..n : f[i] = Step(f, i)
    <3> TAKE i \in 0..n
    <3>1. f[i] = IF i = 0 THEN 0 ELSE G[<<i, f[i - 1]>>]
      <4> HIDE DEF G
      <4> QED
        BY <1>5 DEF Climbs
    <3>2. i # 0 => i \in 0 + 1..n /\ f[i - 1] \in Nat
      BY <1>2, <1>5
    <3>3. i # 0 => G[<<i, f[i - 1]>>] = f[i - 1] + Freqs[i]
      BY <3>2
    <3> HIDE DEF G
    <3> QED
      BY <3>1, <3>3
  <2> HIDE DEF Step
  <2> QED
    BY <1>5, <2>1
<1>7. PICK g : g = [i \in 0..n |-> Step(g, i)] /\ Total = g[n]
  <2> HIDE DEF Step
  <2> QED
    BY <1>1, <1>6
<1>8. \A i \in 0..n : g[i] = Step(g, i)
  <2> HIDE DEF Step
  <2> QED
    BY <1>7
<1> DEFINE Good == {i \in 0..n : g[i] \in Nat /\ (i # 0 => g[i] # 0)}
<1>9. 0 \in Good
  BY <1>2, <1>8
<1>10. ASSUME NEW i \in 0 + 1..n, i - 1 \in Good PROVE i \in Good
  <2>1. i \in 0..n /\ i \in 1..n /\ i # 0 /\ g[i - 1] \in Nat
    BY <1>2, <1>10
  <2>2. g[i] = g[i - 1] + Freqs[i]
    BY <1>8, <2>1
  <2>3. Freqs[i] \in Nat /\ Freqs[i] # 0
    BY <1>3, <2>1
  <2> QED
    BY <2>1, <2>2, <2>3
<1>11. n \in Good
  <2>1. 0 \in Nat /\ n \in 0..n
    BY <1>2
  <2> HIDE DEF Good
  <2> QED
    BY <1>2, <1>9, <1>10, <2>1, UpReach
<1> QED
  BY <1>2, <1>7, <1>11

\* The powers of the total.
LEMMA TotalToFacts ==
  ASSUME weights.total \in Nat \ {0}
  PROVE  /\ TotalTo(0) = 1
         /\ \A n \in Nat : TotalTo(n) \in Nat \ {0} /\ TotalTo(n + 1) = weights.total * TotalTo(n)
<1> DEFINE t == weights.total
           Step(f, i) == IF i = 0 THEN 1 ELSE t * f[i - 1]
           IsPower(n, f) == f = [i \in 0..n |-> Step(f, i)]
           G(n) == [x \in (0 + 1..n) \X Nat |-> t * x[2]]
<1>1. \A n : TotalTo(n) = (CHOOSE f : IsPower(n, f))[n]
  BY DEF TotalTo
<1>2. t \in Nat /\ t # 0
  OBVIOUS
<1> HIDE DEF t
<1>3. ASSUME NEW n \in Nat
      PROVE  \E f : IsPower(n, f)
  <2>1. G(n) \in [(0 + 1..n) \X Nat -> Nat]
    BY <1>2
  <2>2. PICK f \in [0..n -> Nat] : Climbs(0, n, 1, G(n), f)
    <3>1. 0 \in Nat /\ 0 <= n /\ 1 \in Nat
      OBVIOUS
    <3> HIDE DEF G
    <3> QED
      BY <2>1, <3>1, UpExists
  <2>3. \A i \in 0..n : f[i] = Step(f, i)
    <3> TAKE i \in 0..n
    <3>1. f[i] = IF i = 0 THEN 1 ELSE G(n)[<<i, f[i - 1]>>]
      <4> HIDE DEF G
      <4> QED
        BY <2>2 DEF Climbs
    <3>2. i # 0 => i \in 0 + 1..n /\ f[i - 1] \in Nat
      BY <2>2
    <3>3. i # 0 => G(n)[<<i, f[i - 1]>>] = t * f[i - 1]
      BY <3>2
    <3> HIDE DEF G
    <3> QED
      BY <3>1, <3>3
  <2>4. IsPower(n, f)
    <3> HIDE DEF Step
    <3> QED
      BY <2>2, <2>3
  <2> QED
    BY <2>4
<1> HIDE DEF IsPower
<1>4. \A n \in Nat : \E f : IsPower(n, f) /\ TotalTo(n) = f[n]
  <2> TAKE n \in Nat
  <2>1. PICK f : f = CHOOSE h : IsPower(n, h)
    OBVIOUS
  <2>2. IsPower(n, f)
    BY <1>3, <2>1
  <2> QED
    BY <1>1, <2>1, <2>2
<1>5. ASSUME NEW n \in Nat, NEW f, IsPower(n, f)
      PROVE  \A i \in 0..n : f[i] = Step(f, i)
  <2>1. f = [i \in 0..n |-> Step(f, i)]
    BY <1>5 DEF IsPower
  <2> HIDE DEF Step
  <2> QED
    BY <2>1
<1>6. ASSUME NEW n \in Nat, NEW m \in Nat, NEW f, NEW h, IsPower(n, f), IsPower(m, h)
      PROVE  \A i \in 0..n : i <= m => f[i] = h[i] /\ f[i] \in Nat /\ f[i] # 0
  <2> DEFINE Good == {i \in 0..n : i <= m => f[i] = h[i] /\ f[i] \in Nat /\ f[i] # 0}
  <2>1. 0 \in Good
    BY <1>5, <1>6
  <2>2. ASSUME NEW i \in 0 + 1..n, i - 1 \in Good PROVE i \in Good
    <3>1. SUFFICES ASSUME i <= m PROVE f[i] = h[i] /\ f[i] \in Nat /\ f[i] # 0
      OBVIOUS
    <3>2. i \in 0..n /\ i \in 0..m /\ i # 0 /\ i - 1 <= m
      BY <3>1
    <3>3. f[i] = t * f[i - 1] /\ h[i] = t * h[i - 1]
      BY <1>5, <1>6, <3>2
    <3>4. PICK y \in Nat : y = f[i - 1] /\ y = h[i - 1] /\ y # 0
      BY <2>2, <3>2
    <3>5. t * y \in Nat /\ t * y # 0
      BY <1>2, <3>4
    <3> QED
      BY <3>3, <3>4, <3>5
  <2>3. 0 \in Nat
    OBVIOUS
  <2> HIDE DEF Good
  <2>4. \A i \in 0..n : i \in Good
    BY <2>1, <2>2, <2>3, UpReach
  <2> QED
    BY <2>4 DEF Good
<1>7. TotalTo(0) = 1
  <2>1. PICK f : IsPower(0, f) /\ TotalTo(0) = f[0]
    BY <1>4
  <2>2. f[0] = Step(f, 0)
    <3>1. 0 \in Nat /\ 0 \in 0..0
      OBVIOUS
    <3> HIDE DEF Step
    <3> QED
      BY <1>5, <2>1, <3>1
  <2> QED
    BY <2>1, <2>2
<1>8. ASSUME NEW n \in Nat
      PROVE  TotalTo(n) \in Nat \ {0} /\ TotalTo(n + 1) = t * TotalTo(n)
  <2>1. PICK f : IsPower(n, f) /\ TotalTo(n) = f[n]
    BY <1>4
  <2>2. PICK h : IsPower(n + 1, h) /\ TotalTo(n + 1) = h[n + 1]
    BY <1>4
  <2>3. f[n] = h[n] /\ f[n] \in Nat /\ f[n] # 0
    BY <1>6, <2>1, <2>2
  <2>4. h[n + 1] = t * h[n]
    <3>1. n + 1 \in 0..n + 1 /\ n + 1 # 0 /\ (n + 1) - 1 = n
      OBVIOUS
    <3>2. h[n + 1] = Step(h, n + 1)
      <4>1. n + 1 \in Nat
        OBVIOUS
      <4> HIDE DEF Step
      <4> QED
        BY <1>5, <2>2, <3>1, <4>1
    <3> QED
      BY <3>1, <3>2
  <2> QED
    BY <2>1, <2>2, <2>3, <2>4
<1> QED
  BY <1>7, <1>8 DEF t

-----------------------------------------------------------------------------
(* More of the dictionary: the walk through the trie reaches every word.   *)

\* The beginning of a beginning.
LEMMA PieceOfPiece ==
  ASSUME NEW S, NEW s \in Seq(S), NEW i \in 1..Len(s) + 1, NEW k \in i - 1..Len(s),
         NEW a \in 1..k - i + 2, NEW b \in a - 1..k - i + 1
  PROVE  SubSeq(SubSeq(s, i, k), a, b) = SubSeq(s, i + a - 1, i + b - 1)
<1> DEFINE r == SubSeq(s, i, k)
           u == SubSeq(r, a, b)
           v == SubSeq(s, i + a - 1, i + b - 1)
<1>1. r \in Seq(S) /\ Len(r) = k - i + 1 /\ \A n \in 1..k - i + 1 : r[n] = s[i + n - 1]
  BY PieceFacts
<1> HIDE DEF r
<1>2. u \in Seq(S) /\ Len(u) = b - a + 1 /\ \A n \in 1..b - a + 1 : u[n] = r[a + n - 1]
  BY <1>1, PieceFacts
<1>3. v \in Seq(S) /\ Len(v) = b - a + 1 /\ \A n \in 1..b - a + 1 : v[n] = s[i + a - 1 + n - 1]
  <2>1. PICK c \in 1..Len(s) + 1 : c = i + a - 1 /\ \E d \in c - 1..Len(s) : d = i + b - 1
    OBVIOUS
  <2>4. PICK d \in c - 1..Len(s) : d = i + b - 1
    BY <2>1
  <2>2. SubSeq(s, c, d) \in Seq(S) /\ Len(SubSeq(s, c, d)) = d - c + 1
        /\ \A n \in 1..d - c + 1 : SubSeq(s, c, d)[n] = s[c + n - 1]
    BY PieceFacts
  <2>3. d - c + 1 = b - a + 1 /\ v = SubSeq(s, c, d) /\ \A n \in 1..b - a + 1 : c + n - 1 = i + a - 1 + n - 1
    BY <2>1, <2>4
  <2> HIDE DEF v
  <2> QED
    BY <2>2, <2>3
<1> HIDE DEF u, v
<1>4. \A n \in 1..b - a + 1 : u[n] = v[n]
  <2> TAKE n \in 1..b - a + 1
  <2>1. a + n - 1 \in 1..k - i + 1 /\ i + (a + n - 1) - 1 = i + a - 1 + n - 1
    OBVIOUS
  <2>2. r[a + n - 1] = s[i + (a + n - 1) - 1]
    BY <1>1, <2>1
  <2> QED
    BY <1>2, <1>3, <2>1, <2>2
<1>5. u = v
  BY <1>2, <1>3, <1>4, SeqEqual
<1> QED
  BY <1>5 DEF u, v, r

\* A word is inserted with all nodes on the way to it.
LEMMA InsertCloses ==
  ASSUME NEW D, Closed(D), NEW word \in Seq(Nat)
  PROVE  Closed(D \cup NodesTo(word))
<1>1. ASSUME NEW n \in 1..Len(word)
      PROVE  /\ SubSeq(word, 1, n) \in Seq(Nat) /\ Len(SubSeq(word, 1, n)) = n
             /\ \A k \in 1..n : SubSeq(SubSeq(word, 1, n), 1, k) = SubSeq(word, 1, k)
  <2>1. 1 \in 1..Len(word) + 1 /\ n \in 1 - 1..Len(word) /\ n - 1 + 1 = n
    OBVIOUS
  <2>2. SubSeq(word, 1, n) \in Seq(Nat) /\ Len(SubSeq(word, 1, n)) = n - 1 + 1
    BY <2>1, PieceFacts
  <2>3. ASSUME NEW k \in 1..n
        PROVE  SubSeq(SubSeq(word, 1, n), 1, k) = SubSeq(word, 1, k)
    BY <2>1, PieceOfPiece
  <2> QED
    BY <2>1, <2>2, <2>3
<1>2. ASSUME NEW path \in NodesTo(word)
      PROVE  path \in Seq(Nat) /\ \A k \in 1..Len(path) : SubSeq(path, 1, k) \in NodesTo(word)
  <2>1. PICK n \in 1..Len(word) : path = SubSeq(word, 1, n)
    BY DEF NodesTo
  <2>2. \A k \in 1..n : k \in 1..Len(word)
    OBVIOUS
  <2> QED
    BY <1>1, <2>1, <2>2 DEF NodesTo
<1> QED
  BY <1>2 DEF Closed

\* The steps of the dictionary keep the paths and the total.
LEMMA DictMoreStep ==
  ASSUME DictAssumption, DictInv, DictMore, Load \/ CannotOpen \/ InsertUserWord
  PROVE  DictMore'
<1>1. CASE Abort
  BY <1>1 DEF Abort, DictMore
<1>2. CASE LoadLine /\ ~Abort
  BY <1>2 DEF LoadLine, DictMore
<1>3. CASE CalculateWeights /\ ~Abort
  <2>0. CalculateWeights /\ ~Abort
    BY <1>3
  <2>3. static # <<>> /\ 0 \notin ToSet(Freqs)
    BY <2>0, Zenon DEF CalculateWeights
  <2>4. /\ trie' = trie
        /\ weights' = [total |-> Total, min |-> AtRank(0), user |-> AtRank(Len(static) \div 2)]
    BY <2>0, Zenon DEF CalculateWeights
  <2>1. trie' = trie /\ weights'.total = Total /\ static # <<>> /\ 0 \notin ToSet(Freqs)
    BY <2>3, <2>4
  <2>2. Total \in Nat \ {0}
    BY <2>1, TotalFacts DEF DictInv, DictTypes
  <2> QED
    BY <2>1, <2>2 DEF DictMore
<1>4. CASE LoadUserLine
  BY <1>4 DEF LoadUserLine, DictMore
<1>5. CASE UserLoaded \/ TrieCreated
  BY <1>5 DEF UserLoaded, TrieCreated, DictMore
<1>6. ASSUME NEW word \in Seq(Nat), NEW p, trie' = InsertNode(word, p), stage' = stage, weights' = weights
      PROVE  DictMore'
  BY <1>6, InsertCloses DEF InsertNode, DictMore
<1>7. CASE InsertStatic
  <2>1. lineno + 1 \in DOMAIN static
    BY <1>7 DEF InsertStatic, DictInv, DictTypes
  <2>2. static[lineno + 1] \in Units
    BY <2>1 DEF DictInv, DictTypes
  <2>3. static[lineno + 1].word \in Seq(Nat)
    BY <2>2 DEF Units
  <2> QED
    BY <1>6, <1>7, <2>3 DEF InsertStatic
<1>8. CASE InsertUserWord
  <2>1. PICK bytes \in UserWords : trie' = InsertNode(Decode(bytes), Active(Len(active) + 1))
    BY <1>8 DEF InsertUserWord
  <2>2. Decode(bytes) \in Seq(Nat)
    BY DecodeType DEF DictAssumption
  <2>3. stage' = stage /\ weights' = weights
    BY <1>8 DEF InsertUserWord
  <2> QED
    BY <1>6, <2>1, <2>2, <2>3
<1> QED
  BY <1>1, <1>2, <1>3, <1>4, <1>5, <1>7, <1>8 DEF Load, CannotOpen

\* No trie yet, and no total needed.
LEMMA DictMoreInit == ASSUME DictInit PROVE DictMore
<1>1. stage = "dict" /\ trie = <<>>
  BY DEF DictInit
<1>2. DOMAIN trie = {}
  BY <1>1
<1> QED
  BY <1>1, <1>2 DEF DictMore, Closed

\* Steps that leave the dictionary alone, or give up.
LEMMA DictMoreStays ==
  ASSUME DictMore, UNCHANGED dictVars \/ Abort
  PROVE  DictMore'
BY DEF dictVars, Abort, DictMore, Closed

\* The words of the units, by their places in the trie.
LEMMA DictWordsByEntries ==
  ASSUME DictTypes
  PROVE  /\ DictWords = {EntryWords[k] : k \in 1..Len(static) + Len(active)} \ {<<>>}
         /\ DictWords \subseteq Seq(Nat)
<1> DEFINE all == static \o active
           n == Len(static) + Len(active)
<1>1. Len(static) \in Nat /\ Len(active) \in Nat
  BY DEF DictTypes
<1>2. /\ Len(all) = n /\ DOMAIN all = 1..n
      /\ \A k \in 1..n : all[k] = IF k <= Len(static) THEN static[k] ELSE active[k - Len(static)]
  BY DEF DictTypes
<1>3. \A k \in 1..n : EntryWords[k] = all[k].word
  <2> TAKE k \in 1..n
  <2>1. EntryWords[k] = IF k <= Len(static) THEN static[k].word ELSE active[k - Len(static)].word
    BY DEF EntryWords
  <2>2. all[k] = IF k <= Len(static) THEN static[k] ELSE active[k - Len(static)]
    BY <1>2
  <2> HIDE DEF all
  <2> QED
    BY <2>1, <2>2
<1>4. ToSet(all) = {all[k] : k \in 1..n}
  BY <1>2 DEF ToSet
<1>5. DictWords = {unit.word : unit \in ToSet(all)} \ {<<>>}
  BY DEF DictWords
<1>6. \A k \in 1..n : EntryWords[k] \in Seq(Nat)
  BY EntryFacts
<1> HIDE DEF all, n
<1>7. {unit.word : unit \in ToSet(all)} = {EntryWords[k] : k \in 1..n}
  BY <1>3, <1>4
<1> QED
  BY <1>5, <1>6, <1>7 DEF n

\* Once the trie is there, a look-up finds the words of the dictionary and no others.
LEMMA FoundAreWords ==
  ASSUME DictInv, stage = "ready", NEW path
  PROVE  Find(path) # None <=> path \in DictWords
<1> DEFINE n == Len(static) + Len(active)
<1>1. Holds(trie, Entries, EntryWords, n)
  BY DEF DictInv, TrieIsRight
<1>2. DictWords = {EntryWords[k] : k \in 1..n} \ {<<>>}
  BY DictWordsByEntries DEF DictInv
<1> HIDE DEF n
<1>3. ASSUME Find(path) # None PROVE path \in DictWords
  BY <1>3, <1>1, <1>2 DEF Find, Holds
<1>4. ASSUME path \in DictWords PROVE Find(path) # None
  BY <1>2, <1>4, <1>1 DEF Holds, Find
<1> QED
  BY <1>3, <1>4

\* The walk through the trie comes by every word that is not too long, for
\* the nodes on the way to a word are there.
LEMMA NextsAreWords ==
  ASSUME DictInv, DictMore, stage = "ready", NEW s \in Seq(Nat), NEW i \in 1..Len(s), NEW max
  PROVE  Nexts(s, i, max) =
           {i} \cup {j \in i + 1..Len(s) : j - i + 1 <= max /\ SubSeq(s, i, j) \in DictWords}
<1>1. ASSUME NEW j \in i + 1..Len(s)
      PROVE  (\A k \in i + 1..j : SubSeq(s, i, k) \in DOMAIN trie) /\ Find(SubSeq(s, i, j)) # None
               <=> SubSeq(s, i, j) \in DictWords
  <2> DEFINE word == SubSeq(s, i, j)
  <2>1. Find(word) # None <=> word \in DictWords
    BY FoundAreWords
  <2>2. ASSUME Find(word) # None, NEW k \in i + 1..j PROVE SubSeq(s, i, k) \in DOMAIN trie
    <3>1. word \in DOMAIN trie
      BY <2>2 DEF Find
    <3>2. i \in 1..Len(s) + 1 /\ j \in i - 1..Len(s)
      OBVIOUS
    <3>3. Len(word) = j - i + 1
      BY <3>2, PieceFacts
    <3>4. PICK m \in 1..j - i + 1 : m = k - i + 1
      OBVIOUS
    <3>5. SubSeq(word, 1, m) \in DOMAIN trie
      <4> HIDE DEF word
      <4> QED
        BY <3>1, <3>3, <3>4 DEF DictMore, Closed
    <3>6. SubSeq(word, 1, m) = SubSeq(s, i + 1 - 1, i + m - 1)
      BY <3>2, PieceOfPiece
    <3>7. i + 1 - 1 = i /\ i + m - 1 = k
      BY <3>4
    <3> HIDE DEF word
    <3> QED
      BY <3>5, <3>6, <3>7
  <2> QED
    BY <2>1, <2>2
<1> QED
  BY <1>1 DEF Nexts

-----------------------------------------------------------------------------
(* Weights are compared as fractions. *)

\* What is not less than what is not less.
LEMMA FractionTrans ==
  ASSUME NEW a \in Nat, NEW b \in Nat, NEW c \in Nat,
         NEW x \in Nat \ {0}, NEW y \in Nat \ {0}, NEW z \in Nat \ {0},
         b * x <= a * y, c * y <= b * z
  PROVE  c * x <= a * z
<1>1. (c * y) * x <= (b * z) * x
  <2>1. PICK p \in Nat, q \in Nat : p = c * y /\ q = b * z
    OBVIOUS
  <2> QED
    BY <2>1
<1>2. (b * x) * z <= (a * y) * z
  <2>1. PICK p \in Nat, q \in Nat : p = b * x /\ q = a * y
    OBVIOUS
  <2> QED
    BY <2>1
<1>3. (c * x) * y <= (a * z) * y
  BY <1>1, <1>2
<1>4. PICK p \in Nat, q \in Nat : p = c * x /\ q = a * z
  OBVIOUS
<1>5. p * y <= q * y => p <= q
  OBVIOUS
<1> QED
  BY <1>3, <1>4, <1>5

\* Products of what is not less.
LEMMA FractionTimes ==
  ASSUME NEW a \in Nat, NEW b \in Nat, NEW c \in Nat, NEW d \in Nat,
         NEW x \in Nat, NEW y \in Nat, NEW z \in Nat, NEW w \in Nat,
         b * x <= a * y, d * z <= c * w
  PROVE  (b * d) * (x * z) <= (a * c) * (y * w)
<1>1. PICK p \in Nat, q \in Nat, r \in Nat, s \in Nat : p = b * x /\ q = a * y /\ r = d * z /\ s = c * w
  OBVIOUS
<1>2. p * r <= q * s
  BY <1>1
<1>3. p * r = (b * d) * (x * z)
  BY <1>1
<1>4. q * s = (a * c) * (y * w)
  BY <1>1
<1> QED
  BY <1>2, <1>3, <1>4

\* The weight of a sequence of words.
Worth(v) == v.num \in Nat /\ v.len \in Nat

\* Weights are totally ordered.
LEMMA LessTrans ==
  ASSUME weights.total \in Nat \ {0}, NEW u, NEW v, NEW w, Worth(u), Worth(v), Worth(w),
         ~Less(u, v), ~Less(v, w)
  PROVE  ~Less(u, w)
<1>1. PICK x \in Nat \ {0}, y \in Nat \ {0}, z \in Nat \ {0} :
        x = TotalTo(u.len) /\ y = TotalTo(v.len) /\ z = TotalTo(w.len)
  BY TotalToFacts DEF Worth
<1>2. PICK a \in Nat, b \in Nat, c \in Nat : a = u.num /\ b = v.num /\ c = w.num
  BY DEF Worth
<1>3. ~(a * y < b * x) /\ ~(b * z < c * y)
  BY <1>1, <1>2 DEF Less
<1>4. b * x <= a * y /\ c * y <= b * z
  <2>1. PICK p \in Nat, q \in Nat, r \in Nat, s \in Nat : p = a * y /\ q = b * x /\ r = b * z /\ s = c * y
    OBVIOUS
  <2> QED
    BY <1>3, <2>1
<1>5. c * x <= a * z
  BY <1>4, FractionTrans
<1>6. ~(a * z < c * x)
  <2>1. PICK p \in Nat, q \in Nat : p = a * z /\ q = c * x
    OBVIOUS
  <2> QED
    BY <1>5, <2>1
<1> QED
  BY <1>1, <1>2, <1>6 DEF Less

\* Of two ways only one weighs less than the other.
LEMMA LessOneWay ==
  ASSUME weights.total \in Nat \ {0}, NEW u, NEW v, Worth(u), Worth(v), Less(u, v)
  PROVE  ~Less(v, u)
<1>1. PICK x \in Nat, y \in Nat : x = TotalTo(u.len) /\ y = TotalTo(v.len)
  BY TotalToFacts DEF Worth
<1>2. PICK p \in Nat, q \in Nat : p = u.num * y /\ q = v.num * x
  BY DEF Worth
<1> QED
  BY <1>1, <1>2 DEF Less

\* Powers add up.
LEMMA TotalToAdds ==
  ASSUME weights.total \in Nat \ {0}, NEW m \in Nat, NEW n \in Nat
  PROVE  TotalTo(m + n) = TotalTo(m) * TotalTo(n)
<1> DEFINE Good == {k \in 0..n : TotalTo(m + k) = TotalTo(m) * TotalTo(k)}
<1>1. 0 \in Good
  BY TotalToFacts
<1>2. ASSUME NEW k \in 0 + 1..n, k - 1 \in Good PROVE k \in Good
  <2>1. k - 1 \in Nat /\ m + (k - 1) \in Nat /\ (k - 1) + 1 = k /\ (m + (k - 1)) + 1 = m + k
    OBVIOUS
  <2>2. PICK x \in Nat, y \in Nat, t \in Nat : x = TotalTo(m) /\ y = TotalTo(k - 1) /\ t = weights.total
    BY <2>1, TotalToFacts
  <2>3. TotalTo(m + (k - 1)) = x * y
    BY <1>2, <2>2
  <2>4. TotalTo(k) = t * y /\ TotalTo(m + k) = t * (x * y)
    BY <2>1, <2>2, <2>3, TotalToFacts
  <2>5. t * (x * y) = x * (t * y)
    OBVIOUS
  <2> QED
    BY <2>2, <2>4, <2>5
<1>3. 0 \in Nat
  OBVIOUS
<1> HIDE DEF Good
<1>4. n \in Good
  BY <1>1, <1>2, <1>3, UpReach
<1> QED
  BY <1>4 DEF Good

\* One after the other, the better parts make the better whole.
LEMMA LessTogether ==
  ASSUME weights.total \in Nat \ {0},
         NEW u, NEW v, NEW w, NEW x, Worth(u), Worth(v), Worth(w), Worth(x),
         ~Less(u, v), ~Less(w, x),
         NEW uw, uw.num = u.num * w.num, uw.len = u.len + w.len,
         NEW vx, vx.num = v.num * x.num, vx.len = v.len + x.len
  PROVE  ~Less(uw, vx)
<1>1. PICK a \in Nat, b \in Nat, c \in Nat, d \in Nat : a = u.num /\ b = v.num /\ c = w.num /\ d = x.num
  BY DEF Worth
<1>2. PICK tu \in Nat, tv \in Nat, tw \in Nat, tx \in Nat :
        tu = TotalTo(u.len) /\ tv = TotalTo(v.len) /\ tw = TotalTo(w.len) /\ tx = TotalTo(x.len)
  BY TotalToFacts DEF Worth
<1>3. b * tu <= a * tv /\ d * tw <= c * tx
  <2>1. PICK p \in Nat, q \in Nat, r \in Nat, s \in Nat : p = a * tv /\ q = b * tu /\ r = c * tx /\ s = d * tw
    OBVIOUS
  <2>2. ~(p < q) /\ ~(r < s)
    BY <1>1, <1>2, <2>1 DEF Less
  <2> QED
    BY <2>1, <2>2
<1>4. (b * d) * (tu * tw) <= (a * c) * (tv * tx)
  BY <1>3, FractionTimes
<1>5. TotalTo(uw.len) = tu * tw /\ TotalTo(vx.len) = tv * tx
  <2>1. u.len \in Nat /\ v.len \in Nat /\ w.len \in Nat /\ x.len \in Nat
    BY DEF Worth
  <2>2. TotalTo(u.len + w.len) = tu * tw
    BY <1>2, <2>1, TotalToAdds
  <2>3. TotalTo(v.len + x.len) = tv * tx
    BY <1>2, <2>1, TotalToAdds
  <2> QED
    BY <2>2, <2>3
<1>6. ~((a * c) * (tv * tx) < (b * d) * (tu * tw))
  <2>1. PICK p \in Nat, q \in Nat : p = (a * c) * (tv * tx) /\ q = (b * d) * (tu * tw)
    OBVIOUS
  <2> QED
    BY <1>4, <2>1
<1> QED
  BY <1>1, <1>5, <1>6 DEF Less

-----------------------------------------------------------------------------
(* What CalcDP chooses. *)

\* An entry that is one of those at i, and none is better.
IsBestEnd(s, i, maxLen, rest, end) ==
  /\ end \in Nexts(s, i, maxLen)
  /\ \A j \in Nexts(s, i, maxLen) :
       ~Less(DagValue(s, i, end, rest[end + 1 - i]), DagValue(s, i, j, rest[j + 1 - i]))

\* What an entry is worth.
LEMMA DagWorth ==
  ASSUME DictInv, NEW s, NEW i, NEW j, NEW follow \in Bests
  PROVE  Worth(DagValue(s, i, j, follow))
<1>1. PICK freq \in Nat : freq = FreqAt(Find(SubSeq(s, i, j)))
  BY FoundFacts
<1>2. PICK m \in Nat, n \in Nat : m = follow.num /\ n = follow.len
  BY DEF Bests
<1>3. DagValue(s, i, j, follow) = [num |-> m * freq, len |-> n + 1]
  BY <1>1, <1>2 DEF DagValue
<1>4. m * freq \in Nat /\ n + 1 \in Nat
  OBVIOUS
<1> QED
  BY <1>3, <1>4 DEF Worth

\* The walk over the entries keeps a best one.
LEMMA BestEndIsBest ==
  ASSUME DictInv, weights.total \in Nat \ {0}, NEW s \in Seq(Nat), NEW i \in 1..Len(s), NEW maxLen,
         NEW rest \in Seq(Bests), Len(rest) = Len(s) - i + 1
  PROVE  IsBestEnd(s, i, maxLen, rest, BestEnd(s, i, maxLen, rest))
<1> DEFINE Val(j) == DagValue(s, i, j, rest[j + 1 - i])
           Beats(j, e) == j \in Nexts(s, i, maxLen) /\ Less(Val(e), Val(j))
           Step(f, j) == IF j = i THEN i ELSE IF Beats(j, f[j - 1]) THEN j ELSE f[j - 1]
           V == i..Len(s)
           G == [t \in (i + 1..Len(s)) \X V |-> IF Beats(t[1], t[2]) THEN t[1] ELSE t[2]]
<1>1. BestEnd(s, i, maxLen, rest) = (CHOOSE f : f = [j \in i..Len(s) |-> Step(f, j)])[Len(s)]
  BY DEF BestEnd
<1>0. Nexts(s, i, maxLen) \subseteq i..Len(s) /\ i \in Nexts(s, i, maxLen)
  BY DEF Nexts
<1>W. ASSUME NEW j \in i..Len(s) PROVE Worth(Val(j))
  BY DagWorth
<1> HIDE DEF Val
<1>B. \A j, e : Beats(j, e) <=> j \in Nexts(s, i, maxLen) /\ Less(Val(e), Val(j))
  OBVIOUS
<1> HIDE DEF Beats
<1>2. G \in [(i + 1..Len(s)) \X V -> V]
  <2>1. \A t \in (i + 1..Len(s)) \X V : t[1] \in V /\ t[2] \in V
    OBVIOUS
  <2> HIDE DEF V
  <2> QED
    BY <2>1
<1>3. PICK f \in [i..Len(s) -> V] : Climbs(i, Len(s), i, G, f)
  <2>1. i \in Nat /\ Len(s) \in Nat /\ i <= Len(s) /\ i \in V
    OBVIOUS
  <2> HIDE DEF G, V
  <2> QED
    BY <1>2, <2>1, UpExists
<1>4. f = [j \in i..Len(s) |-> Step(f, j)]
  <2>1. \A j \in i..Len(s) : f[j] = Step(f, j)
    <3> TAKE j \in i..Len(s)
    <3>1. f[j] = IF j = i THEN i ELSE G[<<j, f[j - 1]>>]
      <4> HIDE DEF G, Step
      <4> QED
        BY <1>3 DEF Climbs
    <3>2. j # i => <<j, f[j - 1]>> \in (i + 1..Len(s)) \X V
      <4>1. j # i => j \in i + 1..Len(s) /\ j - 1 \in i..Len(s)
        OBVIOUS
      <4>2. j # i => f[j - 1] \in V
        BY <1>3, <4>1
      <4> HIDE DEF V
      <4> QED
        BY <4>1, <4>2
    <3>3. j # i => G[<<j, f[j - 1]>>] = IF Beats(j, f[j - 1]) THEN j ELSE f[j - 1]
      <4> HIDE DEF V
      <4> QED
        BY <3>2
    <3> HIDE DEF G
    <3> QED
      BY <3>1, <3>3
  <2> HIDE DEF Step
  <2> QED
    BY <1>3, <2>1
<1>5. PICK e : e = [j \in i..Len(s) |-> Step(e, j)] /\ BestEnd(s, i, maxLen, rest) = e[Len(s)]
  <2> HIDE DEF Step
  <2> QED
    BY <1>1, <1>4
<1>6. \A j \in i..Len(s) : e[j] = Step(e, j)
  <2> HIDE DEF Step
  <2> QED
    BY <1>5
<1> DEFINE Best(x, j) == /\ x \in Nexts(s, i, maxLen)
                         /\ \A k \in i..j : k \in Nexts(s, i, maxLen) => ~Less(Val(x), Val(k))
           Good == {j \in i..Len(s) : Best(e[j], j)}
<1>L. ASSUME NEW j \in i..Len(s) PROVE ~Less(Val(j), Val(j))
  BY <1>W, LessOneWay
<1>7. i \in Good
  BY <1>6, <1>0, <1>L
<1>8. ASSUME NEW j \in i + 1..Len(s), j - 1 \in Good PROVE j \in Good
  <2>1. j \in i..Len(s) /\ j # i /\ j - 1 \in i..Len(s) /\ \A k \in i..j : k = j \/ k \in i..j - 1
    OBVIOUS
  <2>2. PICK x : x = e[j - 1] /\ Best(x, j - 1)
    BY <1>8
  <2>3. x \in i..Len(s)
    BY <1>0, <2>2
  <2>4. e[j] = IF Beats(j, x) THEN j ELSE x
    BY <1>6, <2>1, <2>2
  <2>5. CASE Beats(j, x)
    <3>1. e[j] = j /\ j \in Nexts(s, i, maxLen) /\ Less(Val(x), Val(j))
      BY <1>B, <2>4, <2>5
    <3>2. ~Less(Val(j), Val(x))
      BY <1>W, <2>1, <2>3, <3>1, LessOneWay
    <3>3. ASSUME NEW k \in i..j, k \in Nexts(s, i, maxLen) PROVE ~Less(Val(j), Val(k))
      <4>1. CASE k = j
        BY <1>L, <2>1, <4>1
      <4>2. CASE k \in i..j - 1
        BY <2>2, <3>3, <4>2, <1>W, <2>1, <2>3, <3>2, LessTrans
      <4> QED
        BY <2>1, <4>1, <4>2
    <3> QED
      BY <2>1, <3>1, <3>3
  <2>6. CASE ~Beats(j, x)
    BY <1>B, <2>4, <2>6, <2>1, <2>2
  <2> QED
    BY <2>5, <2>6
<1>9. Len(s) \in Good
  <2>1. i \in Nat /\ Len(s) \in Nat /\ Len(s) \in i..Len(s)
    OBVIOUS
  <2> HIDE DEF Good
  <2> QED
    BY <1>7, <1>8, <2>1, UpReach
<1>10. PICK x : x = BestEnd(s, i, maxLen, rest) /\ Best(x, Len(s))
  BY <1>5, <1>9
<1>11. x \in Nexts(s, i, maxLen) /\ \A k \in Nexts(s, i, maxLen) : ~Less(Val(x), Val(k))
  BY <1>0, <1>10
<1> QED
  BY <1>10, <1>11 DEF IsBestEnd, Val

\* A table that is right at each position: the choice at i ends at t[i].at, no
\* other is better, and its worth counts all that follows.
IsChoice(s, i, maxLen, t) ==
  LET Val(j) == DagValue(s, i, j, t[j + 1]) IN
  /\ t[i].at \in Nexts(s, i, maxLen)
  /\ t[i].num = Val(t[i].at).num /\ t[i].len = Val(t[i].at).len
  /\ \A j \in Nexts(s, i, maxLen) : ~Less(t[i], Val(j))

IsTable(s, maxLen, t) ==
  /\ t \in Seq(Bests) /\ Len(t) = Len(s) + 1
  /\ t[Len(s) + 1].num = 1 /\ t[Len(s) + 1].len = 0
  /\ \A i \in 1..Len(s) : IsChoice(s, i, maxLen, t)

\* CalcDP's table is.
LEMMA CalcDPIsTable ==
  ASSUME DictInv, weights.total \in Nat \ {0}, NEW s \in Seq(Nat), NEW maxLen
  PROVE  IsTable(s, maxLen, CalcDP(s, maxLen))
<1> DEFINE N == Len(s)
<1>1. PICK g : AreTables(s, maxLen, g) /\ CalcDP(s, maxLen) = g[N]
  BY CalcDPByTables
<1>2. N \in Nat
  OBVIOUS
<1>3. \A n \in 0..N : g[n] \in Seq(Bests) /\ Len(g[n]) = n + 1
  BY <1>1 DEF AreTables
<1>4. ASSUME NEW n \in 1..N
      PROVE  /\ IsOneMore(N, n, g[n - 1], g[n])
             /\ g[n] = OneMore(s, maxLen, n, g[n - 1])
             /\ g[n - 1] \in Seq(Bests) /\ Len(g[n - 1]) = n
  <2>1. n - 1 \in 0..N /\ (n - 1) + 1 = n
    OBVIOUS
  <2>2. PICK rest \in Seq(Bests) : rest = g[n - 1] /\ Len(rest) = n
    BY <1>3, <2>1
  <2>3. g[n] = OneMore(s, maxLen, n, rest)
    BY <1>1, <2>2 DEF AreTables
  <2>4. IsOneMore(N, n, rest, OneMore(s, maxLen, n, rest))
    BY <2>2, OneMoreFacts
  <2> QED
    BY <2>2, <2>3, <2>4
<1>5. \A n \in 1..N : \A k \in 1..n : g[n][k + 1] = g[n - 1][k]
  BY <1>4 DEF IsOneMore
<1> HIDE DEF N
\* What a table holds stays in the later ones.
<1>6. ASSUME NEW n \in 0..N PROVE \A k \in 1..n + 1 : g[N][N - n + k] = g[n][k]
  <2> DEFINE Good == {m \in n..N : \A k \in 1..n + 1 : g[m][m - n + k] = g[n][k]}
  <2>1. n \in Good
    BY <1>2
  <2>2. ASSUME NEW m \in n + 1..N, m - 1 \in Good PROVE m \in Good
    <3>1. m \in 1..N /\ m \in n..N
      BY <1>2
    <3>2. ASSUME NEW k \in 1..n + 1 PROVE g[m][m - n + k] = g[n][k]
      <4>1. PICK q \in 1..m : q = (m - 1) - n + k
        BY <1>2
      <4>2. q + 1 = m - n + k
        BY <1>2, <4>1
      <4>3. g[m][q + 1] = g[m - 1][q]
        BY <1>5, <3>1
      <4>4. g[m - 1][(m - 1) - n + k] = g[n][k]
        BY <2>2
      <4> QED
        BY <4>1, <4>2, <4>3, <4>4
    <3> QED
      BY <3>1, <3>2
  <2>3. n \in Nat /\ N \in n..N
    BY <1>2
  <2> HIDE DEF Good
  <2>4. N \in Good
    BY <1>2, <2>1, <2>2, <2>3, UpReach
  <2> QED
    BY <2>4 DEF Good
<1>7. PICK t \in Seq(Bests) : t = g[N] /\ Len(t) = N + 1
  BY <1>2, <1>3
<1>8. t[N + 1].num = 1 /\ t[N + 1].len = 0
  BY <1>2, <1>6, <1>1, <1>7 DEF AreTables
<1>9. ASSUME NEW i \in 1..N PROVE IsChoice(s, i, maxLen, t)
  <2>1. PICK n \in 1..N : n = N - i + 1
    BY <1>2
  <2>2. PICK rest \in Seq(Bests) : rest = g[n - 1] /\ Len(rest) = n
    BY <1>4
  <2>3. g[n] = OneMore(s, maxLen, n, rest)
    BY <1>4, <2>2
  <2>4. i = Len(s) - n + 1 /\ i \in 1..Len(s) /\ Len(rest) = Len(s) - i + 1
    BY <1>2, <2>1, <2>2 DEF N
  <2>5. PICK end : end = BestEnd(s, i, maxLen, rest) /\ IsBestEnd(s, i, maxLen, rest, end)
    BY <2>4, BestEndIsBest
  <2>6. PICK val : val = DagValue(s, i, end, rest[end + 1 - i])
    OBVIOUS
  <2>7. g[n] = <<[num |-> val.num, len |-> val.len, at |-> end]>> \o rest
    BY <2>3, <2>4, <2>5, <2>6 DEF OneMore
  <2>8. PICK best : best = [num |-> val.num, len |-> val.len, at |-> end] /\ g[n][1] = best
    <3>1. g[n] = <<[num |-> val.num, len |-> val.len, at |-> end]>> \o rest
      BY <2>7
    <3>2. PICK b : b = [num |-> val.num, len |-> val.len, at |-> end]
      OBVIOUS
    <3>3. b \in Bests
      <4>1. end \in Nexts(s, i, maxLen)
        BY <2>5 DEF IsBestEnd
      <4>2. end \in i..Len(s)
        BY <2>4, <4>1 DEF Nexts
      <4>3. end + 1 - i \in 1..Len(rest)
        BY <2>4, <4>2
      <4>4. Worth(val)
        BY <2>6, <4>3, DagWorth
      <4>5. end \in Nat
        BY <2>4, <4>2
      <4> QED
        BY <3>2, <4>4, <4>5 DEF Worth, Bests
    <3>4. (<<b>> \o rest)[1] = b
      <4> DEFINE B == Bests
      <4>1. b \in B /\ rest \in Seq(B)
        BY <3>3
      <4> HIDE DEF B
      <4> QED
        BY <4>1
    <3> QED
      BY <3>1, <3>2, <3>4
  <2>9. t[i] = best
    <3>1. 1 \in 1..n + 1 /\ N - n + 1 = i /\ n \in 0..N
      BY <1>2, <2>1
    <3>2. g[N][N - n + 1] = g[n][1]
      BY <1>6, <3>1
    <3> QED
      BY <1>7, <2>8, <3>1, <3>2
  <2>10. ASSUME NEW j \in i..N PROVE t[j + 1] = rest[j + 1 - i]
    <3>1. PICK m \in 0..N : m = n - 1
      BY <1>2
    <3>2. PICK k \in 1..m + 1 : k = j + 1 - i
      BY <1>2, <2>1, <3>1
    <3>3. g[N][N - m + k] = g[m][k]
      BY <1>6
    <3>4. N - m + k = j + 1
      BY <1>2, <2>1, <3>1, <3>2
    <3> QED
      BY <1>7, <2>2, <3>1, <3>2, <3>3, <3>4
  <2>11. Nexts(s, i, maxLen) \subseteq i..N
    BY <2>4 DEF Nexts, N
  <2>12. end \in Nexts(s, i, maxLen) /\ best.at = end /\ best.num = val.num /\ best.len = val.len
    BY <2>5, <2>8 DEF IsBestEnd
  <2>13. val = DagValue(s, i, end, t[end + 1])
    BY <2>6, <2>10, <2>11, <2>12
  <2>14. ASSUME NEW j \in Nexts(s, i, maxLen) PROVE ~Less(t[i], DagValue(s, i, j, t[j + 1]))
    BY <2>5, <2>6, <2>10, <2>11, <2>9, <2>12 DEF IsBestEnd, Less
  <2> QED
    BY <2>9, <2>12, <2>13, <2>14 DEF IsChoice
<1> QED
  BY <1>1, <1>7, <1>8, <1>9 DEF IsTable, N

-----------------------------------------------------------------------------
(* All ways to cut a text. *)

\* What a value needs lies behind it.
LooksAhead(N, V, G) ==
  \A i \in 1..N : \A f, g \in [1..N + 1 -> V] :
    (\A j \in i + 1..N + 1 : f[j] = g[j]) => G[<<i, f>>] = G[<<i, g>>]

Descends(N, z, G, f) == f = [i \in 1..N + 1 |-> IF i > N THEN z ELSE G[<<i, f>>]]

\* Values that are made from those behind them define a function.
LEMMA DownExists ==
  ASSUME NEW N \in Nat, NEW V, NEW z \in V, NEW G \in [(1..N) \X [1..N + 1 -> V] -> V], LooksAhead(N, V, G)
  PROVE  \E f \in [1..N + 1 -> V] : Descends(N, z, G, f)
<1> DEFINE Step(f, i) == IF i > N THEN z ELSE G[<<i, f>>]
           From(n) == \E f \in [1..N + 1 -> V] : \A i \in N + 1 - n..N + 1 : f[i] = Step(f, i)
           Good == {n \in 0..N : From(n)}
<1>1. 0 \in Good
  <2> DEFINE f == [i \in 1..N + 1 |-> z]
  <2>1. f \in [1..N + 1 -> V]
    OBVIOUS
  <2>2. \A i \in N + 1 - 0..N + 1 : i \in 1..N + 1 /\ i > N
    OBVIOUS
  <2>3. \A i \in N + 1 - 0..N + 1 : f[i] = Step(f, i)
    BY <2>2
  <2> HIDE DEF f, Step
  <2> QED
    BY <2>1, <2>3
<1>2. ASSUME NEW n \in 0 + 1..N, n - 1 \in Good PROVE n \in Good
  <2>1. PICK f \in [1..N + 1 -> V] : \A i \in N + 1 - (n - 1)..N + 1 : f[i] = Step(f, i)
    BY <1>2
  <2>2. PICK k \in 1..N : k = N + 1 - n
    OBVIOUS
  <2>3. PICK v \in V : v = G[<<k, f>>]
    OBVIOUS
  <2>4. PICK h \in [1..N + 1 -> V] : h = [f EXCEPT ![k] = v]
    OBVIOUS
  <2>5. k \in 1..N + 1 /\ h[k] = v /\ \A i \in 1..N + 1 : i # k => h[i] = f[i]
    BY <2>4
  <2>6. ASSUME NEW i \in N + 1 - n..N + 1 PROVE h[i] = Step(h, i)
    <3>1. CASE i = k
      <4>1. \A j \in k + 1..N + 1 : h[j] = f[j]
        BY <2>5
      <4>2. G[<<k, h>>] = G[<<k, f>>]
        BY <4>1 DEF LooksAhead
      <4> QED
        BY <2>3, <2>5, <3>1, <4>2
    <3>2. CASE i # k
      <4>1. i \in N + 1 - (n - 1)..N + 1 /\ i \in 1..N + 1
        BY <2>2, <3>2
      <4>2. h[i] = f[i] /\ f[i] = Step(f, i)
        BY <2>1, <2>5, <3>2, <4>1
      <4>3. i <= N => G[<<i, h>>] = G[<<i, f>>]
        <5>1. SUFFICES ASSUME i <= N PROVE G[<<i, h>>] = G[<<i, f>>]
          OBVIOUS
        <5>2. i \in 1..N /\ \A j \in i + 1..N + 1 : h[j] = f[j]
          BY <2>2, <2>5, <4>1, <5>1
        <5> QED
          BY <5>2 DEF LooksAhead
      <4> QED
        BY <4>1, <4>2, <4>3
    <3> QED
      BY <3>1, <3>2
  <2>7. n \in 0..N
    OBVIOUS
  <2> HIDE DEF Step
  <2> QED
    BY <2>6, <2>7
<1>3. N \in Good
  <2>1. 0 \in Nat /\ N \in 0..N
    OBVIOUS
  <2> HIDE DEF Good
  <2> QED
    BY <1>1, <1>2, <2>1, UpReach
<1>4. PICK f \in [1..N + 1 -> V] : \A i \in N + 1 - N..N + 1 : f[i] = Step(f, i)
  BY <1>3
<1>5. N + 1 - N = 1
  OBVIOUS
<1>6. f = [i \in 1..N + 1 |-> Step(f, i)]
  <2> HIDE DEF Step
  <2> QED
    BY <1>4, <1>5
<1> QED
  BY <1>6 DEF Descends

WayType == [words : Seq(Seq(Nat)), num : Nat, len : Nat]

NoWords == [words |-> <<>>, num |-> 1, len |-> 0]

\* Where a word of a way may end.
WayEnds(s, words, max, i) ==
  {j \in i..Len(s) : j = i \/ (j - i + 1 <= max /\ SubSeq(s, i, j) \in words)}

\* F is the ways from each position on.
AreWays(s, words, max, F) ==
  /\ F \in [1..Len(s) + 1 -> SUBSET WayType]
  /\ F[Len(s) + 1] = {NoWords}
  /\ \A i \in 1..Len(s) : \A way :
       way \in F[i] <=> \E j \in WayEnds(s, words, max, i) : \E rest \in F[j + 1] :
                          way = InFront(SubSeq(s, i, j), rest)

\* One more word keeps the type.
LEMMA InFrontType ==
  ASSUME DictInv, NEW word \in Seq(Nat), NEW rest \in WayType
  PROVE  InFront(word, rest) \in WayType
<1>1. PICK freq \in Nat : freq = FreqAt(Find(word))
  BY FoundFacts
<1>2. PICK ws \in Seq(Seq(Nat)), num \in Nat, len \in Nat : ws = rest.words /\ num = rest.num /\ len = rest.len
  BY DEF WayType
<1>3. InFront(word, rest) = [words |-> <<word>> \o ws, num |-> freq * num, len |-> len + 1]
  BY <1>1, <1>2 DEF InFront
<1>4. <<word>> \o ws \in Seq(Seq(Nat))
  BY SeqClosed, FlattenOne
<1>5. freq * num \in Nat /\ len + 1 \in Nat
  OBVIOUS
<1> QED
  BY <1>3, <1>4, <1>5 DEF WayType

WaysFrom(s, words, max, F) == AreWays(s, words, max, F) /\ Ways(s, words, max) = F[1]

\* The recursion of Ways defines them.
LEMMA WaysFacts ==
  ASSUME DictInv, NEW s \in Seq(Nat), NEW words, NEW max
  PROVE  \E F : WaysFrom(s, words, max, F)
<1> DEFINE N == Len(s)
           Ends(i) == {j \in i..Len(s) : j = i \/ (j - i + 1 <= max /\ SubSeq(s, i, j) \in words)}
           All(f, i) == UNION {{InFront(SubSeq(s, i, j), way) : way \in f[j + 1]} : j \in Ends(i)}
           Step(f, i) == IF i > Len(s) THEN {[words |-> <<>>, num |-> 1, len |-> 0]} ELSE All(f, i)
           V == SUBSET WayType
           z == {NoWords}
           G == [t \in (1..N) \X [1..N + 1 -> V] |-> All(t[2], t[1])]
<1>1. Ways(s, words, max) = (CHOOSE f : f = [i \in 1..Len(s) + 1 |-> Step(f, i)])[1]
  BY DEF Ways
<1>2. N \in Nat /\ z \in V
  BY DEF WayType, NoWords
<1>3. ASSUME NEW i \in 1..N, NEW f \in [1..N + 1 -> V]
      PROVE  All(f, i) \in V
  <2>1. ASSUME NEW j \in Ends(i), NEW way \in f[j + 1] PROVE InFront(SubSeq(s, i, j), way) \in WayType
    <3>1. i \in 1..Len(s) + 1 /\ j \in i - 1..Len(s) /\ j + 1 \in 1..N + 1
      OBVIOUS
    <3>2. SubSeq(s, i, j) \in Seq(Nat)
      BY <3>1, PieceFacts
    <3>3. way \in WayType
      BY <3>1
    <3> QED
      BY <3>2, <3>3, InFrontType
  <2> HIDE DEF Ends
  <2> QED
    BY <2>1
<1>4. ASSUME NEW i \in 1..N, NEW f \in [1..N + 1 -> V], NEW g \in [1..N + 1 -> V],
             \A j \in i + 1..N + 1 : f[j] = g[j]
      PROVE  All(f, i) = All(g, i)
  <2>1. \A j \in Ends(i) : f[j + 1] = g[j + 1]
    BY <1>4
  <2> HIDE DEF Ends
  <2>2. \A x : x \in All(f, i) <=> x \in All(g, i)
    BY <2>1
  <2> HIDE DEF All
  <2> QED
    BY <2>2
<1> HIDE DEF All
<1>5. G \in [(1..N) \X [1..N + 1 -> V] -> V]
  <2>1. \A t \in (1..N) \X [1..N + 1 -> V] : All(t[2], t[1]) \in V
    <3> TAKE t \in (1..N) \X [1..N + 1 -> V]
    <3>1. t[1] \in 1..N /\ t[2] \in [1..N + 1 -> V]
      OBVIOUS
    <3> HIDE DEF V, N
    <3> QED
      BY <1>3, <3>1
  <2> HIDE DEF V, N
  <2> QED
    BY <2>1
<1>G. ASSUME NEW i \in 1..N, NEW f \in [1..N + 1 -> V]
      PROVE  G[<<i, f>>] = All(f, i)
  <2>1. <<i, f>> \in (1..N) \X [1..N + 1 -> V]
    OBVIOUS
  <2> HIDE DEF V, N
  <2> QED
    BY <2>1
<1>6. LooksAhead(N, V, G)
  <2> HIDE DEF G, V, N
  <2>1. ASSUME NEW i \in 1..N, NEW f \in [1..N + 1 -> V], NEW g \in [1..N + 1 -> V],
               \A j \in i + 1..N + 1 : f[j] = g[j]
        PROVE  G[<<i, f>>] = G[<<i, g>>]
    <3>1. All(f, i) = All(g, i)
      BY <1>4, <2>1
    <3>2. G[<<i, f>>] = All(f, i) /\ G[<<i, g>>] = All(g, i)
      BY <1>G
    <3> QED
      BY <3>1, <3>2
  <2> QED
    BY <2>1 DEF LooksAhead
<1> HIDE DEF G
<1>7. PICK f \in [1..N + 1 -> V] : Descends(N, z, G, f)
  <2> HIDE DEF V, N, z
  <2> QED
    BY <1>2, <1>5, <1>6, DownExists
<1>8. f = [i \in 1..Len(s) + 1 |-> Step(f, i)]
  <2>1. \A i \in 1..N + 1 : (IF i > N THEN z ELSE G[<<i, f>>]) = Step(f, i)
    <3> TAKE i \in 1..N + 1
    <3>1. CASE i > N
      BY <3>1 DEF NoWords
    <3>2. CASE ~(i > N)
      BY <3>2, <1>G
    <3> QED
      BY <3>1, <3>2
  <2>2. \A i \in 1..N + 1 : f[i] = Step(f, i)
    <3> HIDE DEF Step, V, z
    <3>1. \A i \in 1..N + 1 : f[i] = IF i > N THEN z ELSE G[<<i, f>>]
      BY <1>7 DEF Descends
    <3> QED
      BY <2>1, <3>1
  <2> HIDE DEF Step, V
  <2> QED
    BY <1>7, <2>2
<1>9. PICK F : F = [i \in 1..Len(s) + 1 |-> Step(F, i)] /\ Ways(s, words, max) = F[1]
  <2> HIDE DEF Step
  <2> QED
    BY <1>1, <1>8
<1>10. \A i \in 1..N + 1 : F[i] = Step(F, i)
  <2> HIDE DEF Step
  <2> QED
    BY <1>9
<1>11. F[N + 1] = {NoWords} /\ \A i \in 1..N : F[i] = All(F, i)
  BY <1>2, <1>10 DEF NoWords
<1>12. F \in [1..N + 1 -> V]
  <2>D. DOMAIN F = 1..N + 1 /\ F = [i \in 1..N + 1 |-> F[i]]
    <3> HIDE DEF Step
    <3> QED
      BY <1>9
  <2> DEFINE Good == {n \in 0..N : \A i \in N + 1 - n..N + 1 : F[i] \in V}
  <2>1. 0 \in Good
    <3>1. \A i \in N + 1 - 0..N + 1 : i = N + 1
      BY <1>2
    <3>2. 0 \in 0..N
      BY <1>2
    <3> HIDE DEF V
    <3> QED
      BY <1>2, <1>11, <3>1, <3>2
  <2>2. ASSUME NEW n \in 0 + 1..N, n - 1 \in Good PROVE n \in Good
    <3>0. N + 1 - n \in 1..N
      BY <1>2
    <3>1. PICK k \in 1..N : k = N + 1 - n
      BY <3>0, Zenon
    <3>2. F[k] \in V
      <4> DEFINE f0 == [i \in 1..N + 1 |-> IF i > k THEN F[i] ELSE {}]
      <4>1. \A i \in 1..N + 1 : i > k => F[i] \in V
        <5>1. \A i \in 1..N + 1 : i > k => i \in N + 1 - (n - 1)..N + 1
          BY <1>2, <3>1
        <5> HIDE DEF V
        <5> QED
          BY <2>2, <5>1
      <4>2. f0 \in [1..N + 1 -> V]
        BY <4>1
      <4>3. All(F, k) = All(f0, k)
        <5>1. \A j \in Ends(k) : j + 1 \in 1..N + 1 /\ j + 1 > k
          BY <3>1
        <5>2. \A j \in Ends(k) : F[j + 1] = f0[j + 1]
          BY <5>1
        <5> HIDE DEF Ends, f0
        <5>3. \A x : x \in All(F, k) <=> x \in All(f0, k)
          BY <5>2 DEF All
        <5> QED
          BY <5>3
      <4>4. All(f0, k) \in V
        <5> HIDE DEF f0, V, N
        <5> QED
          BY <1>3, <4>2
      <4> HIDE DEF f0, V
      <4> QED
        BY <1>11, <4>3, <4>4
    <3>3. \A i \in N + 1 - n..N + 1 : i = k \/ i \in N + 1 - (n - 1)..N + 1
      BY <1>2, <3>1, SMTT(30)
    <3>4. n \in 0..N
      BY <1>2
    <3> HIDE DEF V
    <3> QED
      BY <2>2, <3>2, <3>3, <3>4
  <2>3. \A i \in 1..N + 1 : F[i] \in V
    <3>1. 0 \in Nat /\ N \in 0..N /\ N + 1 - N = 1
      BY <1>2
    <3> HIDE DEF Good
    <3>2. N \in Good
      BY <1>2, <2>1, <2>2, <3>1, UpReach
    <3> QED
      BY <3>1, <3>2 DEF Good
  <2> HIDE DEF V
  <2> QED
    BY <2>3, <2>D
<1>13. ASSUME NEW i \in 1..N, NEW way
       PROVE  way \in F[i] <=> \E j \in WayEnds(s, words, max, i) : \E rest \in F[j + 1] :
                                 way = InFront(SubSeq(s, i, j), rest)
  <2>1. F[i] = All(F, i)
    BY <1>11
  <2>2. Ends(i) = WayEnds(s, words, max, i)
    BY DEF WayEnds
  <2>3. way \in All(F, i) <=> \E j \in Ends(i) : \E rest \in F[j + 1] : way = InFront(SubSeq(s, i, j), rest)
    <3> HIDE DEF Ends
    <3> QED
      BY DEF All
  <2> HIDE DEF Ends
  <2> QED
    BY <2>1, <2>2, <2>3
<1> QED
  BY <1>9, <1>11, <1>12, <1>13 DEF AreWays, WaysFrom

\* What holds at the end, and at each place if it holds behind it, holds
\* everywhere.
LEMMA DownReach ==
  ASSUME NEW N \in Nat, NEW Good, N + 1 \in Good,
         \A i \in 1..N : (\A j \in i + 1..N + 1 : j \in Good) => i \in Good
  PROVE  \A i \in 1..N + 1 : i \in Good
<1> DEFINE All == {n \in 0..N : \A i \in N + 1 - n..N + 1 : i \in Good}
<1>1. 0 \in All
  OBVIOUS
<1>2. ASSUME NEW n \in 0 + 1..N, n - 1 \in All PROVE n \in All
  <2>1. PICK k \in 1..N : k = N + 1 - n
    OBVIOUS
  <2>2. \A j \in k + 1..N + 1 : j \in Good
    BY <1>2, <2>1
  <2>3. k \in Good
    BY <2>2
  <2> QED
    BY <2>1, <2>2, <2>3
<1>3. N \in All
  <2>1. 0 \in Nat /\ N \in 0..N
    OBVIOUS
  <2> HIDE DEF All
  <2> QED
    BY <1>1, <1>2, <2>1, UpReach
<1> QED
  BY <1>3

\* Where no entry is better, the word taken is the entry.
LEMMA DagWordIsEntry ==
  ASSUME DictInv, NEW s \in Seq(Nat), NEW maxLen, IsTable(s, maxLen, CalcDP(s, maxLen)),
         NEW i \in 1..Len(s), NEW j, j = CalcDP(s, maxLen)[i].at
  PROVE  j \in i..Len(s) /\ DagWord(s, maxLen, i) = SubSeq(s, i, j) /\ i + Len(DagWord(s, maxLen, i)) = j + 1
<1>1. j \in Nexts(s, i, maxLen)
  BY DEF IsTable, IsChoice
<1>2. j \in i..Len(s) /\ (j # i => Find(SubSeq(s, i, j)) # None)
  BY <1>1 DEF Nexts
<1>3. DagWord(s, maxLen, i) = SubSeq(s, i, j)
  BY <1>2, PieceOne, FoundFacts DEF DagWord
<1>4. Len(SubSeq(s, i, j)) = j - i + 1
  BY <1>2, PieceFacts
<1>5. i + Len(DagWord(s, maxLen, i)) = j + 1
  <2>1. PICK n \in Int : n = Len(DagWord(s, maxLen, i)) /\ n = j - i + 1
    BY <1>2, <1>3, <1>4
  <2> QED
    BY <1>2, <2>1
<1> QED
  BY <1>2, <1>3, <1>5

\* One more word in front of what is not better.
LEMMA LessInFront ==
  ASSUME DictInv, weights.total \in Nat \ {0}, NEW s, NEW i, NEW j,
         NEW follow \in Bests, NEW rest \in WayType, ~Less(follow, rest)
  PROVE  ~Less(DagValue(s, i, j, follow), InFront(SubSeq(s, i, j), rest))
<1>1. PICK freq \in Nat : freq = FreqAt(Find(SubSeq(s, i, j)))
  BY FoundFacts
<1>2. PICK one : one = [num |-> freq, len |-> 1]
  OBVIOUS
<1>3. Worth(one) /\ one.num = freq /\ one.len = 1
  BY <1>2 DEF Worth
<1>4. PICK a \in Nat, b \in Nat, c \in Nat, d \in Nat :
        a = follow.num /\ b = follow.len /\ c = rest.num /\ d = rest.len
  BY DEF Bests, WayType
<1>5. Worth(follow) /\ Worth(rest)
  BY <1>4 DEF Worth
<1>6. ~Less(one, one)
  BY <1>3, LessOneWay
<1>7. PICK u, v : u = DagValue(s, i, j, follow) /\ v = InFront(SubSeq(s, i, j), rest)
  OBVIOUS
<1>8. u.num = follow.num * one.num /\ u.len = follow.len + one.len
  BY <1>1, <1>3, <1>7 DEF DagValue
<1>9. v.num = rest.num * one.num /\ v.len = rest.len + one.len
  BY <1>1, <1>7, <1>3, <1>4 DEF InFront
<1> QED
  BY <1>3, <1>5, <1>6, <1>7, <1>8, <1>9, LessTogether

\* The cut by weight is one of all ways, and none is better.
LEMMA MPCutIsBest ==
  ASSUME DictInv, weights.total \in Nat \ {0}, NEW s \in Seq(Nat), NEW words, NEW max,
         \A i \in 1..Len(s) : Nexts(s, i, max) = WayEnds(s, words, max, i),
         NEW F, AreWays(s, words, max, F)
  PROVE  \E best \in F[1] : best.words = MPCut(s, max) /\ \A other \in F[1] : ~Less(best, other)
<1> DEFINE N == Len(s)
<1>1. PICK t : t = CalcDP(s, max) /\ IsTable(s, max, t)
  BY CalcDPIsTable
<1>0. PICK next, piece, C : IsDagCut(s, max, next, piece, C)
  BY MPCutJumps
<1>2. /\ Partition(Nat, s, next, piece) /\ Jumps(N, next, piece, C) /\ MPCut(s, max) = C[1]
      /\ \A i \in 1..N : piece[i] = <<DagWord(s, max, i)>> /\ next[i] = i + Len(DagWord(s, max, i))
  BY <1>0 DEF IsDagCut
<1>3. Collects(N, Seq(Seq(Nat)), next, piece, C)
  BY <1>2, PartitionForward, JumpsType
<1>4. N \in Nat /\ t \in Seq(Bests) /\ Len(t) = N + 1
  BY <1>1 DEF IsTable
<1> HIDE DEF N
<1>5. ASSUME NEW i \in 1..N PROVE t[i].at \in i..N /\ C[i] = <<SubSeq(s, i, t[i].at)>> \o C[t[i].at + 1]
  <2>1. PICK j : j = t[i].at
    OBVIOUS
  <2>2. j \in i..N /\ DagWord(s, max, i) = SubSeq(s, i, j) /\ i + Len(DagWord(s, max, i)) = j + 1
    BY <1>1, <2>1, DagWordIsEntry DEF N
  <2>3. C[i] = piece[i] \o C[next[i]]
    BY <1>3 DEF Collects
  <2>4. piece[i] = <<SubSeq(s, i, j)>> /\ next[i] = j + 1
    BY <1>2, <2>2
  <2> QED
    BY <2>1, <2>2, <2>3, <2>4
<1>6. \A i \in 1..N + 1 : t[i] \in Bests /\ F[i] \subseteq WayType
  BY <1>4 DEF AreWays, N
<1>7. ASSUME NEW i \in 1..N, NEW way
      PROVE  way \in F[i] <=> \E j \in Nexts(s, i, max) : \E rest \in F[j + 1] : way = InFront(SubSeq(s, i, j), rest)
  BY DEF N, AreWays
<1>8. \A i \in 1..N : IsChoice(s, i, max, t) /\ Nexts(s, i, max) \subseteq i..N
  BY <1>1 DEF IsTable, N, Nexts
<1> DEFINE Met(i) == \E way \in F[i] : way.words = C[i] /\ way.num = t[i].num /\ way.len = t[i].len
           Unbeaten(i) == \A other \in F[i] : ~Less(t[i], other)
           Good == {i \in 1..N + 1 : Met(i) /\ Unbeaten(i)}
<1>9. N + 1 \in Good
  <2>1. F[N + 1] = {NoWords} /\ t[N + 1].num = 1 /\ t[N + 1].len = 0 /\ C[N + 1] = <<>>
    BY <1>1, <1>3 DEF AreWays, IsTable, Collects, N
  <2>2. Worth(t[N + 1])
    BY <2>1 DEF Worth
  <2>3. Met(N + 1)
    BY <2>1 DEF NoWords
  <2>4. ~Less(t[N + 1], NoWords)
    BY <2>2, LessOneWay, <2>1 DEF NoWords, Less
  <2> QED
    BY <1>4, <2>1, <2>3, <2>4
<1>10. ASSUME NEW i \in 1..N, \A j \in i + 1..N + 1 : j \in Good PROVE i \in Good
  <2>1. PICK e \in i..N : e = t[i].at /\ C[i] = <<SubSeq(s, i, e)>> \o C[e + 1]
    BY <1>5
  <2>2. e \in Nexts(s, i, max) /\ \A j \in Nexts(s, i, max) : j + 1 \in Good /\ j + 1 \in 1..N + 1
    <3>1. \A j \in i..N : j + 1 \in i + 1..N + 1 /\ j + 1 \in 1..N + 1
      BY <1>4
    <3> QED
      BY <1>8, <1>10, <2>1, <3>1 DEF IsChoice
  <2>3. PICK rest \in F[e + 1] : rest.words = C[e + 1] /\ rest.num = t[e + 1].num /\ rest.len = t[e + 1].len
    BY <2>2
  <2>4. PICK way : way = InFront(SubSeq(s, i, e), rest)
    OBVIOUS
  <2>5. way \in F[i]
    BY <1>7, <2>2, <2>4
  <2>6. way.words = C[i]
    BY <2>1, <2>3, <2>4 DEF InFront
  <2>7. way.num = t[i].num /\ way.len = t[i].len
    <3>1. PICK val : val = DagValue(s, i, e, t[e + 1])
      OBVIOUS
    <3>2. t[i].num = val.num /\ t[i].len = val.len
      BY <1>8, <2>1, <3>1 DEF IsChoice
    <3>3. PICK freq \in Nat : freq = FreqAt(Find(SubSeq(s, i, e)))
      BY FoundFacts
    <3>4. val.num = t[e + 1].num * freq /\ val.len = t[e + 1].len + 1
      BY <3>1, <3>3 DEF DagValue
    <3>5. way.num = freq * rest.num /\ way.len = rest.len + 1
      BY <2>4, <3>3 DEF InFront
    <3>6. t[e + 1] \in Bests
      BY <1>6, <2>2
    <3>7. PICK n \in Nat : n = t[e + 1].num
      BY <3>6 DEF Bests
    <3>8. n * freq = freq * n
      OBVIOUS
    <3> QED
      BY <2>3, <3>2, <3>4, <3>5, <3>7, <3>8
  <2>8. Met(i)
    BY <2>5, <2>6, <2>7
  <2>9. Unbeaten(i)
    <3> TAKE other \in F[i]
    <3>1. PICK j \in Nexts(s, i, max) : \E rest2 \in F[j + 1] : other = InFront(SubSeq(s, i, j), rest2)
      BY <1>7
    <3>2. PICK rest2 \in F[j + 1] : other = InFront(SubSeq(s, i, j), rest2)
      BY <3>1
    <3>3. j + 1 \in 1..N + 1 /\ ~Less(t[j + 1], rest2)
      BY <2>2
    <3>4. t[j + 1] \in Bests /\ rest2 \in WayType
      BY <1>6, <3>3
    <3>5. ~Less(DagValue(s, i, j, t[j + 1]), other)
      BY <3>2, <3>3, <3>4, LessInFront
    <3>6. ~Less(t[i], DagValue(s, i, j, t[j + 1]))
      BY <1>8 DEF IsChoice
    <3>7. i \in 1..N + 1
      BY <1>4
    <3>8. Worth(t[i]) /\ Worth(other)
      BY <1>6, <3>7 DEF Worth, Bests, WayType
    <3>9. Worth(DagValue(s, i, j, t[j + 1]))
      BY <3>4, DagWorth
    <3> QED
      BY <3>5, <3>6, <3>8, <3>9, LessTrans
  <2>10. i \in 1..N + 1
    BY <1>4
  <2> HIDE DEF Met, Unbeaten
  <2> QED
    BY <2>8, <2>9, <2>10
<1>11. 1 \in Good
  <2>1. 1 \in 1..N + 1
    BY <1>4
  <2> HIDE DEF Good
  <2> QED
    BY <1>4, <1>9, <1>10, <2>1, DownReach
<1>12. PICK best \in F[1] : best.words = C[1] /\ best.num = t[1].num /\ best.len = t[1].len
  BY <1>11
<1>13. \A other \in F[1] : ~Less(best, other)
  BY <1>11, <1>12 DEF Less
<1> QED
  BY <1>2, <1>12, <1>13

-----------------------------------------------------------------------------
(* The ways to cut a text, where no word crosses from one part to the next. *)

\* The pieces of a beginning and of the part behind it.
LEMMA PartPieces ==
  ASSUME NEW s \in Seq(Nat), NEW c \in 0..Len(s), NEW end \in c..Len(s)
  PROVE  /\ SubSeq(s, 1, c) \in Seq(Nat) /\ Len(SubSeq(s, 1, c)) = c
         /\ SubSeq(s, c + 1, end) \in Seq(Nat) /\ Len(SubSeq(s, c + 1, end)) = end - c
         /\ \A i \in 1..c : \A j \in i..c : SubSeq(SubSeq(s, 1, c), i, j) = SubSeq(s, i, j)
         /\ \A i \in 1..end - c : \A j \in i..end - c :
              SubSeq(SubSeq(s, c + 1, end), i, j) = SubSeq(s, c + i, c + j)
<1>1. 1 \in 1..Len(s) + 1 /\ c \in 1 - 1..Len(s) /\ c - 1 + 1 = c
  OBVIOUS
<1>2. PICK b \in 1..Len(s) + 1 : b = c + 1
  OBVIOUS
<1>3. end \in b - 1..Len(s) /\ end - b + 1 = end - c
  BY <1>2
<1>4. SubSeq(s, 1, c) \in Seq(Nat) /\ Len(SubSeq(s, 1, c)) = c
  BY <1>1, PieceFacts
<1>5. SubSeq(s, b, end) \in Seq(Nat) /\ Len(SubSeq(s, b, end)) = end - c
  BY <1>3, PieceFacts
<1>6. ASSUME NEW i \in 1..c, NEW j \in i..c
      PROVE  SubSeq(SubSeq(s, 1, c), i, j) = SubSeq(s, i, j)
  BY <1>1, PieceOfPiece
<1>7. ASSUME NEW i \in 1..end - c, NEW j \in i..end - c
      PROVE  SubSeq(SubSeq(s, b, end), i, j) = SubSeq(s, c + i, c + j)
  BY <1>2, <1>3, PieceOfPiece
<1> QED
  BY <1>2, <1>4, <1>5, <1>6, <1>7

\* Text up to end, its beginning up to c, and what is between.
AreParts(s, c, end, S, U, R) ==
  S = SubSeq(s, 1, end) /\ U = SubSeq(s, 1, c) /\ R = SubSeq(s, c + 1, end)

\* What lies behind the border is cut as if it were alone.
LEMMA WaysBehind ==
  ASSUME NEW s \in Seq(Nat), NEW c \in 0..Len(s), NEW end \in c..Len(s), NEW words, NEW max,
         NEW S, NEW U, NEW R, AreParts(s, c, end, S, U, R),
         NEW FS, AreWays(S, words, max, FS), NEW FR, AreWays(R, words, max, FR)
  PROVE  FS[c + 1] = FR[1]
<1> DEFINE m == end - c
           Good == {i \in 1..m + 1 : FS[c + i] = FR[i]}
<1>1. end \in 0..Len(s) /\ end \in end..Len(s)
  OBVIOUS
<1>2. Len(S) = end /\ \A i \in 1..end : \A j \in i..end : SubSeq(S, i, j) = SubSeq(s, i, j)
  BY <1>1, PartPieces DEF AreParts
<1>3. Len(R) = m /\ \A i \in 1..m : \A j \in i..m : SubSeq(R, i, j) = SubSeq(s, c + i, c + j)
  BY PartPieces DEF AreParts
<1>4. /\ FS[end + 1] = {NoWords}
      /\ \A i \in 1..end : \A way :
           way \in FS[i] <=> \E j \in WayEnds(S, words, max, i) : \E rest \in FS[j + 1] :
                               way = InFront(SubSeq(S, i, j), rest)
  BY <1>2 DEF AreWays
<1>5. /\ FR[m + 1] = {NoWords}
      /\ \A i \in 1..m : \A way :
           way \in FR[i] <=> \E j \in WayEnds(R, words, max, i) : \E rest \in FR[j + 1] :
                               way = InFront(SubSeq(R, i, j), rest)
  BY <1>3 DEF AreWays
<1>6. m \in Nat /\ c + m = end
  OBVIOUS
<1>E. /\ \A i, j : j \in WayEnds(S, words, max, i) <=> j \in i..end /\ (j = i \/ (j - i + 1 <= max /\ SubSeq(S, i, j) \in words))
      /\ \A i, j : j \in WayEnds(R, words, max, i) <=> j \in i..m /\ (j = i \/ (j - i + 1 <= max /\ SubSeq(R, i, j) \in words))
  BY <1>2, <1>3 DEF WayEnds
<1>7. m + 1 \in Good
  <2>1. m + 1 \in 1..m + 1 /\ c + (m + 1) = end + 1
    BY <1>6
  <2> HIDE DEF m
  <2> QED
    BY <1>4, <1>5, <2>1
<1>8. ASSUME NEW i \in 1..m, \A j \in i + 1..m + 1 : j \in Good PROVE i \in Good
  <2>0. i \in 1..m + 1 /\ c + i \in 1..end
    BY <1>6
  <2>1. ASSUME NEW j \in i..m
        PROVE  /\ c + j \in c + i..end
               /\ c + j \in WayEnds(S, words, max, c + i) <=> j \in WayEnds(R, words, max, i)
               /\ SubSeq(S, c + i, c + j) = SubSeq(R, i, j)
               /\ FS[(c + j) + 1] = FR[j + 1]
    <3>1. c + j \in c + i..end
      BY <1>6
    <3>2. SubSeq(S, c + i, c + j) = SubSeq(R, i, j)
      BY <1>2, <2>0, <3>1, <1>3
    <3>3. c + j \in WayEnds(S, words, max, c + i) <=> j \in WayEnds(R, words, max, i)
      <4>1. (c + j) - (c + i) + 1 = j - i + 1 /\ (c + j = c + i <=> j = i)
        OBVIOUS
      <4> QED
        BY <1>E, <3>1, <3>2, <4>1
    <3>4. FS[c + (j + 1)] = FR[j + 1] /\ c + (j + 1) = (c + j) + 1
      BY <1>6, <1>8
    <3> QED
      BY <3>1, <3>2, <3>3, <3>4
  <2>2. ASSUME NEW k \in WayEnds(S, words, max, c + i)
        PROVE  \E j \in i..m : k = c + j
    <3>1. k \in c + i..end
      BY <1>E
    <3>2. k - c \in i..m /\ k = c + (k - c)
      BY <1>6, <3>1
    <3> QED
      BY <3>2
  <2>3. ASSUME NEW way PROVE way \in FS[c + i] <=> way \in FR[i]
    <3>1. ASSUME way \in FS[c + i] PROVE way \in FR[i]
      <4>1. PICK k \in WayEnds(S, words, max, c + i) : \E rest \in FS[k + 1] : way = InFront(SubSeq(S, c + i, k), rest)
        BY <1>4, <2>0, <3>1
      <4>2. PICK j \in i..m : k = c + j
        BY <2>2
      <4>3. j \in WayEnds(R, words, max, i) /\ FS[k + 1] = FR[j + 1] /\ SubSeq(S, c + i, k) = SubSeq(R, i, j)
        BY <2>1, <4>1, <4>2
      <4> QED
        BY <1>5, <4>1, <4>3
    <3>2. ASSUME way \in FR[i] PROVE way \in FS[c + i]
      <4>1. PICK j \in WayEnds(R, words, max, i) : \E rest \in FR[j + 1] : way = InFront(SubSeq(R, i, j), rest)
        BY <1>5, <3>2
      <4>2. j \in i..m
        BY <1>E
      <4>3. PICK k : k = c + j
        OBVIOUS
      <4>4. k \in WayEnds(S, words, max, c + i) /\ FS[k + 1] = FR[j + 1] /\ SubSeq(S, c + i, k) = SubSeq(R, i, j)
        BY <2>1, <4>1, <4>2, <4>3
      <4> QED
        BY <1>4, <2>0, <4>1, <4>4
    <3> QED
      BY <3>1, <3>2
  <2>4. FS[c + i] = FR[i]
    BY <2>3
  <2> QED
    BY <2>0, <2>4
<1>9. 1 \in Good
  <2>1. 1 \in 1..m + 1
    BY <1>6
  <2> HIDE DEF Good, m
  <2> QED
    BY <1>6, <1>7, <1>8, <2>1, DownReach
<1> QED
  BY <1>9

\* One way after the other.
IsJoined(way, u, v) == way.num = u.num * v.num /\ way.len = u.len + v.len

\* A word in front of the first is one in front of both.
LEMMA JoinInFront ==
  ASSUME DictInv, NEW word, NEW u \in WayType, NEW v \in WayType, NEW way \in WayType, IsJoined(way, u, v)
  PROVE  IsJoined(InFront(word, way), InFront(word, u), v)
<1>1. PICK freq \in Nat : freq = FreqAt(Find(word))
  BY FoundFacts
<1>2. PICK a \in Nat, b \in Nat, c \in Nat, d \in Nat : a = u.num /\ b = u.len /\ c = v.num /\ d = v.len
  BY DEF WayType
<1>3. way.num = a * c /\ way.len = b + d
  BY <1>2 DEF IsJoined
<1>4. InFront(word, way).num = freq * (a * c) /\ InFront(word, way).len = (b + d) + 1
  BY <1>1, <1>3 DEF InFront
<1>5. InFront(word, u).num = freq * a /\ InFront(word, u).len = b + 1
  BY <1>1, <1>2 DEF InFront
<1>6. freq * (a * c) = (freq * a) * c /\ (b + d) + 1 = (b + 1) + d
  OBVIOUS
<1> QED
  BY <1>2, <1>4, <1>5, <1>6 DEF IsJoined

Associative(V) == \A p, q, r \in V : (p \o q) \o r = p \o (q \o r)

\* Words one after the other, in any grouping.
LEMMA WordsAssociate ==
  ASSUME NEW S
  PROVE  Associative(Seq(Seq(S)))
<1> DEFINE W == Seq(S)
<1>1. \A q, r, s \in Seq(W) : (q \o r) \o s = q \o (r \o s)
  <2> HIDE DEF W
  <2> QED
    BY SeqClosed
<1> QED
  BY <1>1 DEF Associative

\* No word reaches from the first part into the second.
NoneAcross(s, c, end, words) == \A i \in 1..c : \A j \in c + 1..end : SubSeq(s, i, j) \notin words

\* The ways over S are those over U and then over R.
Meet(FS, FU, FR) ==
  /\ \A way \in FS[1] : \E u \in FU[1] : \E v \in FR[1] : IsJoined(way, u, v)
  /\ \A u \in FU[1] : \A v \in FR[1] : \E way \in FS[1] :
       IsJoined(way, u, v) /\ way.words = u.words \o v.words

\* A way to cut both parts is one of the first and one of the second.
LEMMA WaysMeet ==
  ASSUME DictInv, NEW s \in Seq(Nat), NEW c \in 0..Len(s), NEW end \in c..Len(s), NEW words, NEW max,
         NoneAcross(s, c, end, words),
         NEW S, NEW U, NEW R, AreParts(s, c, end, S, U, R),
         NEW FS, AreWays(S, words, max, FS), NEW FU, AreWays(U, words, max, FU),
         NEW FR, AreWays(R, words, max, FR)
  PROVE  Meet(FS, FU, FR)
<1> DEFINE Splits(i) == \A way \in FS[i] : \E u \in FU[i] : \E v \in FR[1] : IsJoined(way, u, v)
           Joins(i) == \A u \in FU[i] : \A v \in FR[1] : \E way \in FS[i] :
                         IsJoined(way, u, v) /\ way.words = u.words \o v.words
           Good == {i \in 1..c + 1 : Splits(i) /\ Joins(i)}
<1>1. end \in 0..Len(s) /\ end \in end..Len(s) /\ c \in Nat
  OBVIOUS
<1>2. Len(S) = end /\ \A i \in 1..end : \A j \in i..end : SubSeq(S, i, j) = SubSeq(s, i, j)
  BY <1>1, PartPieces DEF AreParts
<1>3. Len(U) = c /\ \A i \in 1..c : \A j \in i..c : SubSeq(U, i, j) = SubSeq(s, i, j)
  BY PartPieces DEF AreParts
<1>R. Len(R) = end - c
  BY PartPieces DEF AreParts
<1>A. Associative(Seq(Seq(Nat)))
  BY WordsAssociate
<1>4. /\ FS \in [1..end + 1 -> SUBSET WayType]
      /\ \A i \in 1..end : \A way :
           way \in FS[i] <=> \E j \in WayEnds(S, words, max, i) : \E rest \in FS[j + 1] :
                               way = InFront(SubSeq(S, i, j), rest)
  BY <1>2 DEF AreWays
<1>5. /\ FU \in [1..c + 1 -> SUBSET WayType] /\ FU[c + 1] = {NoWords}
      /\ \A i \in 1..c : \A way :
           way \in FU[i] <=> \E j \in WayEnds(U, words, max, i) : \E rest \in FU[j + 1] :
                               way = InFront(SubSeq(U, i, j), rest)
  BY <1>3 DEF AreWays
<1>6. FR[1] \subseteq WayType
  BY <1>R DEF AreWays
<1>E. /\ \A i, j : j \in WayEnds(S, words, max, i) <=> j \in i..end /\ (j = i \/ (j - i + 1 <= max /\ SubSeq(S, i, j) \in words))
      /\ \A i, j : j \in WayEnds(U, words, max, i) <=> j \in i..c /\ (j = i \/ (j - i + 1 <= max /\ SubSeq(U, i, j) \in words))
  BY <1>2, <1>3 DEF WayEnds
<1>7. c + 1 \in Good
  <2>1. FS[c + 1] = FR[1]
    BY WaysBehind
  <2>2. ASSUME NEW v \in FR[1] PROVE IsJoined(v, NoWords, v) /\ v.words = NoWords.words \o v.words
    <3>1. PICK a \in Nat, b \in Nat, ws \in Seq(Seq(Nat)) : a = v.num /\ b = v.len /\ ws = v.words
      BY <1>6 DEF WayType
    <3>2. NoWords.num = 1 /\ NoWords.len = 0 /\ NoWords.words = <<>>
      BY DEF NoWords
    <3>3. <<>> \o ws = ws
      BY SeqClosed
    <3> QED
      BY <3>1, <3>2, <3>3 DEF IsJoined
  <2>3. c + 1 \in 1..c + 1
    OBVIOUS
  <2> QED
    BY <1>5, <2>1, <2>2, <2>3
<1>8. ASSUME NEW i \in 1..c, \A j \in i + 1..c + 1 : j \in Good PROVE i \in Good
  <2>0. i \in 1..end /\ i \in 1..c + 1
    OBVIOUS
  <2>1. ASSUME NEW j PROVE j \in WayEnds(S, words, max, i) <=> j \in WayEnds(U, words, max, i)
    <3>1. CASE j \in i..c
      <4>0. j \in i..end
        BY <3>1
      <4>2. SubSeq(S, i, j) = SubSeq(s, i, j) /\ SubSeq(U, i, j) = SubSeq(s, i, j)
        BY <1>2, <1>3, <2>0, <3>1, <4>0
      <4>1. j \in i..end /\ SubSeq(S, i, j) = SubSeq(U, i, j)
        BY <4>0, <4>2
      <4> QED
        BY <1>E, <3>1, <4>1
    <3>2. CASE j \in i..end /\ j \notin i..c
      <4>1. j \in c + 1..end /\ j # i
        BY <3>2
      <4>2. SubSeq(S, i, j) = SubSeq(s, i, j) /\ SubSeq(s, i, j) \notin words
        BY <1>2, <2>0, <3>2, <4>1 DEF NoneAcross
      <4> QED
        BY <1>E, <3>2, <4>1, <4>2
    <3>3. CASE j \notin i..end
      BY <3>3, <1>E
    <3> QED
      BY <3>1, <3>2, <3>3
  <2>2. ASSUME NEW j \in WayEnds(U, words, max, i)
        PROVE  /\ j + 1 \in Good /\ j + 1 \in 1..c + 1 /\ j + 1 \in 1..end + 1
               /\ SubSeq(S, i, j) = SubSeq(U, i, j)
    <3>1. j \in i..c
      BY <1>E
    <3>2. j + 1 \in i + 1..c + 1 /\ j + 1 \in 1..c + 1 /\ j + 1 \in 1..end + 1 /\ j \in i..end
      BY <3>1
    <3> QED
      BY <1>2, <1>3, <1>8, <2>0, <3>1, <3>2
  <2>3. Splits(i)
    <3> TAKE way \in FS[i]
    <3>1. PICK j \in WayEnds(U, words, max, i) : \E rest \in FS[j + 1] : way = InFront(SubSeq(S, i, j), rest)
      BY <1>4, <2>0, <2>1
    <3>2. PICK rest \in FS[j + 1] : way = InFront(SubSeq(S, i, j), rest)
      BY <3>1
    <3>3. PICK u \in FU[j + 1], v \in FR[1] : IsJoined(rest, u, v)
      BY <2>2
    <3>4. PICK first : first = InFront(SubSeq(U, i, j), u)
      OBVIOUS
    <3>5. first \in FU[i]
      BY <1>5, <3>3, <3>4
    <3>6. rest \in WayType /\ u \in WayType /\ v \in WayType
      BY <1>4, <1>5, <1>6, <2>2
    <3>7. IsJoined(way, first, v)
      BY <2>2, <3>2, <3>3, <3>4, <3>6, JoinInFront
    <3> QED
      BY <3>5, <3>7
  <2>4. Joins(i)
    <3> TAKE u \in FU[i]
    <3> TAKE v \in FR[1]
    <3>1. PICK j \in WayEnds(U, words, max, i) : \E rest \in FU[j + 1] : u = InFront(SubSeq(U, i, j), rest)
      BY <1>5
    <3>2. PICK rest \in FU[j + 1] : u = InFront(SubSeq(U, i, j), rest)
      BY <3>1
    <3>3. PICK both \in FS[j + 1] : IsJoined(both, rest, v) /\ both.words = rest.words \o v.words
      BY <2>2
    <3>4. PICK way : way = InFront(SubSeq(S, i, j), both)
      OBVIOUS
    <3>5. way \in FS[i]
      BY <1>4, <2>0, <2>1, <3>3, <3>4
    <3>6. rest \in WayType /\ both \in WayType /\ v \in WayType
      BY <1>4, <1>5, <1>6, <2>2
    <3>7. IsJoined(way, u, v)
      BY <2>2, <3>2, <3>3, <3>4, <3>6, JoinInFront
    <3>8. way.words = u.words \o v.words
      <4>1. PICK word \in Seq(Nat) : word = SubSeq(U, i, j)
        <5>1. j \in i..c /\ i \in 1..c
          BY <1>E
        <5>2. SubSeq(U, i, j) = SubSeq(s, i, j)
          BY <1>3, <5>1
        <5>3. i \in 1..Len(s) + 1 /\ j \in i - 1..Len(s)
          BY <5>1
        <5>4. SubSeq(s, i, j) \in Seq(Nat)
          BY <5>3, PieceFacts
        <5> QED
          BY <5>2, <5>4
      <4>2. PICK front \in Seq(Seq(Nat)) : front = <<word>>
        BY FlattenOne
      <4>3. PICK rw \in Seq(Seq(Nat)), vw \in Seq(Seq(Nat)) : rw = rest.words /\ vw = v.words
        BY <3>6 DEF WayType
      <4>4. way.words = front \o (rw \o vw)
        BY <2>2, <3>3, <3>4, <4>1, <4>2, <4>3 DEF InFront
      <4>5. u.words = front \o rw
        BY <3>2, <4>1, <4>2, <4>3 DEF InFront
      <4>6. (front \o rw) \o vw = front \o (rw \o vw)
        BY <1>A DEF Associative
      <4> QED
        BY <4>3, <4>4, <4>5, <4>6
    <3> QED
      BY <3>5, <3>7, <3>8
  <2> HIDE DEF Splits, Joins
  <2> QED
    BY <2>0, <2>3, <2>4
<1>9. 1 \in Good
  <2>1. 1 \in 1..c + 1
    OBVIOUS
  <2> HIDE DEF Good
  <2> QED
    BY <1>1, <1>7, <1>8, <2>1, DownReach
<1> QED
  BY <1>9 DEF Meet

-----------------------------------------------------------------------------
(* MPSegment's choice, range by range. *)

\* A range is one rune, or has no symbol.
NoSymbols(s, c, end) == \A k \in c + 1..end : s[k] \notin Symbols

\* What PreFilter hands out.
LEMMA RangeFacts ==
  ASSUME NEW s \in Seq(Nat), NEW c \in 0..Len(s), c < Len(s), NEW end, end = RangeEnd(s, c)
  PROVE  /\ end \in c + 1..Len(s)
         /\ AtBorder(s, c) => AtBorder(s, end)
         /\ end = c + 1 \/ NoSymbols(s, c, end)
<1> DEFINE ends == {i \in c + 1..Len(s) : s[i] \in Symbols}
<1>1. end = IF ends = {} THEN Len(s) ELSE IF Min(ends) = c + 1 THEN c + 1 ELSE Min(ends) - 1
  BY DEF RangeEnd
<1>2. \A i : i \in ends <=> i \in c + 1..Len(s) /\ s[i] \in Symbols
  OBVIOUS
<1>3. ends \subseteq Nat
  OBVIOUS
<1> HIDE DEF ends
<1>4. CASE ends = {}
  BY <1>1, <1>2, <1>4 DEF NoSymbols, AtBorder
<1>5. CASE ends # {}
  <2>1. PICK m \in ends : m = Min(ends) /\ \A n \in ends : m <= n
    BY <1>3, <1>5, MinFacts
  <2>2. m \in c + 1..Len(s) /\ s[m] \in Symbols
    BY <1>2
  <2>3. CASE m = c + 1
    BY <1>1, <1>5, <2>1, <2>3, <2>2 DEF AtBorder
  <2>4. CASE m # c + 1
    <3>1. end = m - 1 /\ end \in c + 1..Len(s) /\ end + 1 = m
      BY <1>1, <1>5, <2>1, <2>2, <2>4
    <3>2. NoSymbols(s, c, end)
      <4>1. ASSUME NEW k \in c + 1..end PROVE k \notin ends
        BY <2>1, <2>2, <3>1
      <4>2. \A k \in c + 1..end : k \in c + 1..Len(s)
        BY <3>1
      <4> QED
        BY <1>2, <4>1, <4>2 DEF NoSymbols
    <3>3. AtBorder(s, end)
      BY <2>2, <3>1 DEF AtBorder
    <3> QED
      BY <3>1, <3>2, <3>3
  <2> QED
    BY <2>3, <2>4
<1> QED
  BY <1>4, <1>5

\* No word reaches over a border.
LEMMA NoneAcrossBorder ==
  ASSUME NEW s \in Seq(Nat), NEW c \in 0..Len(s), NEW end \in c..Len(s), AtBorder(s, c)
  PROVE  NoneAcross(s, c, end, WholeWords)
<1> SUFFICES ASSUME NEW i \in 1..c, NEW j \in c + 1..end, SubSeq(s, i, j) \in WholeWords
             PROVE  FALSE
  BY DEF NoneAcross
<1>1. PICK word : word = SubSeq(s, i, j) /\ word \in WholeWords
  OBVIOUS
<1>2. i \in 1..Len(s) + 1 /\ j \in i - 1..Len(s)
  OBVIOUS
<1>3. word \in Seq(Nat) /\ Len(word) = j - i + 1 /\ \A n \in 1..j - i + 1 : word[n] = s[i + n - 1]
  BY <1>1, <1>2, PieceFacts
<1>4. PICK m \in 1..j - i + 1, n \in 1..j - i + 1 : m = c - i + 1 /\ n = c - i + 2
  OBVIOUS
<1>5. i + m - 1 = c /\ i + n - 1 = c + 1
  BY <1>4
<1>6. word[m] = s[c] /\ word[n] = s[c + 1]
  BY <1>3, <1>5
<1>7. s[c] \in Symbols \/ s[c + 1] \in Symbols
  BY DEF AtBorder
<1>8. word[m] \in ToSet(word) /\ word[n] \in ToSet(word)
  <2>1. m \in DOMAIN word /\ n \in DOMAIN word
    BY <1>3
  <2> QED
    BY <2>1 DEF ToSet
<1>9. Len(word) # 1
  BY <1>3
<1>10. ToSet(word) \cap Symbols = {}
  BY <1>1, <1>9 DEF WholeWords
<1> QED
  BY <1>6, <1>7, <1>8, <1>10

\* The words are those of the dictionary, as far as pieces of r go.
Uncut(r, words) ==
  \A i \in 1..Len(r) : \A j \in i + 1..Len(r) : SubSeq(r, i, j) \in DictWords <=> SubSeq(r, i, j) \in words

\* The entries of the Dag are the words at each place.
Matches(r, words, max) == \A i \in 1..Len(r) : Nexts(r, i, max) = WayEnds(r, words, max, i)

\* Where no word is cut apart, the Dag has the words of the set.
LEMMA UncutMatches ==
  ASSUME DictInv, DictMore, stage = "ready", NEW r \in Seq(Nat), NEW words, Uncut(r, words), NEW max
  PROVE  Matches(r, words, max)
<1> SUFFICES ASSUME NEW i \in 1..Len(r) PROVE Nexts(r, i, max) = WayEnds(r, words, max, i)
  BY DEF Matches
<1>3. Nexts(r, i, max) = {i} \cup {j \in i + 1..Len(r) : j - i + 1 <= max /\ SubSeq(r, i, j) \in DictWords}
  BY NextsAreWords
<1>4. ASSUME NEW j PROVE j \in Nexts(r, i, max) <=> j \in WayEnds(r, words, max, i)
  BY <1>3 DEF Uncut, WayEnds
<1> QED
  BY <1>4

\* Within a range, these are the words that PreFilter does not cut apart.
LEMMA RangeUncut ==
  ASSUME NEW s \in Seq(Nat), NEW c \in 0..Len(s), NEW end \in c + 1..Len(s), end = c + 1 \/ NoSymbols(s, c, end),
         NEW r, r = SubSeq(s, c + 1, end)
  PROVE  Uncut(r, WholeWords)
<1> SUFFICES ASSUME NEW i \in 1..Len(r), NEW j \in i + 1..Len(r)
             PROVE  SubSeq(r, i, j) \in DictWords <=> SubSeq(r, i, j) \in WholeWords
  BY DEF Uncut
<1>1. r \in Seq(Nat) /\ Len(r) = end - c
  BY PartPieces
<1>11. NoSymbols(s, c, end)
  BY <1>1
<1>12. PICK word : word = SubSeq(r, i, j)
  OBVIOUS
<1>13. i \in 1..Len(r) + 1 /\ j \in i - 1..Len(r)
  BY <1>1
<1>14. word \in Seq(Nat) /\ Len(word) = j - i + 1 /\ \A n \in 1..j - i + 1 : word[n] = r[i + n - 1]
  BY <1>1, <1>12, <1>13, PieceFacts
<1>15. \A k \in 1..end - c : r[k] = s[c + k]
  <2>1. PICK b \in 1..Len(s) + 1 : b = c + 1
    OBVIOUS
  <2>2. end \in b - 1..Len(s) /\ end - b + 1 = end - c
    BY <2>1
  <2>3. \A k \in 1..end - c : SubSeq(s, b, end)[k] = s[b + k - 1]
    BY <2>2, PieceFacts
  <2>4. \A k \in 1..end - c : b + k - 1 = c + k
    BY <2>1
  <2>5. r = SubSeq(s, b, end)
    BY <2>1
  <2> QED
    BY <2>3, <2>4, <2>5
<1>16. ASSUME NEW n \in 1..j - i + 1 PROVE word[n] \notin Symbols
  <2>1. i + n - 1 \in 1..end - c /\ c + (i + n - 1) \in c + 1..end
    BY <1>1
  <2>2. word[n] = s[c + (i + n - 1)]
    BY <1>14, <1>15, <2>1
  <2> QED
    BY <1>11, <2>1, <2>2 DEF NoSymbols
<1>17. ToSet(word) \cap Symbols = {}
  BY <1>14, <1>16 DEF ToSet
<1> QED
  BY <1>12, <1>17 DEF WholeWords

\* A sequence of words that is one of all ways to cut s, and none is better.
IsBestOf(ws, s, words, max) ==
  \E way \in Ways(s, words, max) :
    way.words = ws /\ \A other \in Ways(s, words, max) : ~Less(way, other)

\* The best cut of the part behind, after the best cut of the first.
LEMMA BestOfParts ==
  ASSUME DictInv, weights.total \in Nat \ {0}, NEW s \in Seq(Nat),
         NEW c \in 0..Len(s), NEW end \in c..Len(s), NEW words, NoneAcross(s, c, end, words),
         NEW S, NEW U, NEW R, AreParts(s, c, end, S, U, R),
         NEW max, Matches(R, words, max), NEW ws, IsBestOf(ws, U, words, max)
  PROVE  IsBestOf(ws \o MPCut(R, max), S, words, max)
<1>3. S \in Seq(Nat) /\ U \in Seq(Nat) /\ R \in Seq(Nat)
  BY PartPieces DEF AreParts
<1>5. PICK FS : WaysFrom(S, words, max, FS)
  BY <1>3, WaysFacts
<1>6. PICK FU : WaysFrom(U, words, max, FU)
  BY <1>3, WaysFacts
<1>7. PICK FR : WaysFrom(R, words, max, FR)
  BY <1>3, WaysFacts
<1>W. /\ AreWays(S, words, max, FS) /\ Ways(S, words, max) = FS[1]
      /\ AreWays(U, words, max, FU) /\ Ways(U, words, max) = FU[1]
      /\ AreWays(R, words, max, FR) /\ Ways(R, words, max) = FR[1]
  BY <1>5, <1>6, <1>7 DEF WaysFrom
<1>4. Meet(FS, FU, FR)
  BY <1>W, WaysMeet
<1>8. /\ \A way \in FS[1] : \E u \in FU[1] : \E v \in FR[1] : IsJoined(way, u, v)
      /\ \A u \in FU[1] : \A v \in FR[1] : \E way \in FS[1] :
           IsJoined(way, u, v) /\ way.words = u.words \o v.words
  BY <1>4 DEF Meet
<1>10. PICK u \in FU[1] : u.words = ws /\ \A other \in FU[1] : ~Less(u, other)
  BY <1>W DEF IsBestOf
<1>11. PICK v \in FR[1] : v.words = MPCut(R, max) /\ \A other \in FR[1] : ~Less(v, other)
  BY <1>3, <1>W, MPCutIsBest DEF Matches
<1>12. PICK way \in FS[1] : IsJoined(way, u, v) /\ way.words = u.words \o v.words
  BY <1>8
<1>13. /\ \A x \in FU[1] : Worth(x)
       /\ \A x \in FR[1] : Worth(x)
  <2>1. ASSUME NEW t \in Seq(Nat), NEW F, AreWays(t, words, max, F) PROVE \A x \in F[1] : Worth(x)
    <3>1. F \in [1..Len(t) + 1 -> SUBSET WayType] /\ 1 \in 1..Len(t) + 1
      BY <2>1 DEF AreWays
    <3>2. F[1] \subseteq WayType
      BY <3>1
    <3> QED
      BY <3>2 DEF Worth, WayType
  <2> QED
    BY <1>3, <1>W, <1>W, <2>1
<1>14. ASSUME NEW other \in FS[1] PROVE ~Less(way, other)
  <2>1. PICK x \in FU[1], y \in FR[1] : IsJoined(other, x, y)
    BY <1>8
  <2>2. ~Less(u, x) /\ ~Less(v, y)
    BY <1>10, <1>11
  <2> QED
    BY <1>12, <1>13, <2>1, <2>2, LessTogether DEF IsJoined
<1>15. way.words = ws \o MPCut(R, max)
  BY <1>10, <1>11, <1>12
<1> QED
  BY <1>W, <1>14, <1>15 DEF IsBestOf

\* The best cut of the next range behind the best cut so far.
LEMMA BestOfRange ==
  ASSUME DictInv, DictMore, stage = "ready", NEW s \in Seq(Nat),
         NEW c \in 0..Len(s), c < Len(s), AtBorder(s, c), NEW end, end = RangeEnd(s, c),
         NEW S, NEW U, NEW R, AreParts(s, c, end, S, U, R),
         NEW ws, NEW max, IsBestOf(ws, U, WholeWords, max)
  PROVE  IsBestOf(ws \o MPCut(R, max), S, WholeWords, max)
<1>1. end \in c + 1..Len(s) /\ (end = c + 1 \/ NoSymbols(s, c, end))
  BY RangeFacts
<1>2. PICK words : words = WholeWords
  OBVIOUS
<1>3. Uncut(R, words)
  BY <1>1, <1>2, RangeUncut DEF AreParts
<1>5. end \in c..Len(s)
  BY <1>1
<1>0. R \in Seq(Nat)
  BY <1>5, PartPieces DEF AreParts
<1>4. Matches(R, words, max)
  BY <1>0, <1>3, UncutMatches
<1>6. NoneAcross(s, c, end, words)
  BY <1>2, <1>5, NoneAcrossBorder
<1>7. weights.total \in Nat \ {0}
  BY DEF DictMore
<1>8. IsBestOf(ws, U, words, max)
  BY <1>2
<1>9. IsBestOf(ws \o MPCut(R, max), S, words, max)
  BY <1>4, <1>5, <1>6, <1>7, <1>8, BestOfParts
<1> QED
  BY <1>2, <1>9

\* No runes are cut into no words.
LEMMA BestOfNothing ==
  ASSUME DictInv, weights.total \in Nat \ {0}, NEW words, NEW max
  PROVE  IsBestOf(<<>>, <<>>, words, max)
<1>1. <<>> \in Seq(Nat) /\ Len(<<>>) + 1 = 1
  OBVIOUS
<1>2. PICK F : AreWays(<<>>, words, max, F) /\ Ways(<<>>, words, max) = F[1]
  BY <1>1, WaysFacts, ZenonT(40) DEF WaysFrom
<1>3. F[1] = {NoWords}
  BY <1>1, <1>2 DEF AreWays
<1>4. ~Less(NoWords, NoWords)
  BY LessOneWay DEF Worth, NoWords
<1>5. NoWords.words = <<>>
  BY DEF NoWords
<1> QED
  BY <1>2, <1>3, <1>4, <1>5 DEF IsBestOf

\* What is best stays so while the dictionary does not change.
LEMMA BestCutHolds ==
  ASSUME UNCHANGED dictVars, NEW CONSTANT ws, NEW CONSTANT s, NEW CONSTANT max,
         uwords' = ws, SubSeq(text', 1, cursor') = s, call'.max = max,
         IsBestOf(ws, s, WholeWords, max)
  PROVE  BestCut'
<1>1. trie' = trie /\ static' = static /\ active' = active /\ weights' = weights
  BY DEF dictVars
<1>2. WholeWords' = WholeWords
  BY <1>1 DEF WholeWords, DictWords
<1>3. PICK words : words = WholeWords
  OBVIOUS
<1>4. Ways(s, words, max)' = Ways(s, words, max)
  BY <1>1, SMT DEF Ways, InFront, FreqAt, Find, Unit
<1>5. ASSUME NEW CONSTANT v, NEW CONSTANT w PROVE Less(v, w)' <=> Less(v, w)
  BY <1>1, SMT DEF Less, TotalTo
<1>6. Seen' = s
  BY DEF Seen
<1>7. \E way \in Ways(s, words, max)' : way.words = ws /\ \A other \in Ways(s, words, max)' : ~Less(way, other)'
  BY <1>3, <1>4, <1>5 DEF IsBestOf
<1> QED
  BY <1>2, <1>3, <1>6, <1>7 DEF BestCut

-----------------------------------------------------------------------------
(* The steps of a call. *)

\* What a step of a call changes.
CallStep == CutRange \/ CutDone \/ LevelStep \/ LevelDone \/ Tag

CallRuns == pc # "idle" /\ stage = "ready" /\ UNCHANGED <<dictVars, model, modelFile>>

\* A step leaves no call, begins one, or is one of its own.
LEMMA StepKinds ==
  ASSUME Running, [Next]_vars
  PROVE  pc' = "idle" \/ Start \/ (CallRuns /\ CallStep) \/ UNCHANGED vars
<1>1. CASE (Load \/ CannotOpen) /\ UNCHANGED <<model, modelFile, callVars>>
  BY <1>1 DEF Load, CannotOpen, LoadLine, CalculateWeights, LoadUserLine, UserLoaded, InsertStatic,
     TrieCreated, callVars, Running
<1>2. CASE LoadModel
  BY <1>2 DEF LoadModel, Running, callVars
<1>3. CASE pc = "idle" /\ model # <<>> /\ InsertUserWord /\ UNCHANGED <<model, modelFile, callVars>>
  BY <1>3 DEF callVars
<1>4. CASE Start
  BY <1>4
<1>5. CASE Cut
  BY <1>5 DEF Return, CallStep, CutRange, CutDone, LevelStep, LevelDone, Tag, CallRuns, Running, Cut
<1> QED
  BY <1>1, <1>2, <1>3, <1>4, <1>5 DEF Next

\* A call runs on dictionaries and a model that are loaded.
LEMMA RunningStep == ASSUME Running, [Next]_vars PROVE Running'
BY StepKinds DEF Running, Start, Loaded, dictVars, CallRuns, vars, callVars

\* No step makes the weights or the entries wrong.
LEMMA DictMoreKept ==
  ASSUME DictAssumption, DictInv, DictMore, [Next]_vars
  PROVE  DictMore'
<1>1. CASE Load \/ CannotOpen \/ InsertUserWord
  BY <1>1, DictMoreStep
<1>2. CASE UNCHANGED dictVars \/ Abort
  BY <1>2, DictMoreStays
<1>3. CASE LoadModel
  BY <1>3, <1>2 DEF LoadModel
<1>4. CASE Start \/ Cut
  BY <1>4, <1>2 DEF Start, Cut, CutRange, CutDone, LevelStep, LevelDone, Tag, Return
<1>5. CASE UNCHANGED vars
  BY <1>5, <1>2 DEF vars
<1> QED
  BY <1>1, <1>3, <1>4, <1>5 DEF Next

\* The cursor stays at a border between two ranges.
LEMMA CursorStep == ASSUME CallInv, Running, CursorInv, [Next]_vars PROVE CursorInv'
<1>1. CASE pc' = "idle"
  BY <1>1 DEF CursorInv
<1>2. CASE Start
  BY <1>2 DEF Start, CursorInv, AtBorder
<1>3. CASE CutRange
  <2>1. text \in Seq(Nat) /\ cursor \in 0..Len(text) /\ cursor < Len(text) /\ pc = "cut"
    BY <1>3, TextType DEF CallInv, CutRange
  <2>2. PICK end : end = RangeEnd(text, cursor)
    OBVIOUS
  <2>3. AtBorder(text, end)
    BY <2>1, <2>2, RangeFacts DEF CursorInv
  <2>4. cursor' = end /\ text' = text
    BY <1>3, <2>2 DEF CutRange, text
  <2> QED
    BY <2>3, <2>4 DEF CursorInv, AtBorder
<1>4. CASE CutDone \/ LevelStep \/ LevelDone \/ Tag
  BY <1>4 DEF CutDone, LevelDone, Tag, CursorInv, LevelStep
<1>5. CASE UNCHANGED vars
  BY <1>5 DEF vars, callVars, text, CursorInv, AtBorder
<1> QED
  BY <1>1, <1>2, <1>3, <1>4, <1>5, StepKinds DEF CallStep

\* All of this holds at first,
LEMMA CutInvInit == ASSUME DictAssumption, Init PROVE CutInv
BY JiebaInit, DictMoreInit DEF Init, CutInv, Running, CursorInv

\* and after every step.
LEMMA CutInvStep == ASSUME DictAssumption, JiebaAssumption, CutInv, [Next]_vars PROVE CutInv'
BY JiebaStep, DictMoreKept, RunningStep, CursorStep DEF CutInv, JiebaInv

\* A step of CutRange, in the parts that the proofs speak of.
RangeStep(end, R) ==
  /\ pc = "cut" /\ pc' = "cut" /\ call' = call /\ text' = text
  /\ text \in Seq(Nat) /\ cursor \in 0..Len(text) /\ cursor < Len(text)
  /\ end = RangeEnd(text, cursor) /\ end \in cursor + 1..Len(text)
  /\ R \in Seq(Nat) /\ R = SubSeq(text, cursor + 1, end)
  /\ cursor' = end /\ uwords' = uwords \o CutWords(R)
  /\ AtBorder(text, cursor) /\ AtBorder(text, end)
  /\ end = cursor + 1 \/ NoSymbols(text, cursor, end)
  /\ Seen \in Seq(Nat) /\ Seen' \in Seq(Nat) /\ Seen' = SubSeq(text, 1, end) /\ Seen = SubSeq(text, 1, cursor)
  /\ AreParts(text, cursor, end, Seen', Seen, R)

\* CutRange is such a step.
LEMMA RangeStepFacts ==
  ASSUME CallInv, CursorInv, CutRange
  PROVE  \E end, R : RangeStep(end, R)
<1>1. text \in Seq(Nat) /\ cursor \in 0..Len(text) /\ cursor < Len(text) /\ pc = "cut"
  BY TextType DEF CallInv, CutRange
<1>2. PICK end : end = RangeEnd(text, cursor)
  OBVIOUS
<1>3. end \in cursor + 1..Len(text) /\ (end = cursor + 1 \/ NoSymbols(text, cursor, end))
      /\ AtBorder(text, cursor) /\ AtBorder(text, end)
  BY <1>1, <1>2, RangeFacts DEF CursorInv
<1>4. PICK R : R = SubSeq(text, cursor + 1, end)
  OBVIOUS
<1>5. R \in Seq(Nat)
  BY <1>1, <1>3, <1>4, PieceFacts
<1>6. cursor' = end /\ uwords' = uwords \o CutWords(R) /\ pc' = "cut" /\ call' = call /\ text' = text
  BY <1>1, <1>2, <1>4 DEF CutRange, text
<1>7. Seen = SubSeq(text, 1, cursor) /\ Seen' = SubSeq(text, 1, end)
  BY <1>6 DEF Seen
<1>8. Seen \in Seq(Nat) /\ Seen' \in Seq(Nat)
  BY <1>1, <1>3, <1>7, PieceFacts
<1>9. AreParts(text, cursor, end, Seen', Seen, R)
  BY <1>4, <1>7 DEF AreParts
<1> QED
  BY <1>1, <1>2, <1>3, <1>4, <1>5, <1>6, <1>7, <1>8, <1>9 DEF RangeStep

-----------------------------------------------------------------------------
(* MPSegment's choice, call by call. *)

\* MPSegment's words weigh the most after each step.
LEMMA BestCutStep == ASSUME JiebaAssumption, CutInv, BestCut, [Next]_vars PROVE BestCut'
<1>1. CASE pc' # "cut" \/ call'.mode # "mp"
  BY <1>1 DEF BestCut
<1>2. CASE Start /\ pc' = "cut"
  <2>1. UNCHANGED dictVars /\ uwords' = <<>> /\ cursor' = 0 /\ stage = "ready"
    BY <1>2 DEF Start, Loaded
  <2>2. PICK max : max = call'.max
    OBVIOUS
  <2>3. IsBestOf(<<>>, <<>>, WholeWords, max)
    BY <2>1, BestOfNothing DEF CutInv, JiebaInv, DictMore
  <2>4. SubSeq(text', 1, cursor') = <<>>
    BY <1>2, StartStep, <2>1 DEF CutInv, JiebaInv
  <2> QED
    BY <2>1, <2>2, <2>3, <2>4, BestCutHolds
<1>3. CASE CutRange /\ call.mode = "mp"
  <2>1. PICK end, R : RangeStep(end, R)
    BY <1>3, RangeStepFacts DEF CutInv, JiebaInv
  <2>2. DictInv /\ DictMore /\ stage = "ready" /\ UNCHANGED dictVars
    BY <1>3 DEF CutInv, JiebaInv, Running, CutRange
  <2>3. PICK ws, max, S : ws = uwords \o MPCut(R, call.max) /\ max = call.max /\ S = Seen'
    OBVIOUS
  <2>4. IsBestOf(uwords, Seen, WholeWords, max)
    BY <1>3, <2>3 DEF CutRange, BestCut, IsBestOf
  <2>5. IsBestOf(ws, S, WholeWords, max)
    BY <2>1, <2>3, <2>2, <2>4, BestOfRange DEF RangeStep
  <2>6. uwords' = ws /\ SubSeq(text', 1, cursor') = S /\ call'.max = max
    BY <1>3, <2>1, <2>3 DEF CutWords, RangeStep, Seen
  <2> QED
    BY <2>2, <2>5, <2>6, BestCutHolds
<1>4. CASE UNCHANGED vars /\ pc = "cut" /\ call.mode = "mp"
  <2>1. UNCHANGED dictVars /\ uwords' = uwords /\ call' = call /\ text' = text /\ cursor' = cursor
    BY <1>4 DEF vars, callVars, text
  <2>2. PICK ws, max, S : ws = uwords /\ max = call.max /\ S = Seen
    OBVIOUS
  <2>3. IsBestOf(ws, S, WholeWords, max)
    BY <1>4, <2>2 DEF BestCut, IsBestOf
  <2> QED
    BY <2>1, <2>2, <2>3, BestCutHolds DEF Seen
<1>5. CASE CutDone \/ LevelDone \/ Tag
  BY <1>5, <1>1 DEF CutDone, LevelDone, Tag
<1>6. CASE LevelStep
  BY <1>6, <1>1 DEF LevelStep
<1>7. CASE UNCHANGED vars /\ ~(pc = "cut" /\ call.mode = "mp")
  BY <1>7, <1>1 DEF vars, callVars
<1>8. CASE CutRange /\ call.mode # "mp"
  BY <1>8, <1>1 DEF CutRange
<1>9. CASE pc' = "idle"
  BY <1>1, <1>9
<1>10. Running
  BY DEF CutInv
<1> QED
  BY <1>1, <1>2, <1>3, <1>4, <1>5, <1>6, <1>7, <1>8, <1>9, <1>10, StepKinds DEF CallStep

-----------------------------------------------------------------------------
(* The model's numbers. *)

\* A map of emissions holds the numbers of its line.
LEMMA EmitMapType ==
  ASSUME NEW P, NEW line, line.probs \in Seq([word : Seq(Byte), p : P, cols : Nat]),
         NEW rune \in DOMAIN EmitMap(line)
  PROVE  EmitMap(line)[rune] \in P
<1> DEFINE Rune(k) == Decode(line.probs[k].word)[1]
           same == {k \in DOMAIN line.probs : Rune(k) = rune}
<1>1. EmitMap(line) = [r \in {Rune(k) : k \in DOMAIN line.probs} |->
                         line.probs[Max({k \in DOMAIN line.probs : Rune(k) = r})].p]
  BY DEF EmitMap
<1>2. EmitMap(line)[rune] = line.probs[Max(same)].p /\ same # {}
  <2> HIDE DEF Rune
  <2> QED
    BY <1>1
<1>3. PICK n \in Nat : n = Len(line.probs) /\ DOMAIN line.probs = 1..n
  OBVIOUS
<1>4. same \subseteq 0..n /\ same \subseteq 1..n
  BY <1>3
<1> HIDE DEF same
<1>5. Max(same) \in 1..n
  BY <1>2, <1>4, MaxFacts
<1>6. PICK m \in 1..n : m = Max(same)
  BY <1>5
<1>7. PICK q \in Seq([word : Seq(Byte), p : P, cols : Nat]) : q = line.probs
  OBVIOUS
<1>8. q[m] \in [word : Seq(Byte), p : P, cols : Nat]
  <2> DEFINE Q == [word : Seq(Byte), p : P, cols : Nat]
  <2>1. q \in Seq(Q) /\ m \in 1..Len(q)
    BY <1>3, <1>7
  <2> HIDE DEF Q
  <2>2. q[m] \in Q
    BY <2>1
  <2> QED
    BY <2>2 DEF Q
<1>9. q[m].p \in P
  BY <1>8
<1> QED
  BY <1>2, <1>6, <1>7, <1>9

\* The lines that count are lines of the file.
LEMMA ModelLinesType ==
  ASSUME NEW L, modelFile \in Seq(L)
  PROVE  ModelLines \in Seq(L)
<1> DEFINE Test(line) == ~line.skipped
           parts == [i \in DOMAIN modelFile |-> IF Test(modelFile[i]) THEN <<modelFile[i]>> ELSE <<>>]
<1>1. ModelLines = FlattenSeq(parts)
  BY DEF ModelLines, Chosen
<1>2. parts \in Seq(Seq(L))
  <2> DEFINE R == Seq(L)
  <2>1. \A i \in DOMAIN modelFile : parts[i] \in R
    <3> TAKE i \in DOMAIN modelFile
    <3>1. <<modelFile[i]>> \in R /\ <<>> \in R
      BY SeqClosed
    <3> HIDE DEF R, Test
    <3> QED
      BY <3>1
  <2>2. PICK n \in Nat : DOMAIN modelFile = 1..n
    OBVIOUS
  <2>3. PICK f : f = parts
    OBVIOUS
  <2>4. f \in [1..n -> R]
    <3> HIDE DEF R, Test
    <3> QED
      BY <2>1, <2>2, <2>3
  <2> HIDE DEF R, parts
  <2>5. f \in Seq(R)
    BY <2>4
  <2> QED
    BY <2>3, <2>5 DEF R
<1> QED
  BY <1>1, <1>2, FlattenType

\* The model's numbers stay logarithms of probabilities.
LEMMA ModelStep == ASSUME JiebaAssumption, FileInv, ModelInv, [Next]_vars PROVE FileInv' /\ ModelInv'
<1>1. modelFile' = modelFile
  BY DEF Next, LoadModel, Start, Cut, CutRange, CutDone, LevelStep, LevelDone, Tag, Return, vars
<1>2. CASE model' = model
  BY <1>1, <1>2 DEF FileInv, ModelInv, ModelIsTyped
<1>3. CASE LoadModel /\ model' # model
  <2> DEFINE P == LogProb
  <2>1. PICK lines : lines = ModelLines
    OBVIOUS
  <2>2. /\ ModelIsLegal
        /\ model' = [start |-> [y \in States |-> lines[1].nums[y + 1]],
                     trans |-> [p \in States |-> [y \in States |-> lines[p + 2].nums[y + 1]]],
                     emit  |-> [y \in States |-> EmitMap(lines[y + 6])]]
    BY <1>3, <2>1 DEF LoadModel
  <2>3. lines \in Seq([skipped : BOOLEAN, nums : Seq(P), probs : Seq([word : Seq(Byte), p : P, cols : Nat])])
    <3> DEFINE L == [skipped : BOOLEAN, nums : Seq(P), probs : Seq([word : Seq(Byte), p : P, cols : Nat])]
    <3>1. modelFile \in Seq(L)
      BY DEF FileInv, JiebaAssumption
    <3> HIDE DEF L
    <3>2. lines \in Seq(L)
      BY <2>1, <3>1, ModelLinesType
    <3> QED
      BY <3>2 DEF L
  <2>4. Len(lines) >= 9 /\ \A i \in 1..5 : Len(lines[i].nums) = 4
    BY <2>1, <2>2 DEF ModelIsLegal
  <2> HIDE DEF P
  <2>5. ASSUME NEW i \in 1..9
        PROVE  lines[i].nums \in Seq(P) /\ lines[i].probs \in Seq([word : Seq(Byte), p : P, cols : Nat])
    <3> DEFINE L == [skipped : BOOLEAN, nums : Seq(P), probs : Seq([word : Seq(Byte), p : P, cols : Nat])]
    <3>1. lines \in Seq(L)
      BY <2>3
    <3>2. PICK line \in L : line = lines[i]
      <4> HIDE DEF L
      <4> QED
        BY <2>4, <3>1
    <3>3. line.nums \in Seq(P) /\ line.probs \in Seq([word : Seq(Byte), p : P, cols : Nat])
      OBVIOUS
    <3> HIDE DEF L
    <3> QED
      BY <3>2, <3>3
  <2>6. ASSUME NEW i \in 1..5, NEW y \in States PROVE lines[i].nums[y + 1] \in P
    <3>1. i \in 1..9 /\ y + 1 \in 1..4
      BY DEF States
    <3>2. lines[i].nums \in Seq(P) /\ Len(lines[i].nums) = 4
      BY <2>4, <2>5, <3>1
    <3> QED
      BY <3>1, <3>2
  <2>7. ASSUME NEW y \in States, NEW rune \in DOMAIN EmitMap(lines[y + 6])
        PROVE  EmitMap(lines[y + 6])[rune] \in P
    <3>1. y + 6 \in 1..9
      BY DEF States
    <3>2. lines[y + 6].probs \in Seq([word : Seq(Byte), p : P, cols : Nat])
      BY <2>5, <3>1
    <3> QED
      BY <3>2, EmitMapType
  <2>8. ASSUME NEW y \in States
        PROVE  /\ model'.start[y] \in P
               /\ \A p \in States : model'.trans[p][y] \in P
               /\ \A rune \in DOMAIN model'.emit[y] : model'.emit[y][rune] \in P
    BY <2>2, <2>6, <2>7 DEF States
  <2> QED
    BY <1>1, <2>8 DEF P, FileInv, ModelInv, ModelIsTyped
<1>4. LoadModel \/ model' = model
  BY DEF Next, Start, Cut, CutRange, CutDone, LevelStep, LevelDone, Tag, Return, vars
<1> QED
  BY <1>2, <1>3, <1>4

\* Nothing is more than certain.
LEMMA EmitType ==
  ASSUME ModelIsTyped, NEW y \in States, NEW rune
  PROVE  Emit(y, rune) \in LogProb
BY DEF Emit, ModelIsTyped, LogProb, MinDouble

\* Plus adds, where nothing is impossible.
LEMMA PlusFacts ==
  ASSUME NEW a \in LogProb, NEW b \in LogProb
  PROVE  /\ Plus(a, b) \in LogProb
         /\ Plus(a, b) > MinDouble => a > MinDouble /\ b > MinDouble /\ Plus(a, b) = a + b
         /\ \A c \in LogProb : a <= c /\ Plus(a, b) > MinDouble => Plus(c, b) >= Plus(a, b)
BY DEF Plus, LogProb, MinDouble

\* The weight of a path that goes one state further.
LEMMA PathWeightFacts ==
  ASSUME ModelIsTyped, NEW p \in States, NEW y \in States, NEW rune, NEW w \in LogProb
  PROVE  /\ PathWeight(w, p, y, rune) \in LogProb
         /\ PathWeight(w, p, y, rune) > MinDouble => w > MinDouble
         /\ \A v \in LogProb : w <= v /\ PathWeight(w, p, y, rune) > MinDouble =>
              PathWeight(v, p, y, rune) >= PathWeight(w, p, y, rune)
<1>1. PICK t \in LogProb, e \in LogProb : t = model.trans[p][y] /\ e = Emit(y, rune)
  BY EmitType DEF ModelIsTyped
<1>2. \A v \in LogProb : PathWeight(v, p, y, rune) = Plus(Plus(v, t), e)
  BY <1>1 DEF PathWeight
<1> QED
  BY <1>1, <1>2 DEF Plus, LogProb, MinDouble

\* What Viterbi keeps of the four paths to a state.
LEMMA BestOfFacts ==
  ASSUME NEW tmp \in [1..4 -> LogProb]
  PROVE  /\ BestOf(tmp).w \in LogProb /\ BestOf(tmp).from \in States
         /\ BestOf(tmp).w > MinDouble => BestOf(tmp).w = tmp[BestOf(tmp).from + 1]
         /\ \A k \in 1..4 : tmp[k] > MinDouble => BestOf(tmp).w >= tmp[k]
<1> DEFINE best == {k \in 1..4 : tmp[k] > MinDouble /\ \A n \in 1..4 : tmp[n] <= tmp[k]}
<1>1. BestOf(tmp) = IF best = {} THEN [w |-> MinDouble, from |-> 1]
                    ELSE [w |-> tmp[Min(best)], from |-> Min(best) - 1]
  BY DEF BestOf
<1>2. \A k \in 1..4 : tmp[k] \in Int /\ tmp[k] <= 0
  BY DEF LogProb
<1>3. ASSUME NEW k \in 1..4, tmp[k] > MinDouble PROVE best # {}
  <2>1. tmp[1] \in Int /\ tmp[2] \in Int /\ tmp[3] \in Int /\ tmp[4] \in Int
    BY <1>2
  <2>2. k = 1 \/ k = 2 \/ k = 3 \/ k = 4
    OBVIOUS
  <2>3. \E m \in 1..4 : tmp[1] <= tmp[m] /\ tmp[2] <= tmp[m] /\ tmp[3] <= tmp[m] /\ tmp[4] <= tmp[m]
    BY <2>1
  <2>4. PICK m \in 1..4 : \A n \in 1..4 : tmp[n] <= tmp[m]
    BY <2>3
  <2>5. tmp[k] <= tmp[m] /\ tmp[k] \in Int /\ tmp[m] \in Int
    BY <1>2, <2>4
  <2>6. tmp[m] > MinDouble
    BY <1>3, <2>5 DEF MinDouble
  <2>7. m \in best
    BY <2>4, <2>6
  <2> QED
    BY <2>7
<1>4. best \subseteq 1..4 /\ best \subseteq Nat
  OBVIOUS
<1>5. \A k \in best : tmp[k] > MinDouble /\ \A n \in 1..4 : tmp[n] <= tmp[k]
  OBVIOUS
<1> HIDE DEF best
<1>6. CASE best = {}
  BY <1>1, <1>6, <1>3 DEF MinDouble, LogProb, States
<1>7. CASE best # {}
  <2>1. PICK m \in 1..4 : m = Min(best) /\ m \in best
    BY <1>4, <1>7, MinFacts
  <2>2. BestOf(tmp) = [w |-> tmp[m], from |-> m - 1]
    BY <1>1, <1>7, <2>1
  <2>3. m - 1 \in States /\ (m - 1) + 1 = m
    BY DEF States
  <2>4. \A n \in 1..4 : tmp[m] >= tmp[n]
    BY <1>2, <1>5, <2>1
  <2> QED
    BY <2>2, <2>3, <2>4
<1> QED
  BY <1>6, <1>7

-----------------------------------------------------------------------------
(* Viterbi. *)

Cell == [w : LogProb, from : Int]

Column == [1..4 -> Cell]

\* Four values are a sequence.
LEMMA FourInSeq ==
  ASSUME NEW S, NEW f \in [1..4 -> S]
  PROVE  f \o <<>> = f /\ f \in Seq(S) /\ Len(f) = 4
<1>1. f \in Seq(S) /\ Len(f) = 4
  <2>1. PICK n \in Nat : n = 4
    OBVIOUS
  <2>2. f \in [1..n -> S]
    BY <2>1
  <2>3. f \in Seq(S) /\ Len(f) = n
    BY <2>2
  <2> QED
    BY <2>1, <2>3
<1> QED
  BY <1>1

\* The first column has what each state is worth at the first rune.
LEMMA FirstColumnFacts ==
  ASSUME ModelIsTyped, NEW rune
  PROVE  /\ FirstColumn(rune) \in Column
         /\ \A y \in States : FirstColumn(rune)[y + 1].w = Plus(model.start[y], Emit(y, rune))
<1>1. ASSUME NEW k \in 1..4
      PROVE  Plus(model.start[k - 1], Emit(k - 1, rune)) \in LogProb
  <2>1. k - 1 \in States
    BY DEF States
  <2>2. PICK a \in LogProb, b \in LogProb : a = model.start[k - 1] /\ b = Emit(k - 1, rune)
    BY <2>1, EmitType DEF ModelIsTyped
  <2> QED
    BY <2>2, PlusFacts
<1>2. \A k \in 1..4 : [w |-> Plus(model.start[k - 1], Emit(k - 1, rune)), from |-> -1] \in Cell
  BY <1>1 DEF Cell
<1>3. FirstColumn(rune) \in Column
  BY <1>2 DEF FirstColumn, Column
<1>4. \A y \in States : y + 1 \in 1..4 /\ (y + 1) - 1 = y
  BY DEF States
<1>5. ASSUME NEW y \in States PROVE FirstColumn(rune)[y + 1].w = Plus(model.start[y], Emit(y, rune))
  BY <1>4 DEF FirstColumn
<1> QED
  BY <1>3, <1>5

\* A column keeps the best of the paths to each state.
KeepsBest(old, new, rune) ==
  \A y \in States :
    /\ new[y + 1].from \in States
    /\ new[y + 1].w > MinDouble =>
         new[y + 1].w = PathWeight(old[new[y + 1].from + 1].w, new[y + 1].from, y, rune)
    /\ \A p \in States :
         PathWeight(old[p + 1].w, p, y, rune) > MinDouble => new[y + 1].w >= PathWeight(old[p + 1].w, p, y, rune)

\* The next column keeps the best way into each state.
LEMMA NextColumnFacts ==
  ASSUME ModelIsTyped, NEW old \in Column, NEW rune
  PROVE  NextColumn(old, rune) \in Column /\ KeepsBest(old, NextColumn(old, rune), rune)
<1>1. PICK new : new = NextColumn(old, rune)
  OBVIOUS
<1>2. ASSUME NEW y \in States
      PROVE  \E tmp \in [1..4 -> LogProb] :
               /\ \A p \in States : tmp[p + 1] = PathWeight(old[p + 1].w, p, y, rune)
               /\ new[y + 1] = BestOf(tmp)
  <2> DEFINE tmp == [n \in 1..4 |-> PathWeight(old[n].w, n - 1, (y + 1) - 1, rune)]
  <2>1. y + 1 \in 1..4 /\ (y + 1) - 1 = y
    BY DEF States
  <2>2. new[y + 1] = BestOf(tmp \o <<>>)
    BY <1>1, <2>1, Zenon DEF NextColumn
  <2>3. \A n \in 1..4 : PathWeight(old[n].w, n - 1, (y + 1) - 1, rune) \in LogProb
    <3> TAKE n \in 1..4
    <3>1. n - 1 \in States
      BY DEF States
    <3>2. PICK p \in States : p = n - 1
      BY <3>1
    <3>3. PICK w \in LogProb : w = old[n].w
      BY DEF Column, Cell
    <3>4. PathWeight(w, p, y, rune) \in LogProb
      BY PathWeightFacts
    <3> QED
      BY <2>1, <3>2, <3>3, <3>4
  <2>4. tmp \in [1..4 -> LogProb]
    BY <2>3
  <2>5. \A p \in States : tmp[p + 1] = PathWeight(old[p + 1].w, p, y, rune)
    <3> TAKE p \in States
    <3>1. p + 1 \in 1..4 /\ (p + 1) - 1 = p
      BY DEF States
    <3>2. tmp[p + 1] = PathWeight(old[p + 1].w, (p + 1) - 1, (y + 1) - 1, rune)
      BY <3>1, Zenon
    <3> HIDE DEF tmp
    <3> QED
      BY <2>1, <3>1, <3>2
  <2> HIDE DEF tmp
  <2>6. tmp \o <<>> = tmp
    BY <2>4, FourInSeq
  <2> QED
    BY <2>2, <2>4, <2>5, <2>6
<1>3. new \in Column
  <2>1. ASSUME NEW k \in 1..4 PROVE new[k] \in Cell
    <3>1. PICK y \in States : k = y + 1
      BY DEF States
    <3>2. PICK tmp \in [1..4 -> LogProb] : new[y + 1] = BestOf(tmp)
      BY <1>2
    <3>3. \E w, from : BestOf(tmp) = [w |-> w, from |-> from]
      BY DEF BestOf
    <3>4. BestOf(tmp).w \in LogProb /\ BestOf(tmp).from \in Int
      BY BestOfFacts DEF States
    <3>5. BestOf(tmp) \in Cell
      BY <3>3, <3>4 DEF Cell
    <3> QED
      BY <3>1, <3>2, <3>5
  <2>2. new = [k \in 1..4 |-> new[k]]
    BY <1>1 DEF NextColumn
  <2> QED
    BY <2>1, <2>2 DEF Column
<1>4. ASSUME NEW y \in States
      PROVE  /\ new[y + 1].from \in States
             /\ new[y + 1].w > MinDouble =>
                  new[y + 1].w = PathWeight(old[new[y + 1].from + 1].w, new[y + 1].from, y, rune)
             /\ \A p \in States :
                  PathWeight(old[p + 1].w, p, y, rune) > MinDouble => new[y + 1].w >= PathWeight(old[p + 1].w, p, y, rune)
  <2>1. PICK tmp \in [1..4 -> LogProb] :
               /\ \A p \in States : tmp[p + 1] = PathWeight(old[p + 1].w, p, y, rune)
               /\ new[y + 1] = BestOf(tmp)
    BY <1>2
  <2>2. \A p \in States : p + 1 \in 1..4
    BY DEF States
  <2> QED
    BY <2>1, <2>2, BestOfFacts
<1> QED
  BY <1>1, <1>3, <1>4 DEF KeepsBest

\* The columns of weights over s.
AreWeights(s, cols) ==
  /\ cols \in Seq(Column) /\ Len(cols) = Len(s)
  /\ Len(s) # 0 => cols[1] = FirstColumn(s[1])
  /\ \A x \in 2..Len(s) : cols[x] = NextColumn(cols[x - 1], s[x])

\* Viterbi's table is made of these columns.
LEMMA WeightsFacts ==
  ASSUME ModelIsTyped, NEW s \in Seq(Nat)
  PROVE  AreWeights(s, Weights(s))
<1> DEFINE N == Len(s)
           V == Seq(Column)
           IsColumns(f) == f = [x \in 0..N |-> IF x = 0 THEN <<>> ELSE OneColumn(s, x, f[x - 1])]
           More(x, cols) == IF Len(cols) = x - 1 THEN OneColumn(s, x, cols) ELSE cols
           G == [t \in (0 + 1..N) \X V |-> More(t[1], t[2])]
<1>1. Weights(s) = (CHOOSE f : IsColumns(f))[N]
  BY DEF Weights
<1>2. ASSUME NEW x \in 1..N, NEW cols \in V, Len(cols) = x - 1
      PROVE  \E col \in Column : /\ OneColumn(s, x, cols) = Append(cols, col)
                                 /\ col = IF x = 1 THEN FirstColumn(s[1]) ELSE NextColumn(cols[x - 1], s[x])
  <2>1. PICK col : col = IF x = 1 THEN FirstColumn(s[1]) ELSE NextColumn(cols[x - 1], s[x])
    OBVIOUS
  <2>2. col \in Column
    BY <2>1, FirstColumnFacts, <1>2, NextColumnFacts
  <2>3. col \o <<>> = col
    BY <2>2, FourInSeq DEF Column
  <2>4. OneColumn(s, x, cols) = Append(cols, col \o <<>>)
    BY <2>1 DEF OneColumn
  <2> QED
    BY <2>1, <2>2, <2>3, <2>4
<1>3. G \in [(0 + 1..N) \X V -> V]
  <2>1. ASSUME NEW x \in 1..N, NEW cols \in V PROVE More(x, cols) \in V
    <3>1. CASE Len(cols) = x - 1
      <4>1. PICK col \in Column : OneColumn(s, x, cols) = Append(cols, col)
        BY <1>2, <3>1
      <4> QED
        BY <3>1, <4>1
    <3> QED
      BY <3>1
  <2>2. \A t \in (0 + 1..N) \X V : t[1] \in 1..N /\ t[2] \in V
    OBVIOUS
  <2> HIDE DEF More, V
  <2> QED
    BY <2>1, <2>2
<1>4. N \in Nat /\ <<>> \in V
  BY SeqClosed
<1> HIDE DEF V
<1>5. PICK f \in [0..N -> V] : Climbs(0, N, <<>>, G, f)
  <2>1. 0 \in Nat /\ 0 <= N
    BY <1>4
  <2> HIDE DEF G, N
  <2> QED
    BY <1>3, <1>4, <2>1, UpExists
<1>6. f[0] = <<>> /\ \A x \in 1..N : f[x] = More(x, f[x - 1])
  <2>0. f = [x \in 0..N |-> IF x = 0 THEN <<>> ELSE G[<<x, f[x - 1]>>]]
    <3> HIDE DEF G
    <3> QED
      BY <1>5 DEF Climbs
  <2>1. 0 \in 0..N
    BY <1>4
  <2>2. ASSUME NEW x \in 1..N PROVE f[x] = More(x, f[x - 1])
    <3>1. x \in 0..N /\ x # 0 /\ x - 1 \in 0..N
      OBVIOUS
    <3>2. f[x] = G[<<x, f[x - 1]>>]
      <4> HIDE DEF G
      <4> QED
        BY <2>0, <3>1
    <3>3. <<x, f[x - 1]>> \in (0 + 1..N) \X V
      BY <3>1
    <3> HIDE DEF More
    <3> QED
      BY <3>2, <3>3
  <2>3. f[0] = <<>>
    <3> HIDE DEF G
    <3> QED
      BY <2>0, <2>1
  <2> QED
    BY <2>2, <2>3
<1> DEFINE Right(x) == /\ f[x] \in V /\ Len(f[x]) = x
                       /\ x # 0 => f[x][1] = FirstColumn(s[1])
                       /\ \A k \in 2..x : f[x][k] = NextColumn(f[x][k - 1], s[k])
           Good == {x \in 0..N : Right(x)}
<1>7. 0 \in Good
  BY <1>4, <1>6
<1>8. ASSUME NEW x \in 0 + 1..N, x - 1 \in Good PROVE x \in Good
  <2>0. x \in 1..N /\ x \in 0..N
    BY <1>4
  <2>1. PICK old \in V : old = f[x - 1] /\ Len(old) = x - 1
    BY <1>8
  <2>2. PICK col \in Column : /\ OneColumn(s, x, old) = Append(old, col)
                              /\ col = IF x = 1 THEN FirstColumn(s[1]) ELSE NextColumn(old[x - 1], s[x])
    BY <1>2, <2>0, <2>1
  <2>3. f[x] = Append(old, col)
    BY <1>6, <2>0, <2>1, <2>2
  <2>4. f[x] \in V /\ Len(f[x]) = x /\ f[x][x] = col /\ \A k \in 1..x - 1 : f[x][k] = old[k]
    BY <2>0, <2>1, <2>3 DEF V
  <2>5. x - 1 # 0 => old[1] = FirstColumn(s[1])
    BY <1>8, <2>1
  <2>6. \A k \in 2..x - 1 : old[k] = NextColumn(old[k - 1], s[k])
    BY <1>8, <2>1
  <2>7. f[x][1] = FirstColumn(s[1])
    BY <2>2, <2>4, <2>0, <2>5
  <2>8. ASSUME NEW k \in 2..x PROVE f[x][k] = NextColumn(f[x][k - 1], s[k])
    <3>1. k - 1 \in 1..x - 1
      BY <2>0
    <3>2. f[x][k - 1] = old[k - 1]
      BY <2>4, <3>1
    <3>3. CASE k = x
      BY <3>3, <2>2, <2>4, <3>2
    <3>4. CASE k # x
      BY <2>0, <3>4, <2>4, <2>6, <3>2
    <3> QED
      BY <3>3, <3>4
  <2> QED
    BY <2>0, <2>4, <2>7, <2>8
<1>9. \A x \in 0..N : x \in Good
  <2>1. 0 \in Nat
    OBVIOUS
  <2> HIDE DEF Good, N
  <2> QED
    BY <1>4, <1>7, <1>8, <2>1, UpReach
<1>10. IsColumns(f)
  <2>1. \A x \in 0..N : f[x] = IF x = 0 THEN <<>> ELSE OneColumn(s, x, f[x - 1])
    <3> TAKE x \in 0..N
    <3>1. CASE x = 0
      BY <1>6, <3>1
    <3>2. CASE x # 0
      <4>1. x \in 1..N /\ x - 1 \in 0..N
        BY <3>2
      <4>2. Len(f[x - 1]) = x - 1
        BY <1>9, <4>1
      <4>3. f[x] = More(x, f[x - 1])
        BY <1>6, <4>1
      <4> HIDE DEF Good
      <4> QED
        BY <3>2, <4>2, <4>3
    <3> QED
      BY <3>1, <3>2
  <2> HIDE DEF Good
  <2> QED
    BY <1>5, <2>1
<1>11. PICK g : IsColumns(g) /\ Weights(s) = g[N]
  <2> HIDE DEF IsColumns
  <2> QED
    BY <1>1, <1>10
<1>12. \A x \in 0..N : g[x] = f[x]
  <2> DEFINE Same == {x \in 0..N : g[x] = f[x]}
  <2>1. 0 \in Same
    BY <1>4, <1>11, <1>6
  <2>2. ASSUME NEW x \in 0 + 1..N, x - 1 \in Same PROVE x \in Same
    <3>1. x \in 0..N /\ x # 0 /\ g[x - 1] = f[x - 1]
      BY <1>4, <2>2
    <3>2. g[x] = OneColumn(s, x, g[x - 1])
      BY <1>11, <3>1
    <3>3. f[x] = OneColumn(s, x, f[x - 1])
      BY <1>10, <3>1
    <3> QED
      BY <3>1, <3>2, <3>3
  <2>3. 0 \in Nat
    OBVIOUS
  <2> HIDE DEF Same, N
  <2>4. \A x \in 0..N : x \in Same
    BY <1>4, <2>1, <2>2, <2>3, UpReach
  <2> QED
    BY <2>4 DEF Same
<1>13. Weights(s) = f[N] /\ Right(N)
  BY <1>4, <1>9, <1>11, <1>12
<1> QED
  BY <1>13 DEF AreWeights, V

-----------------------------------------------------------------------------
(* The most probable path. *)

\* What the model says of the first x states of a path.
WorthUpTo(s, path, A) ==
  /\ A \in [1..Len(s) -> LogProb]
  /\ A[1] = Plus(model.start[path[1]], Emit(path[1], s[1]))
  /\ \A x \in 2..Len(s) : A[x] = PathWeight(A[x - 1], path[x - 1], path[x], s[x])

\* The likelihood of a path adds up, rune by rune.
LEMMA LikelihoodFacts ==
  ASSUME ModelIsTyped, NEW s \in Seq(Nat), Len(s) # 0, NEW path \in [1..Len(s) -> States]
  PROVE  \E A : WorthUpTo(s, path, A) /\ Likelihood(s, path) = A[Len(s)]
<1> DEFINE N == Len(s)
           V == LogProb
           z == Plus(model.start[path[1]], Emit(path[1], s[1]))
           More(x, a) == Plus(Plus(a, model.trans[path[x - 1]][path[x]]), Emit(path[x], s[x]))
           Step(f, x) == IF x = 1 THEN z ELSE More(x, f[x - 1])
           IsLikely(f) == f = [x \in 1..N |-> Step(f, x)]
           G == [t \in (1 + 1..N) \X V |-> More(t[1], t[2])]
<1>1. Likelihood(s, path) = (CHOOSE f : IsLikely(f))[N]
  BY DEF Likelihood
<1>2. N \in Nat /\ 1 \in Nat /\ 1 <= N /\ 1 \in 1..N /\ N \in 1..N
  OBVIOUS
<1>3. z \in V
  <2>1. PICK a \in LogProb, b \in LogProb : a = model.start[path[1]] /\ b = Emit(path[1], s[1])
    BY <1>2, EmitType DEF ModelIsTyped
  <2> QED
    BY <2>1, PlusFacts
<1>4. ASSUME NEW x \in 1 + 1..N, NEW a \in V
      PROVE  More(x, a) \in V /\ More(x, a) = PathWeight(a, path[x - 1], path[x], s[x])
  <2>1. x \in 1..N /\ x - 1 \in 1..N
    BY <1>2
  <2>2. path[x - 1] \in States /\ path[x] \in States
    BY <2>1
  <2>3. More(x, a) = PathWeight(a, path[x - 1], path[x], s[x])
    BY DEF PathWeight
  <2> QED
    BY <2>2, <2>3, PathWeightFacts
<1> HIDE DEF z, More, V
<1>5. G \in [(1 + 1..N) \X V -> V]
  BY <1>4
<1>6. PICK f \in [1..N -> V] : Climbs(1, N, z, G, f)
  <2> HIDE DEF G, N
  <2> QED
    BY <1>2, <1>3, <1>5, UpExists
<1>7. IsLikely(f)
  <2>1. \A x \in 1..N : f[x] = Step(f, x)
    <3> TAKE x \in 1..N
    <3>1. f[x] = IF x = 1 THEN z ELSE G[<<x, f[x - 1]>>]
      <4> HIDE DEF G
      <4> QED
        BY <1>6 DEF Climbs
    <3>2. x # 1 => G[<<x, f[x - 1]>>] = More(x, f[x - 1])
      <4> SUFFICES ASSUME x # 1 PROVE G[<<x, f[x - 1]>>] = More(x, f[x - 1])
        OBVIOUS
      <4>1. x \in 1 + 1..N /\ x - 1 \in 1..N
        BY <1>2
      <4>2. f[x - 1] \in V
        BY <4>1
      <4> QED
        BY <4>1, <4>2
    <3> HIDE DEF G
    <3> QED
      BY <3>1, <3>2
  <2> HIDE DEF Step
  <2> QED
    BY <1>6, <2>1
<1>8. PICK g : IsLikely(g) /\ Likelihood(s, path) = g[N]
  <2> HIDE DEF IsLikely
  <2> QED
    BY <1>1, <1>7
<1>9. g[1] = z /\ \A x \in 2..N : g[x] = More(x, g[x - 1])
  <2>1. \A x \in 1..N : g[x] = Step(g, x)
    <3> HIDE DEF Step
    <3> QED
      BY <1>8
  <2>2. \A x \in 2..N : x \in 1..N /\ x # 1
    BY <1>2
  <2> HIDE DEF IsLikely
  <2> QED
    BY <1>2, <2>1, <2>2
<1>10. \A x \in 1..N : g[x] \in V
  <2> DEFINE Good == {x \in 1..N : g[x] \in V}
  <2>1. 1 \in Good
    BY <1>2, <1>3, <1>9
  <2>2. ASSUME NEW x \in 1 + 1..N, x - 1 \in Good PROVE x \in Good
    BY <1>2, <2>2, <1>4, <1>9
  <2> HIDE DEF Good, N
  <2>3. \A x \in 1..N : x \in Good
    BY <1>2, <2>1, <2>2, UpReach
  <2> QED
    BY <2>3 DEF Good
<1>11. g \in [1..N -> V]
  <2>1. g = [x \in 1..N |-> g[x]]
    <3> HIDE DEF Step
    <3>1. g = [x \in 1..N |-> Step(g, x)]
      BY <1>8
    <3> QED
      BY <3>1
  <2> HIDE DEF IsLikely
  <2> QED
    BY <1>10, <2>1
<1>12. \A x \in 2..N : g[x] = PathWeight(g[x - 1], path[x - 1], path[x], s[x])
  <2> TAKE x \in 2..N
  <2>1. x \in 1 + 1..N /\ x - 1 \in 1..N
    BY <1>2
  <2>2. g[x - 1] \in V
    BY <1>10, <2>1
  <2> HIDE DEF IsLikely
  <2> QED
    BY <1>4, <1>9, <2>1, <2>2
<1> HIDE DEF IsLikely
<1> QED
  BY <1>8, <1>9, <1>11, <1>12 DEF WorthUpTo, V, z

\* No path that is possible is better than the column it ends in.
LEMMA ColumnsBound ==
  ASSUME ModelIsTyped, NEW s \in Seq(Nat), Len(s) # 0, NEW cols, AreWeights(s, cols),
         NEW path \in [1..Len(s) -> States], NEW A, WorthUpTo(s, path, A)
  PROVE  \A x \in 1..Len(s) : A[x] > MinDouble => cols[x][path[x] + 1].w >= A[x]
<1> DEFINE N == Len(s)
           Good == {x \in 1..N : A[x] > MinDouble => cols[x][path[x] + 1].w >= A[x]}
<1>1. N \in Nat /\ 1 \in Nat /\ 1 \in 1..N
  OBVIOUS
<1>2. \A x \in 1..N : A[x] \in LogProb /\ path[x] \in States /\ cols[x] \in Column
  <2>1. A \in [1..N -> LogProb] /\ cols \in Seq(Column) /\ Len(cols) = N
    BY DEF WorthUpTo, AreWeights
  <2> HIDE DEF N
  <2>2. \A x \in 1..N : cols[x] \in Column
    BY <2>1
  <2> QED
    BY <2>1, <2>2 DEF N
<1>3. 1 \in Good
  BY <1>1, <1>2, FirstColumnFacts DEF AreWeights, WorthUpTo, LogProb
<1>4. ASSUME NEW x \in 1 + 1..N, x - 1 \in Good PROVE x \in Good
  <2>1. x \in 2..N /\ x \in 1..N /\ x - 1 \in 1..N
    BY <1>1
  <2>2. PICK p \in States, y \in States : p = path[x - 1] /\ y = path[x]
    BY <1>2, <2>1
  <2>3. PICK a \in LogProb, b \in LogProb : a = A[x - 1] /\ b = A[x]
    BY <1>2, <2>1
  <2>4. b = PathWeight(a, p, y, s[x])
    BY <2>1, <2>2, <2>3 DEF WorthUpTo
  <2>5. PICK old \in Column, new \in Column : old = cols[x - 1] /\ new = cols[x]
    BY <1>2, <2>1
  <2>6. new = NextColumn(old, s[x])
    BY <2>1, <2>5 DEF AreWeights
  <2>7. PICK v \in LogProb, w \in LogProb : v = old[p + 1].w /\ w = new[y + 1].w
    <3>1. p + 1 \in 1..4 /\ y + 1 \in 1..4
      BY DEF States
    <3> QED
      BY <3>1 DEF Column, Cell
  <2>8. PathWeight(v, p, y, s[x]) > MinDouble => w >= PathWeight(v, p, y, s[x])
    BY <2>6, <2>7, NextColumnFacts DEF KeepsBest
  <2>9. ASSUME b > MinDouble PROVE w >= b
    <3>1. a > MinDouble
      BY <2>4, <2>9, PathWeightFacts
    <3>2. v >= a
      BY <1>4, <2>2, <2>3, <2>5, <2>7, <3>1
    <3>3. PICK u \in LogProb : u = PathWeight(v, p, y, s[x])
      BY PathWeightFacts
    <3>4. u >= b
      BY <3>2, <2>4, <2>9, <3>3, PathWeightFacts DEF LogProb
    <3>5. u > MinDouble
      BY <2>9, <3>4 DEF LogProb, MinDouble
    <3> QED
      BY <2>8, <3>3, <3>4, <3>5 DEF LogProb
  <2> QED
    BY <2>1, <2>2, <2>3, <2>5, <2>7, <2>9
<1> HIDE DEF Good, N
<1>5. \A x \in 1..N : x \in Good
  BY <1>1, <1>3, <1>4, UpReach
<1> QED
  BY <1>5 DEF Good, N

\* The path back runs over states, and each of its weights is that of its
\* predecessor and one state more.
LEMMA BackFacts ==
  ASSUME ModelIsTyped, NEW s \in Seq(Nat), Len(s) # 0, NEW cols, AreWeights(s, cols),
         NEW path, GoesBack(cols, Len(s), path)
  PROVE  /\ path \in [1..Len(s) -> States] /\ path[Len(s)] \in {1, 3}
         /\ \A y \in {1, 3} : cols[Len(s)][path[Len(s)] + 1].w >= cols[Len(s)][y + 1].w
         /\ \A x \in 2..Len(s) : cols[x][path[x] + 1].w > MinDouble =>
              cols[x][path[x] + 1].w = PathWeight(cols[x - 1][path[x - 1] + 1].w, path[x - 1], path[x], s[x])
<1>1. PICK n \in Nat : n = Len(s) /\ n # 0
  OBVIOUS
<1>2. /\ cols \in [1..n -> Column]
      /\ \A x \in 2..n : cols[x] = NextColumn(cols[x - 1], s[x])
  BY <1>1 DEF AreWeights
<1> DEFINE EndsAs(x) == IF cols[x][2].w >= cols[x][4].w THEN 1 ELSE 3
           Step(f, x) == IF x = n THEN EndsAs(x) ELSE cols[x + 1][f[x + 1] + 1].from
<1>3. path = [x \in 1..n |-> Step(path, x)]
  BY <1>1 DEF GoesBack
<1>4. path[n] = EndsAs(n) /\ \A x \in 1..n - 1 : path[x] = cols[x + 1][path[x + 1] + 1].from
  <2>1. \A x \in 1..n : path[x] = Step(path, x)
    <3> HIDE DEF Step
    <3> QED
      BY <1>3
  <2>2. n \in 1..n /\ \A x \in 1..n - 1 : x \in 1..n /\ x # n
    BY <1>1
  <2> HIDE DEF EndsAs
  <2> QED
    BY <2>1, <2>2
<1>5. ASSUME NEW x \in 2..n
      PROVE  \E old \in Column : \E new \in Column :
               old = cols[x - 1] /\ new = cols[x] /\ KeepsBest(old, new, s[x])
  <2>1. x \in 1..n /\ x - 1 \in 1..n
    BY <1>1
  <2>2. cols[x - 1] \in Column /\ cols[x] \in Column
    BY <1>2, <2>1
  <2>3. cols[x] = NextColumn(cols[x - 1], s[x])
    BY <1>2
  <2> QED
    BY <2>2, <2>3, NextColumnFacts
<1>6. path[n] \in {1, 3}
  BY <1>4
<1> DEFINE Good == {k \in 0..n - 1 : path[n - k] \in States}
<1>7. 0 \in Good
  BY <1>1, <1>6 DEF States
<1>8. ASSUME NEW k \in 0 + 1..n - 1, k - 1 \in Good PROVE k \in Good
  <2>1. PICK x \in 1..n - 1 : x = n - k /\ n - (k - 1) = x + 1 /\ k \in 0..n - 1
    OBVIOUS
  <2>2. PICK y \in States : y = path[x + 1]
    BY <1>8, <2>1
  <2>3. x + 1 \in 2..n
    OBVIOUS
  <2>4. PICK old, new : new = cols[x + 1] /\ KeepsBest(old, new, s[x + 1])
    BY <1>5, <2>3
  <2>5. new[y + 1].from \in States
    BY <2>4 DEF KeepsBest
  <2>6. path[x] = new[y + 1].from
    BY <1>4, <2>2, <2>4
  <2> QED
    BY <2>1, <2>5, <2>6
<1>9. \A x \in 1..n : path[x] \in States
  <2>1. 0 \in Nat /\ n - 1 \in Nat
    BY <1>1
  <2>2. \A k \in 0..n - 1 : k \in Good
    <3> HIDE DEF Good
    <3> QED
      BY <1>7, <1>8, <2>1, UpReach
  <2>3. ASSUME NEW x \in 1..n PROVE path[x] \in States
    <3>1. PICK k \in 0..n - 1 : k = n - x /\ n - k = x
      OBVIOUS
    <3>2. path[n - k] \in States
      BY <2>2
    <3> QED
      BY <3>1, <3>2
  <2> QED
    BY <2>3
<1>10. path \in [1..n -> States]
  <2>1. DOMAIN path = 1..n /\ path = [x \in 1..n |-> path[x]]
    <3> HIDE DEF Step
    <3> QED
      BY <1>3
  <2> QED
    BY <1>9, <2>1
<1>11. \A y \in {1, 3} : cols[n][path[n] + 1].w >= cols[n][y + 1].w
  <2>1. cols[n] \in Column
    BY <1>1, <1>2
  <2>2. cols[n][2].w \in LogProb /\ cols[n][4].w \in LogProb
    BY <2>1 DEF Column, Cell
  <2>3. PICK a \in LogProb, b \in LogProb : a = cols[n][2].w /\ b = cols[n][4].w
    BY <2>2
  <2>4. path[n] = IF a >= b THEN 1 ELSE 3
    BY <1>4, <2>3
  <2>5. CASE a >= b
    BY <2>3, <2>4, <2>5 DEF LogProb
  <2>6. CASE ~(a >= b)
    BY <2>3, <2>4, <2>6, SMTT(30) DEF LogProb
  <2> QED
    BY <2>5, <2>6
<1>12. ASSUME NEW x \in 2..n, cols[x][path[x] + 1].w > MinDouble
       PROVE  cols[x][path[x] + 1].w = PathWeight(cols[x - 1][path[x - 1] + 1].w, path[x - 1], path[x], s[x])
  <2>1. x \in 1..n /\ x - 1 \in 1..n - 1 /\ (x - 1) + 1 = x
    BY <1>1
  <2>2. PICK y \in States : y = path[x]
    BY <1>9, <2>1
  <2>3. PICK old, new : old = cols[x - 1] /\ new = cols[x] /\ KeepsBest(old, new, s[x])
    BY <1>5
  <2>4. path[x - 1] = new[y + 1].from
    BY <1>4, <2>1, <2>2, <2>3
  <2>5. new[y + 1].w = PathWeight(old[new[y + 1].from + 1].w, new[y + 1].from, y, s[x])
    BY <1>12, <2>2, <2>3 DEF KeepsBest
  <2> QED
    BY <2>2, <2>3, <2>4, <2>5
<1> QED
  BY <1>1, <1>6, <1>10, <1>11, <1>12

\* The path back is worth what stands in the columns.
LEMMA BackIsWorth ==
  ASSUME ModelIsTyped, NEW s \in Seq(Nat), Len(s) # 0, NEW cols, AreWeights(s, cols),
         NEW path, GoesBack(cols, Len(s), path), NEW A, WorthUpTo(s, path, A),
         cols[Len(s)][path[Len(s)] + 1].w > MinDouble
  PROVE  A[Len(s)] = cols[Len(s)][path[Len(s)] + 1].w
<1>1. PICK n \in Nat : n = Len(s) /\ n # 0
  OBVIOUS
<1>2. /\ path \in [1..n -> States]
      /\ \A x \in 2..n : cols[x][path[x] + 1].w > MinDouble =>
           cols[x][path[x] + 1].w = PathWeight(cols[x - 1][path[x - 1] + 1].w, path[x - 1], path[x], s[x])
  BY <1>1, BackFacts
<1>3. \A x \in 1..n : cols[x] \in Column
  BY <1>1 DEF AreWeights
<1>4. PICK W : W = [x \in 1..n |-> cols[x][path[x] + 1].w]
  OBVIOUS
<1>5. W \in [1..n -> LogProb]
  <2>1. ASSUME NEW x \in 1..n PROVE cols[x][path[x] + 1].w \in LogProb
    <3>1. path[x] + 1 \in 1..4 /\ cols[x] \in Column
      <4>1. path[x] \in 0..3
        BY <1>2 DEF States
      <4> QED
        BY <1>3, <4>1
    <3>2. cols[x][path[x] + 1] \in Cell
      BY <3>1 DEF Column
    <3> QED
      BY <3>2 DEF Cell
  <2> QED
    BY <1>4, <2>1
<1>6. ASSUME NEW x \in 2..n, W[x] > MinDouble
      PROVE  W[x] = PathWeight(W[x - 1], path[x - 1], path[x], s[x]) /\ W[x - 1] > MinDouble
  <2>1. x \in 1..n /\ x - 1 \in 1..n
    BY <1>1
  <2>2. W[x] = cols[x][path[x] + 1].w /\ W[x - 1] = cols[x - 1][path[x - 1] + 1].w
    BY <1>4, <2>1
  <2>3. W[x] = PathWeight(W[x - 1], path[x - 1], path[x], s[x])
    BY <1>2, <1>6, <2>2
  <2>4. PICK p \in States, y \in States, w \in LogProb : p = path[x - 1] /\ y = path[x] /\ w = W[x - 1]
    BY <1>2, <1>5, <2>1
  <2> QED
    BY <1>6, <2>3, <2>4, PathWeightFacts
<1> DEFINE Low == {k \in 0..n - 1 : W[n - k] > MinDouble}
<1>7. \A x \in 1..n : W[x] > MinDouble
  <2>1. 0 \in Low
    BY <1>1, <1>4
  <2>2. ASSUME NEW k \in 0 + 1..n - 1, k - 1 \in Low PROVE k \in Low
    <3>1. PICK x \in 2..n : x = n - (k - 1) /\ n - k = x - 1 /\ k \in 0..n - 1
      OBVIOUS
    <3> QED
      BY <1>6, <2>2, <3>1
  <2>3. 0 \in Nat /\ n - 1 \in Nat
    BY <1>1
  <2>4. \A k \in 0..n - 1 : k \in Low
    <3> HIDE DEF Low
    <3> QED
      BY <2>1, <2>2, <2>3, UpReach
  <2>5. ASSUME NEW x \in 1..n PROVE W[x] > MinDouble
    <3>1. PICK k \in 0..n - 1 : k = n - x /\ n - k = x
      OBVIOUS
    <3>2. W[n - k] > MinDouble
      BY <2>4
    <3> QED
      BY <3>1, <3>2
  <2> QED
    BY <2>5
<1> DEFINE Good == {x \in 1..n : A[x] = W[x]}
<1>8. 1 \in Good
  <2>1. 1 \in 1..n
    BY <1>1
  <2>2. A[1] = Plus(model.start[path[1]], Emit(path[1], s[1]))
    BY DEF WorthUpTo
  <2>3. cols[1] = FirstColumn(s[1])
    BY DEF AreWeights
  <2>4. PICK y \in States : y = path[1]
    BY <1>2, <2>1
  <2>5. cols[1][y + 1].w = Plus(model.start[y], Emit(y, s[1]))
    BY <2>3, FirstColumnFacts
  <2> QED
    BY <1>4, <2>1, <2>2, <2>4, <2>5
<1>9. ASSUME NEW x \in 1 + 1..n, x - 1 \in Good PROVE x \in Good
  BY <1>1, <1>6, <1>7, <1>9 DEF WorthUpTo
<1>10. n \in Good
  <2>1. 1 \in Nat /\ n \in 1..n
    BY <1>1
  <2> HIDE DEF Good
  <2> QED
    BY <1>8, <1>9, <2>1, UpReach
<1> QED
  BY <1>1, <1>4, <1>10

\* Viterbi yields one of the most probable paths that end a word at the end.
LEMMA ViterbiIsBest ==
  ASSUME ModelIsTyped, NEW s \in Seq(Nat), Len(s) # 0
  PROVE  Viterbi(s) \in Paths(s) /\ IsMostLikely(s, Viterbi(s))
<1>1. PICK n \in Nat : n = Len(s) /\ n # 0 /\ n \in 1..n
  OBVIOUS
<1>2. PICK cols : cols = Weights(s) /\ AreWeights(s, cols)
  BY WeightsFacts
<1>3. PICK path : path = Viterbi(s) /\ GoesBack(cols, Len(s), path)
  BY <1>2, ViterbiBack
<1>4. /\ path \in [1..n -> States] /\ path[n] \in {1, 3}
      /\ \A y \in {1, 3} : cols[n][path[n] + 1].w >= cols[n][y + 1].w
  BY <1>1, <1>2, <1>3, BackFacts
<1>5. path \in Paths(s)
  BY <1>1, <1>4 DEF Paths
<1>6. PICK A : WorthUpTo(s, path, A) /\ Likelihood(s, path) = A[n]
  BY <1>1, <1>4, LikelihoodFacts
<1>7. ASSUME NEW other \in Paths(s), Likelihood(s, other) > MinDouble
      PROVE  Likelihood(s, other) <= Likelihood(s, path)
  <2>1. other \in [1..Len(s) -> States] /\ other[n] \in {1, 3}
    BY <1>1 DEF Paths
  <2>2. PICK B : WorthUpTo(s, other, B) /\ Likelihood(s, other) = B[n]
    BY <1>1, <2>1, LikelihoodFacts
  <2>3. cols[n][other[n] + 1].w >= B[n]
    BY <1>1, <1>2, <1>7, <2>1, <2>2, ColumnsBound
  <2>4. cols[n] \in Column
    BY <1>1, <1>2 DEF AreWeights
  <2>5. PICK v \in LogProb, w \in LogProb : v = cols[n][other[n] + 1].w /\ w = cols[n][path[n] + 1].w
    <3>1. other[n] + 1 \in 1..4 /\ path[n] + 1 \in 1..4
      BY <1>4, <2>1
    <3> QED
      BY <2>4, <3>1 DEF Column, Cell
  <2>6. PICK b \in LogProb : b = B[n]
    BY <1>1, <2>2 DEF WorthUpTo
  <2>7. v >= b /\ w >= v /\ b > MinDouble
    BY <1>4, <1>7, <2>1, <2>2, <2>3, <2>5, <2>6
  <2>8. w > MinDouble /\ b <= w
    BY <2>7 DEF LogProb, MinDouble
  <2>9. A[n] = w
    BY <1>1, <1>2, <1>3, <1>6, <2>5, <2>8, BackIsWorth
  <2> QED
    BY <1>6, <2>2, <2>6, <2>8, <2>9
<1> QED
  BY <1>3, <1>5, <1>7 DEF IsMostLikely

-----------------------------------------------------------------------------
(* HMMSegment, stretch by stretch. *)

\* The rules for ASCII take nothing else.
LEMMA AsciiOnly ==
  ASSUME NEW s \in Seq(Nat), NEW i \in 1..Len(s), IsAscii(s[i]), NEW j, j = AsciiEnd(s, i)
  PROVE  \A k \in i..j : IsAscii(s[k])
<1>1. \A r \in Letter \cup Digit \cup {46} : IsAscii(r)
  BY DEF Letter, Digit, IsAscii
<1>2. CASE \A k \in i..j : s[k] \in Letter \cup Digit
  BY <1>1, <1>2
<1>3. CASE \A k \in i..j : s[k] \in Digit \cup {46}
  BY <1>1, <1>3
<1>4. CASE j = i
  BY <1>4
<1> QED
  BY <1>2, <1>3, <1>4, AsciiEndMore

\* The words end where one of the most probable paths over t has E or S.
FollowsPath(t, off, ends) ==
  \E path \in Paths(t) : IsMostLikely(t, path) /\ \A x \in DOMAIN path : off + x \in ends <=> path[x] \in {1, 3}

\* InternalCut cuts as such a path says.
LEMMA InternalCutFollows ==
  ASSUME ModelIsTyped, NEW s \in Seq(Nat), Len(s) # 0
  PROVE  FollowsPath(s, 0, WordEnds(InternalCut(s))) /\ Len(s) \in WordEnds(InternalCut(s))
<1>1. PICK path : path = Viterbi(s)
  OBVIOUS
<1>2. path \in Paths(s) /\ IsMostLikely(s, path)
  BY <1>1, ViterbiIsBest
<1>3. path \in [1..Len(s) -> States] /\ path[Len(s)] \in {1, 3}
  BY <1>2 DEF Paths
<1>4. WordEnds(InternalCut(s)) = {x \in 1..Len(s) : path[x] % 2 = 1}
  BY <1>1, InternalCutWords
<1>5. ASSUME NEW x \in 1..Len(s) PROVE 0 + x \in WordEnds(InternalCut(s)) <=> path[x] \in {1, 3}
  <2>1. PICK y \in States : y = path[x]
    BY <1>3
  <2>2. y % 2 = 1 <=> y \in {1, 3}
    BY DEF States
  <2> QED
    BY <1>4, <2>1, <2>2
<1>6. DOMAIN path = 1..Len(s) /\ Len(s) \in 1..Len(s) /\ 0 + Len(s) = Len(s)
  BY <1>3
<1>7. Len(s) \in WordEnds(InternalCut(s))
  BY <1>3, <1>5, <1>6
<1> QED
  BY <1>2, <1>5, <1>6, <1>7 DEF FollowsPath

\* Between a and b the text lies outside ASCII, and goes on so on neither side.
IsRun(s, a, b) ==
  /\ \A k \in a..b : ~IsAscii(s[k])
  /\ a = 1 \/ IsAscii(s[a - 1])
  /\ b = Len(s) \/ IsAscii(s[b + 1])

\* The words from i on end as the paths over the runs say.
AllFollow(s, i, words) ==
  \A a \in i..Len(s) : \A b \in a..Len(s) :
    IsRun(s, a, b) => FollowsPath(SubSeq(s, a, b), a - i, WordEnds(words))

\* What is said of the last words holds behind others as well.
LEMMA FollowsBehind ==
  ASSUME NEW t \in Seq(Nat), NEW off \in Nat, NEW u \in Seq(Seq(Nat)), NEW v \in Seq(Seq(Nat)),
         FollowsPath(t, off, WordEnds(v))
  PROVE  FollowsPath(t, Len(FlattenSeq(u)) + off, WordEnds(u \o v))
<1>1. PICK path \in Paths(t) : IsMostLikely(t, path) /\ \A x \in DOMAIN path : off + x \in WordEnds(v) <=> path[x] \in {1, 3}
  BY DEF FollowsPath
<1>2. DOMAIN path = 1..Len(t)
  BY DEF Paths
<1>3. PICK m \in Nat : m = Len(FlattenSeq(u))
  BY FlattenType
<1>4. /\ \A e : e \in WordEnds(u \o v) <=> e \in WordEnds(u) \/ \E d \in WordEnds(v) : e = m + d
      /\ WordEnds(u) \subseteq 0..m
      /\ WordEnds(v) \subseteq Nat
  BY WordEndsConcat, FlattenType, <1>3
<1>5. ASSUME NEW x \in DOMAIN path PROVE m + off + x \in WordEnds(u \o v) <=> path[x] \in {1, 3}
  <2>1. PICK d \in Nat : d = off + x /\ d >= 1
    BY <1>2
  <2>2. m + off + x = m + d /\ m + d \notin 0..m
    BY <1>2, <2>1
  <2>3. \A k \in WordEnds(v) : m + d = m + k => k = d
    BY <1>4
  <2>4. m + d \in WordEnds(u \o v) <=> d \in WordEnds(v)
    BY <1>4, <2>2, <2>3
  <2> QED
    BY <1>1, <2>1, <2>2, <2>4
<1> QED
  BY <1>1, <1>3, <1>5 DEF FollowsPath

\* What is said of the first words holds before others as well.
LEMMA FollowsBefore ==
  ASSUME NEW t \in Seq(Nat), NEW off \in Nat, NEW u \in Seq(Seq(Nat)), off + Len(t) <= Len(FlattenSeq(u)),
         off + Len(t) < Len(FlattenSeq(u)) \/ Len(FlattenSeq(u)) \in WordEnds(u),
         NEW v \in Seq(Seq(Nat)), FollowsPath(t, off, WordEnds(u))
  PROVE  FollowsPath(t, off, WordEnds(u \o v))
<1>1. PICK path \in Paths(t) : IsMostLikely(t, path) /\ \A x \in DOMAIN path : off + x \in WordEnds(u) <=> path[x] \in {1, 3}
  BY DEF FollowsPath
<1>2. DOMAIN path = 1..Len(t)
  BY DEF Paths
<1>3. PICK m \in Nat : m = Len(FlattenSeq(u))
  BY FlattenType
<1>4. /\ \A e : e \in WordEnds(u \o v) <=> e \in WordEnds(u) \/ \E d \in WordEnds(v) : e = m + d
      /\ WordEnds(v) \subseteq Nat
  BY WordEndsConcat, FlattenType, <1>3
<1>5. ASSUME NEW x \in DOMAIN path PROVE off + x \in WordEnds(u \o v) <=> path[x] \in {1, 3}
  <2>1. PICK e \in Nat : e = off + x /\ e <= off + Len(t) /\ e <= m
    <3>1. PICK n \in Nat : n = Len(t) /\ x \in 1..n /\ off + n <= m
      BY <1>2, <1>3
    <3>2. off + x \in Nat /\ off + x <= off + n /\ off + x <= m
      BY <3>1
    <3> QED
      BY <3>1, <3>2
  <2>2. e \in WordEnds(u \o v) <=> e \in WordEnds(u)
    BY <1>4, <1>2, <1>3, <2>1
  <2> QED
    BY <1>1, <2>1, <2>2
<1> QED
  BY <1>1, <1>5 DEF FollowsPath

\* HMMCut cuts every run as a most probable path says.
LEMMA HMMCutFollows ==
  ASSUME ModelIsTyped, NEW s \in Seq(Nat)
  PROVE  AllFollow(s, 1, HMMCut(s))
<1>1. PICK next, piece, f : IsHMMCut(s, next, piece, f)
  BY HMMCutJumps
<1>2. PICK n \in Nat : n = Len(s)
  OBVIOUS
<1>3. /\ next \in [1..n -> 1..n + 1] /\ \A i \in 1..n : next[i] > i
      /\ \A i \in 1..n : piece[i] \in Seq(Seq(Nat)) /\ FlattenSeq(piece[i]) = SubSeq(s, i, next[i] - 1)
      /\ \A i \in 1..n : HMMTakes(s, i, next[i] - 1, piece[i])
      /\ HMMCut(s) = f[1]
  BY <1>1, <1>2 DEF IsHMMCut, Partition
<1>4. /\ \A i \in 1..n + 1 : f[i] \in Seq(Seq(Nat))
      /\ \A i \in 1..n : f[i] = piece[i] \o f[next[i]]
  <2>1. Forward(n, Seq(Seq(Nat)), next, piece) /\ Jumps(n, next, piece, f)
    BY <1>1, <1>2, PartitionForward DEF IsHMMCut
  <2>2. Collects(n, Seq(Seq(Nat)), next, piece, f)
    BY <2>1, JumpsType
  <2> QED
    BY <2>2 DEF Collects
<1> DEFINE Good == {i \in 1..n + 1 : AllFollow(s, i, f[i])}
<1>5. n + 1 \in Good
  BY <1>2 DEF AllFollow
<1>6. ASSUME NEW i \in 1..n, next[i] \in Good PROVE i \in Good
  <2>1. PICK j \in i..n : next[i] = j + 1 /\ next[i] - 1 = j
    <3>1. next[i] \in 1..n + 1 /\ next[i] > i
      BY <1>3
    <3>2. PICK k \in 1..n + 1 : k = next[i] /\ k > i
      BY <3>1
    <3>3. k - 1 \in i..n /\ k = (k - 1) + 1
      BY <3>2
    <3> QED
      BY <3>2, <3>3
  <2>2. PICK u \in Seq(Seq(Nat)), v \in Seq(Seq(Nat)) : u = piece[i] /\ v = f[j + 1] /\ f[i] = u \o v
    BY <1>3, <1>4, <2>1
  <2>3. Len(FlattenSeq(u)) = j - i + 1
    <3>1. i \in 1..Len(s) + 1 /\ j \in i - 1..Len(s)
      BY <1>2
    <3>2. FlattenSeq(u) = SubSeq(s, i, j)
      BY <1>3, <2>1, <2>2
    <3> QED
      BY <3>1, <3>2, PieceFacts
  <2>4. HMMTakes(s, i, j, u) /\ AllFollow(s, j + 1, v)
    BY <1>3, <1>6, <2>1, <2>2
  <2>5. ASSUME NEW a \in i..n, NEW b \in a..n, IsRun(s, a, b)
        PROVE  FollowsPath(SubSeq(s, a, b), a - i, WordEnds(u \o v))
    <3>1. CASE a > j
      <4>1. PICK k \in Nat : a \in j + 1..n /\ k = a - (j + 1) /\ j - i + 1 + k = a - i
        BY <3>1
      <4>2. PICK t \in Seq(Nat) : t = SubSeq(s, a, b)
        <5>1. a \in 1..Len(s) + 1 /\ b \in a - 1..Len(s)
          BY <1>2
        <5> QED
          BY <5>1, PieceFacts
      <4>3. FollowsPath(t, k, WordEnds(v))
        BY <1>2, <2>4, <2>5, <4>1, <4>2 DEF AllFollow
      <4>4. FollowsPath(t, Len(FlattenSeq(u)) + k, WordEnds(u \o v))
        BY <4>3, FollowsBehind
      <4> QED
        BY <2>3, <4>1, <4>2, <4>4
    <3>2. CASE ~(a > j)
      <4>0. a \in i..j /\ a \in 1..n /\ b \in 1..n
        BY <3>2
      <4>1. ~IsAscii(s[a])
        BY <2>5 DEF IsRun
      <4>2. ~IsAscii(s[i])
        BY <2>4, <1>2, <4>0, <4>1, AsciiOnly DEF HMMTakes
      <4>3. u = InternalCut(SubSeq(s, i, j)) /\ (\A k \in i..j : ~IsAscii(s[k])) /\ (j = n \/ IsAscii(s[j + 1]))
        BY <1>2, <2>4, <4>2 DEF HMMTakes
      <4>4. a = i
        BY <4>0, <2>5, <4>3 DEF IsRun
      <4>5. b = j
        BY <4>0, <1>2, <2>5, <4>3 DEF IsRun
      <4>6. PICK t \in Seq(Nat) : t = SubSeq(s, i, j) /\ Len(t) = j - i + 1 /\ Len(t) # 0
        <5>1. i \in 1..Len(s) + 1 /\ j \in i - 1..Len(s) /\ j - i + 1 # 0
          BY <1>2
        <5>2. SubSeq(s, i, j) \in Seq(Nat) /\ Len(SubSeq(s, i, j)) = j - i + 1
          BY <5>1, PieceFacts
        <5> QED
          BY <5>1, <5>2
      <4>7. FollowsPath(t, 0, WordEnds(u)) /\ Len(t) \in WordEnds(u)
        BY <4>3, <4>6, InternalCutFollows
      <4>8. 0 \in Nat /\ 0 + Len(t) <= Len(FlattenSeq(u)) /\ Len(FlattenSeq(u)) \in WordEnds(u)
        BY <2>3, <4>6, <4>7
      <4>9. FollowsPath(t, 0, WordEnds(u \o v))
        BY <4>7, <4>8, FollowsBefore
      <4>10. a - i = 0
        BY <4>4
      <4> QED
        BY <4>4, <4>5, <4>6, <4>9, <4>10
    <3> QED
      BY <3>1, <3>2
  <2>6. AllFollow(s, i, f[i])
    BY <1>2, <2>2, <2>5 DEF AllFollow
  <2> QED
    BY <2>6
<1>7. 1 \in Good
  <2>1. 1 \in 1..n + 1
    OBVIOUS
  <2> HIDE DEF Good
  <2> QED
    BY <1>3, <1>5, <1>6, <2>1, JumpsReach
<1> QED
  BY <1>3, <1>7

-----------------------------------------------------------------------------
(* HMMSegment's choice, range by range. *)

\* The last word ends where all of them end.
LEMMA WordEndsLast ==
  ASSUME NEW u \in Seq(Seq(Nat)), u # <<>>
  PROVE  Len(FlattenSeq(u)) \in WordEnds(u)
<1> DEFINE R == Seq(Nat)
<1>1. Len(u) \in 1..Len(u) /\ SubSeq(u, 1, Len(u)) = u
  <2>1. u \in Seq(R)
    OBVIOUS
  <2> HIDE DEF R
  <2> QED
    BY <2>1
<1> QED
  BY <1>1 DEF WordEnds

\* R follows U where PreFilter has stopped, and is a range of its own.
RangeBehind(U, R) ==
  /\ U \in Seq(Nat) /\ R \in Seq(Nat) /\ Len(R) # 0
  /\ Len(U) = 0 \/ U[Len(U)] \in Symbols \/ R[1] \in Symbols
  /\ Len(R) = 1 \/ \A k \in 1..Len(R) : R[k] \notin Symbols

\* A step of CutRange goes on behind what it has seen.
LEMMA RangeIsBehind ==
  ASSUME NEW end, NEW R, RangeStep(end, R)
  PROVE  RangeBehind(Seen, R) /\ Seen' = Seen \o R /\ Len(Seen) = cursor
<1>1. PICK s, c, U, S : s = text /\ c = cursor /\ U = Seen /\ S = Seen'
  OBVIOUS
<1>2. /\ s \in Seq(Nat) /\ c \in 0..Len(s) /\ c < Len(s) /\ end \in c + 1..Len(s)
      /\ R \in Seq(Nat) /\ R = SubSeq(s, c + 1, end) /\ AtBorder(s, c)
      /\ end = c + 1 \/ NoSymbols(s, c, end)
      /\ U = SubSeq(s, 1, c) /\ S = SubSeq(s, 1, end)
  BY <1>1 DEF RangeStep
<1>3. 1 \in 1..Len(s) + 1 /\ c \in 1 - 1..Len(s) /\ c + 1 \in 1..Len(s) + 1 /\ end \in c + 1 - 1..Len(s) /\ end \in c..Len(s)
  BY <1>2
<1>4. U \in Seq(Nat) /\ Len(U) = c /\ \A n \in 1..c : U[n] = s[n]
  BY <1>2, <1>3, PieceFacts
<1>5. Len(R) = end - c /\ \A n \in 1..end - c : R[n] = s[c + n]
  BY <1>2, <1>3, PieceFacts
<1>6. S = U \o R
  BY <1>2, <1>3, PieceSplits
<1>7. Len(R) # 0
  BY <1>2, <1>5
<1>8. Len(U) = 0 \/ U[Len(U)] \in Symbols \/ R[1] \in Symbols
  <2>1. CASE c = 0
    BY <1>4, <2>1
  <2>2. CASE c # 0
    <3>1. c \in 1..c /\ 1 \in 1..end - c
      BY <1>2, <2>2
    <3>2. U[c] = s[c] /\ R[1] = s[c + 1]
      BY <1>4, <1>5, <3>1
    <3>3. c # Len(s)
      BY <1>2
    <3> QED
      <4>1. c = 0 \/ c = Len(s) \/ s[c] \in Symbols \/ s[c + 1] \in Symbols
        BY <1>2 DEF AtBorder
      <4>2. U[Len(U)] = s[c]
        BY <1>4, <3>2, Zenon
      <4> QED
        BY <2>2, <3>2, <3>3, <4>1, <4>2, Zenon
  <2> QED
    BY <2>1, <2>2
<1>9. Len(R) = 1 \/ \A k \in 1..Len(R) : R[k] \notin Symbols
  BY <1>2, <1>5, SMTT(30) DEF NoSymbols
<1>10. RangeBehind(U, R)
  BY <1>2, <1>4, <1>7, <1>8, <1>9 DEF RangeBehind
<1> QED
  BY <1>1, <1>4, <1>6, <1>10, Zenon

\* Every stretch is cut as one of its best paths says.
StretchesFollow(s, words) ==
  \A i \in 1..Len(s) : \A j \in i..Len(s) :
    IsStretch(s, i, j) => FollowsPath(SubSeq(s, i, j), i - 1, WordEnds(words))

\* The text of two ranges, rune by rune.
LEMMA TwoParts ==
  ASSUME NEW U \in Seq(Nat), NEW R \in Seq(Nat), NEW S, S = U \o R
  PROVE  /\ S \in Seq(Nat) /\ Len(S) = Len(U) + Len(R)
         /\ \A k \in 1..Len(U) : S[k] = U[k]
         /\ \A k \in 1..Len(R) : S[Len(U) + k] = R[k]
         /\ \A i \in 1..Len(U) : \A j \in i..Len(U) : SubSeq(S, i, j) = SubSeq(U, i, j)
         /\ \A i \in 1..Len(R) : \A j \in i..Len(R) : SubSeq(S, Len(U) + i, Len(U) + j) = SubSeq(R, i, j)
BY SMTT(30)

\* A stretch of U, or a run of R.
LiesInOne(U, R, i, j) ==
  \/ i <= Len(U) /\ j <= Len(U) /\ IsStretch(U, i, j)
  \/ \E a \in 1..Len(R) : \E b \in a..Len(R) : i = Len(U) + a /\ j = Len(U) + b /\ IsRun(R, a, b)

\* A stretch lies in one range, where it is a run.
LEMMA StretchParts ==
  ASSUME NEW U, NEW R, RangeBehind(U, R), NEW S, S = U \o R,
         NEW i \in 1..Len(S), NEW j \in i..Len(S), IsStretch(S, i, j)
  PROVE  LiesInOne(U, R, i, j)
<1> DEFINE Inside(x) == ~IsAscii(x) /\ x \notin Symbols
<1>0. U \in Seq(Nat) /\ R \in Seq(Nat)
  BY DEF RangeBehind
<1>1. PICK m \in Nat, r \in Nat : m = Len(U) /\ r = Len(R)
  BY <1>0
<1>2. /\ Len(S) = m + r
      /\ \A k \in 1..m : S[k] = U[k]
      /\ \A k \in 1..r : S[m + k] = R[k]
  BY <1>0, <1>1, TwoParts
<1>3. /\ \A k \in i..j : Inside(S[k])
      /\ i = 1 \/ ~Inside(S[i - 1])
      /\ j = Len(S) \/ ~Inside(S[j + 1])
  BY DEF IsStretch
<1>4. /\ m = 0 \/ U[m] \in Symbols \/ R[1] \in Symbols
      /\ r = 1 \/ \A k \in 1..r : R[k] \notin Symbols
      /\ r # 0
  BY <1>1 DEF RangeBehind
<1> HIDE DEF Inside
<1>5. CASE j <= m
  <2>1. \A k \in i..j : Inside(U[k])
    BY <1>5, <1>2, <1>3
  <2>2. i = 1 \/ ~Inside(U[i - 1])
    <3>1. i # 1 => i - 1 \in 1..m
      BY <1>2, <1>5
    <3> QED
      BY <1>2, <1>3, <3>1
  <2>3. j = m \/ ~Inside(U[j + 1])
    BY <1>2, <1>5, <1>3
  <2>4. IsStretch(U, i, j)
    BY <1>1, <2>1, <2>2, <2>3 DEF IsStretch, Inside
  <2>5. i <= m
    BY <1>5
  <2> QED
    BY <1>1, <1>5, <2>4, <2>5 DEF LiesInOne
<1>6. CASE i <= m /\ j > m
  <2>1. m \in i..j /\ m \in 1..m /\ m + 1 \in i..j /\ 1 \in 1..r /\ m # 0
    BY <1>2, <1>6
  <2>2. Inside(U[m]) /\ Inside(R[1])
    BY <1>2, <1>3, <2>1
  <2> QED
    BY <1>4, <2>1, <2>2 DEF Inside
<1>7. CASE i > m
  <2>1. PICK a \in 1..r, b \in 1..r : i = m + a /\ j = m + b /\ a <= b
    BY <1>2, <1>7
  <2>2. \A k \in a..b : ~IsAscii(R[k])
    <3>1. \A k \in a..b : k \in 1..r /\ m + k \in i..j
      BY <2>1
    <3> QED
      BY <1>2, <1>3, <3>1 DEF Inside
  <2>3. a = 1 \/ IsAscii(R[a - 1])
    <3>1. ASSUME a # 1 PROVE IsAscii(R[a - 1])
      <4>1. PICK k \in 1..r : k = a - 1 /\ i - 1 = m + k /\ i # 1 /\ r # 1
        BY <2>1, <3>1
      <4> QED
        BY <1>2, <1>3, <1>4, <4>1 DEF Inside
    <3> QED
      BY <3>1
  <2>4. b = r \/ IsAscii(R[b + 1])
    <3>1. ASSUME b # r PROVE IsAscii(R[b + 1])
      <4>1. PICK k \in 1..r : k = b + 1 /\ j + 1 = m + k /\ j # m + r /\ r # 1
        BY <2>1, <3>1
      <4> QED
        BY <1>2, <1>3, <1>4, <4>1 DEF Inside
    <3> QED
      BY <3>1
  <2>5. IsRun(R, a, b)
    BY <1>1, <2>2, <2>3, <2>4 DEF IsRun
  <2>6. b \in a..r
    BY <2>1
  <2> QED
    BY <1>1, <2>1, <2>5, <2>6 DEF LiesInOne
<1>8. j <= m \/ (i <= m /\ j > m) \/ i > m
  BY <1>2
<1> QED
  BY <1>5, <1>6, <1>7, <1>8, Zenon

\* The next range leaves them so.
LEMMA StretchesOfRange ==
  ASSUME ModelIsTyped, NEW U, NEW R, RangeBehind(U, R),
         NEW ws \in Seq(Seq(Nat)), FlattenSeq(ws) = U, StretchesFollow(U, ws)
  PROVE  StretchesFollow(U \o R, ws \o HMMCut(R))
<1>0. U \in Seq(Nat) /\ R \in Seq(Nat) /\ Len(R) # 0
  BY DEF RangeBehind
<1>1. PICK S, v : S = U \o R /\ v = HMMCut(R)
  OBVIOUS
<1>2. v \in Seq(Seq(Nat)) /\ AllFollow(R, 1, v)
  BY <1>0, <1>1, HMMCutSpells, HMMCutFollows
<1>3. /\ S \in Seq(Nat) /\ Len(S) = Len(U) + Len(R)
      /\ \A i \in 1..Len(U) : \A j \in i..Len(U) : SubSeq(S, i, j) = SubSeq(U, i, j)
      /\ \A i \in 1..Len(R) : \A j \in i..Len(R) : SubSeq(S, Len(U) + i, Len(U) + j) = SubSeq(R, i, j)
  BY <1>0, <1>1, TwoParts, SMTT(30)
<1>4. ASSUME NEW i \in 1..Len(S), NEW j \in i..Len(S), IsStretch(S, i, j)
      PROVE  FollowsPath(SubSeq(S, i, j), i - 1, WordEnds(ws \o v))
  <2>1. LiesInOne(U, R, i, j)
    BY <1>1, <1>4, StretchParts
  <2>2. CASE i <= Len(U) /\ j <= Len(U) /\ IsStretch(U, i, j)
    <3>1. i \in 1..Len(U) /\ j \in i..Len(U) /\ i \in 1..Len(U) + 1 /\ j \in i - 1..Len(U)
      BY <1>0, <1>3, <2>2
    <3>2. PICK t : t = SubSeq(U, i, j)
      OBVIOUS
    <3>3. t \in Seq(Nat) /\ Len(t) = j - i + 1
      BY <1>0, <3>1, <3>2, PieceFacts
    <3>4. FollowsPath(t, i - 1, WordEnds(ws))
      BY <2>2, <3>1, <3>2 DEF StretchesFollow
    <3>5. PICK off \in Nat : off = i - 1
      BY <3>1
    <3>6. off + Len(t) <= Len(U)
      BY <1>0, <3>1, <3>3, <3>5
    <3>7. ws # <<>>
      BY <1>0, <3>1, FlattenEmpty
    <3>8. FollowsPath(t, off, WordEnds(ws \o v))
      BY <1>2, <3>3, <3>4, <3>5, <3>6, <3>7, WordEndsLast, FollowsBefore
    <3>9. SubSeq(S, i, j) = t
      BY <1>3, <3>1, <3>2
    <3> QED
      BY <3>5, <3>8, <3>9
  <2>3. CASE \E a \in 1..Len(R) : \E b \in a..Len(R) : i = Len(U) + a /\ j = Len(U) + b /\ IsRun(R, a, b)
    <3>1. PICK a \in 1..Len(R) : \E b \in a..Len(R) : i = Len(U) + a /\ j = Len(U) + b /\ IsRun(R, a, b)
      BY <2>3
    <3>2. PICK b \in a..Len(R) : i = Len(U) + a /\ j = Len(U) + b /\ IsRun(R, a, b)
      BY <3>1
    <3>3. PICK t : t = SubSeq(R, a, b)
      OBVIOUS
    <3>4. t \in Seq(Nat)
      BY <1>0, <3>3, PieceFacts, SMTT(30)
    <3>5. FollowsPath(t, a - 1, WordEnds(v))
      BY <1>2, <3>2, <3>3 DEF AllFollow
    <3>6. PICK off \in Nat : off = a - 1 /\ Len(U) + off = i - 1
      BY <1>0, <3>2
    <3>7. FollowsPath(t, Len(FlattenSeq(ws)) + off, WordEnds(ws \o v))
      BY <1>2, <3>4, <3>5, <3>6, FollowsBehind
    <3>8. SubSeq(S, i, j) = t
      BY <1>3, <3>2, <3>3
    <3> QED
      BY <3>6, <3>7, <3>8
  <2> QED
    BY <2>1, <2>2, <2>3 DEF LiesInOne
<1> QED
  BY <1>1, <1>4 DEF StretchesFollow

-----------------------------------------------------------------------------
(* HMMSegment's choice, call by call. *)

\* What is cut so stays so while the model does not change.
LEMMA BestPathHolds ==
  ASSUME model' = model, NEW CONSTANT ws, NEW CONSTANT s, uwords' = ws,
         SubSeq(text', 1, cursor') = s, cursor' = Len(s), StretchesFollow(s, ws)
  PROVE  BestPath'
<1>1. ASSUME NEW CONSTANT t, NEW CONSTANT path PROVE Likelihood(t, path)' = Likelihood(t, path)
  BY SMT DEF Likelihood, Plus, Emit
<1>2. ASSUME NEW CONSTANT t, NEW CONSTANT path PROVE IsMostLikely(t, path)' <=> IsMostLikely(t, path)
  BY <1>1 DEF IsMostLikely
<1>3. ASSUME NEW CONSTANT t, NEW CONSTANT off, NEW CONSTANT ends, FollowsPath(t, off, ends)
      PROVE  \E path \in Paths(t) : IsMostLikely(t, path)' /\ \A x \in DOMAIN path : off + x \in ends <=> path[x] \in {1, 3}
  BY <1>2, <1>3 DEF FollowsPath
<1>4. Seen' = s /\ WordEnds(uwords)' = WordEnds(ws)
  BY DEF Seen
<1>5. ASSUME NEW CONSTANT i \in 1..cursor', NEW CONSTANT j \in i..cursor', IsStretch(s, i, j)
      PROVE  \E path \in Paths(SubSeq(s, i, j)) :
               /\ IsMostLikely(SubSeq(s, i, j), path)'
               /\ \A x \in DOMAIN path : i - 1 + x \in WordEnds(ws) <=> path[x] \in {1, 3}
  BY <1>5, <1>3 DEF StretchesFollow
<1> QED
  BY <1>4, <1>5 DEF BestPath

\* HMMSegment's words follow a most likely path after each step.
LEMMA BestPathStep ==
  ASSUME JiebaAssumption, CutInv, ModelInv, BestPath, [Next]_vars
  PROVE  BestPath'
<1>0. CallInv /\ Running
  BY DEF CutInv, JiebaInv
<1>1. CASE pc' # "cut" \/ call'.mode # "hmm"
  BY <1>1 DEF BestPath
<1>2. CASE Start /\ pc' = "cut"
  BY <1>2 DEF Start, BestPath
<1>3. ASSUME pc = "cut", call.mode = "hmm" PROVE ModelIsTyped /\ StretchesFollow(Seen, uwords)
      /\ uwords \in Seq(Seq(Nat)) /\ FlattenSeq(uwords) = Seen /\ Len(Seen) = cursor
  BY <1>0, <1>3, TextType, PieceFacts DEF CallInv, Keeping, Running, Seen, BestPath, StretchesFollow,
     FollowsPath, ModelInv
<1>4. CASE CutRange /\ call.mode = "hmm"
  <2>1. PICK end, R : RangeStep(end, R)
    BY <1>4, RangeStepFacts DEF CutInv, JiebaInv
  <2>2. PICK U, ws, S, w : U = Seen /\ ws = uwords /\ S = U \o R /\ w = ws \o HMMCut(R)
    OBVIOUS
  <2>3. RangeBehind(U, R) /\ Seen' = S /\ pc = "cut" /\ cursor' = end /\ uwords' = w
    BY <1>4, <2>1, <2>2, RangeIsBehind DEF CutWords, RangeStep
  <2>4. StretchesFollow(S, w)
    BY <1>3, <1>4, <2>2, <2>3, StretchesOfRange
  <2>5. Len(S) = end
    BY <2>1, <2>3, PieceFacts DEF RangeStep, Seen
  <2>6. model' = model
    BY <1>4 DEF CutRange
  <2> QED
    BY <2>3, <2>4, <2>5, <2>6, BestPathHolds DEF Seen
<1>5. CASE UNCHANGED vars /\ pc = "cut" /\ call.mode = "hmm"
  <2>1. model' = model /\ uwords' = uwords /\ text' = text /\ cursor' = cursor
    BY <1>5 DEF vars, callVars, text
  <2>2. PICK ws, S : ws = uwords /\ S = Seen
    OBVIOUS
  <2>3. StretchesFollow(S, ws) /\ Len(S) = cursor
    BY <1>3, <1>5, <2>2
  <2> QED
    BY <2>1, <2>2, <2>3, BestPathHolds DEF Seen
<1>6. CASE CutDone \/ LevelDone \/ Tag
  BY <1>6, <1>1 DEF CutDone, LevelDone, Tag
<1>7. CASE LevelStep
  BY <1>7, <1>1 DEF LevelStep
<1>8. CASE UNCHANGED vars /\ ~(pc = "cut" /\ call.mode = "hmm")
  BY <1>8, <1>1 DEF vars, callVars
<1>9. CASE CutRange /\ call.mode # "hmm"
  BY <1>9, <1>1 DEF CutRange
<1>10. CASE pc' = "idle"
  BY <1>1, <1>10
<1> QED
  BY <1>0, <1>1, <1>2, <1>4, <1>5, <1>6, <1>7, <1>8, <1>9, <1>10, StepKinds DEF CallStep

\* The words so far are a best cut of what was seen: none weighs more than
\* that of MPSegment, and no path is more likely than the one HMMSegment
\* follows through each stretch outside ASCII (MPSegment.hpp:63-91,
\* HMMSegment.hpp:120-172).
THEOREM CutsStayBest == Spec => []CutsAreBest
<1>1. Init => BestInv
  <2> SUFFICES ASSUME Init PROVE BestInv
    OBVIOUS
  <2>1. FileInv /\ ModelInv /\ BestCut /\ BestPath
    BY DEF Init, FileInv, ModelInv, BestCut, BestPath
  <2>2. CutInv
    BY CutInvInit, DictAssumption
  <2> QED
    BY <2>1, <2>2 DEF BestInv
<1>2. BestInv /\ [Next]_vars => BestInv'
  <2> SUFFICES ASSUME BestInv, [Next]_vars PROVE BestInv'
    OBVIOUS
  <2>1. CutInv' /\ BestCut'
    BY CutInvStep, BestCutStep, DictAssumption, JiebaAssumption DEF BestInv
  <2>2. FileInv' /\ ModelInv'
    BY ModelStep, JiebaAssumption DEF BestInv
  <2>3. BestPath'
    BY BestPathStep, JiebaAssumption DEF BestInv
  <2> QED
    BY <2>1, <2>2, <2>3 DEF BestInv
<1>3. BestInv => CutsAreBest
  BY DEF BestInv, CutsAreBest
<1> QED
  BY <1>1, <1>2, <1>3, PTL DEF Spec

-----------------------------------------------------------------------------
(* What the words of a cut are. *)

\* The members of two sequences, one behind the other.
LEMMA MembersOfBoth ==
  ASSUME NEW S, NEW a \in Seq(S), NEW b \in Seq(S)
  PROVE  ToSet(a \o b) = ToSet(a) \cup ToSet(b)
<1>1. DOMAIN (a \o b) = 1..Len(a) + Len(b) /\ DOMAIN a = 1..Len(a) /\ DOMAIN b = 1..Len(b)
  OBVIOUS
<1>2. \A k \in 1..Len(a) : (a \o b)[k] = a[k] /\ k \in 1..Len(a) + Len(b)
  OBVIOUS
<1>3. \A k \in 1..Len(b) : (a \o b)[Len(a) + k] = b[k] /\ Len(a) + k \in 1..Len(a) + Len(b)
  OBVIOUS
<1>4. \A k \in 1..Len(a) + Len(b) : k \in 1..Len(a) \/ \E n \in 1..Len(b) : k = Len(a) + n
  <2> TAKE k \in 1..Len(a) + Len(b)
  <2>1. Len(a) \in Nat /\ Len(b) \in Nat
    OBVIOUS
  <2>2. k > Len(a) => k - Len(a) \in 1..Len(b) /\ k = Len(a) + (k - Len(a))
    BY <2>1
  <2>3. ~(k > Len(a)) => k \in 1..Len(a)
    BY <2>1
  <2> QED
    BY <2>2, <2>3
<1>5. ASSUME NEW x \in ToSet(a \o b) PROVE x \in ToSet(a) \cup ToSet(b)
  BY <1>1, <1>2, <1>3, <1>4 DEF ToSet
<1>6. ASSUME NEW x \in ToSet(a) \cup ToSet(b) PROVE x \in ToSet(a \o b)
  BY <1>1, <1>2, <1>3 DEF ToSet
<1> QED
  BY <1>5, <1>6

\* The members of what all words spell.
LEMMA MembersOfAll ==
  ASSUME NEW S, NEW ss \in Seq(Seq(S))
  PROVE  ToSet(FlattenSeq(ss)) = UNION {ToSet(ss[k]) : k \in 1..Len(ss)}
<1> DEFINE R == Seq(S)
           n == Len(ss)
           First(k) == SubSeq(ss, 1, k)
           All(k) == UNION {ToSet(ss[m]) : m \in 1..k}
           Right(k) == ToSet(FlattenSeq(First(k))) = All(k)
           Good == {k \in 0..n : Right(k)}
<1>0. ss \in Seq(R) /\ n \in Nat /\ (\A k \in 1..n : ss[k] \in R)
  <2>1. ss \in Seq(R)
    OBVIOUS
  <2> HIDE DEF R
  <2> QED
    BY <2>1
<1>1. 0 \in Good
  <2>1. First(0) = <<>> /\ All(0) = {} /\ 0 \in 0..n
    <3> HIDE DEF R
    <3> QED
      BY <1>0
  <2>2. ToSet(<<>>) = {}
    BY DEF ToSet
  <2> HIDE DEF First, All
  <2> QED
    BY <2>1, <2>2, FlattenEmpty
<1>2. ASSUME NEW k \in 0 + 1..n, k - 1 \in Good PROVE k \in Good
  <2>1. k \in 1..n /\ k \in 0..n /\ k - 1 \in 0..n
    BY <1>0
  <2>2. First(k) = Append(First(k - 1), ss[k]) /\ First(k - 1) \in Seq(R) /\ ss[k] \in R
    <3> HIDE DEF R
    <3> QED
      BY <1>0, <2>1
  <2>3. PICK u \in Seq(Seq(S)), w \in Seq(S) : u = First(k - 1) /\ w = ss[k]
    BY <2>2 DEF R
  <2>4. FlattenSeq(u) \in Seq(S) /\ FlattenSeq(First(k)) = FlattenSeq(u) \o w
    BY <2>2, <2>3, FlattenAppend
  <2>5. ToSet(FlattenSeq(First(k))) = ToSet(FlattenSeq(u)) \cup ToSet(w)
    BY <2>4, MembersOfBoth
  <2>6. All(k) = All(k - 1) \cup ToSet(ss[k])
    BY <2>1
  <2>7. Right(k - 1)
    BY <1>2
  <2> HIDE DEF First, All
  <2> QED
    BY <2>1, <2>3, <2>5, <2>6, <2>7
<1>3. n \in Good
  <2> HIDE DEF Good, R
  <2>1. 0 \in Nat /\ n \in 0..n
    BY <1>0
  <2> QED
    BY <1>0, <1>1, <1>2, <2>1, UpReach
<1>4. First(n) = ss
  <2> HIDE DEF R
  <2> QED
    BY <1>0
<1> HIDE DEF First
<1> QED
  BY <1>3, <1>4

\* InternalCut and the rules for ASCII make such words.
LEMMA TakesShape ==
  ASSUME NEW s \in Seq(Nat), NEW i \in 1..Len(s), NEW j, NEW words, HMMTakes(s, i, j, words)
  PROVE  words \in Seq(Shape)
<1>1. j \in i..Len(s) /\ i \in 1..Len(s) + 1 /\ j \in i - 1..Len(s) /\ j - i + 1 # 0
  BY DEF HMMTakes
<1>2. PICK t \in Seq(Nat) : t = SubSeq(s, i, j) /\ Len(t) = j - i + 1 /\ \A n \in 1..j - i + 1 : t[n] = s[i + n - 1]
  <2>1. /\ SubSeq(s, i, j) \in Seq(Nat) /\ Len(SubSeq(s, i, j)) = j - i + 1
        /\ \A n \in 1..j - i + 1 : SubSeq(s, i, j)[n] = s[i + n - 1]
    BY <1>1, PieceFacts
  <2> QED
    BY <2>1
<1>3. ASSUME NEW r \in ToSet(t) PROVE \E k \in i..j : r = s[k]
  <2>1. PICK n \in 1..j - i + 1 : r = t[n]
    BY <1>2 DEF ToSet
  <2>2. i + n - 1 \in i..j
    BY <1>1
  <2> QED
    BY <1>2, <2>1, <2>2
<1>4. CASE IsAscii(s[i])
  <2>1. j = AsciiEnd(s, i) /\ words = <<t>>
    BY <1>2, <1>4 DEF HMMTakes
  <2>2. t \in Filled
    BY <1>1, <1>2 DEF Filled
  <2>3. t[1] = s[i]
    BY <1>1, <1>2
  <2>4. t \in Shape
    <3>1. CASE s[i] \in Letter
      BY <2>2, <2>3, <3>1 DEF Shape
    <3>2. CASE \A k \in i..j : s[k] \in Digit \cup {46}
      BY <1>3, <3>2, <2>2 DEF Shape
    <3>3. CASE j = i
      BY <1>2, <3>3, <2>2 DEF Shape
    <3> QED
      BY <2>1, <3>1, <3>2, <3>3, AsciiEndMore
  <2> QED
    BY <2>1, <2>4
<1>5. CASE ~IsAscii(s[i])
  <2>1. words = InternalCut(t) /\ \A k \in i..j : ~IsAscii(s[k])
    BY <1>2, <1>5 DEF HMMTakes
  <2>2. \A r \in ToSet(t) : ~IsAscii(r)
    BY <1>3, <2>1
  <2>3. words \in Seq(Filled) /\ words \in Seq(Seq(Nat)) /\ FlattenSeq(words) = t
    BY <2>1, InternalCutWords
  <2>4. ASSUME NEW k \in 1..Len(words) PROVE words[k] \in Shape
    <3>1. words[k] \in Filled
      BY <2>3
    <3>2. ToSet(words[k]) \subseteq ToSet(t)
      BY <2>3, MembersOfAll
    <3> QED
      BY <2>2, <3>1, <3>2 DEF Shape
  <2> QED
    <3>1. PICK m \in Nat : m = Len(words) /\ words \in [1..m -> Filled]
      BY <2>3
    <3>2. words \in [1..m -> Shape]
      BY <2>4, <3>1
    <3> QED
      BY <3>2
<1> QED
  BY <1>4, <1>5

\* HMMCut makes such words.
LEMMA HMMCutShape ==
  ASSUME NEW s \in Seq(Nat)
  PROVE  HMMCut(s) \in Seq(Shape)
<1>1. PICK next, piece, f : IsHMMCut(s, next, piece, f)
  BY HMMCutJumps
<1>2. PICK n \in Nat : n = Len(s)
  OBVIOUS
<1>3. /\ next \in [1..n -> 1..n + 1] /\ (\A i \in 1..n : next[i] > i) /\ piece \in [1..n -> Seq(Seq(Nat))]
      /\ Jumps(n, next, piece, f) /\ HMMCut(s) = f[1]
      /\ \A i \in 1..n : HMMTakes(s, i, next[i] - 1, piece[i])
  BY <1>1, <1>2 DEF IsHMMCut, Partition
<1>4. \A i \in 1..n : piece[i] \in Seq(Shape)
  BY <1>2, <1>3, TakesShape
<1>5. piece \in [1..n -> Seq(Shape)]
  BY <1>3, <1>4
<1>6. Collects(n, Seq(Shape), next, piece, f)
  BY <1>3, <1>5, ForwardInSeq, JumpsType
<1>7. 1 \in 1..n + 1
  OBVIOUS
<1> QED
  BY <1>3, <1>6, <1>7 DEF Collects

\* What MPSegment makes: one rune, or a word that is not too long.
Picked(s, max) ==
  {word \in Filled : \E i \in 1..Len(s) : \E j \in i..Len(s) :
     word = SubSeq(s, i, j) /\ (j = i \/ (j - i + 1 <= max /\ word \in DictWords))}

\* MPCut makes such words.
LEMMA MPCutPicks ==
  ASSUME DictInv, DictMore, stage = "ready", NEW s \in Seq(Nat), NEW max
  PROVE  MPCut(s, max) \in Seq(Picked(s, max))
<1>1. PICK next, piece, f : IsDagCut(s, max, next, piece, f)
  BY MPCutJumps
<1>2. PICK n \in Nat : n = Len(s)
  OBVIOUS
<1>3. /\ next \in [1..n -> 1..n + 1] /\ (\A i \in 1..n : next[i] > i) /\ piece \in [1..n -> Seq(Seq(Nat))]
      /\ Jumps(n, next, piece, f) /\ MPCut(s, max) = f[1]
      /\ \A i \in 1..n : piece[i] = <<DagWord(s, max, i)>>
  BY <1>1, <1>2 DEF IsDagCut, Partition
<1>4. IsTable(s, max, CalcDP(s, max))
  BY CalcDPIsTable DEF DictMore
<1>5. ASSUME NEW i \in 1..n PROVE DagWord(s, max, i) \in Picked(s, max)
  <2>1. PICK j : j = CalcDP(s, max)[i].at
    OBVIOUS
  <2>2. j \in i..Len(s) /\ DagWord(s, max, i) = SubSeq(s, i, j)
    BY <1>2, <1>4, <2>1, DagWordIsEntry
  <2>3. j \in Nexts(s, i, max)
    BY <1>2, <1>4, <2>1 DEF IsTable, IsChoice
  <2>4. j = i \/ (j - i + 1 <= max /\ SubSeq(s, i, j) \in DictWords)
    BY <1>2, <2>3, NextsAreWords
  <2>5. SubSeq(s, i, j) \in Filled
    <3>1. i \in 1..Len(s) + 1 /\ j \in i - 1..Len(s) /\ j - i + 1 # 0
      BY <1>2, <2>2
    <3>2. SubSeq(s, i, j) \in Seq(Nat) /\ Len(SubSeq(s, i, j)) = j - i + 1
      BY <3>1, PieceFacts
    <3> QED
      BY <3>1, <3>2 DEF Filled
  <2> QED
    BY <1>2, <2>2, <2>4, <2>5 DEF Picked
<1>6. \A i \in 1..n : piece[i] \in Seq(Picked(s, max))
  <2> TAKE i \in 1..n
  <2>1. PICK w \in Picked(s, max) : piece[i] = <<w>>
    BY <1>3, <1>5
  <2> QED
    BY <2>1
<1>7. piece \in [1..n -> Seq(Picked(s, max))]
  BY <1>3, <1>6
<1>8. Collects(n, Seq(Picked(s, max)), next, piece, f)
  BY <1>3, <1>7, ForwardInSeq, JumpsType
<1>9. 1 \in 1..n + 1
  OBVIOUS
<1> QED
  BY <1>3, <1>8, <1>9 DEF Collects

-----------------------------------------------------------------------------
(* MixSegment's words and their tags. *)

\* MPSegment makes such words, and so does MixSegment.
LEMMA MPCutTagWords ==
  ASSUME DictInv, DictMore, stage = "ready", NEW s \in Seq(Nat), NEW max
  PROVE  MPCut(s, max) \in Seq(TagWords)
<1>1. MPCut(s, max) \in Seq(Picked(s, max))
  BY MPCutPicks
<1>2. ASSUME NEW word \in Picked(s, max) PROVE word \in TagWords
  <2>1. word \in Filled
    BY DEF Picked
  <2>2. PICK i \in 1..Len(s) : \E j \in i..Len(s) : word = SubSeq(s, i, j) /\ (j = i \/ (j - i + 1 <= max /\ word \in DictWords))
    BY DEF Picked
  <2>3. PICK j \in i..Len(s) : word = SubSeq(s, i, j) /\ (j = i \/ word \in DictWords)
    BY <2>2
  <2>4. CASE j = i
    BY <2>3, <2>4, PieceOne, <2>1 DEF Shape, TagWords
  <2>5. CASE word \in DictWords
    BY <2>1, <2>5 DEF TagWords
  <2> QED
    BY <2>3, <2>4, <2>5
<1> QED
  BY <1>1, <1>2

\* So does MixSegment.
LEMMA MixCutTagWords ==
  ASSUME DictInv, DictMore, stage = "ready", NEW s \in Seq(Nat)
  PROVE  MixCut(s) \in Seq(TagWords)
<1>1. PICK words, next, piece, goal, f : IsMixCut(s, words, next, piece, goal, f)
  BY MixCutJumps
<1>2. words \in Seq(TagWords)
  BY <1>1, MPCutTagWords DEF IsMixCut
<1>3. PICK n \in Nat : n = Len(words)
  BY <1>2
<1>4. /\ next \in [1..n -> 1..n + 1] /\ (\A i \in 1..n : next[i] > i) /\ piece \in [1..n -> Seq(Seq(Nat))]
      /\ Jumps(n, next, piece, f) /\ MixCut(s) = f[1]
      /\ \A i \in 1..n : MixTakes(words[i], piece[i])
  BY <1>1, <1>3 DEF IsMixCut, Forward
<1>5. ASSUME NEW i \in 1..n PROVE piece[i] \in Seq(TagWords)
  <2>1. CASE piece[i] = <<words[i]>>
    BY <1>2, <1>3, <2>1
  <2>2. CASE \E t \in Seq(Nat) : piece[i] = HMMCut(t)
    BY <2>2, HMMCutShape DEF TagWords
  <2> QED
    BY <1>4, <2>1, <2>2 DEF MixTakes
<1>6. piece \in [1..n -> Seq(TagWords)]
  BY <1>4, <1>5
<1>7. Collects(n, Seq(TagWords), next, piece, f)
  BY <1>4, <1>6, ForwardInSeq, JumpsType
<1>8. 1 \in 1..n + 1
  OBVIOUS
<1> QED
  BY <1>4, <1>7, <1>8 DEF Collects

-----------------------------------------------------------------------------
(* PosTagger's rule for words that have no tag. *)

\* What SpecialRule counts.
Counts == [eng : Nat, m : Nat]

\* ASCII, but no digit.
IsOther(r) == IsAscii(r) /\ ~IsDigit(r)

\* What the counts of the first k runes say. In ASCII alone the first half of
\* the word is counted, so far.
CountsTell(word, half, k, st) ==
  /\ st \in Counts /\ st.m <= st.eng
  /\ st.eng = 0 <=> \A i \in 1..k : ~IsAscii(word[i])
  /\ k >= 1 /\ IsOther(word[1]) => st.m < st.eng
  /\ (\A i \in 1..Len(word) : IsAscii(word[i])) =>
       /\ st.eng <= k /\ st.eng <= half /\ (st.eng = k \/ st.eng = half)
       /\ st.m < st.eng <=> \E i \in 1..st.eng : IsOther(word[i])

\* One more rune.
CountRune(half, st, r) ==
  IF st.eng < half /\ IsAscii(r)
  THEN [eng |-> st.eng + 1, m |-> st.m + (IF IsDigit(r) THEN 1 ELSE 0)] ELSE st

\* One more rune keeps SpecialRule's counts right.
LEMMA CountTells ==
  ASSUME NEW word \in Seq(Nat), NEW half \in Nat \ {0}, NEW k \in 1..Len(word), NEW old,
         CountsTell(word, half, k - 1, old), NEW st, st = CountRune(half, old, word[k])
  PROVE  CountsTell(word, half, k, st)
<1> DEFINE Pure == \A i \in 1..Len(word) : IsAscii(word[i])
<1>1. PICK e \in Nat, m \in Nat : e = old.eng /\ m = old.m /\ old = [eng |-> e, m |-> m]
  BY DEF CountsTell, Counts
<1>2. PICK r \in Nat : r = word[k]
  OBVIOUS
<1>3. m <= e /\ (e = 0 <=> \A i \in 1..k - 1 : ~IsAscii(word[i])) /\ (k - 1 >= 1 /\ IsOther(word[1]) => m < e)
  BY <1>1 DEF CountsTell
<1>4. \A i : i \in 1..k <=> i \in 1..k - 1 \/ i = k
  OBVIOUS
<1>5. ASSUME Pure PROVE e <= k - 1 /\ e <= half /\ (e = k - 1 \/ e = half) /\ (m < e <=> \E i \in 1..e : IsOther(word[i]))
  BY <1>1, <1>5 DEF CountsTell
<1>6. Pure => IsAscii(r)
  BY <1>2
<1> HIDE DEF Pure
<1>7. CASE e < half /\ IsAscii(r)
  <2>1. PICK d \in {0, 1} : d = IF IsDigit(r) THEN 1 ELSE 0
    OBVIOUS
  <2>2. st = [eng |-> e + 1, m |-> m + d]
    BY <1>1, <1>2, <1>7, <2>1 DEF CountRune
  <2>3. st \in Counts /\ st.eng = e + 1 /\ st.m = m + d /\ st.m <= st.eng
    BY <1>3, <2>2 DEF Counts
  <2>4. d = 0 <=> IsOther(word[k])
    BY <1>2, <1>7, <2>1 DEF IsOther
  <2>5. ~\A i \in 1..k : ~IsAscii(word[i])
    BY <1>2, <1>4, <1>7
  <2>6. ASSUME IsOther(word[1]) PROVE st.m < st.eng
    BY <1>3, <2>1, <2>3, <2>4, <2>6
  <2>7. ASSUME Pure PROVE /\ st.eng <= k /\ st.eng <= half /\ st.eng = k
                          /\ st.m < st.eng <=> \E i \in 1..st.eng : IsOther(word[i])
    <3>1. e = k - 1 /\ st.eng = k
      BY <1>5, <1>7, <2>3, <2>7
    <3>2. st.m < st.eng <=> m < e \/ d = 0
      BY <1>3, <2>1, <2>3
    <3>3. m < e <=> \E i \in 1..k - 1 : IsOther(word[i])
      BY <1>5, <2>7, <3>1
    <3> QED
      BY <1>4, <1>7, <2>3, <2>4, <3>1, <3>2, <3>3
  <2>8. st.eng # 0
    BY <2>3
  <2> QED
    BY <2>3, <2>5, <2>6, <2>7, <2>8 DEF CountsTell, Pure
<1>8. CASE ~(e < half /\ IsAscii(r))
  <2>1. st = old
    BY <1>1, <1>2, <1>8 DEF CountRune
  <2>2. old \in Counts /\ old.m <= old.eng
    BY DEF CountsTell
  <2>3. old.eng = 0 <=> \A i \in 1..k : ~IsAscii(word[i])
    BY <1>8, <1>1, <1>2, <1>3, <1>4
  <2>4. ASSUME IsOther(word[1]) PROVE old.m < old.eng
    BY <1>1, <1>3, <2>4, <1>2, <1>8 DEF IsOther
  <2>5. ASSUME Pure PROVE /\ old.eng <= k /\ old.eng <= half /\ old.eng = half
                          /\ old.m < old.eng <=> \E i \in 1..old.eng : IsOther(word[i])
    BY <1>1, <1>5, <1>6, <1>8, <2>5
  <2> QED
    BY <2>1, <2>2, <2>3, <2>4, <2>5 DEF CountsTell, Pure
<1> QED
  BY <1>7, <1>8

\* What the rule says of a word of more than one rune.
LEMMA SpecialRuleFacts ==
  ASSUME NEW word \in Seq(Nat), Len(word) > 1
  PROVE  /\ IsOther(word[1]) => SpecialRule(word) = "eng"
         /\ (\A r \in ToSet(word) : ~IsAscii(r)) => SpecialRule(word) = "x"
         /\ (\A r \in ToSet(word) : IsAscii(r)) =>
              SpecialRule(word) = IF \E i \in 1..Len(word) \div 2 : IsOther(word[i]) THEN "eng" ELSE "m"
<1>1. PICK n \in Nat, half \in Nat \ {0} : n = Len(word) /\ half = Len(word) \div 2 /\ n > 1
  <2>1. PICK n \in Nat : n = Len(word)
    OBVIOUS
  <2>2. n \div 2 \in Nat \ {0}
    BY <2>1
  <2> QED
    BY <2>1, <2>2
<1> DEFINE V == Counts
           z == [eng |-> 0, m |-> 0]
           Step(f, k) == IF k = 0 THEN z ELSE CountRune(half, f[k - 1], word[k])
           IsCount(f) == f = [k \in 0..n |-> Step(f, k)]
           G == [t \in (0 + 1..n) \X V |-> CountRune(half, t[2], word[t[1]])]
           Result(st) == IF st.eng = 0 THEN "x" ELSE IF st.m = st.eng THEN "m" ELSE "eng"
<1>2. SpecialRule(word) = Result((CHOOSE f : IsCount(f))[n])
  BY <1>1 DEF SpecialRule, CountRune
<1>3. z \in V
  BY DEF Counts
<1>4. ASSUME NEW v \in V, NEW k \in 1..n PROVE CountRune(half, v, word[k]) \in V
  <2>1. PICK e \in Nat, m \in Nat : e = v.eng /\ m = v.m
    BY DEF Counts
  <2>2. [eng |-> e + 1, m |-> m + 1] \in V /\ [eng |-> e + 1, m |-> m + 0] \in V
    BY DEF Counts
  <2> QED
    BY <2>1, <2>2 DEF CountRune
<1> HIDE DEF V, z
<1>5. G \in [(0 + 1..n) \X V -> V]
  BY <1>4
<1>6. PICK f \in [0..n -> V] : Climbs(0, n, z, G, f)
  <2>1. 0 \in Nat /\ 0 <= n
    OBVIOUS
  <2> HIDE DEF G
  <2> QED
    BY <1>3, <1>5, <2>1, UpExists
<1>7. IsCount(f)
  <2>1. \A k \in 0..n : f[k] = Step(f, k)
    <3> TAKE k \in 0..n
    <3>1. f[k] = IF k = 0 THEN z ELSE G[<<k, f[k - 1]>>]
      <4> HIDE DEF G
      <4> QED
        BY <1>6 DEF Climbs
    <3>2. k # 0 => k \in 0 + 1..n /\ k - 1 \in 0..n
      OBVIOUS
    <3>3. k # 0 => <<k, f[k - 1]>> \in (0 + 1..n) \X V
      BY <3>2, <1>6
    <3>4. k # 0 => G[<<k, f[k - 1]>>] = CountRune(half, f[k - 1], word[k])
      BY <3>3
    <3> HIDE DEF G
    <3> QED
      BY <3>1, <3>4
  <2> HIDE DEF Step
  <2> QED
    BY <1>6, <2>1
<1>8. PICK g : IsCount(g) /\ SpecialRule(word) = Result(g[n])
  <2> HIDE DEF IsCount, Result
  <2> QED
    BY <1>2, <1>7
<1>9. \A k \in 0..n : g[k] = Step(g, k)
  <2> HIDE DEF Step
  <2> QED
    BY <1>8
<1> HIDE DEF IsCount
<1> DEFINE Good == {k \in 0..n : CountsTell(word, half, k, g[k])}
<1>10. 0 \in Good
  BY <1>9, <1>3 DEF CountsTell, z, V
<1>11. ASSUME NEW k \in 0 + 1..n, k - 1 \in Good PROVE k \in Good
  BY <1>11, <1>9, <1>1, CountTells
<1>12. n \in Good
  <2> HIDE DEF Good
  <2>1. 0 \in Nat /\ n \in 0..n
    OBVIOUS
  <2> QED
    BY <1>10, <1>11, <2>1, UpReach
<1>13. PICK st : st = g[n] /\ CountsTell(word, half, n, st)
  BY <1>12
<1>14. PICK e \in Nat, m \in Nat : e = st.eng /\ m = st.m
  BY <1>13 DEF CountsTell, Counts
<1>15. /\ m <= e /\ (e = 0 <=> \A i \in 1..n : ~IsAscii(word[i]))
       /\ n >= 1 /\ IsOther(word[1]) => m < e
       /\ (\A i \in 1..n : IsAscii(word[i])) =>
            e <= half /\ (e = n \/ e = half) /\ (m < e <=> \E i \in 1..e : IsOther(word[i]))
  BY <1>1, <1>13, <1>14 DEF CountsTell
<1>16. SpecialRule(word) = IF e = 0 THEN "x" ELSE IF m = e THEN "m" ELSE "eng"
  BY <1>8, <1>13, <1>14
<1>17. \A i \in 1..n : word[i] \in ToSet(word)
  BY <1>1 DEF ToSet
<1>18. half < n
  BY <1>1
<1>19. ASSUME IsOther(word[1]) PROVE SpecialRule(word) = "eng"
  BY <1>1, <1>15, <1>16, <1>19
<1>20. ASSUME \A r \in ToSet(word) : ~IsAscii(r) PROVE SpecialRule(word) = "x"
  BY <1>15, <1>16, <1>17, <1>20
<1>21. ASSUME \A r \in ToSet(word) : IsAscii(r)
       PROVE  SpecialRule(word) = IF \E i \in 1..half : IsOther(word[i]) THEN "eng" ELSE "m"
  <2>1. \A i \in 1..n : IsAscii(word[i])
    BY <1>17, <1>21
  <2>2. e = half /\ (m < e <=> \E i \in 1..half : IsOther(word[i]))
    BY <1>15, <1>18, <2>1
  <2> QED
    BY <1>15, <1>16, <2>2
<1> QED
  BY <1>1, <1>19, <1>20, <1>21

\* The tag of such a word fits it.
LEMMA TagOfFits ==
  ASSUME DictInv, stage = "ready", NEW word \in TagWords
  PROVE  TagFits(word, TagOf(word))
<1> SUFFICES ASSUME Len(word) > 1, word \notin DictWords
             PROVE  TagFits(word, TagOf(word))
  BY DEF TagFits
<1>1. Find(word) = None
  BY FoundAreWords
<1>2. TagOf(word) = SpecialRule(word)
  BY <1>1 DEF TagOf
<1>3. word \in Shape /\ word \in Seq(Nat)
  BY DEF TagWords, Shape, Filled
<1>4. Len(word) # 1
  <2>1. 1 \in Nat /\ ~(1 > 1)
    OBVIOUS
  <2> QED
    BY <2>1, Zenon
<1>5. \A i \in 1..Len(word) : word[i] \in ToSet(word)
  BY <1>3 DEF ToSet
<1>6. 1 \in 1..Len(word)
  BY <1>3
<1>7. CASE \A r \in ToSet(word) : ~IsAscii(r)
  BY <1>2, <1>3, <1>7, SpecialRuleFacts DEF TagFits
<1>8. CASE word[1] \in Letter
  <2>1. IsAscii(word[1]) /\ IsOther(word[1]) /\ IsLetter(word[1])
    <3>1. \A r \in Letter : IsAscii(r) /\ IsOther(r) /\ IsLetter(r)
      BY DEF Letter, Digit, IsAscii, IsDigit, IsOther, IsLetter
    <3> QED
      BY <1>8, <3>1, Zenon
  <2>2. SpecialRule(word) = "eng"
    BY <1>3, <2>1, SpecialRuleFacts
  <2> QED
    BY <1>2, <1>5, <1>6, <2>1, <2>2 DEF TagFits
<1>9. CASE \A r \in ToSet(word) : r \in Digit \cup {46}
  <2>1. \A r \in Digit \cup {46} : IsAscii(r) /\ ~IsLetter(r) /\ (IsOther(r) <=> r = 46)
    BY DEF Letter, Digit, IsAscii, IsDigit, IsOther, IsLetter
  <2>2. \A r \in ToSet(word) : IsAscii(r) /\ ~IsLetter(r) /\ (IsOther(r) <=> r = 46)
    BY <1>9, <2>1, Zenon
  <2>3. \A i \in 1..Len(word) \div 2 : i \in 1..Len(word)
    BY <1>3
  <2>4. \A i \in 1..Len(word) \div 2 : IsOther(word[i]) <=> word[i] = 46
    BY <1>5, <2>2, <2>3, Zenon
  <2>5. SpecialRule(word) = IF \E i \in 1..Len(word) \div 2 : IsOther(word[i]) THEN "eng" ELSE "m"
    BY <1>3, <2>2, SpecialRuleFacts
  <2> QED
    BY <1>2, <1>5, <1>6, <2>2, <2>4, <2>5 DEF TagFits
<1> QED
  BY <1>3, <1>4, <1>7, <1>8, <1>9 DEF Shape

-----------------------------------------------------------------------------
(* The members of a sequence that are in a set, in their order. *)

\* Each of them is chosen alone.
LEMMA OnesOf ==
  ASSUME NEW S, NEW ss \in Seq(S), NEW T, NEW ones, ones = [k \in DOMAIN ss |-> OneOf(ss[k], T)]
  PROVE  /\ ones \in Seq(Seq(S)) /\ Len(ones) = Len(ss)
         /\ \A k \in 1..Len(ss) : ones[k] = OneOf(ss[k], T)
         /\ ChosenIn(ss, T) = FlattenSeq(ones)
<1> DEFINE R == Seq(S)
<1>1. PICK n \in Nat : n = Len(ss) /\ DOMAIN ss = 1..n
  OBVIOUS
<1>2. \A k \in 1..n : OneOf(ss[k], T) \in R
  <2> TAKE k \in 1..n
  <2>1. ss[k] \in S
    BY <1>1
  <2>2. <<ss[k]>> \in R /\ <<>> \in R
    BY <2>1, SeqClosed
  <2> HIDE DEF R
  <2> QED
    BY <2>2 DEF OneOf
<1>3. ones = [k \in 1..n |-> OneOf(ss[k], T)]
  BY <1>1
<1> HIDE DEF R
<1>4. ones \in Seq(R) /\ Len(ones) = n
  BY <1>2, <1>3
<1>5. \A k \in 1..n : ones[k] = OneOf(ss[k], T)
  BY <1>3
<1> QED
  BY <1>1, <1>4, <1>5 DEF ChosenIn, R

\* What is chosen is of the same kind.
LEMMA ChosenType ==
  ASSUME NEW S, NEW ss \in Seq(S), NEW T
  PROVE  ChosenIn(ss, T) \in Seq(S)
<1>1. PICK ones : ones = [k \in DOMAIN ss |-> OneOf(ss[k], T)]
  OBVIOUS
<1>2. ones \in Seq(Seq(S)) /\ ChosenIn(ss, T) = FlattenSeq(ones)
  BY <1>1, OnesOf
<1> QED
  BY <1>2, FlattenType

\* The choice from two sequences, one behind the other.
LEMMA ChosenConcat ==
  ASSUME NEW S, NEW ss \in Seq(S), NEW tt \in Seq(S), NEW T
  PROVE  ChosenIn(ss \o tt, T) = ChosenIn(ss, T) \o ChosenIn(tt, T)
<1> DEFINE Ones(uu) == [k \in DOMAIN uu |-> OneOf(uu[k], T)]
<1>2. PICK uu \in Seq(S) : uu = ss \o tt /\ Len(uu) = Len(ss) + Len(tt)
  <2>1. ss \o tt \in Seq(S) /\ Len(ss \o tt) = Len(ss) + Len(tt)
    OBVIOUS
  <2> QED
    BY <2>1
<1>1. PICK a, b, c : a = Ones(ss) /\ b = Ones(tt) /\ c = Ones(uu)
  OBVIOUS
<1>3. a \in Seq(Seq(S)) /\ Len(a) = Len(ss) /\ (\A k \in 1..Len(ss) : a[k] = OneOf(ss[k], T)) /\ ChosenIn(ss, T) = FlattenSeq(a)
  BY <1>1, OnesOf
<1>4. b \in Seq(Seq(S)) /\ Len(b) = Len(tt) /\ (\A k \in 1..Len(tt) : b[k] = OneOf(tt[k], T)) /\ ChosenIn(tt, T) = FlattenSeq(b)
  BY <1>1, OnesOf
<1>5. c \in Seq(Seq(S)) /\ Len(c) = Len(ss) + Len(tt) /\ (\A k \in 1..Len(ss) + Len(tt) : c[k] = OneOf(uu[k], T))
      /\ ChosenIn(uu, T) = FlattenSeq(c)
  <2>1. c \in Seq(Seq(S)) /\ Len(c) = Len(uu) /\ (\A k \in 1..Len(uu) : c[k] = OneOf(uu[k], T)) /\ ChosenIn(uu, T) = FlattenSeq(c)
    BY <1>1, OnesOf
  <2> QED
    BY <1>2, <2>1
<1> DEFINE R == Seq(S)
<1>6. a \in Seq(R) /\ b \in Seq(R) /\ c \in Seq(R)
  BY <1>3, <1>4, <1>5
<1> HIDE DEF R, Ones
<1>7. PICK m \in Nat, n \in Nat : m = Len(ss) /\ n = Len(tt)
  OBVIOUS
<1>8. PICK ab \in Seq(R) : ab = a \o b /\ Len(ab) = m + n /\ (\A k \in 1..m : ab[k] = a[k]) /\ (\A k \in 1..n : ab[m + k] = b[k])
  <2>1. Len(a) = m /\ Len(b) = n
    BY <1>3, <1>4, <1>7
  <2>2. /\ a \o b \in Seq(R) /\ Len(a \o b) = m + n
        /\ \A k \in 1..m + n : (a \o b)[k] = IF k <= m THEN a[k] ELSE b[k - m]
    BY <1>6, <2>1, ConcatProperties
  <2>3. \A k \in 1..m : (a \o b)[k] = a[k]
    BY <2>2
  <2>4. \A k \in 1..n : (a \o b)[m + k] = b[k]
    BY <2>2
  <2> QED
    BY <2>2, <2>3, <2>4
<1>9. ASSUME NEW k \in 1..m + n PROVE c[k] = ab[k]
  <2>1. c[k] = OneOf(uu[k], T)
    BY <1>5, <1>7
  <2>2. CASE k <= m
    BY <1>2, <1>7, <2>2, <1>3, <1>8, <2>1
  <2>3. CASE ~(k <= m)
    <3>1. PICK j \in 1..n : k = m + j
      BY <2>3
    <3>2. uu[m + j] = tt[j]
      BY <1>2, <1>7
    <3> QED
      BY <1>4, <1>7, <1>8, <2>1, <3>1, <3>2
  <2> QED
    BY <2>2, <2>3
<1>10. c = a \o b
  BY <1>5, <1>7, <1>6, <1>8, <1>9, SeqEqual
<1>11. FlattenSeq(a \o b) = FlattenSeq(a) \o FlattenSeq(b)
  BY <1>3, <1>4, FlattenConcat
<1> QED
  BY <1>2, <1>3, <1>4, <1>5, <1>10, <1>11

\* The choice from no members, and from one.
LEMMA ChosenOne ==
  ASSUME NEW S, NEW x \in S, NEW T
  PROVE  ChosenIn(<<>>, T) = <<>> /\ ChosenIn(<<x>>, T) = OneOf(x, T)
<1>1. ChosenIn(<<>>, T) = <<>>
  BY FlattenEmpty DEF ChosenIn
<1>2. PICK w : w = OneOf(x, T)
  OBVIOUS
<1>3. w \in Seq(S)
  BY <1>2, SeqClosed DEF OneOf
<1>0. PICK ss \in Seq(S) : ss = <<x>>
  <2>1. <<x>> \in Seq(S)
    OBVIOUS
  <2> QED
    BY <2>1
<1>4. PICK ones : ones = [k \in DOMAIN ss |-> OneOf(ss[k], T)]
  OBVIOUS
<1>5. ones \in Seq(Seq(S)) /\ Len(ones) = 1 /\ ones[1] = w /\ ChosenIn(<<x>>, T) = FlattenSeq(ones)
  <2>1. <<x>> \in Seq(S) /\ Len(<<x>>) = 1 /\ <<x>>[1] = x /\ 1 \in 1..1
    OBVIOUS
  <2>3. /\ ones \in Seq(Seq(S)) /\ Len(ones) = Len(ss)
        /\ \A k \in 1..Len(ss) : ones[k] = OneOf(ss[k], T)
        /\ ChosenIn(ss, T) = FlattenSeq(ones)
    BY <1>4, OnesOf
  <2>4. Len(ss) = 1 /\ ss[1] = x
    BY <1>0, <2>1
  <2>5. ones[1] = w
    BY <1>2, <2>1, <2>3, <2>4
  <2> QED
    BY <1>0, <2>3, <2>4, <2>5
<1>6. ones = <<w>>
  <2> DEFINE R == Seq(S)
  <2>1. ones \in Seq(R) /\ w \in R
    BY <1>3, <1>5
  <2> HIDE DEF R
  <2> QED
    BY <1>5, <2>1
<1> QED
  BY <1>1, <1>2, <1>3, <1>5, <1>6, FlattenOne

\* One more member.
LEMMA ChosenAppend ==
  ASSUME NEW S, NEW ss \in Seq(S), NEW x \in S, NEW T
  PROVE  ChosenIn(Append(ss, x), T) = ChosenIn(ss, T) \o OneOf(x, T)
<1>1. PICK xx \in Seq(S) : xx = <<x>> /\ Append(ss, x) = ss \o xx
  <2>1. <<x>> \in Seq(S)
    OBVIOUS
  <2> QED
    BY <2>1, AppendIsConcat
<1>2. ChosenIn(ss \o xx, T) = ChosenIn(ss, T) \o ChosenIn(xx, T)
  BY ChosenConcat
<1>3. ChosenIn(<<x>>, T) = OneOf(x, T)
  BY ChosenOne
<1> QED
  BY <1>1, <1>2, <1>3

\* What is chosen are the members in the set.
LEMMA ChosenMembers ==
  ASSUME NEW S, NEW ss \in Seq(S), NEW T
  PROVE  ToSet(ChosenIn(ss, T)) = ToSet(ss) \cap T
<1>1. PICK ones : ones = [k \in DOMAIN ss |-> OneOf(ss[k], T)]
  OBVIOUS
<1>2. ones \in Seq(Seq(S)) /\ Len(ones) = Len(ss) /\ (\A k \in 1..Len(ss) : ones[k] = OneOf(ss[k], T))
      /\ ChosenIn(ss, T) = FlattenSeq(ones)
  BY <1>1, OnesOf
<1>3. ToSet(FlattenSeq(ones)) = UNION {ToSet(ones[k]) : k \in 1..Len(ones)}
  BY <1>2, MembersOfAll
<1>4. \A x : ToSet(OneOf(x, T)) = {x} \cap T
  <2> TAKE x
  <2>1. ToSet(<<x>>) = {x} /\ ToSet(<<>>) = {}
    BY DEF ToSet
  <2> QED
    BY <2>1 DEF OneOf
<1>5. PICK n \in Nat : n = Len(ss) /\ ToSet(ss) = {ss[k] : k \in 1..n}
  BY DEF ToSet
<1>6. \A k \in 1..n : ToSet(ones[k]) = {ss[k]} \cap T
  BY <1>2, <1>4, <1>5
<1>7. UNION {ToSet(ones[k]) : k \in 1..n} = {ss[k] : k \in 1..n} \cap T
  BY <1>6
<1> QED
  BY <1>2, <1>3, <1>5, <1>7

\* All of them, or none.
LEMMA ChosenAll ==
  ASSUME NEW S, NEW ss \in Seq(S), NEW T
  PROVE  /\ (\A k \in 1..Len(ss) : ss[k] \in T) => ChosenIn(ss, T) = ss
         /\ (\A k \in 1..Len(ss) : ss[k] \notin T) => ChosenIn(ss, T) = <<>>
<1> DEFINE n == Len(ss)
           All(k) == ChosenIn(SubSeq(ss, 1, k), T) = SubSeq(ss, 1, k)
           No(k) == ChosenIn(SubSeq(ss, 1, k), T) = <<>>
           GoodAll == {k \in 0..n : All(k)}
           GoodNo == {k \in 0..n : No(k)}
<1>0. n \in Nat /\ 0 \in Nat /\ 0 \in 0..n /\ n \in 0..n
  OBVIOUS
<1>1. 0 \in GoodAll /\ 0 \in GoodNo
  <2>1. SubSeq(ss, 1, 0) = <<>>
    OBVIOUS
  <2>2. ChosenIn(<<>>, T) = <<>>
    BY ChosenOne
  <2> QED
    BY <1>0, <2>1, <2>2
<1>2. ASSUME NEW k \in 0 + 1..n
      PROVE  /\ k - 1 \in GoodAll /\ ss[k] \in T => k \in GoodAll
             /\ k - 1 \in GoodNo /\ ss[k] \notin T => k \in GoodNo
  <2>1. k \in 0..n /\ ss[k] \in S /\ SubSeq(ss, 1, k - 1) \in Seq(S) /\ SubSeq(ss, 1, k) = Append(SubSeq(ss, 1, k - 1), ss[k])
    OBVIOUS
  <2>2. PICK u \in Seq(S), x \in S : u = SubSeq(ss, 1, k - 1) /\ x = ss[k]
    BY <2>1
  <2>3. ChosenIn(Append(u, x), T) = ChosenIn(u, T) \o OneOf(x, T)
    BY ChosenAppend
  <2>4. Append(u, x) = u \o <<x>> /\ <<>> \o <<>> = <<>>
    OBVIOUS
  <2>5. k - 1 \in GoodAll /\ x \in T => All(k)
    BY <2>2, <2>1, <2>3, <2>4 DEF OneOf
  <2>6. k - 1 \in GoodNo /\ x \notin T => No(k)
    BY <2>2, <2>1, <2>3, <2>4 DEF OneOf
  <2> QED
    BY <2>1, <2>2, <2>5, <2>6
<1>3. SubSeq(ss, 1, n) = ss
  OBVIOUS
<1>4. ASSUME \A k \in 1..n : ss[k] \in T PROVE ChosenIn(ss, T) = ss
  <2>1. \A k \in 0 + 1..n : k - 1 \in GoodAll => k \in GoodAll
    BY <1>2, <1>4
  <2>2. n \in GoodAll
    <3> HIDE DEF GoodAll, n
    <3> QED
      BY <1>0, <1>1, <2>1, UpReach
  <2> QED
    BY <1>3, <2>2
<1>5. ASSUME \A k \in 1..n : ss[k] \notin T PROVE ChosenIn(ss, T) = <<>>
  <2>1. \A k \in 0 + 1..n : k - 1 \in GoodNo => k \in GoodNo
    BY <1>2, <1>5
  <2>2. n \in GoodNo
    <3> HIDE DEF GoodNo, n
    <3> QED
      BY <1>0, <1>1, <2>1, UpReach
  <2> QED
    BY <1>3, <2>2
<1> QED
  BY <1>4, <1>5

-----------------------------------------------------------------------------
(* FullSegment at one position. *)

\* What the words of two or more runes at each position are.
Tells(s, W) ==
  \A i \in 1..Len(s) : \A j \in i + 1..Len(s) : j \in Nexts(s, i, MaxWordLength) <=> SubSeq(s, i, j) \in W

\* What begins at i and ends up to j.
Tails(s, i, j) == [k \in 1..j - i |-> SubSeq(s, i, i + k)]

\* A piece of two or more runes is a long word.
LEMMA PieceIsLong ==
  ASSUME NEW s \in Seq(Nat), NEW i \in 1..Len(s), NEW j \in i + 1..Len(s)
  PROVE  SubSeq(s, i, j) \in Long
<1>1. i \in 1..Len(s) + 1 /\ j \in i - 1..Len(s) /\ j - i + 1 # 0 /\ j - i + 1 > 1
  OBVIOUS
<1>2. SubSeq(s, i, j) \in Seq(Nat) /\ Len(SubSeq(s, i, j)) = j - i + 1
  BY <1>1, PieceFacts
<1> QED
  BY <1>1, <1>2 DEF Long, Filled

\* They grow by one at the end.
LEMMA TailsFacts ==
  ASSUME NEW s \in Seq(Nat), NEW i \in 1..Len(s), NEW j \in i..Len(s)
  PROVE  /\ Tails(s, i, j) \in Seq(Long)
         /\ j = i => Tails(s, i, j) = <<>>
         /\ j # i => Tails(s, i, j) = Append(Tails(s, i, j - 1), SubSeq(s, i, j))
<1>1. \A k \in 1..j - i : i + k \in i + 1..Len(s)
  OBVIOUS
<1>2. \A k \in 1..j - i : SubSeq(s, i, i + k) \in Long
  BY <1>1, PieceIsLong
<1>3. j - i \in Nat
  OBVIOUS
<1>4. Tails(s, i, j) \in Seq(Long)
  BY <1>2, <1>3 DEF Tails
<1>5. CASE j = i
  BY <1>5, <1>4 DEF Tails
<1>6. CASE j # i
  <2>1. PICK n \in Nat : n = j - 1 - i /\ j - i = n + 1
    BY <1>6
  <2>2. \A k \in 1..n : SubSeq(s, i, i + k) \in Long
    BY <2>1, PieceIsLong
  <2>3. PICK t, u : t = Tails(s, i, j - 1) /\ u = Tails(s, i, j)
    OBVIOUS
  <2>4. t = [k \in 1..n |-> SubSeq(s, i, i + k)] /\ u = [k \in 1..n + 1 |-> SubSeq(s, i, i + k)]
    BY <2>1, <2>3 DEF Tails
  <2>5. t \in Seq(Long) /\ Len(t) = n /\ (\A k \in 1..n : t[k] = SubSeq(s, i, i + k))
    BY <2>2, <2>4
  <2>6. u \in Seq(Long) /\ Len(u) = n + 1 /\ (\A k \in 1..n + 1 : u[k] = SubSeq(s, i, i + k))
    BY <1>4, <2>3, <2>4
  <2>7. PICK w \in Long : w = SubSeq(s, i, j) /\ u[n + 1] = w
    <3>1. n + 1 \in 1..n + 1 /\ i + (n + 1) = j /\ j \in i + 1..Len(s)
      BY <1>6, <2>1
    <3> QED
      BY <2>6, <3>1, PieceIsLong
  <2>8. /\ Append(t, w) \in Seq(Long) /\ Len(Append(t, w)) = n + 1
        /\ (\A k \in 1..n : Append(t, w)[k] = t[k]) /\ Append(t, w)[n + 1] = w
    BY <2>5, AppendProperties
  <2>9. ASSUME NEW k \in 1..n + 1 PROVE u[k] = Append(t, w)[k]
    <3>1. k \in 1..n \/ k = n + 1
      OBVIOUS
    <3> QED
      BY <2>5, <2>6, <2>7, <2>8, <3>1
  <2>10. u = Append(t, w)
    BY <2>6, <2>8, <2>9, SeqEqual
  <2> QED
    BY <1>4, <1>6, <2>3, <2>7, <2>10
<1> QED
  BY <1>5, <1>6

\* WordsAt, in these terms.
LEMMA WordsAtByTails ==
  ASSUME NEW s \in Seq(Nat), NEW i \in 1..Len(s), NEW W
  PROVE  WordsAt(s, i, W) = ChosenIn(Tails(s, i, Len(s)), W) /\ WordsAt(s, i, W) \in Seq(Long)
<1>1. WordsAt(s, i, W) = ChosenIn(Tails(s, i, Len(s)), W)
  BY DEF WordsAt, Chosen, ChosenIn, OneOf, Tails
<1>2. Len(s) \in i..Len(s)
  OBVIOUS
<1>3. Tails(s, i, Len(s)) \in Seq(Long)
  BY <1>2, TailsFacts
<1> QED
  BY <1>1, <1>3, ChosenType

\* What FullSegment goes by.
FullState == [words : Seq(Filled), wordLen : Nat, maxIdx : Nat]

\* One entry at i.
FullStep(s, i, st, j) ==
  LET p == Find(SubSeq(s, i, j))
      len == IF p = None THEN st.wordLen ELSE Len(Unit(p).word)
      word == IF p = None THEN <<s[i]>> ELSE Unit(p).word
      taken == Alone(s, i, st.maxIdx) \/ (p # None /\ len >= 2)
  IN [words   |-> IF taken THEN Append(st.words, word) ELSE st.words,
      wordLen |-> len,
      maxIdx  |-> Max({i - 1 + len, st.maxIdx})]

\* The greater of two numbers.
LEMMA MaxOfTwo ==
  ASSUME NEW a \in Nat, NEW b \in Nat
  PROVE  Max({a, b}) \in Nat /\ Max({a, b}) = IF b < a THEN a ELSE b
<1>1. {a, b} \subseteq 0..a + b /\ a + b \in Nat /\ {a, b} # {}
  OBVIOUS
<1>2. Max({a, b}) \in {a, b} /\ \A n \in {a, b} : n <= Max({a, b})
  BY <1>1, MaxFacts
<1>3. PICK m \in {a, b} : m = Max({a, b}) /\ a <= m /\ b <= m
  BY <1>2
<1> QED
  BY <1>3

\* What is added to the words at i.
Adds(s, i, st, j, words) ==
  words = IF j # i THEN Append(st.words, SubSeq(s, i, j))
          ELSE IF Alone(s, i, st.maxIdx) THEN Append(st.words, <<s[i]>>) ELSE st.words

\* The greatest of what it was and the ends of words.
IsTop(m, old, ends) == (m = old \/ m \in ends) /\ old <= m /\ \A e \in ends : e <= m

\* An entry brings its word; maxIdx counts its length, or that of the last one.
LEMMA FullStepFacts ==
  ASSUME DictInv, NEW s \in Seq(Nat), NEW i \in 1..Len(s), NEW st \in FullState,
         NEW j \in Nexts(s, i, MaxWordLength), NEW new, new = FullStep(s, i, st, j)
  PROVE  /\ new \in FullState
         /\ Adds(s, i, st, j, new.words)
         /\ new.wordLen = IF Find(SubSeq(s, i, j)) = None THEN st.wordLen ELSE j - i + 1
         /\ IsTop(new.maxIdx, st.maxIdx, {i - 1 + new.wordLen})
<1>1. j \in i..Len(s) /\ (j # i => Find(SubSeq(s, i, j)) # None /\ j \in i + 1..Len(s))
  BY DEF Nexts
<1>2. PICK ws \in Seq(Filled), old \in Nat, m \in Nat : ws = st.words /\ old = st.wordLen /\ m = st.maxIdx
  BY DEF FullState
<1>3. PICK w \in Filled : w = SubSeq(s, i, j) /\ Len(w) = j - i + 1 /\ w \in Seq(Nat) /\ (j = i => w = <<s[i]>>)
  <2>1. i \in 1..Len(s) + 1 /\ j \in i - 1..Len(s) /\ j - i + 1 # 0
    BY <1>1
  <2>2. SubSeq(s, i, j) \in Seq(Nat) /\ Len(SubSeq(s, i, j)) = j - i + 1
    BY <2>1, PieceFacts
  <2>3. j = i => SubSeq(s, i, j) = <<s[i]>>
    BY PieceOne
  <2>4. SubSeq(s, i, j) # <<>>
    BY <2>1, <2>2
  <2>5. SubSeq(s, i, j) \in Filled
    BY <2>2, <2>4 DEF Filled
  <2> QED
    BY <2>2, <2>3, <2>5
<1>4. PICK p : p = Find(SubSeq(s, i, j))
  OBVIOUS
<1>5. p # None => Unit(p).word = w
  BY <1>3, <1>4, FoundFacts
<1>6. p = None => j = i
  BY <1>1, <1>4
<1>7. PICK len \in Nat : len = IF p = None THEN old ELSE Len(Unit(p).word)
  <2>1. Len(w) \in Nat
    BY <1>3
  <2> QED
    BY <1>5, <2>1
<1>8. (IF p = None THEN <<s[i]>> ELSE Unit(p).word) = w
  BY <1>3, <1>5, <1>6
<1>9. PICK taken \in BOOLEAN : taken = (Alone(s, i, m) \/ (p # None /\ len >= 2))
  OBVIOUS
<1>10. PICK top \in Nat : top = Max({i - 1 + len, m}) /\ top = IF m < i - 1 + len THEN i - 1 + len ELSE m
  BY MaxOfTwo
<1>11. new = [words |-> IF taken THEN Append(ws, w) ELSE ws, wordLen |-> len, maxIdx |-> top]
  BY <1>2, <1>4, <1>7, <1>8, <1>9, <1>10, Zenon DEF FullStep
<1>12. Append(ws, w) \in Seq(Filled)
  BY AppendProperties
<1>13. /\ new.words = (IF taken THEN Append(ws, w) ELSE ws) /\ new.wordLen = len /\ new.maxIdx = top
       /\ new \in FullState
  BY <1>11, <1>12 DEF FullState
<1>14. j = i => (taken <=> Alone(s, i, m))
  <2>1. j = i /\ p # None => len = 1
    BY <1>3, <1>5, <1>7
  <2>2. ~(1 >= 2)
    OBVIOUS
  <2> QED
    BY <1>9, <2>1, <2>2
<1>15. j # i => taken
  <2>1. j # i => p # None /\ len = j - i + 1 /\ j - i + 1 >= 2
    <3>1. j # i => j - i + 1 >= 2
      BY <1>1
    <3> QED
      BY <1>1, <1>3, <1>4, <1>5, <1>7, <3>1
  <2> QED
    BY <1>9, <2>1
<1>16. len = IF p = None THEN old ELSE j - i + 1
  BY <1>3, <1>5, <1>7
<1>17. IsTop(top, m, {i - 1 + len})
  BY <1>10 DEF IsTop
<1>18. Adds(s, i, st, j, new.words)
  BY <1>2, <1>3, <1>13, <1>14, <1>15 DEF Adds
<1> QED
  BY <1>2, <1>4, <1>10, <1>13, <1>16, <1>17, <1>18

\* FullWords goes through the entries at i.
AreFullSteps(s, i, state, g) ==
  /\ g[i - 1] = state
  /\ \A j \in i..Len(s) :
       g[j] = IF j \in Nexts(s, i, MaxWordLength) THEN FullStep(s, i, g[j - 1], j) ELSE g[j - 1]

\* FullWords goes through such states, entry by entry.
LEMMA FullWordsSteps ==
  ASSUME DictInv, NEW s \in Seq(Nat), NEW i \in 1..Len(s), NEW state \in FullState
  PROVE  \E g : AreFullSteps(s, i, state, g) /\ FullWords(s, i, state) = g[Len(s)]
<1> DEFINE N == Len(s)
           ends == Nexts(s, i, MaxWordLength)
           Step(st, j) == IF j \in ends THEN FullStep(s, i, st, j) ELSE st
           IsAt(f) == f = [j \in i - 1..N |-> IF j = i - 1 THEN state ELSE Step(f[j - 1], j)]
           G == [t \in (i - 1 + 1..N) \X FullState |-> Step(t[2], t[1])]
<1>1. FullWords(s, i, state) = (CHOOSE f : IsAt(f))[N]
  BY DEF FullWords, FullStep
<1>2. N \in Nat /\ i \in 1..N /\ i - 1 \in Nat /\ i - 1 <= N /\ i - 1 + 1 = i
  OBVIOUS
<1>3. \A j \in i..N : \A st \in FullState : Step(st, j) \in FullState
  BY FullStepFacts
<1> HIDE DEF Step, N
<1>4. G \in [(i - 1 + 1..N) \X FullState -> FullState]
  BY <1>2, <1>3
<1>5. PICK f \in [i - 1..N -> FullState] : Climbs(i - 1, N, state, G, f)
  <2> HIDE DEF G
  <2> QED
    BY <1>2, <1>4, UpExists
<1>6. IsAt(f)
  <2>1. \A j \in i - 1..N : f[j] = IF j = i - 1 THEN state ELSE G[<<j, f[j - 1]>>]
    <3> HIDE DEF G
    <3> QED
      BY <1>5 DEF Climbs
  <2>2. ASSUME NEW j \in i - 1..N, j # i - 1 PROVE G[<<j, f[j - 1]>>] = Step(f[j - 1], j)
    BY <1>2, <2>2, <1>5
  <2> HIDE DEF G
  <2> QED
    BY <1>5, <2>1, <2>2
<1>7. PICK g : IsAt(g) /\ FullWords(s, i, state) = g[N]
  BY <1>1, <1>6
<1>8. \A j \in i - 1..N : g[j] = IF j = i - 1 THEN state ELSE Step(g[j - 1], j)
  BY <1>7
<1>9. i - 1 \in i - 1..N /\ \A j \in i..N : j \in i - 1..N /\ j # i - 1
  BY <1>2
<1>10. g[i - 1] = state /\ \A j \in i..N : g[j] = Step(g[j - 1], j)
  BY <1>8, <1>9
<1> QED
  BY <1>7, <1>10 DEF AreFullSteps, Step, N

\* All words of two or more runes at i, behind the rune if it stands alone.
FirstAt(s, i, m) == IF Alone(s, i, m) THEN <<<<s[i]>>>> ELSE <<>>

\* wordLen is that of the longest of them, if there is one.
LenAt(len, old, i, ends) ==
  \/ len = old /\ ends = {}
  \/ \E e \in ends : len = e - i + 1 /\ \A x \in ends : x <= e

\* What maxIdx counts at i: the words, or the last one once more.
Pushes(i, old, ends) == {e \in ends : e # i} \cup {IF i \in ends THEN i ELSE i - 1 + old}

\* The set has the runes of s that are words.
RunesTell(s, W) == \A i \in 1..Len(s) : <<s[i]>> \in W <=> Find(<<s[i]>>) # None

\* How far it is behind j.
FullSoFar(s, i, state, W, g, j) ==
  /\ g[j] \in FullState
  /\ g[j].words = (state.words \o FirstAt(s, i, state.maxIdx)) \o ChosenIn(Tails(s, i, j), W)
  /\ RunesTell(s, W) =>
       /\ LenAt(g[j].wordLen, state.wordLen, i, EndsAt(s, i, j, W))
       /\ IsTop(g[j].maxIdx, state.maxIdx, Pushes(i, state.wordLen, EndsAt(s, i, j, W)))

\* The rune at i, if it comes, is a word.
LEMMA FirstAtType ==
  ASSUME NEW s \in Seq(Nat), NEW i \in 1..Len(s), NEW m
  PROVE  FirstAt(s, i, m) \in Seq(Filled) /\ <<s[i]>> \in Filled /\ SubSeq(s, i, i) = <<s[i]>>
<1>1. s[i] \in Nat
  OBVIOUS
<1>2. <<s[i]>> \in Seq(Nat) /\ <<s[i]>> # <<>>
  BY <1>1
<1>3. PICK word \in Filled : word = <<s[i]>>
  BY <1>2 DEF Filled
<1>4. <<word>> \in Seq(Filled) /\ <<>> \in Seq(Filled)
  BY SeqClosed
<1>5. SubSeq(s, i, i) = <<s[i]>>
  BY PieceOne
<1> QED
  BY <1>3, <1>4, <1>5 DEF FirstAt

\* They are words, and what is chosen from them is.
LEMMA TailsFilled ==
  ASSUME NEW s \in Seq(Nat), NEW i \in 1..Len(s), NEW j \in i..Len(s), NEW W
  PROVE  Tails(s, i, j) \in Seq(Filled) /\ ChosenIn(Tails(s, i, j), W) \in Seq(Filled)
<1>1. Tails(s, i, j) \in Seq(Long)
  BY TailsFacts
<1>2. Long \subseteq Filled
  BY DEF Long
<1>3. Tails(s, i, j) \in Seq(Filled)
  BY <1>1, <1>2
<1> QED
  BY <1>3, ChosenType

\* The entry for the rune itself comes first.
LEMMA FullSoFarFirst ==
  ASSUME DictInv, NEW s \in Seq(Nat), NEW i \in 1..Len(s), NEW state \in FullState, NEW W,
         NEW g, AreFullSteps(s, i, state, g)
  PROVE  FullSoFar(s, i, state, W, g, i)
<1>1. i \in i..Len(s) /\ i \in Nexts(s, i, MaxWordLength)
  BY DEF Nexts
<1>2. g[i] = FullStep(s, i, state, i)
  BY <1>1 DEF AreFullSteps
<1>0. PICK new : new = FullStep(s, i, state, i)
  OBVIOUS
<1>4. PICK ws \in Seq(Filled), m \in Nat, old \in Nat : ws = state.words /\ m = state.maxIdx /\ old = state.wordLen
  BY DEF FullState
<1>5. PICK one \in Filled : one = <<s[i]>> /\ SubSeq(s, i, i) = one
  BY FirstAtType
<1>3. /\ new = g[i] /\ new \in FullState
      /\ new.words = IF Alone(s, i, m) THEN Append(ws, one) ELSE ws
      /\ new.wordLen = IF Find(one) = None THEN old ELSE 1
      /\ IsTop(new.maxIdx, m, {i - 1 + new.wordLen})
  <2>1. /\ new \in FullState
        /\ Adds(s, i, state, i, new.words)
        /\ new.wordLen = IF Find(SubSeq(s, i, i)) = None THEN state.wordLen ELSE i - i + 1
        /\ IsTop(new.maxIdx, state.maxIdx, {i - 1 + new.wordLen})
    BY <1>0, <1>1, FullStepFacts
  <2>2. new.words = IF Alone(s, i, state.maxIdx) THEN Append(state.words, <<s[i]>>) ELSE state.words
    BY <2>1 DEF Adds
  <2>3. i - i + 1 = 1
    OBVIOUS
  <2> QED
    BY <1>0, <1>2, <1>4, <1>5, <2>1, <2>2, <2>3, Zenon
<1>6. PICK first \in Seq(Filled) : first = FirstAt(s, i, m)
  BY FirstAtType
<1>7. new.words = ws \o first
  <2>1. ws \o <<>> = ws /\ Append(ws, one) = ws \o <<one>>
    BY AppendIsConcat
  <2>2. first = IF Alone(s, i, m) THEN <<one>> ELSE <<>>
    BY <1>5, <1>6 DEF FirstAt
  <2> QED
    BY <1>3, <2>1, <2>2
<1>8. ChosenIn(Tails(s, i, i), W) = <<>>
  BY <1>1, TailsFacts, ChosenOne
<1>9. (ws \o first) \o <<>> = ws \o first
  BY SeqClosed
<1>10. g[i].words = (state.words \o FirstAt(s, i, state.maxIdx)) \o ChosenIn(Tails(s, i, i), W)
  BY <1>3, <1>4, <1>6, <1>7, <1>8, <1>9, Zenon
<1>11. PICK ends : ends = EndsAt(s, i, i, W) /\ ends = IF one \in W THEN {i} ELSE {}
  <2>1. i..i = {i}
    OBVIOUS
  <2> QED
    BY <1>5, <2>1 DEF EndsAt
<1>12. ASSUME RunesTell(s, W)
       PROVE  LenAt(new.wordLen, old, i, ends) /\ IsTop(new.maxIdx, m, Pushes(i, old, ends))
  <2>1. one \in W <=> Find(one) # None
    BY <1>5, <1>12 DEF RunesTell
  <2>2. LenAt(new.wordLen, old, i, ends)
    BY <1>3, <1>11, <2>1 DEF LenAt
  <2>3. Pushes(i, old, ends) = {i - 1 + new.wordLen}
    BY <1>3, <1>11, <2>1 DEF Pushes
  <2> QED
    BY <1>3, <2>2, <2>3
<1> QED
  BY <1>3, <1>4, <1>10, <1>11, <1>12 DEF FullSoFar

\* Then the longer words.
LEMMA FullSoFarNext ==
  ASSUME DictInv, NEW s \in Seq(Nat), NEW i \in 1..Len(s), NEW state \in FullState, NEW W, Tells(s, W),
         NEW g, AreFullSteps(s, i, state, g), NEW j \in i + 1..Len(s), FullSoFar(s, i, state, W, g, j - 1)
  PROVE  FullSoFar(s, i, state, W, g, j)
<1> DEFINE ends == Nexts(s, i, MaxWordLength)
<1>1. j \in i..Len(s) /\ j - 1 \in i..Len(s) /\ j # i
  OBVIOUS
<1>2. PICK st \in FullState : st = g[j - 1] /\ g[j] = IF j \in ends THEN FullStep(s, i, st, j) ELSE st
  BY <1>1 DEF AreFullSteps, FullSoFar
<1>3. PICK word \in Filled : word = SubSeq(s, i, j) /\ (j \in ends <=> word \in W)
  BY PieceIsLong DEF Long, Tells
<1>4. PICK t \in Seq(Filled) : t = Tails(s, i, j - 1) /\ Tails(s, i, j) = Append(t, word)
  BY <1>1, <1>3, TailsFacts, TailsFilled
<1>5. PICK c \in Seq(Filled) : c = ChosenIn(t, W) /\ ChosenIn(Tails(s, i, j), W) = c \o OneOf(word, W)
  <2>1. ChosenIn(t, W) \in Seq(Filled)
    BY ChosenType
  <2>2. ChosenIn(Append(t, word), W) = ChosenIn(t, W) \o OneOf(word, W)
    BY ChosenAppend, Zenon
  <2> QED
    BY <1>4, <2>1, <2>2
<1>6. PICK front \in Seq(Filled) : front = state.words \o FirstAt(s, i, state.maxIdx)
  BY FirstAtType, SeqClosed DEF FullState
<1>7. st.words = front \o c
  BY <1>2, <1>4, <1>5, <1>6 DEF FullSoFar
<1>8. PICK old \in Nat, m \in Nat, was \in Nat, len \in Nat :
        old = state.maxIdx /\ m = st.maxIdx /\ was = state.wordLen /\ len = st.wordLen
  BY DEF FullState
<1>12. PICK E, F : E = EndsAt(s, i, j - 1, W) /\ F = EndsAt(s, i, j, W)
  OBVIOUS
<1>13. E \subseteq i..j - 1 /\ F = IF j \in ends THEN E \cup {j} ELSE E
  BY <1>3, <1>12 DEF EndsAt
<1>9. RunesTell(s, W) => LenAt(len, was, i, E) /\ IsTop(m, old, Pushes(i, was, E))
  BY <1>2, <1>8, <1>12 DEF FullSoFar
<1>10. CASE j \in ends
  <2>0. PICK new : new = FullStep(s, i, st, j)
    OBVIOUS
  <2>3. Find(word) # None
    BY <1>1, <1>3, <1>10 DEF Nexts
  <2>1. /\ new = g[j] /\ new \in FullState /\ new.words = Append(st.words, word)
        /\ new.wordLen = j - i + 1 /\ IsTop(new.maxIdx, m, {j})
    <3>1. /\ new \in FullState
          /\ Adds(s, i, st, j, new.words)
          /\ new.wordLen = IF Find(SubSeq(s, i, j)) = None THEN st.wordLen ELSE j - i + 1
          /\ IsTop(new.maxIdx, st.maxIdx, {i - 1 + new.wordLen})
      <4>1. j \in Nexts(s, i, MaxWordLength)
        BY <1>10
      <4> QED
        BY <2>0, <4>1, FullStepFacts
    <3>2. new.words = Append(st.words, SubSeq(s, i, j))
      BY <1>1, <3>1 DEF Adds
    <3>3. i - 1 + (j - i + 1) = j
      OBVIOUS
    <3> QED
      BY <1>2, <1>3, <1>8, <1>10, <2>0, <2>3, <3>1, <3>2, <3>3, Zenon
  <2>2. new.words = front \o ChosenIn(Tails(s, i, j), W)
    <3>1. OneOf(word, W) = <<word>> /\ c \o <<word>> = Append(c, word)
      BY <1>3, <1>10, AppendIsConcat DEF OneOf
    <3>2. front \o Append(c, word) = Append(front \o c, word)
      BY AppendToConcat
    <3> QED
      BY <1>5, <1>7, <2>1, <3>1, <3>2, Zenon
  <2>4. LenAt(new.wordLen, was, i, F)
    BY <1>10, <1>13, <2>1 DEF LenAt
  <2>5. ASSUME RunesTell(s, W) PROVE IsTop(new.maxIdx, old, Pushes(i, was, F))
    <3>1. PICK top \in Nat : top = new.maxIdx
      BY <2>1 DEF FullState
    <3>2. Pushes(i, was, F) = Pushes(i, was, E) \cup {j} /\ Pushes(i, was, E) \subseteq Nat
      <4>1. F = E \cup {j} /\ E \subseteq Nat /\ i \in Nat /\ i - 1 + was \in Nat /\ j # i
        BY <1>1, <1>10, <1>13
      <4> QED
        BY <4>1 DEF Pushes
    <3> HIDE DEF ends
    <3> QED
      BY <1>9, <2>1, <2>5, <3>1, <3>2, SMTT(30) DEF IsTop
  <2> QED
    BY <1>6, <1>8, <1>12, <2>1, <2>2, <2>4, <2>5 DEF FullSoFar
<1>11. CASE j \notin ends
  <2>1. g[j] = st
    BY <1>2, <1>11
  <2>2. st.words = front \o ChosenIn(Tails(s, i, j), W)
    <3>1. OneOf(word, W) = <<>> /\ c \o <<>> = c
      BY <1>3, <1>11 DEF OneOf
    <3> QED
      BY <1>5, <1>7, <3>1, Zenon
  <2> QED
    BY <1>2, <1>6, <1>8, <1>9, <1>11, <1>12, <1>13, <2>1, <2>2 DEF FullSoFar
<1> QED
  BY <1>10, <1>11

\* FullSegment at i: the rune if it stands alone, and then all words there.
LEMMA FullWordsFacts ==
  ASSUME DictInv, NEW s \in Seq(Nat), NEW i \in 1..Len(s), NEW state \in FullState, NEW W, Tells(s, W),
         NEW new, new = FullWords(s, i, state)
  PROVE  /\ new \in FullState
         /\ new.words = (state.words \o FirstAt(s, i, state.maxIdx)) \o WordsAt(s, i, W)
         /\ RunesTell(s, W) =>
              /\ LenAt(new.wordLen, state.wordLen, i, EndsAt(s, i, Len(s), W))
              /\ IsTop(new.maxIdx, state.maxIdx, Pushes(i, state.wordLen, EndsAt(s, i, Len(s), W)))
<1>1. PICK g : AreFullSteps(s, i, state, g) /\ new = g[Len(s)]
  BY FullWordsSteps
<1> DEFINE Good == {j \in i..Len(s) : FullSoFar(s, i, state, W, g, j)}
<1>2. i \in Good
  BY <1>1, FullSoFarFirst
<1>3. ASSUME NEW j \in i + 1..Len(s), j - 1 \in Good PROVE j \in Good
  BY <1>1, <1>3, FullSoFarNext
<1>4. Len(s) \in Good
  <2>1. i \in Nat /\ Len(s) \in Nat /\ Len(s) \in i..Len(s)
    OBVIOUS
  <2> HIDE DEF Good
  <2> QED
    BY <1>2, <1>3, <2>1, UpReach
<1>5. FullSoFar(s, i, state, W, g, Len(s))
  BY <1>4
<1>7. WordsAt(s, i, W) = ChosenIn(Tails(s, i, Len(s)), W)
  BY WordsAtByTails
<1> QED
  BY <1>1, <1>5, <1>7 DEF FullSoFar

-----------------------------------------------------------------------------
(* FullSegment on a range. *)

\* The rune at k is no word: maxIdx counts the last one again, up to top.
EchoTo(s, k, top, W) ==
  /\ <<s[k]>> \notin W
  /\ \E n \in 1..k - 1 : \E e \in n..Len(s) : LastFound(s, n, e, k, W) /\ top = k + e - n

\* wordLen behind the first n positions.
LenOf(s, n, len, W) ==
  \/ len = 0 /\ \A x \in 1..n : EndsAt(s, x, Len(s), W) = {}
  \/ \E x \in 1..n : \E e \in x..Len(s) : LastFound(s, x, e, n + 1, W) /\ len = e - x + 1

\* An end that maxIdx counts at k.
Counted(s, k, e, W) == e \in EndsAt(s, k, Len(s), W) \ {k} \/ EchoTo(s, k, e, W)

\* maxIdx behind the first n positions, as far as it matters.
TopOf(s, n, m, W) ==
  /\ m <= n \/ \E k \in 1..n : Counted(s, k, m, W)
  /\ \A k \in 1..n : \A e \in Nat : Counted(s, k, e, W) => e <= m

\* s lies between two symbols, or is one.
OneRange(s) == Len(s) = 1 \/ \A x \in 1..Len(s) : s[x] \notin Symbols

\* maxIdx tells whether the rune at i is covered.
LEMMA AloneTells ==
  ASSUME NEW s \in Seq(Nat), NEW i \in 1..Len(s), NEW W, Tells(s, W), OneRange(s), NEW m \in Nat, TopOf(s, i - 1, m, W)
  PROVE  Alone(s, i, m) <=> ~CoveredAt(s, i, W) /\ ~Echoed(s, i, W)
<1> DEFINE Ends(k) == EndsAt(s, k, Len(s), W)
<1>1. Alone(s, i, m) <=> Nexts(s, i, MaxWordLength) = {i} /\ m <= i - 1
  BY DEF Alone
<1>2. Nexts(s, i, MaxWordLength) = {i} <=> Ends(i) \subseteq {i}
  <2>1. /\ \A j \in i + 1..Len(s) : j \in Nexts(s, i, MaxWordLength) <=> j \in Ends(i)
        /\ Ends(i) \subseteq i..Len(s) /\ i \in Nexts(s, i, MaxWordLength)
        /\ Nexts(s, i, MaxWordLength) \subseteq i..Len(s)
    BY DEF Tells, EndsAt, Nexts
  <2> QED
    BY <2>1
<1>3. CoveredAt(s, i, W) <=> \E k \in 1..i : \E j \in Ends(k) : i <= j /\ j # k
  BY DEF CoveredAt, EndsAt
<1>4. Echoed(s, i, W) <=> \E k \in 1..i - 1 : \E top \in Nat : EchoTo(s, k, top, W) /\ i <= top
  <2>1. ASSUME NEW k \in 1..i - 1, NEW n \in 1..k - 1, NEW x \in n..i PROVE s[x] \notin Symbols
    <3>1. x \in 1..Len(s) /\ Len(s) # 1
      <4>1. PICK len \in Nat : len = Len(s)
        OBVIOUS
      <4> QED
        BY <4>1
    <3> QED
      BY <3>1 DEF OneRange
  <2>2. \A k \in 1..i - 1 : \A n \in 1..k - 1 : \A e \in n..Len(s) : k + e - n \in Nat
    OBVIOUS
  <2> QED
    BY <2>1, <2>2 DEF Echoed, EchoTo
<1>5. /\ m <= i - 1 \/ \E k \in 1..i - 1 : m \in Ends(k) \ {k} \/ EchoTo(s, k, m, W)
      /\ \A k \in 1..i - 1 : \A e \in Nat : e \in Ends(k) \ {k} \/ EchoTo(s, k, e, W) => e <= m
  BY DEF TopOf, Counted
<1>6. \A k \in 1..i : Ends(k) \subseteq Nat /\ (k = i \/ k \in 1..i - 1) /\ \A e \in Ends(k) : k <= e
  BY DEF EndsAt
<1> HIDE DEF Ends
<1>7. m <= i - 1 <=> ~\E k \in 1..i - 1 : \E e \in Nat : i <= e /\ (e \in Ends(k) \ {k} \/ EchoTo(s, k, e, W))
  BY <1>5, SMTT(30)
<1>8. CoveredAt(s, i, W) <=> ~(Ends(i) \subseteq {i}) \/ \E k \in 1..i - 1 : \E e \in Nat : i <= e /\ e \in Ends(k) \ {k}
  BY <1>3, <1>6, SMTT(30)
<1> QED
  BY <1>1, <1>2, <1>4, <1>7, <1>8

\* One position more: wordLen ...
LEMMA LenGrows ==
  ASSUME NEW s \in Seq(Nat), NEW i \in 1..Len(s), NEW W, NEW old \in Nat, LenOf(s, i - 1, old, W),
         NEW len \in Nat, LenAt(len, old, i, EndsAt(s, i, Len(s), W))
  PROVE  LenOf(s, i, len, W)
<1> DEFINE Ends(k) == EndsAt(s, k, Len(s), W)
<1>1. (\A k \in 1..i : k \in 1..i - 1 \/ k = i) /\ i \in 1..i /\ \A e \in Ends(i) : e \in i..Len(s)
  BY DEF EndsAt
<1>2. CASE len = old /\ Ends(i) = {}
  <2>1. CASE old = 0 /\ \A x \in 1..i - 1 : Ends(x) = {}
    BY <1>1, <1>2, <2>1 DEF LenOf
  <2>2. ASSUME NEW x \in 1..i - 1, NEW e \in x..Len(s), LastFound(s, x, e, (i - 1) + 1, W), old = e - x + 1
        PROVE  LenOf(s, i, len, W)
    <3>1. e \in Ends(x) /\ \A z \in x..i - 1 : \A y \in Ends(z) : z = x /\ y <= e
      BY <2>2 DEF LastFound
    <3>2. \A z \in x..(i + 1) - 1 : z \in x..i - 1 \/ z = i
      OBVIOUS
    <3>3. LastFound(s, x, e, i + 1, W)
      BY <1>2, <3>1, <3>2 DEF LastFound
    <3>4. x \in 1..i
      OBVIOUS
    <3> QED
      BY <1>2, <2>2, <3>3, <3>4 DEF LenOf
  <2> QED
    BY <2>1, <2>2 DEF LenOf
<1>3. ASSUME NEW e \in Ends(i), len = e - i + 1, \A x \in Ends(i) : x <= e PROVE LenOf(s, i, len, W)
  <2>1. \A z \in i..(i + 1) - 1 : z = i
    OBVIOUS
  <2>2. LastFound(s, i, e, i + 1, W)
    BY <1>3, <2>1 DEF LastFound
  <2> QED
    BY <1>1, <1>3, <2>2 DEF LenOf
<1> QED
  BY <1>2, <1>3 DEF LenAt

\* ... and maxIdx.
LEMMA TopGrows ==
  ASSUME NEW s \in Seq(Nat), NEW i \in 1..Len(s), NEW W, NEW m \in Nat, TopOf(s, i - 1, m, W),
         NEW old \in Nat, LenOf(s, i - 1, old, W),
         NEW new \in Nat, IsTop(new, m, Pushes(i, old, EndsAt(s, i, Len(s), W)))
  PROVE  TopOf(s, i, new, W)
<1> DEFINE Ends == EndsAt(s, i, Len(s), W)
           again == i - 1 + old
<1>1. (\A k \in 1..i : k \in 1..i - 1 \/ k = i) /\ (\A k \in 1..i - 1 : k \in 1..i) /\ i \in 1..i
  OBVIOUS
<1>2. /\ m <= i - 1 \/ \E k \in 1..i - 1 : Counted(s, k, m, W)
      /\ \A k \in 1..i - 1 : \A e \in Nat : Counted(s, k, e, W) => e <= m
  BY DEF TopOf
<1>3. /\ new = m \/ new \in Ends \ {i} \/ new = IF i \in Ends THEN i ELSE again
      /\ m <= new /\ (\A e \in Ends \ {i} : e <= new) /\ (i \notin Ends => again <= new)
  BY DEF IsTop, Pushes
<1>4. i \in Ends <=> <<s[i]>> \in W
  <2>1. i \in i..Len(s) /\ SubSeq(s, i, i) = <<s[i]>>
    BY PieceOne
  <2> QED
    BY <2>1 DEF EndsAt
<1>5. i \notin Ends => \A top \in Nat : EchoTo(s, i, top, W) => top = again
  <2> SUFFICES ASSUME NEW top \in Nat, EchoTo(s, i, top, W) PROVE top = again
    OBVIOUS
  <2>0. PICK n \in 1..i - 1 : \E e \in n..Len(s) : LastFound(s, n, e, i, W) /\ top = i + e - n
    BY DEF EchoTo
  <2>1. PICK e \in n..Len(s) : LastFound(s, n, e, i, W) /\ top = i + e - n
    BY <2>0
  <2>2. e \in EndsAt(s, n, Len(s), W) /\ \A z \in n..i - 1 : \A y \in EndsAt(s, z, Len(s), W) : z = n /\ y <= e
    BY <2>1 DEF LastFound
  <2>7. PICK x \in 1..i - 1 : \E f \in x..Len(s) : LastFound(s, x, f, i, W) /\ old = f - x + 1
    BY <2>2 DEF LenOf
  <2>3. PICK f \in x..Len(s) : LastFound(s, x, f, i, W) /\ old = f - x + 1
    BY <2>7
  <2>4. f \in EndsAt(s, x, Len(s), W) /\ \A z \in x..i - 1 : \A y \in EndsAt(s, z, Len(s), W) : z = x /\ y <= f
    BY <2>3 DEF LastFound
  <2>5. n \in x..i - 1 \/ x \in n..i - 1
    OBVIOUS
  <2>6. n = x /\ e = f
    BY <2>2, <2>4, <2>5
  <2> QED
    BY <2>1, <2>3, <2>6
<1>6. i \notin Ends /\ again > i => EchoTo(s, i, again, W)
  <2> SUFFICES ASSUME i \notin Ends, again > i PROVE EchoTo(s, i, again, W)
    OBVIOUS
  <2>0. PICK x \in 1..i - 1 : \E f \in x..Len(s) : LastFound(s, x, f, i, W) /\ old = f - x + 1
    BY DEF LenOf
  <2>1. PICK f \in x..Len(s) : LastFound(s, x, f, i, W) /\ old = f - x + 1
    BY <2>0
  <2>2. again = i + f - x
    BY <2>1
  <2> QED
    BY <1>4, <2>1, <2>2 DEF EchoTo
<1>7. again \in Nat
  OBVIOUS
<1> HIDE DEF Ends, again
<1>8. new <= i \/ \E k \in 1..i : Counted(s, k, new, W)
  <2>1. CASE new = m
    BY <1>1, <1>2, <2>1
  <2>2. CASE new \in Ends \ {i}
    BY <1>1, <2>2 DEF Counted, Ends
  <2>3. CASE new = IF i \in Ends THEN i ELSE again
    BY <1>1, <1>6, <1>7, <2>3 DEF Counted
  <2> QED
    BY <1>3, <2>1, <2>2, <2>3
<1>9. ASSUME NEW k \in 1..i, NEW e \in Nat, Counted(s, k, e, W) PROVE e <= new
  <2>1. CASE k \in 1..i - 1
    BY <1>2, <1>3, <1>9, <2>1
  <2>2. CASE k = i /\ EchoTo(s, i, e, W)
    BY <1>3, <1>4, <1>5, <2>2 DEF EchoTo
  <2>3. CASE k = i /\ e \in Ends \ {i}
    BY <1>3, <2>3
  <2> QED
    BY <1>1, <1>9, <2>1, <2>2, <2>3 DEF Counted, Ends
<1> QED
  BY <1>8, <1>9 DEF TopOf

\* The rows grow at the end.
LEMMA RowsGrow ==
  ASSUME NEW s \in Seq(Nat), NEW i \in 1..Len(s), NEW W
  PROVE  /\ LongRow(s, W, i - 1) \in Seq(Seq(Filled)) /\ WordsAt(s, i, W) \in Seq(Filled)
         /\ LongRow(s, W, i) = Append(LongRow(s, W, i - 1), WordsAt(s, i, W))
         /\ LoneRow(s, W, i - 1) \in Seq(Seq(Filled)) /\ Lone(s, i, W) \in Seq(Filled)
         /\ LoneRow(s, W, i) = Append(LoneRow(s, W, i - 1), Lone(s, i, W))
<1> DEFINE R == Seq(Filled)
<1>1. \A k \in 1..Len(s) : WordsAt(s, k, W) \in R
  <2> TAKE k \in 1..Len(s)
  <2>1. Len(s) \in k..Len(s)
    OBVIOUS
  <2> QED
    BY <2>1, WordsAtByTails, TailsFilled
<1>2. \A k \in 1..Len(s) : Lone(s, k, W) \in R
  <2> TAKE k \in 1..Len(s)
  <2>1. PICK w \in Filled : w = <<s[k]>>
    BY FirstAtType
  <2>2. <<w>> \in R /\ <<>> \in R
    BY SeqClosed
  <2> QED
    BY <2>1, <2>2 DEF Lone
<1>3. PICK n \in Nat : n = i - 1 /\ i = n + 1
  OBVIOUS
<1>4. \A k \in 1..n + 1 : k \in 1..Len(s)
  BY <1>3
<1> HIDE DEF R
<1>5. ASSUME NEW F, F \in [1..n + 1 -> R]
      PROVE  [k \in 1..n |-> F[k]] \in Seq(R) /\ [k \in 1..n + 1 |-> F[k]] = Append([k \in 1..n |-> F[k]], F[n + 1])
  BY <1>5
<1>6. PICK f : f = [k \in 1..n + 1 |-> WordsAt(s, k, W)]
  OBVIOUS
<1>7. PICK h : h = [k \in 1..n + 1 |-> Lone(s, k, W)]
  OBVIOUS
<1>8. f \in [1..n + 1 -> R] /\ h \in [1..n + 1 -> R]
  BY <1>1, <1>2, <1>4, <1>6, <1>7
<1>9. /\ [k \in 1..n |-> f[k]] = LongRow(s, W, n) /\ [k \in 1..n + 1 |-> f[k]] = LongRow(s, W, n + 1)
      /\ [k \in 1..n |-> h[k]] = LoneRow(s, W, n) /\ [k \in 1..n + 1 |-> h[k]] = LoneRow(s, W, n + 1)
      /\ f[n + 1] = WordsAt(s, n + 1, W) /\ h[n + 1] = Lone(s, n + 1, W)
  BY <1>6, <1>7 DEF LongRow, LoneRow
<1>10. LongRow(s, W, n) \in Seq(R) /\ LongRow(s, W, n + 1) = Append(LongRow(s, W, n), WordsAt(s, n + 1, W))
  BY <1>5, <1>8, <1>9
<1>11. LoneRow(s, W, n) \in Seq(R) /\ LoneRow(s, W, n + 1) = Append(LoneRow(s, W, n), Lone(s, n + 1, W))
  BY <1>5, <1>8, <1>9
<1>12. i \in 1..Len(s)
  OBVIOUS
<1> QED
  BY <1>1, <1>2, <1>3, <1>10, <1>11, <1>12, Zenon DEF R

\* What is chosen from the words that one position adds.
LEMMA ChosenOfBoth ==
  ASSUME NEW s \in Seq(Nat), NEW i \in 1..Len(s), NEW W, NEW m, NEW u \in Seq(Filled)
  PROVE  /\ ChosenIn((u \o FirstAt(s, i, m)) \o WordsAt(s, i, W), Long) = ChosenIn(u, Long) \o WordsAt(s, i, W)
         /\ ChosenIn((u \o FirstAt(s, i, m)) \o WordsAt(s, i, W), Single) = ChosenIn(u, Single) \o FirstAt(s, i, m)
<1>1. PICK first \in Seq(Filled) : first = FirstAt(s, i, m)
  BY FirstAtType
<1>2. PICK w \in Seq(Filled) : w = WordsAt(s, i, W)
  BY RowsGrow
<1>3. \A k \in 1..Len(w) : w[k] \in Long /\ w[k] \notin Single
  <2>1. w \in Seq(Long)
    BY <1>2, WordsAtByTails
  <2>2. \A word \in Long : word \notin Single
    <3> TAKE word \in Long
    <3>1. Len(word) > 1 /\ ~(1 > 1)
      BY DEF Long
    <3> QED
      BY <3>1, Zenon DEF Single
  <2> QED
    BY <2>1, <2>2
<1>4. \A k \in 1..Len(first) : first[k] \in Single /\ first[k] \notin Long
  <2>1. PICK word \in Filled : word = <<s[i]>>
    BY FirstAtType
  <2>2. Len(word) = 1
    BY <2>1
  <2>3. word \in Single /\ word \notin Long
    <3>1. ~(1 > 1)
      OBVIOUS
    <3> QED
      BY <2>2, <3>1 DEF Single, Long
  <2>4. first = <<>> \/ first = <<word>>
    BY <1>1, <2>1 DEF FirstAt
  <2>5. \A k \in 1..Len(first) : first[k] = word
    BY <2>4
  <2> QED
    BY <2>3, <2>5
<1>5. PICK v \in Seq(Filled) : v = u \o first
  BY SeqClosed
<1>6. ASSUME NEW T PROVE ChosenIn(v \o w, T) = (ChosenIn(u, T) \o ChosenIn(first, T)) \o ChosenIn(w, T)
  <2>1. ChosenIn(v \o w, T) = ChosenIn(v, T) \o ChosenIn(w, T)
    <3>1. v \in Seq(Filled) /\ w \in Seq(Filled)
      OBVIOUS
    <3> QED
      BY <3>1, ChosenConcat, SMTT(30)
  <2>2. ChosenIn(u \o first, T) = ChosenIn(u, T) \o ChosenIn(first, T)
    <3>1. u \in Seq(Filled) /\ first \in Seq(Filled)
      OBVIOUS
    <3> QED
      BY <3>1, ChosenConcat, SMTT(30)
  <2> QED
    BY <1>5, <2>1, <2>2, Zenon
<1>7. /\ ChosenIn(w, Long) = w /\ ChosenIn(w, Single) = <<>>
      /\ ChosenIn(first, Long) = <<>> /\ ChosenIn(first, Single) = first
  BY <1>3, <1>4, ChosenAll
<1>8. ASSUME NEW c \in Seq(Filled) PROVE c \o <<>> = c
  OBVIOUS
<1>9. ChosenIn(v \o w, Long) = ChosenIn(u, Long) \o w
  <2>1. ChosenIn(u, Long) \in Seq(Filled)
    BY ChosenType
  <2>2. ChosenIn(u, Long) \o <<>> = ChosenIn(u, Long)
    BY <1>8, <2>1, Zenon
  <2> QED
    BY <1>6, <1>7, <2>2, Zenon
<1>10. ChosenIn(v \o w, Single) = ChosenIn(u, Single) \o first
  <2>1. ChosenIn(u, Single) \in Seq(Filled)
    BY ChosenType
  <2>2. ChosenIn(u, Single) \o first \in Seq(Filled)
    BY <2>1, SeqClosed
  <2>3. (ChosenIn(u, Single) \o first) \o <<>> = ChosenIn(u, Single) \o first
    BY <1>8, <2>2, Zenon
  <2> QED
    BY <1>6, <1>7, <2>3, Zenon
<1> QED
  BY <1>1, <1>2, <1>5, <1>9, <1>10, Zenon

\* How far the words are behind n.
FullCutSoFar(s, W, st, n) ==
  /\ st \in FullState
  /\ ChosenIn(st.words, Long) = FlattenSeq(LongRow(s, W, n))
  /\ RunesTell(s, W) /\ OneRange(s) =>
       /\ LenOf(s, n, st.wordLen, W) /\ TopOf(s, n, st.maxIdx, W)
       /\ ChosenIn(st.words, Single) = FlattenSeq(LoneRow(s, W, n))

\* One position brings the words that begin there, and the rune if it is not
\* covered.
LEMMA FullCutNext ==
  ASSUME DictInv, NEW s \in Seq(Nat), NEW i \in 1..Len(s), NEW W, Tells(s, W),
         NEW st, FullCutSoFar(s, W, st, i - 1), NEW new, new = FullWords(s, i, st)
  PROVE  FullCutSoFar(s, W, new, i)
<1>1. st \in FullState
  BY DEF FullCutSoFar
<1>2. PICK u \in Seq(Filled), m \in Nat, old \in Nat : u = st.words /\ m = st.maxIdx /\ old = st.wordLen
  BY <1>1 DEF FullState
<1>3. /\ new \in FullState
      /\ new.words = (u \o FirstAt(s, i, m)) \o WordsAt(s, i, W)
      /\ RunesTell(s, W) => /\ LenAt(new.wordLen, old, i, EndsAt(s, i, Len(s), W))
                            /\ IsTop(new.maxIdx, m, Pushes(i, old, EndsAt(s, i, Len(s), W)))
  BY <1>1, <1>2, FullWordsFacts
<1>4. /\ ChosenIn(new.words, Long) = ChosenIn(u, Long) \o WordsAt(s, i, W)
      /\ ChosenIn(new.words, Single) = ChosenIn(u, Single) \o FirstAt(s, i, m)
  BY <1>3, ChosenOfBoth, SMTT(30)
<1>5. /\ FlattenSeq(LongRow(s, W, i)) = FlattenSeq(LongRow(s, W, i - 1)) \o WordsAt(s, i, W)
      /\ FlattenSeq(LoneRow(s, W, i)) = FlattenSeq(LoneRow(s, W, i - 1)) \o Lone(s, i, W)
  <2>1. PICK r \in Seq(Seq(Filled)), x \in Seq(Filled) : r = LongRow(s, W, i - 1) /\ x = WordsAt(s, i, W)
    BY RowsGrow
  <2>2. PICK q \in Seq(Seq(Filled)), y \in Seq(Filled) : q = LoneRow(s, W, i - 1) /\ y = Lone(s, i, W)
    BY RowsGrow
  <2>3. FlattenSeq(Append(r, x)) = FlattenSeq(r) \o x /\ FlattenSeq(Append(q, y)) = FlattenSeq(q) \o y
    BY FlattenAppend
  <2>4. LongRow(s, W, i) = Append(r, x) /\ LoneRow(s, W, i) = Append(q, y)
    BY <2>1, <2>2, RowsGrow
  <2> QED
    BY <2>1, <2>2, <2>3, <2>4, Zenon
<1>6. ChosenIn(new.words, Long) = FlattenSeq(LongRow(s, W, i))
  BY <1>2, <1>4, <1>5, Zenon DEF FullCutSoFar
<1>7. ASSUME RunesTell(s, W), OneRange(s)
      PROVE  /\ LenOf(s, i, new.wordLen, W) /\ TopOf(s, i, new.maxIdx, W)
             /\ ChosenIn(new.words, Single) = FlattenSeq(LoneRow(s, W, i))
  <2>1. LenOf(s, i - 1, old, W) /\ TopOf(s, i - 1, m, W) /\ ChosenIn(u, Single) = FlattenSeq(LoneRow(s, W, i - 1))
    BY <1>2, <1>7 DEF FullCutSoFar
  <2>2. PICK top \in Nat, len \in Nat : top = new.maxIdx /\ len = new.wordLen
    BY <1>3 DEF FullState
  <2>3. LenAt(len, old, i, EndsAt(s, i, Len(s), W)) /\ IsTop(top, m, Pushes(i, old, EndsAt(s, i, Len(s), W)))
    BY <1>3, <1>7, <2>2
  <2>4. LenOf(s, i, len, W) /\ TopOf(s, i, top, W)
    BY <2>1, <2>3, LenGrows, TopGrows
  <2>5. Alone(s, i, m) <=> ~CoveredAt(s, i, W) /\ ~Echoed(s, i, W)
    BY <1>7, <2>1, AloneTells
  <2>6. FirstAt(s, i, m) = Lone(s, i, W)
    BY <2>5, Zenon DEF FirstAt, Lone
  <2> QED
    BY <1>4, <1>5, <2>1, <2>2, <2>4, <2>6, Zenon
<1> QED
  BY <1>3, <1>6, <1>7 DEF FullCutSoFar

\* FullSegment finds all words of a range, and keeps each rune that none covers.
LEMMA FullCutFacts ==
  ASSUME DictInv, NEW s \in Seq(Nat), NEW W, Tells(s, W), NEW words, words = FullCut(s)
  PROVE  /\ words \in Seq(Filled)
         /\ ChosenIn(words, Long) = FlattenSeq(LongRow(s, W, Len(s)))
         /\ RunesTell(s, W) /\ OneRange(s) => ChosenIn(words, Single) = FlattenSeq(LoneRow(s, W, Len(s)))
<1> DEFINE N == Len(s)
           z == [words |-> <<>>, wordLen |-> 0, maxIdx |-> 0]
           IsAt(f) == f = [i \in 0..N |-> IF i = 0 THEN z ELSE FullWords(s, i, f[i - 1])]
           G == [t \in (0 + 1..N) \X FullState |-> FullWords(s, t[1], t[2])]
<1>1. FullCut(s) = (CHOOSE f : IsAt(f))[N].words
  BY DEF FullCut
<1>2. N \in Nat /\ 0 \in Nat /\ 0 <= N /\ 0 \in 0..N
  OBVIOUS
<1>3. z \in FullState
  BY SeqClosed DEF FullState
<1>4. \A i \in 0 + 1..N : \A st \in FullState : FullWords(s, i, st) \in FullState
  <2>1. \A i \in 0 + 1..N : i \in 1..Len(s)
    OBVIOUS
  <2> QED
    BY <2>1, FullWordsFacts
<1> HIDE DEF z, N
<1>5. G \in [(0 + 1..N) \X FullState -> FullState]
  BY <1>2, <1>4
<1>6. PICK f \in [0..N -> FullState] : Climbs(0, N, z, G, f)
  <2> HIDE DEF G
  <2> QED
    BY <1>2, <1>3, <1>5, UpExists
<1>7. IsAt(f)
  <2>1. \A j \in 0..N : f[j] = IF j = 0 THEN z ELSE G[<<j, f[j - 1]>>]
    <3> HIDE DEF G
    <3> QED
      BY <1>6 DEF Climbs
  <2>2. ASSUME NEW j \in 0..N, j # 0 PROVE G[<<j, f[j - 1]>>] = FullWords(s, j, f[j - 1])
    BY <1>2, <2>2, <1>6
  <2> HIDE DEF G
  <2> QED
    BY <1>6, <2>1, <2>2
<1>8. PICK g : IsAt(g) /\ words = g[N].words
  BY <1>1, <1>7
<1>9. \A j \in 0..N : g[j] = IF j = 0 THEN z ELSE FullWords(s, j, g[j - 1])
  BY <1>8
<1> DEFINE Good == {n \in 0..N : FullCutSoFar(s, W, g[n], n)}
<1>10. 0 \in Good
  <2>1. g[0] = z
    BY <1>2, <1>9
  <2>2. 1..0 = {}
    OBVIOUS
  <2>3. LongRow(s, W, 0) = <<>> /\ LoneRow(s, W, 0) = <<>>
    BY <2>2 DEF LongRow, LoneRow
  <2>4. z.words = <<>> /\ z.wordLen = 0 /\ z.maxIdx = 0
    BY DEF z
  <2>5. ChosenIn(<<>>, Long) = <<>> /\ ChosenIn(<<>>, Single) = <<>>
    <3>1. PICK x \in Filled : TRUE
      <4>1. <<0>> \in Filled
        BY DEF Filled
      <4> QED
        BY <4>1
    <3> QED
      BY ChosenOne
  <2>6. TopOf(s, 0, 0, W) /\ LenOf(s, 0, 0, W)
    BY <2>2 DEF TopOf, LenOf
  <2> QED
    BY <1>2, <1>3, <2>1, <2>3, <2>4, <2>5, <2>6, FlattenEmpty, Zenon DEF FullCutSoFar
<1>11. ASSUME NEW n \in 0 + 1..N, n - 1 \in Good PROVE n \in Good
  BY <1>2, <1>11, <1>9, FullCutNext DEF N
<1>12. N \in Good
  <2>1. N \in 0..N
    BY <1>2
  <2> HIDE DEF Good
  <2> QED
    BY <1>2, <1>10, <1>11, <2>1, UpReach
<1>13. FullCutSoFar(s, W, g[N], N)
  BY <1>12
<1> QED
  BY <1>8, <1>13 DEF FullCutSoFar, FullState, N

-----------------------------------------------------------------------------
(* QuerySegment. *)

\* The trie tells those words from all other pieces.
LEMMA AllTell ==
  ASSUME DictInv, DictMore, stage = "ready", NEW s \in Seq(Nat)
  PROVE  Tells(s, Reached)
<1> SUFFICES ASSUME NEW i \in 1..Len(s), NEW j \in i + 1..Len(s)
             PROVE  j \in Nexts(s, i, MaxWordLength) <=> SubSeq(s, i, j) \in Reached
  BY DEF Tells
<1>1. Nexts(s, i, MaxWordLength) =
        {i} \cup {k \in i + 1..Len(s) : k - i + 1 <= MaxWordLength /\ SubSeq(s, i, k) \in DictWords}
  BY NextsAreWords
<1>2. Len(SubSeq(s, i, j)) = j - i + 1
  BY PieceFacts
<1>3. j \in i + 1..Len(s) /\ j # i
  OBVIOUS
<1> QED
  BY <1>1, <1>2, <1>3 DEF Reached

\* The pieces of s that are longer than one rune.
IsPiece(word, s) == \E i \in 1..Len(s) : \E j \in i + 1..Len(s) : word = SubSeq(s, i, j)

\* CutAll yields the words of the dictionary that are pieces of the text.
LEMMA FullCutMembers ==
  ASSUME DictInv, DictMore, stage = "ready", NEW s \in Seq(Nat), NEW word \in Long
  PROVE  word \in ToSet(FullCut(s)) <=> word \in Reached /\ IsPiece(word, s)
<1>1. PICK words : words = FullCut(s)
  OBVIOUS
<1>2. words \in Seq(Filled) /\ ChosenIn(words, Long) = FlattenSeq(LongRow(s, Reached, Len(s)))
  BY <1>1, AllTell, FullCutFacts
<1>3. ToSet(ChosenIn(words, Long)) = ToSet(words) \cap Long
  BY <1>2, ChosenMembers
<1>4. PICK n \in Nat : n = Len(s)
  OBVIOUS
<1>5. PICK row : row = LongRow(s, Reached, n)
  OBVIOUS
<1>6. row = [k \in 1..n |-> WordsAt(s, k, Reached)]
  BY <1>5 DEF LongRow
<1>7. \A k \in 1..n : WordsAt(s, k, Reached) \in Seq(Filled)
  BY <1>4, RowsGrow
<1>8. row \in Seq(Seq(Filled)) /\ Len(row) = n /\ \A k \in 1..n : row[k] = WordsAt(s, k, Reached)
  <2> DEFINE R == Seq(Filled)
  <2>1. \A k \in 1..n : WordsAt(s, k, Reached) \in R
    BY <1>7
  <2> HIDE DEF R
  <2>2. row \in Seq(R) /\ Len(row) = n /\ \A k \in 1..n : row[k] = WordsAt(s, k, Reached)
    BY <1>6, <2>1
  <2> QED
    BY <2>2 DEF R
<1>9. ToSet(FlattenSeq(row)) = UNION {ToSet(row[k]) : k \in 1..n}
  BY <1>8, MembersOfAll
<1>10. ASSUME NEW k \in 1..n
       PROVE  word \in ToSet(row[k]) <=> word \in Reached /\ \E j \in k + 1..n : word = SubSeq(s, k, j)
  <2>1. k \in 1..Len(s) /\ Len(s) \in k..Len(s)
    BY <1>4
  <2>2. PICK t \in Seq(Filled) : t = Tails(s, k, Len(s))
    BY <2>1, TailsFilled
  <2>3. row[k] = ChosenIn(t, Reached)
    BY <1>8, <2>1, <2>2, WordsAtByTails
  <2>4. ToSet(row[k]) = ToSet(t) \cap Reached
    BY <2>3, ChosenMembers
  <2>5. t = [x \in 1..n - k |-> SubSeq(s, k, k + x)]
    BY <1>4, <2>2 DEF Tails
  <2>6. word \in ToSet(t) <=> \E x \in 1..n - k : word = SubSeq(s, k, k + x)
    BY <2>5 DEF ToSet
  <2>7. (\E x \in 1..n - k : word = SubSeq(s, k, k + x)) <=> \E j \in k + 1..n : word = SubSeq(s, k, j)
    <3>1. ASSUME NEW x \in 1..n - k PROVE k + x \in k + 1..n
      OBVIOUS
    <3>2. ASSUME NEW j \in k + 1..n PROVE j - k \in 1..n - k /\ k + (j - k) = j
      OBVIOUS
    <3> QED
      BY <3>1, <3>2
  <2> QED
    BY <2>4, <2>6, <2>7
<1>11. word \in ToSet(words) <=> word \in Reached /\ \E k \in 1..n : \E j \in k + 1..n : word = SubSeq(s, k, j)
  BY <1>2, <1>3, <1>4, <1>5, <1>9, <1>10
<1> QED
  BY <1>1, <1>4, <1>11 DEF IsPiece

\* CutAll finds those of every word that it finds.
LEMMA FullFindsParts ==
  ASSUME DictInv, DictMore, stage = "ready", NEW s \in Seq(Nat), NEW max
  PROVE  FullCut(s) \in Seq(Filled) /\ FindsParts(FullCut(s), max)
<1>1. FullCut(s) \in Seq(Filled)
  BY AllTell, FullCutFacts
<1>2. ASSUME NEW whole \in ToSet(FullCut(s)), NEW part \in Reached, HasPart(whole, part)
      PROVE  part \in ToSet(FullCut(s))
  <2>1. whole \in Filled
    BY <1>1 DEF ToSet
  <2>2. PICK ww \in Seq(Nat) : ww = whole
    BY <2>1 DEF Filled
  <2>3. part \in Seq(Nat)
    BY DictWordsByEntries DEF DictInv, Reached
  <2>4. PICK n \in 1..Len(ww) : Occurs(part, ww, n)
    BY <1>2, <2>2 DEF HasPart
  <2>5. PICK l \in Nat : l = Len(part) /\ 1 < l
    BY <1>2, <2>3 DEF HasPart
  <2>6. n + l - 1 <= Len(ww) /\ part = SubSeq(ww, n, n + l - 1)
    BY <2>4, <2>5 DEF Occurs
  <2>7. Len(ww) > 1 /\ n + l - 1 \in n + 1..Len(ww)
    BY <2>5, <2>6
  <2>8. whole \in Long /\ part \in Long
    BY <2>1, <2>2, <2>3, <2>5, <2>7 DEF Long, Filled
  <2>9. IsPiece(ww, s)
    BY <2>2, <2>8, FullCutMembers
  <2>10. PICK i \in 1..Len(s) : \E j \in i + 1..Len(s) : ww = SubSeq(s, i, j)
    BY <2>9 DEF IsPiece
  <2>11. PICK j \in i + 1..Len(s) : ww = SubSeq(s, i, j)
    BY <2>10
  <2>12. Len(ww) = j - i + 1
    BY <2>11, PieceFacts
  <2>13. part = SubSeq(s, i + n - 1, i + n + l - 2)
    BY <2>6, <2>7, <2>11, <2>12, PieceOfPiece
  <2>14. i + n - 1 \in 1..Len(s) /\ i + n + l - 2 \in i + n - 1 + 1..Len(s)
    BY <2>5, <2>7, <2>12, SMTT(30)
  <2>15. IsPiece(part, s)
    BY <2>13, <2>14 DEF IsPiece
  <2> QED
    BY <2>8, <2>15, FullCutMembers
<1> QED
  BY <1>1, <1>2 DEF FindsParts

\* Two sequences that find the parts of their own words do so together.
LEMMA FindsPartsBoth ==
  ASSUME NEW a \in Seq(Filled), NEW b \in Seq(Filled), NEW max, FindsParts(a, max), FindsParts(b, max)
  PROVE  a \o b \in Seq(Filled) /\ FindsParts(a \o b, max)
<1>1. a \o b \in Seq(Filled)
  BY SeqClosed
<1>2. ToSet(a \o b) = ToSet(a) \cup ToSet(b)
  BY MembersOfBoth
<1>3. PICK c : c = a \o b
  OBVIOUS
<1>4. FindsParts(c, max)
  BY <1>2, <1>3 DEF FindsParts
<1> QED
  BY <1>1, <1>3, <1>4

\* A row of those, too.
LEMMA FindsPartsAll ==
  ASSUME NEW ss \in Seq(Seq(Filled)), NEW max, \A k \in 1..Len(ss) : FindsParts(ss[k], max)
  PROVE  FlattenSeq(ss) \in Seq(Filled) /\ FindsParts(FlattenSeq(ss), max)
<1>1. FlattenSeq(ss) \in Seq(Filled)
  BY FlattenType
<1>2. ToSet(FlattenSeq(ss)) = UNION {ToSet(ss[k]) : k \in 1..Len(ss)}
  BY MembersOfAll
<1>3. PICK c : c = FlattenSeq(ss)
  OBVIOUS
<1>4. FindsParts(c, max)
  <2> SUFFICES ASSUME NEW whole \in ToSet(c), TooLong(whole, max), NEW part \in Reached, HasPart(whole, part)
               PROVE  part \in ToSet(c)
    BY DEF FindsParts
  <2>1. PICK k \in 1..Len(ss) : whole \in ToSet(ss[k])
    BY <1>2, <1>3
  <2>2. part \in ToSet(ss[k])
    BY <2>1 DEF FindsParts
  <2> QED
    BY <1>2, <1>3, <2>2
<1> QED
  BY <1>1, <1>3, <1>4

\* What MPSegment and MixSegment make are words with runes.
LEMMA TagWordsFilled == TagWords \subseteq Filled
BY DEF TagWords, Shape

\* So no cut of these makes an empty word.
LEMMA CutsFilled ==
  ASSUME DictInv, DictMore, stage = "ready", NEW s \in Seq(Nat), NEW max
  PROVE  MPCut(s, max) \in Seq(Filled) /\ MixCut(s) \in Seq(Filled) /\ HMMCut(s) \in Seq(Filled)
<1>1. MPCut(s, max) \in Seq(TagWords) /\ MixCut(s) \in Seq(TagWords) /\ HMMCut(s) \in Seq(Shape)
  BY MPCutTagWords, MixCutTagWords, HMMCutShape
<1>2. TagWords \subseteq Filled /\ Shape \subseteq Filled
  BY TagWordsFilled DEF Shape
<1> QED
  BY <1>1, <1>2

\* QuerySegment finds the parts of each word that is too long.
LEMMA QueryFindsParts ==
  ASSUME DictInv, DictMore, stage = "ready", NEW s \in Seq(Nat), NEW hmm, NEW max
  PROVE  QueryCut(s, hmm, max) \in Seq(Filled) /\ FindsParts(QueryCut(s, hmm, max), max)
<1>1. PICK mix \in Seq(Filled) : mix = IF hmm THEN MixCut(s) ELSE MPCut(s, MaxWordLength)
  BY CutsFilled
<1> DEFINE R == Seq(Filled)
           Part(i) == IF TooLong(mix[i], max) THEN FullCut(mix[i]) ELSE <<mix[i]>>
<1>2. ASSUME NEW i \in 1..Len(mix) PROVE Part(i) \in R /\ FindsParts(Part(i), max)
  <2>1. mix[i] \in Filled
    OBVIOUS
  <2>2. PICK word \in Seq(Nat) : word = mix[i]
    BY <2>1 DEF Filled
  <2>3. CASE TooLong(mix[i], max)
    BY <2>2, <2>3, FullFindsParts
  <2>4. CASE ~TooLong(mix[i], max)
    BY <2>1, <2>4 DEF ToSet, FindsParts
  <2> QED
    BY <2>3, <2>4
<1> HIDE DEF R, Part
<1>3. PICK n \in Nat : n = Len(mix) /\ DOMAIN mix = 1..n
  OBVIOUS
<1>4. PICK row : row = [i \in DOMAIN mix |-> Part(i)]
  OBVIOUS
<1>5. row \in Seq(R) /\ Len(row) = n /\ \A i \in 1..n : row[i] = Part(i)
  BY <1>2, <1>3, <1>4
<1>6. \A i \in 1..Len(row) : FindsParts(row[i], max)
  BY <1>2, <1>3, <1>5
<1>7. QueryCut(s, hmm, max) = FlattenSeq(row)
  BY <1>1, <1>4 DEF QueryCut, Part
<1>8. row \in Seq(Seq(Filled))
  BY <1>5 DEF R
<1> QED
  BY <1>6, <1>7, <1>8, FindsPartsAll

\* No cut of a range makes an empty word.
LEMMA CutWordsFilled ==
  ASSUME DictInv, DictMore, stage = "ready", NEW s \in Seq(Nat)
  PROVE  CutWords(s) \in Seq(Filled)
BY FullFindsParts, QueryFindsParts, CutsFilled DEF CutWords

-----------------------------------------------------------------------------
(* The words of a call, and its results. *)

\* The words of a level, cut into words that are shorter.
LEMMA SmallerFacts ==
  ASSUME DictInv, DictMore, stage = "ready", NEW word \in Seq(Nat)
  PROVE  /\ Smaller(word) \in Seq(Filled)
         /\ \A part \in ToSet(Smaller(word)) :
              Len(word) >= 3 /\ Len(part) < Len(word) /\ \E n \in DOMAIN word : Occurs(part, word, n)
<1>1. CASE Len(word) < 3
  BY <1>1, SeqClosed DEF Smaller, ToSet
<1>2. CASE Len(word) >= 3
  <2>1. PICK max \in Nat : max = Len(word) - 1 /\ max < Len(word) /\ Smaller(word) = MPCut(word, max)
    BY <1>2 DEF Smaller
  <2>2. PICK parts : parts = MPCut(word, max) /\ parts \in Seq(Picked(word, max))
    BY MPCutPicks
  <2>3. Picked(word, max) \subseteq Filled
    BY DEF Picked
  <2>4. ASSUME NEW part \in ToSet(parts) PROVE Len(part) < Len(word) /\ \E n \in DOMAIN word : Occurs(part, word, n)
    <3>1. part \in Picked(word, max)
      BY <2>2 DEF ToSet
    <3>2. PICK i \in 1..Len(word) : \E j \in i..Len(word) :
            part = SubSeq(word, i, j) /\ (j = i \/ (j - i + 1 <= max /\ part \in DictWords))
      BY <3>1 DEF Picked
    <3>3. PICK j \in i..Len(word) : part = SubSeq(word, i, j) /\ (j = i \/ j - i + 1 <= max)
      BY <3>2
    <3>4. Len(part) = j - i + 1
      BY <3>3, PieceFacts
    <3>5. Len(part) < Len(word) /\ i + Len(part) - 1 = j
      BY <1>2, <2>1, <3>3, <3>4
    <3>6. i \in DOMAIN word /\ Occurs(part, word, i)
      BY <3>3, <3>5 DEF Occurs
    <3> QED
      BY <3>5, <3>6
  <2> QED
    BY <1>2, <2>1, <2>2, <2>3, <2>4
<1> QED
  BY <1>1, <1>2

\* The words of the next level are those of each word of this one.
LEMMA LevelWordsFacts ==
  ASSUME DictInv, DictMore, stage = "ready", NEW words \in Seq(Filled), NEW next,
         next = FlattenSeq([i \in DOMAIN words |-> Smaller(words[i])])
  PROVE  /\ next \in Seq(Filled)
         /\ \A part \in ToSet(next) : \E word \in ToSet(words) :
              Len(word) >= 3 /\ Len(part) < Len(word) /\ \E n \in DOMAIN word : Occurs(part, word, n)
<1> DEFINE R == Seq(Filled)
<1>1. PICK m \in Nat : m = Len(words) /\ DOMAIN words = 1..m
  OBVIOUS
<1>2. \A i \in 1..m : words[i] \in Seq(Nat) /\ words[i] \in ToSet(words)
  BY <1>1 DEF Filled, ToSet
<1>3. \A i \in 1..m : Smaller(words[i]) \in R
  BY <1>2, SmallerFacts
<1> HIDE DEF R
<1>4. PICK row : row = [i \in DOMAIN words |-> Smaller(words[i])]
  OBVIOUS
<1>5. row \in Seq(R) /\ Len(row) = m /\ \A i \in 1..m : row[i] = Smaller(words[i])
  BY <1>1, <1>3, <1>4
<1>6. next \in Seq(Filled) /\ ToSet(next) = UNION {ToSet(row[i]) : i \in 1..m}
  <2>1. row \in Seq(Seq(Filled))
    BY <1>5 DEF R
  <2>2. next = FlattenSeq(row)
    BY <1>4
  <2>3. FlattenSeq(row) \in Seq(Filled)
    BY <2>1, FlattenType
  <2>4. ToSet(FlattenSeq(row)) = UNION {ToSet(row[i]) : i \in 1..Len(row)}
    BY <2>1, MembersOfAll
  <2> QED
    BY <1>5, <2>2, <2>3, <2>4
<1>7. ASSUME NEW part \in ToSet(next)
      PROVE  \E word \in ToSet(words) :
               Len(word) >= 3 /\ Len(part) < Len(word) /\ \E n \in DOMAIN word : Occurs(part, word, n)
  <2>1. PICK i \in 1..m : part \in ToSet(Smaller(words[i]))
    BY <1>5, <1>6
  <2> QED
    BY <1>2, <2>1, SmallerFacts
<1> QED
  BY <1>6, <1>7

\* The next step keeps it so.
LEMMA IdleStep == ASSUME IdleInv, [Next]_vars PROVE IdleInv'
<1>1. CASE (Load \/ CannotOpen) /\ UNCHANGED <<model, modelFile, callVars>>
  BY <1>1 DEF IdleInv, callVars
<1>2. CASE LoadModel
  BY <1>2 DEF LoadModel, IdleInv, callVars
<1>3. CASE pc = "idle" /\ model # <<>> /\ InsertUserWord /\ UNCHANGED <<model, modelFile, callVars>>
  BY <1>3 DEF IdleInv, callVars
<1>4. CASE Start
  BY <1>4 DEF Start, IdleInv
<1>5. CASE Return
  BY <1>5 DEF Return, IdleInv
<1>6. CASE CutRange \/ CutDone \/ LevelStep \/ LevelDone \/ Tag
  BY <1>6 DEF CutRange, CutDone, LevelStep, LevelDone, Tag, IdleInv
<1>7. CASE UNCHANGED vars
  BY <1>7 DEF vars, callVars, IdleInv
<1> QED
  BY <1>1, <1>2, <1>3, <1>4, <1>5, <1>6, <1>7 DEF Next, Cut

\* The next step keeps it so.
LEMMA WordsStep == ASSUME JiebaAssumption, CutInv, WordsInv, [Next]_vars PROVE WordsInv'
<1>0. DictInv /\ DictMore /\ CallInv /\ CursorInv /\ Running /\ IdleInv /\ uwords \in Seq(Filled)
  BY DEF CutInv, JiebaInv, WordsInv
<1>1. IdleInv'
  BY <1>0, IdleStep
<1>2. <<>> \in Seq(Filled)
  BY SeqClosed
<1>3. CASE pc' = "idle"
  BY <1>1, <1>2, <1>3 DEF WordsInv, IdleInv
<1>4. CASE Start
  BY <1>4, JiebaAssumption, DecodeType, <1>0, CutsFilled, <1>2, <1>1 DEF Start, Loaded, WordsInv
<1>5. CASE CallRuns /\ CutRange
  <2>1. PICK end, R : RangeStep(end, R)
    BY <1>0, <1>5, RangeStepFacts
  <2>2. R \in Seq(Nat) /\ uwords' = uwords \o CutWords(R)
    BY <2>1 DEF RangeStep
  <2>3. CutWords(R) \in Seq(Filled)
    BY <1>0, <1>5, <2>2, CutWordsFilled DEF CallRuns
  <2>4. uwords' \in Seq(Filled)
    BY <1>0, <2>2, <2>3, SeqClosed
  <2> QED
    BY <1>1, <2>4 DEF WordsInv
<1>6. CASE CallRuns /\ LevelStep
  BY <1>6, <1>0, LevelWordsFacts, <1>1 DEF CallRuns, LevelStep, WordsInv
<1>7. CASE CutDone \/ LevelDone \/ Tag \/ UNCHANGED vars
  BY <1>7, <1>0, <1>1 DEF CutDone, LevelDone, Tag, vars, callVars, WordsInv
<1> QED
  BY <1>0, <1>3, <1>4, <1>5, <1>6, <1>7, StepKinds DEF CallStep

\* What was found stays so while the dictionaries do.
LEMMA SameDict ==
  ASSUME UNCHANGED dictVars
  PROVE  Reached' = Reached /\ TagWords' = TagWords /\ DictWords' = DictWords
BY DEF DictWords, dictVars, Reached, TagWords

\* A step of a call leaves the call what it is.
LEMMA CallKept ==
  ASSUME CallInv, CallStep
  PROVE  /\ call' = call /\ (LevelStep \/ LevelDone => call.mode = "level")
         /\ Tag => call.mode = "tag"
BY DEF CallStep, CutRange, CutDone, LevelStep, LevelDone, Tag, CallInv

\* What is found now is found then.
LEMMA QueryHolds ==
  ASSUME UNCHANGED dictVars, FindsParts(uwords', call'.max),
         pc' = "done" => res' = [i \in DOMAIN uwords' |-> Encode(uwords'[i])]
  PROVE  QueryInv'
BY SameDict DEF QueryInv, FindsParts

\* The next step keeps it so.
LEMMA QueryStep == ASSUME CutInv, WordsInv, QueryInv, [Next]_vars PROVE QueryInv'
<1>0. DictInv /\ DictMore /\ CallInv /\ CursorInv /\ Running /\ uwords \in Seq(Filled)
  BY DEF CutInv, JiebaInv, WordsInv
<1>1. CASE pc' = "idle" \/ call'.mode # "query"
  BY <1>1 DEF QueryInv
<1>2. CASE Start /\ call'.mode = "query"
  BY <1>2 DEF Start, ToSet, QueryInv, FindsParts
<1>3. CASE CallRuns /\ CallStep /\ call.mode = "query"
  <2>1. UNCHANGED dictVars /\ call' = call /\ stage = "ready" /\ pc # "idle" /\ FindsParts(uwords, call.max)
    BY <1>3, <1>0, CallKept DEF CallRuns, QueryInv
  <2>2. CASE CutRange
    <3>1. PICK end, R : RangeStep(end, R)
      BY <1>0, <2>2, RangeStepFacts
    <3>2. R \in Seq(Nat) /\ uwords' = uwords \o CutWords(R) /\ pc' = "cut"
      BY <3>1 DEF RangeStep
    <3>3. CutWords(R) = QueryCut(R, call.hmm, call.max)
      BY <1>3 DEF CutWords
    <3>4. PICK q \in Seq(Filled) : q = CutWords(R) /\ FindsParts(q, call.max)
      BY <1>0, <2>1, <3>2, <3>3, QueryFindsParts
    <3>5. FindsParts(uwords \o q, call.max)
      BY <1>0, <2>1, <3>4, FindsPartsBoth
    <3> QED
      BY <2>1, <3>2, <3>4, <3>5, QueryHolds
  <2>3. CASE CutDone
    BY <1>3, <2>3, <2>1, QueryHolds DEF CutDone
  <2> QED
    BY <1>0, <1>3, <2>2, <2>3, CallKept DEF CallStep
<1>4. CASE UNCHANGED vars /\ pc # "idle" /\ call.mode = "query"
  BY <1>4, QueryHolds DEF vars, callVars, QueryInv
<1>5. CASE CallRuns /\ CallStep /\ call.mode # "query"
  BY <1>0, <1>1, <1>5, CallKept
<1>6. CASE UNCHANGED vars /\ ~(pc # "idle" /\ call.mode = "query")
  BY <1>1, <1>6 DEF vars, callVars
<1> QED
  BY <1>0, <1>1, <1>2, <1>3, <1>4, <1>5, <1>6, StepKinds

\* So the parts of the long words are in the result.
LEMMA QueryFinds == ASSUME QueryInv, WordsInv PROVE SubwordsFound
<1> SUFFICES ASSUME pc = "done", call.mode = "query", NEW whole \in ToSet(uwords), TooLong(whole, call.max),
                    NEW part \in DictWords, 1 < Len(part) /\ Len(part) <= MaxWordLength,
                    \E n \in DOMAIN whole : Occurs(part, whole, n)
             PROVE  Encode(part) \in ToSet(res)
  BY DEF SubwordsFound
<1>1. part \in ToSet(uwords)
  BY DEF QueryInv, FindsParts, HasPart, Reached
<1>2. PICK i \in DOMAIN uwords : part = uwords[i]
  BY <1>1 DEF WordsInv, ToSet
<1>3. res = [k \in DOMAIN uwords |-> Encode(uwords[k])]
  BY DEF QueryInv
<1> QED
  BY <1>2, <1>3 DEF ToSet

\* The next step keeps it so.
LEMMA TagStep == ASSUME CutInv, TagInv, [Next]_vars PROVE TagInv'
<1>0. DictInv /\ DictMore /\ CallInv /\ CursorInv /\ Running
  BY DEF CutInv, JiebaInv
<1>1. CASE pc' = "idle" \/ call'.mode # "tag"
  BY <1>1 DEF TagInv
<1>2. CASE Start /\ call'.mode = "tag"
  BY <1>2, SeqClosed DEF Start, TagInv
<1>4. CASE CallRuns /\ CallStep /\ call.mode = "tag"
  <2>1. UNCHANGED dictVars /\ call' = call /\ stage = "ready" /\ TagWords' = TagWords
    BY <1>4, <1>0, CallKept, SameDict DEF CallRuns
  <2>2. CASE CutRange
    <3>1. PICK end, R : RangeStep(end, R)
      BY <1>0, <2>2, RangeStepFacts
    <3>2. R \in Seq(Nat) /\ uwords' = uwords \o CutWords(R) /\ pc' = "cut" /\ pc = "cut"
      BY <3>1 DEF RangeStep
    <3>3. CutWords(R) = IF call.hmm THEN MixCut(R) ELSE MPCut(R, MaxWordLength)
      BY <1>4 DEF CutWords
    <3>4. CutWords(R) \in Seq(TagWords)
      BY <1>0, <2>1, <3>2, <3>3, MPCutTagWords, MixCutTagWords
    <3>5. uwords' \in Seq(TagWords)
      BY <1>4, <3>2, <3>4, SeqClosed DEF TagInv
    <3> QED
      BY <2>1, <3>2, <3>5 DEF TagInv
  <2>3. CASE CutDone
    BY <1>4, <2>3, <2>1 DEF CutDone, TagInv
  <2>4. CASE Tag
    BY <1>4, <2>4, <1>0, <2>1, TagOfFits, SameDict DEF Tag, TagInv, TagFits
  <2> QED
    BY <1>0, <1>4, <2>2, <2>3, <2>4, CallKept DEF CallStep
<1>5. CASE CallRuns /\ CallStep /\ call.mode # "tag"
  BY <1>0, <1>1, <1>5, CallKept
<1>6. CASE UNCHANGED vars
  BY <1>6, SameDict DEF vars, callVars, TagInv, TagFits
<1> QED
  BY <1>0, <1>1, <1>2, <1>4, <1>5, <1>6, StepKinds

\* One more level.
LEMMA LevelGrows ==
  ASSUME DictInv, DictMore, stage = "ready", NEW words \in Seq(Filled), NEW r, NEW lev, Leveled(r, lev, words),
         NEW long, long = ChosenIn(words, Long),
         NEW new, new = r \o [i \in DOMAIN long |-> <<long[i], lev>>],
         NEW next, next = FlattenSeq([i \in DOMAIN words |-> Smaller(words[i])])
  PROVE  Leveled(new, lev + 1, next)
<1>0. r \in Seq(Filled \X Nat) /\ lev \in Nat /\ Nested(r)
  BY DEF Leveled
<1>1. long \in Seq(Filled) /\ ToSet(long) = ToSet(words) \cap Long
  BY ChosenType, ChosenMembers
<1>2. PICK n \in Nat, m \in Nat : n = Len(r) /\ DOMAIN r = 1..n /\ m = Len(long) /\ DOMAIN long = 1..m
  BY <1>0, <1>1
<1>3. PICK more \in Seq(Filled \X Nat) : more = [i \in DOMAIN long |-> <<long[i], lev>>] /\ Len(more) = m
  <2>1. [i \in 1..m |-> <<long[i], lev>>] \in Seq(Filled \X Nat) /\ Len([i \in 1..m |-> <<long[i], lev>>]) = m
    BY <1>0, <1>1, <1>2
  <2> QED
    BY <1>2, <2>1
<1>4. /\ new \in Seq(Filled \X Nat) /\ Len(new) = n + m /\ DOMAIN new = 1..n + m
      /\ \A i \in 1..n : new[i] = r[i]
      /\ \A i \in 1..m : n + i \in 1..n + m /\ new[n + i] = more[i]
  BY <1>0, <1>2, <1>3
<1>5. \A i \in 1..m : more[i][1] = long[i] /\ more[i][2] = lev
  BY <1>2, <1>3
<1>6. Nested(new)
  <2> SUFFICES ASSUME NEW i \in 1..n + m, new[i][2] > 0
               PROVE  \E k \in 1..i - 1 : new[k][2] = new[i][2] - 1 /\ IsInside(new[i][1], new[k][1])
    BY <1>4 DEF Nested
  <2>1. CASE i \in 1..n
    <3>1. PICK k \in 1..i - 1 : r[k][2] = r[i][2] - 1 /\ IsInside(r[i][1], r[k][1])
      BY <1>0, <1>2, <1>4, <2>1 DEF Nested
    <3>2. k \in 1..n
      BY <2>1
    <3> QED
      BY <1>4, <2>1, <3>1, <3>2
  <2>2. CASE i \notin 1..n
    <3>1. PICK x \in 1..m : i = n + x
      <4>1. i - n \in 1..m /\ i = n + (i - n)
        BY <2>2
      <4> QED
        BY <4>1
    <3>2. new[i][1] = long[x] /\ new[i][2] = lev
      BY <1>4, <1>5, <3>1
    <3>3. long[x] \in ToSet(words)
      BY <1>1, <1>2 DEF ToSet
    <3>4. PICK k \in 1..n : r[k][2] = lev - 1 /\ IsInside(long[x], r[k][1])
      BY <1>2, <3>2, <3>3 DEF Leveled, LiesUnder
    <3>5. k \in 1..i - 1
      BY <3>1
    <3> QED
      BY <1>4, <3>2, <3>4, <3>5
  <2> QED
    BY <2>1, <2>2
<1>7. ASSUME NEW part \in ToSet(next) PROVE LiesUnder(part, lev + 1, new)
  <2>1. PICK word \in ToSet(words) : Len(word) >= 3 /\ Len(part) < Len(word) /\ \E x \in DOMAIN word : Occurs(part, word, x)
    BY LevelWordsFacts
  <2>2. word \in Filled /\ part \in Filled
    <3>1. next \in Seq(Filled)
      BY LevelWordsFacts
    <3>2. ToSet(words) \subseteq Filled /\ ToSet(next) \subseteq Filled
      BY <3>1, SMTT(30) DEF ToSet
    <3> QED
      BY <3>2
  <2>3. Len(word) > 1 /\ IsInside(part, word)
    BY <2>2, <2>1 DEF Filled, IsInside
  <2>4. word \in ToSet(long)
    BY <1>1, <2>2, <2>3 DEF Long
  <2>5. PICK x \in 1..m : word = long[x]
    BY <1>2, <2>4 DEF ToSet
  <2>6. n + x \in 1..n + m /\ new[n + x] = more[x] /\ lev = (lev + 1) - 1
    <3>1. n + x \in 1..n + m /\ new[n + x] = more[x]
      BY <1>4, Zenon
    <3>2. lev = (lev + 1) - 1
      BY <1>0
    <3> QED
      BY <3>1, <3>2
  <2>7. new[n + x][1] = word /\ new[n + x][2] = (lev + 1) - 1 /\ n + x \in DOMAIN new
    BY <1>4, <1>5, <2>5, <2>6
  <2> QED
    BY <2>3, <2>7, Zenon DEF LiesUnder
<1>8. new \in Seq(Filled \X Nat) /\ lev + 1 \in Nat
  BY <1>0, <1>4
<1> QED
  BY <1>6, <1>7, <1>8, Zenon DEF Leveled

\* The next step keeps it so.
LEMMA NestStep == ASSUME CutInv, WordsInv, NestInv, [Next]_vars PROVE NestInv'
<1>0. DictInv /\ DictMore /\ CallInv /\ Running /\ uwords \in Seq(Filled)
  BY DEF CutInv, JiebaInv, WordsInv
<1>1. CASE pc' = "idle" \/ call'.mode # "level"
  BY <1>1 DEF NestInv
<1>2. CASE Start
  BY <1>2, SeqClosed DEF Start, Nested, Leveled, NestInv, LiesUnder, IsInside, Occurs
<1>3. CASE CallRuns /\ LevelStep
  <2>1. pc = "level" /\ pc' = "level" /\ stage = "ready" /\ Leveled(res, level, uwords)
    BY <1>0, <1>3 DEF CallRuns, LevelStep, NestInv, CallInv
  <2>2. PICK long : long = ChosenIn(uwords, Long)
    OBVIOUS
  <2>3. long = Chosen(uwords, LAMBDA word : Len(word) > 1)
    BY <1>0, <2>2 DEF Chosen, ChosenIn, OneOf, Long
  <2>4. /\ res' = res \o [i \in DOMAIN long |-> <<long[i], level>>] /\ level' = level + 1
        /\ uwords' = FlattenSeq([i \in DOMAIN uwords |-> Smaller(uwords[i])])
    BY <1>3, <2>3 DEF LevelStep
  <2>5. Leveled(res', level', uwords')
    BY <1>0, <2>1, <2>2, <2>4, LevelGrows
  <2> QED
    BY <2>1, <2>5 DEF NestInv, Nested, Leveled, LiesUnder, IsInside, Occurs
<1>4. CASE (LevelDone \/ UNCHANGED vars) /\ pc # "idle" /\ call.mode = "level"
  <2>1. (pc' = "done" \/ pc' = pc) /\ UNCHANGED <<call, res, level, uwords>>
    BY <1>4 DEF LevelDone, vars, callVars
  <2> QED
    BY <1>4, <2>1 DEF NestInv, Nested, Leveled, LiesUnder, IsInside, Occurs
<1>5. CASE CutRange \/ CutDone \/ Tag
  BY <1>5, <1>1 DEF CutRange, CutDone, Tag, NestInv
<1>6. CASE (LevelDone \/ UNCHANGED vars) /\ ~(pc # "idle" /\ call.mode = "level")
  BY <1>0, <1>6, <1>1 DEF LevelDone, vars, callVars, CallInv
<1> QED
  BY <1>0, <1>1, <1>2, <1>3, <1>4, <1>5, <1>6, StepKinds DEF CallStep

-----------------------------------------------------------------------------
(* CutAll, range by range. *)

\* No word of the set lies across the border between U and what follows it,
\* where there is a symbol.
Parted(U, R, W) ==
  /\ \A i \in 1..Len(U) : \A j \in Len(U) + 1..Len(U) + Len(R) : SubSeq(U \o R, i, j) \notin W
  /\ Len(U) # 0 /\ Len(R) # 0 => U[Len(U)] \in Symbols \/ R[1] \in Symbols

\* t is what s has behind d, and no word of the set lies across its borders.
IsPart(t, s, d, W) ==
  /\ d + Len(t) <= Len(s)
  /\ \A x \in 1..Len(t) : t[x] = s[d + x] /\ \A y \in x..Len(t) : SubSeq(s, d + x, d + y) = SubSeq(t, x, y)
  /\ \A x \in 1..Len(t) : \A z \in EndsAt(s, d + x, Len(s), W) : z <= d + Len(t)
  /\ \A x \in 1..d : \A z \in EndsAt(s, x, Len(s), W) : z <= d

\* Then the same runes are covered in both.
LEMMA LoneOfPart ==
  ASSUME NEW s \in Seq(Nat), NEW t \in Seq(Nat), NEW W, NEW d \in Nat, IsPart(t, s, d, W), NEW i \in 1..Len(t),
         \A x \in 1..d : \E z \in x..d + i : s[z] \in Symbols
  PROVE  Lone(s, d + i, W) = Lone(t, i, W)
<1> DEFINE A(x) == EndsAt(t, x, Len(t), W)
           B(x) == EndsAt(s, x, Len(s), W)
<1>0. d + Len(t) <= Len(s)
  BY Zenon DEF IsPart
<1>1. PICK n \in Nat : n = Len(t) /\ d + n <= Len(s) /\ i <= n
  BY <1>0
<1>2. /\ \A x \in 1..n : t[x] = s[d + x] /\ \A y \in x..n : SubSeq(s, d + x, d + y) = SubSeq(t, x, y)
      /\ \A x \in 1..n : \A z \in B(d + x) : z <= d + n
      /\ \A x \in 1..d : \A z \in B(x) : z <= d
  BY <1>1, Zenon DEF IsPart
<1>14. \A x \in 1..Len(s) : \A y \in B(x) : y \in Nat
  BY DEF EndsAt
<1>3. ASSUME NEW x \in 1..n
      PROVE  (\A y \in A(x) : y \in x..n /\ d + y \in B(d + x)) /\ \A z \in B(d + x) : z \in Nat /\ z - d \in A(x) /\ z >= d + x
  <2>1. ASSUME NEW y \in A(x) PROVE y \in x..n /\ d + y \in B(d + x)
    <3>1. y \in x..n /\ SubSeq(t, x, y) \in W
      BY <1>1, <2>1 DEF EndsAt
    <3>3. \A z \in x..n : SubSeq(s, d + x, d + z) = SubSeq(t, x, z)
      BY <1>2
    <3>4. d + y \in d + x..Len(s)
      BY <1>1, <3>1
    <3>2. d + y \in d + x..Len(s) /\ SubSeq(s, d + x, d + y) \in W
      BY <3>1, <3>3, <3>4
    <3> QED
      BY <3>1, <3>2 DEF EndsAt
  <2>2. ASSUME NEW z \in B(d + x) PROVE z \in Nat /\ z - d \in A(x) /\ z >= d + x
    <3>3. z \in d + x..Len(s) /\ SubSeq(s, d + x, z) \in W
      BY <2>2 DEF EndsAt
    <3>4. z <= d + n
      BY <1>2, <2>2
    <3>1. z \in d + x..d + n /\ SubSeq(s, d + x, z) \in W
      BY <3>3, <3>4
    <3>2. z - d \in x..n /\ d + (z - d) = z
      BY <3>1
    <3>5. SubSeq(s, d + x, d + (z - d)) = SubSeq(t, x, z - d)
      BY <1>2, <3>2
    <3>6. z - d \in x..Len(t) /\ SubSeq(t, x, z - d) \in W
      BY <1>1, <3>1, <3>2, <3>5
    <3>7. z - d \in A(x)
      BY <3>6 DEF EndsAt
    <3> QED
      BY <3>1, <3>7
  <2> QED
    BY <2>1, <2>2
<1>4. CoveredAt(t, i, W) <=> \E k \in 1..i : \E j \in A(k) : i <= j /\ j # k
  BY DEF CoveredAt, EndsAt
<1>5. CoveredAt(s, d + i, W) <=> \E k \in 1..d + i : \E j \in B(k) : d + i <= j /\ j # k
  BY DEF CoveredAt, EndsAt
<1>6. \A k \in 1..d + i : k \in 1..d \/ (k - d \in 1..i /\ k - d \in 1..n /\ d + (k - d) = k)
  BY <1>1
<1>7. \A a, b, c : LastFound(t, a, b, c, W) <=> b \in A(a) /\ \A x \in a..c - 1 : \A y \in A(x) : x = a /\ y <= b
  BY DEF LastFound
<1>8. \A a, b, c : LastFound(s, a, b, c, W) <=> b \in B(a) /\ \A x \in a..c - 1 : \A y \in B(x) : x = a /\ y <= b
  BY DEF LastFound
<1> HIDE DEF A, B
<1>9. CoveredAt(s, d + i, W) <=> CoveredAt(t, i, W)
  <2>1. ASSUME NEW k \in 1..i, NEW j \in A(k), i <= j, j # k PROVE CoveredAt(s, d + i, W)
    <3>1. k \in 1..n /\ j \in Nat /\ d + j \in B(d + k)
      BY <1>1, <1>3, <2>1
    <3>2. d + k \in 1..d + i /\ d + i <= d + j /\ d + j # d + k
      BY <2>1, <3>1
    <3> QED
      BY <1>5, <3>1, <3>2
  <2>2. ASSUME NEW k \in 1..d + i, NEW j \in B(k), d + i <= j, j # k PROVE CoveredAt(t, i, W)
    <3>1. k - d \in 1..i /\ k - d \in 1..n /\ d + (k - d) = k
      <4>1. k \in 1..Len(s)
        BY <1>1
      <4>2. j \in Nat
        BY <1>14, <2>2, <4>1, Zenon
      <4>3. k \in 1..d => j <= d
        BY <1>2, <2>2, Zenon
      <4> QED
        BY <1>1, <1>6, <2>2, <4>2, <4>3
    <3>2. j \in Nat /\ j - d \in A(k - d)
      BY <1>3, <2>2, <3>1
    <3>3. i <= j - d /\ j - d # k - d
      BY <2>2, <3>2
    <3> QED
      BY <1>4, <3>1, <3>2, <3>3
  <2> QED
    BY <1>4, <1>5, <2>1, <2>2
<1>10. ASSUME NEW a \in 1..i, NEW b \in a..n, NEW c \in 1..i
       PROVE  LastFound(s, d + a, d + b, d + c, W) <=> LastFound(t, a, b, c, W)
  <2>1. \A x \in a..c - 1 : x \in 1..n /\ d + x \in d + a..(d + c) - 1
    BY <1>1
  <2>2. \A x \in d + a..(d + c) - 1 : x - d \in a..c - 1 /\ x - d \in 1..n /\ d + (x - d) = x
    BY <1>1
  <2>3. d + b \in B(d + a) <=> b \in A(a)
    <3>1. a \in 1..n /\ (d + b) - d = b
      BY <1>1
    <3> QED
      BY <1>3, <3>1
  <2>4. ASSUME \A x \in a..c - 1 : \A y \in A(x) : x = a /\ y <= b, NEW x \in d + a..(d + c) - 1, NEW y \in B(x)
        PROVE  x = d + a /\ y <= d + b
    <3>1. y - d \in A(x - d) /\ y \in Nat
      BY <1>3, <2>2
    <3>2. x - d = a /\ y - d <= b
      BY <2>2, <2>4, <3>1
    <3> QED
      BY <2>2, <3>1, <3>2
  <2>5. ASSUME \A x \in d + a..(d + c) - 1 : \A y \in B(x) : x = d + a /\ y <= d + b, NEW x \in a..c - 1, NEW y \in A(x)
        PROVE  x = a /\ y <= b
    <3>1. y \in x..n /\ d + y \in B(d + x)
      BY <1>3, <2>1
    <3>2. d + x = d + a /\ d + y <= d + b
      BY <2>1, <2>5, <3>1
    <3> QED
      BY <3>1, <3>2
  <2>6. LastFound(t, a, b, c, W) => LastFound(s, d + a, d + b, d + c, W)
    <3>1. LastFound(s, d + a, d + b, d + c, W) <=>
            d + b \in B(d + a) /\ \A x \in d + a..(d + c) - 1 : \A y \in B(x) : x = d + a /\ y <= d + b
      BY Zenon DEF LastFound, B
    <3> QED
      BY <1>7, <2>3, <2>4, <3>1, Zenon
  <2>7. LastFound(s, d + a, d + b, d + c, W) => LastFound(t, a, b, c, W)
    <3>1. LastFound(t, a, b, c, W) <=> b \in A(a) /\ \A x \in a..c - 1 : \A y \in A(x) : x = a /\ y <= b
      BY <1>7, Zenon
    <3>2. LastFound(s, d + a, d + b, d + c, W) =>
            d + b \in B(d + a) /\ \A x \in d + a..(d + c) - 1 : \A y \in B(x) : x = d + a /\ y <= d + b
      BY Zenon DEF LastFound, B
    <3> QED
      BY <2>3, <2>5, <3>1, <3>2, Zenon
  <2> QED
    BY <2>6, <2>7
<1>11. ASSUME Echoed(t, i, W) PROVE Echoed(s, d + i, W)
  <2>1. PICK c \in 1..i - 1 : <<t[c]>> \notin W /\ \E a \in 1..c - 1 : \E b \in a..n :
               LastFound(t, a, b, c, W) /\ i <= c + b - a /\ \A x \in a..i : t[x] \notin Symbols
    BY <1>1, <1>11 DEF Echoed
  <2>2. PICK a \in 1..c - 1 : \E b \in a..n :
               LastFound(t, a, b, c, W) /\ i <= c + b - a /\ \A x \in a..i : t[x] \notin Symbols
    BY <2>1
  <2>3. PICK b \in a..n : LastFound(t, a, b, c, W) /\ i <= c + b - a /\ \A x \in a..i : t[x] \notin Symbols
    BY <2>2
  <2>4. LastFound(s, d + a, d + b, d + c, W)
    BY <1>10, <2>3
  <2>5. \A x \in d + a..d + i : s[x] \notin Symbols
    <3>1. \A x \in d + a..d + i : x - d \in a..i /\ x - d \in 1..n /\ d + (x - d) = x
      BY <1>1
    <3> QED
      BY <1>2, <2>3, <3>1
  <2>6. <<s[d + c]>> \notin W
    <3>1. c \in 1..n
      BY <1>1
    <3>2. t[c] = s[d + c]
      BY <1>2, <3>1
    <3> QED
      BY <2>1, <3>2
  <2>7. d + c \in 1..d + i - 1 /\ d + a \in 1..d + c - 1 /\ d + b \in d + a..Len(s) /\ d + i <= d + c + (d + b) - (d + a)
    BY <1>1, <2>3
  <2>8. PICK k, u, e : k = d + c /\ u = d + a /\ e = d + b
    OBVIOUS
  <2>9. LastFound(s, u, e, k, W)
    BY <2>4, <2>8, Zenon
  <2>10. PICK q : q = d + i
    OBVIOUS
  <2>11. /\ k \in 1..q - 1 /\ <<s[k]>> \notin W /\ u \in 1..k - 1 /\ e \in u..Len(s) /\ q <= k + e - u
         /\ \A x \in u..q : s[x] \notin Symbols
    BY <2>5, <2>6, <2>7, <2>8, <2>10
  <2>12. Echoed(s, q, W)
    BY <2>9, <2>11, Zenon DEF Echoed
  <2> QED
    BY <2>10, <2>12, Zenon
<1>12. ASSUME Echoed(s, d + i, W) PROVE Echoed(t, i, W)
  <2>0. PICK q \in Nat : q = d + i
    BY <1>1
  <2>11. Echoed(s, q, W)
    BY <1>12, <2>0, Zenon
  <2>12. PICK k \in 1..q - 1 : <<s[k]>> \notin W /\ \E u \in 1..k - 1 : \E e \in u..Len(s) :
               LastFound(s, u, e, k, W) /\ q <= k + e - u /\ \A x \in u..q : s[x] \notin Symbols
    BY <2>11, Zenon DEF Echoed
  <2>1. k \in 1..d + i - 1 /\ <<s[k]>> \notin W
    BY <2>0, <2>12
  <2>2. PICK u \in 1..k - 1 : \E e \in u..Len(s) :
               LastFound(s, u, e, k, W) /\ d + i <= k + e - u /\ \A x \in u..d + i : s[x] \notin Symbols
    BY <2>0, <2>12
  <2>3. PICK e \in u..Len(s) : LastFound(s, u, e, k, W) /\ d + i <= k + e - u /\ \A x \in u..d + i : s[x] \notin Symbols
    BY <2>2
  <2>4. u \notin 1..d
    BY <2>3
  <2>5. PICK a \in 1..i, c \in 1..i - 1 : u = d + a /\ k = d + c /\ a \in 1..c - 1 /\ a \in 1..n /\ c \in 1..n
    <3>1. u - d \in 1..i /\ k - d \in 1..i - 1 /\ d + (u - d) = u /\ d + (k - d) = k
      BY <1>1, <2>0, <2>1, <2>4
    <3> QED
      BY <1>1, <3>1
  <2>6. PICK b \in a..n : e = d + b
    <3>1. e \in B(d + a)
      BY <1>8, <2>3, <2>5
    <3>2. e - d \in A(a) /\ e \in Nat
      BY <1>3, <2>5, <3>1
    <3> QED
      BY <1>3, <2>5, <3>2
  <2>7. LastFound(t, a, b, c, W)
    BY <1>10, <2>3, <2>5, <2>6
  <2>8. ASSUME NEW x \in a..i PROVE t[x] \notin Symbols
    <3>1. d + x \in u..d + i /\ x \in 1..n
      BY <1>1, <2>5
    <3>2. t[x] = s[d + x]
      BY <1>2, <3>1
    <3> QED
      BY <2>3, <3>1, <3>2
  <2>10. t[c] = s[k]
    BY <1>2, <2>5
  <2>9. i <= c + b - a /\ <<t[c]>> \notin W
    BY <2>1, <2>3, <2>5, <2>6, <2>10
  <2> QED
    BY <1>1, <2>5, <2>7, <2>8, <2>9 DEF Echoed
<1>13. t[i] = s[d + i]
  BY <1>1, <1>2
<1> QED
  BY <1>9, <1>11, <1>12, <1>13, Zenon DEF Lone

\* At the first m positions the words and the lone runes are those of U, at the
\* r behind them those of R.
AreAlike(S, U, R, W, m, r) ==
  /\ \A i \in 1..m : WordsAt(S, i, W) = WordsAt(U, i, W) /\ Lone(S, i, W) = Lone(U, i, W)
  /\ \A i \in 1..r : WordsAt(S, m + i, W) = WordsAt(R, i, W) /\ Lone(S, m + i, W) = Lone(R, i, W)

\* In U and in R the same words begin and the same runes are covered as there
\* in both.
LEMMA PartsAgree ==
  ASSUME NEW U \in Seq(Nat), NEW R \in Seq(Nat), NEW W, Parted(U, R, W), NEW S, S = U \o R
  PROVE  AreAlike(S, U, R, W, Len(U), Len(R))
<1>1. PICK m \in Nat, r \in Nat : m = Len(U) /\ r = Len(R)
  OBVIOUS
<1>0. /\ S \in Seq(Nat) /\ Len(S) = Len(U) + Len(R)
      /\ \A k \in 1..Len(U) : S[k] = U[k]
      /\ \A k \in 1..Len(R) : S[Len(U) + k] = R[k]
      /\ \A i \in 1..Len(U) : \A j \in i..Len(U) : SubSeq(S, i, j) = SubSeq(U, i, j)
      /\ \A i \in 1..Len(R) : \A j \in i..Len(R) : SubSeq(S, Len(U) + i, Len(U) + j) = SubSeq(R, i, j)
  BY TwoParts, SMTT(30)
<1>2. /\ S \in Seq(Nat) /\ Len(S) = m + r
      /\ \A k \in 1..m : S[k] = U[k]
      /\ \A k \in 1..r : S[m + k] = R[k]
      /\ \A i \in 1..m : \A j \in i..m : SubSeq(S, i, j) = SubSeq(U, i, j)
      /\ \A i \in 1..r : \A j \in i..r : SubSeq(S, m + i, m + j) = SubSeq(R, i, j)
  BY <1>0, <1>1, Zenon
<1>3. \A i \in 1..m : \A j \in m + 1..m + r : SubSeq(S, i, j) \notin W
  BY <1>1 DEF Parted
<1>4. ASSUME NEW i \in 1..m PROVE WordsAt(S, i, W) = WordsAt(U, i, W)
  <2>1. i \in 1..Len(S) /\ m + r \in i..Len(S) /\ i \in 1..Len(U) /\ m \in i..Len(U)
    BY <1>1, <1>2
  <2>2. PICK a \in Seq(Filled) : a = Tails(U, i, m)
    BY <2>1, TailsFilled
  <2>3. PICK c \in Seq(Filled) : c = Tails(S, i, m + r)
    BY <1>2, <2>1, TailsFilled
  <2>4. c = [k \in 1..m + r - i |-> SubSeq(S, i, i + k)] /\ a = [k \in 1..m - i |-> SubSeq(U, i, i + k)]
    BY <2>2, <2>3 DEF Tails
  <2>5. PICK x \in Nat : x = m - i /\ m + r - i = x + r
    OBVIOUS
  <2>6. Len(c) = x + r /\ Len(a) = x
    BY <2>4, <2>5
  <2>7. \A k \in 1..x : c[k] = a[k]
    <3>1. \A k \in 1..x : k \in 1..m + r - i /\ k \in 1..m - i /\ i + k \in i..m
      BY <2>5
    <3> QED
      BY <1>2, <2>4, <3>1
  <2>8. \A k \in 1..r : c[x + k] \notin W
    BY <2>5, <1>3, <2>4
  <2>9. PICK lo, hi : lo = x + 1 /\ hi = x + r
    OBVIOUS
  <2>10. 1 \in 1..Len(c) + 1 /\ x \in 1 - 1..Len(c) /\ hi \in x..Len(c) /\ x - 1 + 1 = x
         /\ lo \in 1..Len(c) + 1 /\ hi \in lo - 1..Len(c) /\ hi - lo + 1 = r
    BY <2>6, <2>9
  <2>15. PICK b : b = SubSeq(c, lo, hi) /\ b \in Seq(Filled) /\ Len(b) = r /\ \A k \in 1..r : b[k] = c[lo + k - 1]
    <3>1. /\ SubSeq(c, lo, hi) \in Seq(Filled) /\ Len(SubSeq(c, lo, hi)) = hi - lo + 1
          /\ \A k \in 1..hi - lo + 1 : SubSeq(c, lo, hi)[k] = c[lo + k - 1]
      BY <2>10, PieceFacts
    <3> QED
      BY <2>10, <3>1, Zenon
  <2>16. \A k \in 1..Len(b) : b[k] \notin W
    BY <2>9, <2>8, <2>15
  <2>17. SubSeq(c, 1, x) = a
    BY <2>10, PieceFacts, <2>6, <2>7, SeqEqual
  <2>18. c = a \o b
    <3>1. SubSeq(c, 1, hi) = SubSeq(c, 1, x) \o SubSeq(c, lo, hi)
      BY <2>10, PieceSplits, <2>9
    <3>2. SubSeq(c, 1, hi) = c
      BY <2>6, <2>9
    <3> QED
      BY <2>15, <2>17, <3>1, <3>2, Zenon
  <2>11. ChosenIn(b, W) = <<>>
    BY <2>15, <2>16, ChosenAll
  <2>12. ChosenIn(a \o b, W) = ChosenIn(a, W) \o ChosenIn(b, W)
    <3>1. a \in Seq(Filled) /\ b \in Seq(Filled)
      BY <2>15
    <3> QED
      BY <3>1, ChosenConcat
  <2>13. ChosenIn(a, W) \o <<>> = ChosenIn(a, W)
    BY ChosenType, SeqClosed
  <2>14. ChosenIn(c, W) = ChosenIn(a, W)
    BY <2>11, <2>12, <2>13, <2>18, Zenon
  <2>19. WordsAt(S, i, W) = ChosenIn(c, W) /\ WordsAt(U, i, W) = ChosenIn(a, W)
    BY <1>1, <1>2, <2>1, <2>2, <2>3, WordsAtByTails
  <2> QED
    BY <2>14, <2>19, Zenon
<1>5. ASSUME NEW i \in 1..r PROVE WordsAt(S, m + i, W) = WordsAt(R, i, W)
  <2>1. m + i \in 1..Len(S) /\ i \in 1..Len(R) /\ (m + r) - (m + i) = r - i
    BY <1>1, <1>2
  <2>2. \A k \in 1..r - i : i + k \in i..r /\ (m + i) + k = m + (i + k)
    OBVIOUS
  <2>3. \A k \in 1..r - i : SubSeq(S, m + i, (m + i) + k) = SubSeq(R, i, i + k)
    BY <1>2, <2>2
  <2>4. Tails(S, m + i, m + r) = Tails(R, i, r)
    BY <2>1, <2>3 DEF Tails
  <2>5. WordsAt(S, m + i, W) = ChosenIn(Tails(S, m + i, m + r), W) /\ WordsAt(R, i, W) = ChosenIn(Tails(R, i, r), W)
    BY <1>1, <1>2, <2>1, WordsAtByTails
  <2> QED
    BY <2>4, <2>5, Zenon
<1>6. ASSUME NEW i \in 1..m PROVE Lone(S, i, W) = Lone(U, i, W)
  <2>1. \A x \in 1..m : \A z \in EndsAt(S, x, m + r, W) : z <= m
    BY <1>3 DEF EndsAt
  <2>0. PICK d \in Nat : d = 0
    OBVIOUS
  <2>2. /\ d + m <= m + r /\ 1..d = {} /\ \A x \in 1..m : U[x] = S[d + x]
        /\ \A x \in 1..m : \A y \in x..m : SubSeq(S, d + x, d + y) = SubSeq(U, x, y)
        /\ \A x \in 1..m : EndsAt(S, d + x, m + r, W) = EndsAt(S, x, m + r, W) /\ d + m = m
    BY <1>2, <2>0
  <2>3. IsPart(U, S, d, W)
    BY <1>1, <1>2, <2>1, <2>2 DEF IsPart
  <2>6. d + i = i
    BY <2>0
  <2>4. i \in 1..Len(U) /\ \A x \in 1..d : \E z \in x..d + i : S[z] \in Symbols
    BY <1>1, <2>0, <2>2
  <2>5. Lone(S, d + i, W) = Lone(U, i, W)
    <3>1. S \in Seq(Nat)
      BY <1>2
    <3>2. \A x \in 1..d : \E z \in x..d + i : S[z] \in Symbols
      BY <2>4
    <3>3. i \in 1..Len(U)
      BY <2>4
    <3> QED
      BY <2>3, <3>1, <3>2, <3>3, LoneOfPart
  <2> QED
    BY <2>5, <2>6
<1>7. ASSUME NEW i \in 1..r PROVE Lone(S, m + i, W) = Lone(R, i, W)
  <2>1. \A x \in 1..m : \A z \in EndsAt(S, x, m + r, W) : z <= m
    BY <1>3 DEF EndsAt
  <2>2. \A x \in 1..r : \A z \in EndsAt(S, m + x, m + r, W) : z <= m + r
    BY DEF EndsAt
  <2>3. IsPart(R, S, m, W)
    <3>1. Len(R) = r /\ Len(S) = m + r /\ m + r <= m + r
      BY <1>1, <1>2
    <3>2. \A x \in 1..r : R[x] = S[m + x] /\ \A y \in x..r : SubSeq(S, m + x, m + y) = SubSeq(R, x, y)
      BY <1>2, Zenon
    <3> QED
      BY <2>1, <2>2, <3>1, <3>2, Zenon DEF IsPart
  <2>4. ASSUME m # 0 PROVE S[m] \in Symbols \/ S[m + 1] \in Symbols
    <3>1. 1 \in 1..r /\ m \in 1..m /\ r # 0
      BY <2>4
    <3> QED
      BY <1>1, <1>2, <2>4, <3>1 DEF Parted
  <2>5. \A x \in 1..m : m # 0 /\ m \in x..m + i /\ m + 1 \in x..m + i
    OBVIOUS
  <2>6. i \in 1..Len(R) /\ \A x \in 1..m : \E z \in x..m + i : S[z] \in Symbols
    BY <1>1, <2>4, <2>5
  <2> QED
    <3>1. S \in Seq(Nat)
      BY <1>2
    <3> QED
      BY <2>3, <2>6, <3>1, LoneOfPart, Zenon
<1> QED
  BY <1>1, <1>4, <1>5, <1>6, <1>7 DEF AreAlike

\* A row of both is a row of the first and then one of the second.
IsRowOfBoth(h, f, g, m, r) ==
  /\ f \in [1..m -> Seq(Filled)] /\ g \in [1..r -> Seq(Filled)] /\ h \in [1..m + r -> Seq(Filled)]
  /\ \A i \in 1..m : h[i] = f[i]
  /\ \A i \in 1..r : h[m + i] = g[i]

\* Its words are those of the one and then those of the other.
LEMMA RowOfBoth ==
  ASSUME NEW m \in Nat, NEW r \in Nat, NEW f, NEW g, NEW h, IsRowOfBoth(h, f, g, m, r)
  PROVE  FlattenSeq(h) = FlattenSeq(f) \o FlattenSeq(g)
<1> DEFINE T == Seq(Filled)
<1>1. /\ f \in [1..m -> T] /\ g \in [1..r -> T] /\ h \in [1..m + r -> T]
      /\ \A i \in 1..m : h[i] = f[i]
      /\ \A i \in 1..r : h[m + i] = g[i]
  BY DEF IsRowOfBoth
<1> HIDE DEF T
<1>2. f \in Seq(T) /\ g \in Seq(T) /\ Len(f) = m /\ Len(g) = r
  BY <1>1
<1>3. \A k \in 1..m + r : k \in 1..m \/ (k \notin 1..m /\ k - m \in 1..r /\ m + (k - m) = k)
  OBVIOUS
<1>4. \A k \in 1..m + r : h[k] = IF k \in 1..m THEN f[k] ELSE g[k - m]
  BY <1>1, <1>3
<1>5. \A k \in 1..m + r : (f \o g)[k] = IF k \in 1..m THEN f[k] ELSE g[k - m]
  BY <1>2
<1>6. f \o g \in Seq(T) /\ Len(f \o g) = m + r
  BY <1>2
<1>8. h \in Seq(T) /\ Len(h) = m + r
  BY <1>1
<1>9. h = f \o g
  BY <1>4, <1>5, <1>6, <1>8, SeqEqual
<1>10. f \in Seq(Seq(Filled)) /\ g \in Seq(Seq(Filled))
  BY <1>2 DEF T
<1> QED
  BY <1>9, <1>10, FlattenConcat

\* So both rows are those of the parts.
LEMMA RowsOfBoth ==
  ASSUME NEW U \in Seq(Nat), NEW R \in Seq(Nat), NEW W, Parted(U, R, W)
  PROVE  /\ FlattenSeq(LongRow(U \o R, W, Len(U) + Len(R)))
               = FlattenSeq(LongRow(U, W, Len(U))) \o FlattenSeq(LongRow(R, W, Len(R)))
         /\ FlattenSeq(LoneRow(U \o R, W, Len(U) + Len(R)))
               = FlattenSeq(LoneRow(U, W, Len(U))) \o FlattenSeq(LoneRow(R, W, Len(R)))
<1>0. PICK S : S = U \o R
  OBVIOUS
<1>1. PICK m \in Nat, r \in Nat : m = Len(U) /\ r = Len(R)
  OBVIOUS
<1>2. AreAlike(S, U, R, W, m, r)
  BY <1>0, <1>1, PartsAgree
<1>3. ASSUME NEW s \in Seq(Nat), NEW n, n = Len(s)
      PROVE  LongRow(s, W, n) \in [1..n -> Seq(Filled)] /\ LoneRow(s, W, n) \in [1..n -> Seq(Filled)]
  BY <1>3, RowsGrow DEF LongRow, LoneRow
<1>4. S \in Seq(Nat) /\ m + r = Len(S)
  BY <1>0, <1>1, TwoParts
<1>5. (\A i \in 1..m : i \in 1..m + r) /\ (\A i \in 1..r : m + i \in 1..m + r)
  BY <1>1
<1>8. \A s, n : /\ \A i \in 1..n : LongRow(s, W, n)[i] = WordsAt(s, i, W)
               /\ \A i \in 1..n : LoneRow(s, W, n)[i] = Lone(s, i, W)
  BY DEF LongRow, LoneRow
<1>6. IsRowOfBoth(LongRow(S, W, m + r), LongRow(U, W, m), LongRow(R, W, r), m, r)
  <2>1. /\ LongRow(U, W, m) \in [1..m -> Seq(Filled)] /\ LongRow(R, W, r) \in [1..r -> Seq(Filled)]
        /\ LongRow(S, W, m + r) \in [1..m + r -> Seq(Filled)]
    BY <1>1, <1>3, <1>4, Zenon
  <2>2. \A i \in 1..m : LongRow(S, W, m + r)[i] = LongRow(U, W, m)[i]
    BY <1>2, <1>5, <1>8 DEF AreAlike
  <2>3. ASSUME NEW i \in 1..r PROVE LongRow(S, W, m + r)[m + i] = LongRow(R, W, r)[i]
    <3>1. LongRow(S, W, m + r)[m + i] = WordsAt(S, m + i, W) /\ LongRow(R, W, r)[i] = WordsAt(R, i, W)
      BY <1>5, <1>8
    <3> QED
      BY <1>2, <3>1 DEF AreAlike
  <2> QED
    BY <2>1, <2>2, <2>3, Zenon DEF IsRowOfBoth
<1>7. IsRowOfBoth(LoneRow(S, W, m + r), LoneRow(U, W, m), LoneRow(R, W, r), m, r)
  <2>1. /\ LoneRow(U, W, m) \in [1..m -> Seq(Filled)] /\ LoneRow(R, W, r) \in [1..r -> Seq(Filled)]
        /\ LoneRow(S, W, m + r) \in [1..m + r -> Seq(Filled)]
    BY <1>1, <1>3, <1>4, Zenon
  <2>2. \A i \in 1..m : LoneRow(S, W, m + r)[i] = LoneRow(U, W, m)[i]
    BY <1>2, <1>5, <1>8 DEF AreAlike
  <2>3. ASSUME NEW i \in 1..r PROVE LoneRow(S, W, m + r)[m + i] = LoneRow(R, W, r)[i]
    <3>1. LoneRow(S, W, m + r)[m + i] = Lone(S, m + i, W) /\ LoneRow(R, W, r)[i] = Lone(R, i, W)
      BY <1>5, <1>8
    <3> QED
      BY <1>2, <3>1 DEF AreAlike
  <2> QED
    BY <2>1, <2>2, <2>3, Zenon DEF IsRowOfBoth
<1> QED
  BY <1>6, RowOfBoth, <1>7, <1>0, <1>1

\* The next range.
LEMMA AllGrows ==
  ASSUME DictInv, DictMore, stage = "ready", NEW U \in Seq(Nat), NEW R \in Seq(Nat),
         Parted(U, R, Findable), Uncut(R, WholeWords), OneRange(R), NEW u \in Seq(Filled), AllSoFar(U, u)
  PROVE  AllSoFar(U \o R, u \o FullCut(R))
<1>1. Tells(R, Findable)
  BY AllTell DEF Uncut, Reached, Findable, Tells
<1>2. PICK v : v = FullCut(R)
  OBVIOUS
<1>3. /\ v \in Seq(Filled)
      /\ ChosenIn(v, Long) = FlattenSeq(LongRow(R, Findable, Len(R)))
      /\ ChosenIn(v, Single) = FlattenSeq(LoneRow(R, Findable, Len(R)))
  <2>1. \A word \in Seq(Nat) : Len(word) = 1 => (word \in Findable <=> word \in DictWords)
    <3>1. 1 <= MaxWordLength
      BY DEF MaxWordLength
    <3> QED
      BY <3>1, Zenon DEF Findable, WholeWords
  <2>2. \A k \in 1..Len(R) : <<R[k]>> \in Seq(Nat) /\ Len(<<R[k]>>) = 1
    OBVIOUS
  <2>3. RunesTell(R, Findable)
    BY <2>1, <2>2, FoundAreWords DEF RunesTell
  <2> QED
    BY <1>1, <1>2, <2>3, FullCutFacts
<1>4. ASSUME NEW T PROVE ChosenIn(u \o v, T) = ChosenIn(u, T) \o ChosenIn(v, T)
  BY <1>3, ChosenConcat
<1>5. PICK S, m, r : S = U \o R /\ m = Len(U) /\ r = Len(R)
  OBVIOUS
<1>6. Len(S) = m + r
  BY <1>5, TwoParts
<1>7. /\ FlattenSeq(LongRow(S, Findable, m + r)) = FlattenSeq(LongRow(U, Findable, m)) \o FlattenSeq(LongRow(R, Findable, r))
      /\ FlattenSeq(LoneRow(S, Findable, m + r)) = FlattenSeq(LoneRow(U, Findable, m)) \o FlattenSeq(LoneRow(R, Findable, r))
  BY <1>5, RowsOfBoth, Zenon
<1>8. ChosenIn(u \o v, Long) = FlattenSeq(LongRow(S, Findable, Len(S)))
  BY <1>3, <1>4, <1>5, <1>6, <1>7, Zenon DEF AllSoFar
<1>10. ChosenIn(u \o v, Single) = FlattenSeq(LoneRow(S, Findable, Len(S)))
  BY <1>3, <1>4, <1>5, <1>6, <1>7, Zenon DEF AllSoFar
<1> QED
  BY <1>2, <1>5, <1>8, <1>10 DEF AllSoFar

\* No word that can be found lies across the border of a range.
LEMMA RangesPart ==
  ASSUME NEW end, NEW R, RangeStep(end, R)
  PROVE  /\ Seen \in Seq(Nat) /\ R \in Seq(Nat) /\ Seen' = Seen \o R
         /\ Parted(Seen, R, Findable) /\ Uncut(R, WholeWords) /\ OneRange(R)
<1>1. PICK s, c : s = text /\ c = cursor
  OBVIOUS
<1>2. PICK U, S : U = Seen /\ S = Seen'
  OBVIOUS
<1>3. /\ s \in Seq(Nat) /\ c \in 0..Len(s) /\ c < Len(s) /\ end \in c + 1..Len(s)
      /\ AtBorder(s, c) /\ (end = c + 1 \/ NoSymbols(s, c, end))
      /\ R \in Seq(Nat) /\ R = SubSeq(s, c + 1, end)
      /\ U \in Seq(Nat) /\ U = SubSeq(s, 1, c) /\ S = SubSeq(s, 1, end)
  BY <1>1, <1>2 DEF RangeStep
<1>4. end \in c..Len(s) /\ end \in 0..Len(s) /\ end \in end..Len(s) /\ c + (end - c) = end
  BY <1>3
<1>5. S = U \o R
  BY <1>2, RangeIsBehind
<1>6. Len(U) = c /\ Len(R) = end - c
  BY <1>3, <1>4, PartPieces
<1>7. NoneAcross(s, c, end, WholeWords)
  BY <1>3, <1>4, NoneAcrossBorder
<1>8. \A i \in 1..end : \A j \in i..end : SubSeq(S, i, j) = SubSeq(s, i, j)
  BY <1>3, <1>4, PartPieces
<1>9. ASSUME NEW i \in 1..c, NEW j \in c + 1..end PROVE SubSeq(S, i, j) \notin Findable
  <2>1. i \in 1..end /\ j \in i..end
    BY <1>3
  <2>2. SubSeq(s, i, j) \notin WholeWords
    BY <1>7 DEF NoneAcross
  <2> QED
    BY <1>8, <2>1, <2>2 DEF Findable
<1>12. c # 0 => U[c] = s[c]
  BY <1>3, <1>4, PartPieces
<1>13. R[1] = s[c + 1] /\ \A x \in 1..end - c : R[x] = s[c + x]
  BY <1>3, <1>4, PieceFacts
<1>10. Parted(U, R, Findable)
  <2>1. c # 0 => U[c] \in Symbols \/ R[1] \in Symbols
    BY <1>3, <1>12, <1>13 DEF AtBorder
  <2> QED
    BY <1>4, <1>5, <1>6, <1>9, <2>1 DEF Parted
<1>14. OneRange(R)
  BY <1>3, <1>6, <1>13 DEF OneRange, NoSymbols
<1>11. Uncut(R, WholeWords)
  BY <1>3, RangeUncut
<1> QED
  BY <1>2, <1>3, <1>5, <1>10, <1>11, <1>14

\* What is found now is found then.
LEMMA AllHolds ==
  ASSUME UNCHANGED dictVars, AllSoFar(Seen', uwords')
  PROVE  AllInv'
BY SameDict DEF Findable, WholeWords, AllInv, AllSoFar

\* The next step keeps it so.
LEMMA AllStep == ASSUME JiebaAssumption, CutInv, WordsInv, AllInv, [Next]_vars PROVE AllInv'
<1>0. DictInv /\ DictMore /\ CallInv /\ CursorInv /\ Running /\ uwords \in Seq(Filled)
  BY DEF CutInv, JiebaInv, WordsInv
<1>1. CASE pc' # "cut" \/ call'.mode # "all"
  BY <1>1 DEF AllInv
<1>2. CASE Start /\ call'.mode = "all"
  <2>1. UNCHANGED dictVars /\ uwords' = <<>> /\ cursor' = 0
    BY <1>2 DEF Start
  <2>2. Seen' = <<>>
    BY <1>2, StartStep, <2>1 DEF CutInv, JiebaInv, Seen
  <2>3. AllSoFar(<<>>, <<>>)
    <3>1. LongRow(<<>>, Findable, 0) = <<>> /\ LoneRow(<<>>, Findable, 0) = <<>>
      BY DEF LongRow, LoneRow
    <3>2. ChosenIn(<<>>, Long) = <<>> /\ ChosenIn(<<>>, Single) = <<>>
      BY ChosenOne DEF Filled
    <3>3. Len(<<>>) = 0
      OBVIOUS
    <3> QED
      BY <3>1, <3>2, <3>3, FlattenEmpty, Zenon DEF AllSoFar
  <2> QED
    BY <2>1, <2>2, <2>3, AllHolds, Zenon
<1>3. CASE CallRuns /\ CutRange /\ call.mode = "all"
  <2>1. PICK end, R : RangeStep(end, R)
    BY <1>0, <1>3, RangeStepFacts
  <2>2. PICK U : U = Seen
    OBVIOUS
  <2>3. /\ U \in Seq(Nat) /\ R \in Seq(Nat) /\ Seen' = U \o R
        /\ Parted(U, R, Findable) /\ Uncut(R, WholeWords) /\ OneRange(R)
    BY <2>1, <2>2, RangesPart
  <2>4. uwords' = uwords \o FullCut(R) /\ pc = "cut"
    BY <1>3, <2>1 DEF CutWords, RangeStep
  <2>5. AllSoFar(U, uwords) /\ stage = "ready" /\ UNCHANGED dictVars
    BY <1>3, <2>2, <2>4 DEF AllInv, CallRuns
  <2>6. AllSoFar(U \o R, uwords \o FullCut(R))
    BY <1>0, <2>3, <2>5, AllGrows
  <2> QED
    BY <2>3, <2>4, <2>5, <2>6, AllHolds, Zenon
<1>4. CASE UNCHANGED vars /\ pc = "cut" /\ call.mode = "all"
  BY <1>4, AllHolds DEF vars, callVars, Seen, text, AllInv
<1>5. CASE UNCHANGED vars /\ ~(pc = "cut" /\ call.mode = "all")
  BY <1>1, <1>5 DEF vars, callVars
<1>6. CASE CallStep /\ ~(CutRange /\ call.mode = "all")
  BY <1>6, <1>0, <1>1, CallKept DEF CallStep, CutDone, LevelStep, LevelDone, Tag
<1> QED
  BY <1>0, <1>1, <1>2, <1>3, <1>4, <1>5, <1>6, StepKinds

\* A word that occurs around i is a piece around it.
LEMMA CoveredOccurs ==
  ASSUME DictInv, NEW s \in Seq(Nat), NEW i \in 1..Len(s)
  PROVE  CoveredAt(s, i, Findable) <=>
           \E word \in Findable : Len(word) > 1 /\ \E k \in 1..i : Occurs(word, s, k) /\ i < k + Len(word)
<1>1. Findable \subseteq Seq(Nat)
  BY DictWordsByEntries DEF DictInv, Findable, WholeWords
<1>2. ASSUME NEW k \in 1..i, NEW j \in k + 1..Len(s), i <= j, NEW word, word = SubSeq(s, k, j)
      PROVE  Len(word) > 1 /\ Occurs(word, s, k) /\ i < k + Len(word)
  <2>1. k \in 1..Len(s) + 1 /\ j \in k - 1..Len(s)
    OBVIOUS
  <2>2. Len(word) = j - k + 1
    BY <1>2, <2>1, PieceFacts
  <2>3. Len(word) > 1 /\ i < k + Len(word) /\ k + Len(word) - 1 = j
    BY <1>2, <2>2
  <2> QED
    BY <1>2, <2>3 DEF Occurs
<1>3. ASSUME NEW word \in Findable, Len(word) > 1, NEW k \in 1..i, Occurs(word, s, k), i < k + Len(word)
      PROVE  \E j \in k + 1..Len(s) : i <= j /\ SubSeq(s, k, j) \in Findable
  <2>1. PICK n \in Nat : n = Len(word)
    BY <1>1
  <2>2. k + n - 1 <= Len(s) /\ SubSeq(s, k, k + n - 1) = word
    BY <1>3, <2>1 DEF Occurs
  <2>3. k + n - 1 \in k + 1..Len(s) /\ i <= k + n - 1
    BY <1>3, <2>1, <2>2
  <2> QED
    BY <2>2, <2>3
<1> QED
  BY <1>2, <1>3 DEF CoveredAt

\* Likewise one that is counted again.
LEMMA EchoedOccurs ==
  ASSUME DictInv, NEW s \in Seq(Nat), NEW i \in 1..Len(s)
  PROVE  Echoed(s, i, Findable) <=> \E k \in 1..i - 1 : Echoes(s, k, i, Findable)
<1>1. Findable \subseteq Seq(Nat) \ {<<>>}
  BY DictWordsByEntries DEF DictInv, Findable, WholeWords, DictWords
<1>2. ASSUME NEW x \in 1..Len(s), NEW y PROVE y \in EndsAt(s, x, Len(s), Findable) <=>
        \E word \in Findable : Occurs(word, s, x) /\ y = x + Len(word) - 1
  <2>1. ASSUME NEW word \in Findable, Occurs(word, s, x) PROVE x + Len(word) - 1 \in EndsAt(s, x, Len(s), Findable)
    <3>1. x + Len(word) - 1 \in x..Len(s) /\ SubSeq(s, x, x + Len(word) - 1) = word
      <4>1. PICK n \in Nat \ {0} : n = Len(word)
        BY <1>1
      <4> QED
        BY <2>1, <4>1 DEF Occurs
    <3> QED
      BY <2>1, <3>1 DEF EndsAt
  <2>2. ASSUME y \in x..Len(s) PROVE Len(SubSeq(s, x, y)) = y - x + 1
    BY <2>2, PieceFacts
  <2>3. y \in x..Len(s) => x + (y - x + 1) - 1 = y /\ y <= Len(s)
    OBVIOUS
  <2>4. ASSUME y \in EndsAt(s, x, Len(s), Findable)
        PROVE  \E word \in Findable : Occurs(word, s, x) /\ y = x + Len(word) - 1
    <3>1. PICK word \in Findable : word = SubSeq(s, x, y) /\ y \in x..Len(s)
      BY <2>4 DEF EndsAt
    <3> QED
      BY <2>2, <2>3, <3>1, Zenon DEF Occurs
  <2> QED
    BY <2>1, <2>4
<1>3. ASSUME NEW k \in 1..i - 1, NEW n \in 1..k - 1, NEW word \in Findable, NEW e, e = n + Len(word) - 1, Occurs(word, s, n)
      PROVE  LastFound(s, n, e, k, Findable) <=> LastBefore(word, s, n, k, Findable)
  <2>1. \A x \in n..k - 1 : x \in 1..Len(s)
    OBVIOUS
  <2>2. e \in EndsAt(s, n, Len(s), Findable)
    BY <1>2, <1>3
  <2>3. \A other \in Findable : n + Len(other) - 1 <= e <=> Len(other) <= Len(word)
    BY <1>1, <1>3
  <2>4. ASSUME LastFound(s, n, e, k, Findable), NEW other \in Findable, NEW x \in n..k - 1, Occurs(other, s, x)
        PROVE  x = n /\ Len(other) <= Len(word)
    <3>1. x + Len(other) - 1 \in EndsAt(s, x, Len(s), Findable)
      BY <1>2, <2>1, <2>4
    <3> QED
      BY <2>3, <2>4, <3>1 DEF LastFound
  <2>5. ASSUME LastBefore(word, s, n, k, Findable), NEW x \in n..k - 1, NEW y \in EndsAt(s, x, Len(s), Findable)
        PROVE  x = n /\ y <= e
    <3>1. PICK other \in Findable : Occurs(other, s, x) /\ y = x + Len(other) - 1
      BY <1>2, <2>1
    <3> QED
      BY <2>3, <2>5, <3>1 DEF LastBefore
  <2>6. LastFound(s, n, e, k, Findable) => LastBefore(word, s, n, k, Findable)
    BY <1>3, <2>4 DEF LastBefore
  <2> QED
    BY <2>2, <2>5, <2>6 DEF LastFound
<1>4. ASSUME NEW k \in 1..i - 1, NEW n \in 1..k - 1
      PROVE  (\E e \in n..Len(s) : LastFound(s, n, e, k, Findable) /\ i <= k + e - n)
               <=> \E word \in Findable : LastBefore(word, s, n, k, Findable) /\ i < k + Len(word)
  <2>1. n \in 1..Len(s)
    OBVIOUS
  <2>2. ASSUME NEW e \in n..Len(s), LastFound(s, n, e, k, Findable), i <= k + e - n
        PROVE  \E word \in Findable : LastBefore(word, s, n, k, Findable) /\ i < k + Len(word)
    <3>1. PICK word \in Findable : Occurs(word, s, n) /\ e = n + Len(word) - 1
      BY <1>2, <2>1, <2>2 DEF LastFound
    <3>2. LastBefore(word, s, n, k, Findable)
      BY <1>3, <2>2, <3>1
    <3>3. i < k + Len(word)
      BY <1>1, <2>2, <3>1
    <3> QED
      BY <3>2, <3>3
  <2>3. ASSUME NEW word \in Findable, LastBefore(word, s, n, k, Findable), i < k + Len(word)
        PROVE  \E e \in n..Len(s) : LastFound(s, n, e, k, Findable) /\ i <= k + e - n
    <3>1. PICK e : e = n + Len(word) - 1
      OBVIOUS
    <3>2. Occurs(word, s, n)
      BY <2>3 DEF LastBefore
    <3>3. LastFound(s, n, e, k, Findable) /\ e \in n..Len(s)
      BY <1>2, <1>3, <2>1, <2>3, <3>1, <3>2 DEF EndsAt
    <3>4. i <= k + e - n
      BY <1>1, <2>3, <3>1
    <3> QED
      BY <3>3, <3>4
  <2> QED
    BY <2>2, <2>3
<1> QED
  BY <1>4 DEF Echoed, Echoes

\* So CutAll finds all words, and keeps the runes that none covers.
LEMMA AllFinds ==
  ASSUME CutInv, WordsInv, AllInv
  PROVE  AllWordsFound /\ UncoveredRunesKept
<1> SUFFICES ASSUME pc = "cut", call.mode = "all" PROVE AllWordsFound /\ UncoveredRunesKept
  BY DEF AllWordsFound, UncoveredRunesKept
<1>0. DictInv /\ CallInv /\ uwords \in Seq(Filled) /\ AllSoFar(Seen, uwords)
  BY DEF CutInv, JiebaInv, WordsInv, AllInv
<1>1. Seen \in Seq(Nat) /\ Len(Seen) = cursor
  BY <1>0, TextType, PartPieces DEF CallInv, Seen
<1>2. \A i \in DOMAIN uwords : uwords[i] \in Filled
  BY <1>0
<1>3. /\ ChosenIn(uwords, Long) = Chosen(uwords, LAMBDA word : Len(word) > 1)
      /\ ChosenIn(uwords, Single) = Chosen(uwords, LAMBDA word : Len(word) = 1)
  BY <1>2 DEF Chosen, ChosenIn, OneOf, Long, Single
<1>4. AllWordsFound
  BY <1>0, <1>1, <1>3 DEF AllSoFar, LongRow, AllWordsFound
<1>5. \A i \in 1..cursor : CoveredAt(Seen, i, Findable) <=>
         \E word \in Findable : Len(word) > 1 /\ \E k \in 1..i : Occurs(word, Seen, k) /\ i < k + Len(word)
  BY <1>0, <1>1, CoveredOccurs
<1>7. \A i \in 1..cursor : Echoed(Seen, i, Findable) <=> \E k \in 1..i - 1 : Echoes(Seen, k, i, Findable)
  BY <1>0, <1>1, EchoedOccurs
<1>6. UncoveredRunesKept
  BY <1>0, <1>1, <1>3, <1>5, <1>7 DEF AllSoFar, LoneRow, Lone, UncoveredRunesKept
<1> QED
  BY <1>4, <1>6

\* A Jieba object finds all words there are: CutAll each word of the dictionary
\* at each place, and the runes that none covers, all but those it drops behind
\* unknown ones (FullSegment.hpp:70); the cut for a search the parts of its long words; the levels words
\* inside those of the level before; and the tags fit the runes.  No word is
\* empty (FullSegment, QuerySegment, LevelSegment, PosTagger).
THEOREM WordsStayFound == Spec => []WordsFound
<1>1. Init => FindsInv
  <2> SUFFICES ASSUME Init PROVE FindsInv
    OBVIOUS
  <2>1. pc = "idle" /\ call = [mode |-> "none"] /\ uwords = <<>> /\ res = <<>>
    BY DEF Init
  <2>2. <<>> \in Seq(Filled)
    BY SeqClosed
  <2>3. WordsInv
    BY <2>1, <2>2 DEF WordsInv, IdleInv
  <2>4. AllInv /\ QueryInv /\ NestInv /\ TagInv
    BY <2>1 DEF AllInv, QueryInv, NestInv, TagInv
  <2>5. CutInv
    BY CutInvInit, DictAssumption
  <2> QED
    BY <2>3, <2>4, <2>5 DEF FindsInv
<1>2. FindsInv /\ [Next]_vars => FindsInv'
  <2> SUFFICES ASSUME FindsInv, [Next]_vars PROVE FindsInv'
    OBVIOUS
  <2>1. CutInv /\ WordsInv /\ AllInv /\ QueryInv /\ NestInv /\ TagInv
    BY DEF FindsInv
  <2>2. CutInv'
    BY <2>1, CutInvStep, DictAssumption, JiebaAssumption
  <2>3. WordsInv' /\ AllInv'
    BY <2>1, WordsStep, AllStep, JiebaAssumption
  <2>4. QueryInv' /\ NestInv' /\ TagInv'
    BY <2>1, QueryStep, NestStep, TagStep
  <2> QED
    BY <2>2, <2>3, <2>4 DEF FindsInv
<1>3. FindsInv => WordsFound
  <2> SUFFICES ASSUME FindsInv PROVE WordsFound
    OBVIOUS
  <2>1. CutInv /\ WordsInv /\ AllInv /\ QueryInv /\ NestInv /\ TagInv
    BY DEF FindsInv
  <2>2. \A word \in ToSet(uwords) : word # <<>>
    BY <2>1 DEF WordsInv, ToSet, Filled
  <2>3. AllWordsFound /\ UncoveredRunesKept
    BY <2>1, AllFinds
  <2>4. SubwordsFound
    BY <2>1, QueryFinds
  <2>5. LevelsNest
    <3> SUFFICES ASSUME call.mode = "level" PROVE Nested(res)
      BY DEF LevelsNest, Nested, IsInside
    <3>1. pc # "idle"
      BY <2>1 DEF WordsInv, IdleInv
    <3> QED
      BY <2>1, <3>1 DEF NestInv
  <2>6. TagsFollowRunes
    BY <2>1 DEF TagInv, TagFits, TagsFollowRunes
  <2> QED
    BY <2>2, <2>3, <2>4, <2>5, <2>6 DEF WordsFound
<1> QED
  BY <1>1, <1>2, <1>3, PTL DEF Spec

=============================================================================
