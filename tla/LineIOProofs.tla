--------------------------- MODULE LineIOProofs ---------------------------
(***************************************************************************)
(* The byte stream of one connection, for lines, answers and buffers of    *)
(* any length.  Two invariants are kept apart, because no step disturbs    *)
(* both: for reading, that what was taken and what is on its way are       *)
(* together what was written, and that no newline is left in the buffer;   *)
(* for writing, that the unsent rest of an answer begins where the stream  *)
(* ends.  That appending to the messages appends to the bytes taken rests  *)
(* on FlattenSeq, whose recursion is unfolded by least counterexample.     *)
(***************************************************************************)
EXTENDS LineIO, SequenceTheorems, WellFoundedInduction, TLAPS

\* Every set of natural numbers that is not empty has a least element.
LEMMA LeastNat ==
  ASSUME NEW T, T \subseteq Nat, T # {}
  PROVE  \E n \in T : \A m \in T : n <= m
<1>1. PICK n \in T : \A m \in T : ~(<<m, n>> \in OpToRel(<, Nat))
  BY NatLessThanWellFounded, WFMin
<1>2. \A m \in T : ~(m < n)
  BY <1>1 DEF OpToRel
<1> QED
  BY <1>2

-----------------------------------------------------------------------------
(* FlattenSeq, by the steps of its definition.                             *)

\* f[i] is the concatenation of the first i members of ss.
Concats(ss, f) ==
  f = [i \in 1..Len(ss) |-> IF i = 1 THEN ss[i] ELSE f[i - 1] \o ss[i]]

LEMMA ConcatsExist ==
  ASSUME NEW R, \A r, s \in R : r \o s \in R, NEW ss \in Seq(R)
  PROVE  \E f \in [1..Len(ss) -> R] : Concats(ss, f)
<1> DEFINE Step(f, i) == IF i = 1 THEN ss[i] ELSE f[i - 1] \o ss[i]
           Upto(n) == \E f \in [1..n -> R] : \A i \in 1..n : f[i] = Step(f, i)
           T == {n \in Nat : n <= Len(ss) /\ ~Upto(n)}
<1>0. Len(ss) \in Nat /\ \A i \in 1..Len(ss) : ss[i] \in R
  OBVIOUS
<1>1. SUFFICES ASSUME T # {} PROVE FALSE
  <2>1. CASE T = {}
    <3>1. PICK f \in [1..Len(ss) -> R] : \A i \in 1..Len(ss) : f[i] = Step(f, i)
      <4>1. Upto(Len(ss))
        <5> HIDE DEF Upto
        <5> QED
          BY <2>1, <1>0
      <4> QED
        BY <4>1
    <3> QED
      BY <3>1 DEF Concats
  <2> QED
    BY <2>1
<1>2. PICK n \in T : \A m \in T : n <= m
  <2>1. T \subseteq Nat
    OBVIOUS
  <2> HIDE DEF T
  <2> QED
    BY <1>1, <2>1, LeastNat
<1>3. CASE n = 0
  <2>1. [i \in 1..n |-> <<>>] \in [1..n -> R]
    BY <1>3
  <2>2. 1..n = {}
    BY <1>3
  <2>3. Upto(n)
    BY <2>1, <2>2
  <2> QED
    BY <2>3
<1>4. CASE n # 0
  <2>1. n - 1 \in Nat /\ n - 1 <= Len(ss) /\ n - 1 \notin T /\ n \in 1..Len(ss)
    <3>1. n \in Nat /\ n <= Len(ss) /\ n - 1 \in Nat /\ ~(n <= n - 1)
      BY <1>2, <1>4
    <3> HIDE DEF T
    <3> QED
      BY <1>0, <1>2, <3>1
  <2>2. PICK f \in [1..n - 1 -> R] : \A i \in 1..n - 1 : f[i] = Step(f, i)
    BY <2>1
  <2>3. Step(f, n) \in R
    <3>1. CASE n = 1
      BY <3>1, <2>1
    <3>2. CASE n # 1
      <4>1. f[n - 1] \in R /\ ss[n] \in R
        BY <3>2, <2>1, <2>2
      <4> QED
        BY <4>1, <3>2
    <3> QED
      BY <3>1, <3>2
  <2> DEFINE g == [i \in 1..n |-> IF i = n THEN Step(f, n) ELSE f[i]]
  <2>4. g \in [1..n -> R]
    BY <2>1, <2>2, <2>3
  <2>5. \A i \in 1..n - 1 : g[i] = f[i]
    <3> HIDE DEF Step
    <3> QED
      BY <2>1
  <2>6. \A i \in 1..n : g[i] = Step(g, i)
    <3>1. g[n] = Step(f, n)
      BY <2>1
    <3> HIDE DEF g
    <3> TAKE i \in 1..n
    <3>2. CASE i = n
      <4>1. i # 1 => i - 1 \in 1..n - 1 /\ g[i - 1] = f[i - 1]
        BY <3>2, <2>1, <2>5
      <4> QED
        BY <3>1, <3>2, <4>1
    <3>3. CASE i # n
      <4>1. i \in 1..n - 1 /\ (i # 1 => i - 1 \in 1..n - 1)
        BY <3>3, <2>1
      <4>2. g[i] = f[i] /\ (i # 1 => g[i - 1] = f[i - 1]) /\ f[i] = Step(f, i)
        BY <4>1, <2>2, <2>5
      <4> QED
        BY <4>2
    <3> QED
      BY <3>2, <3>3
  <2> HIDE DEF g
  <2> QED
    BY <2>4, <2>6
<1> QED
  BY <1>3, <1>4

LEMMA ConcatsAgree ==
  ASSUME NEW ss, NEW tt, NEW n \in Nat, Len(ss) \in Nat, Len(tt) \in Nat,
         n <= Len(ss), n <= Len(tt), \A i \in 1..n : ss[i] = tt[i],
         NEW f, NEW g, Concats(ss, f), Concats(tt, g)
  PROVE  \A i \in 1..n : f[i] = g[i]
<1> SUFFICES ASSUME \E i \in 1..n : f[i] # g[i]
             PROVE  FALSE
  OBVIOUS
<1> DEFINE T == {i \in 1..n : f[i] # g[i]}
<1>1. PICK i \in T : \A j \in T : i <= j
  <2>1. T \subseteq Nat /\ T # {}
    OBVIOUS
  <2> HIDE DEF T
  <2> QED
    BY <2>1, LeastNat
<1>2. i \in 1..n /\ i \in 1..Len(ss) /\ i \in 1..Len(tt) /\ f[i] # g[i] /\ ss[i] = tt[i]
  BY <1>1
<1>3. f[i] = IF i = 1 THEN ss[i] ELSE f[i - 1] \o ss[i]
  BY <1>2 DEF Concats
<1>4. g[i] = IF i = 1 THEN tt[i] ELSE g[i - 1] \o tt[i]
  BY <1>2 DEF Concats
<1>5. i # 1 => i - 1 \in 1..n /\ f[i - 1] = g[i - 1]
  BY <1>1, <1>2
<1> QED
  BY <1>2, <1>3, <1>4, <1>5

LEMMA FlattenByConcats ==
  ASSUME NEW R, NEW ss \in Seq(R), Len(ss) # 0, NEW f, Concats(ss, f)
  PROVE  FlattenSeq(ss) = f[Len(ss)]
<1>1. FlattenSeq(ss) =
        (CHOOSE g : g = [i \in 1..Len(ss) |-> IF i = 1 THEN ss[i] ELSE g[i - 1] \o ss[i]])[Len(ss)]
  BY DEF FlattenSeq
<1>2. PICK g : Concats(ss, g) /\ FlattenSeq(ss) = g[Len(ss)]
  BY <1>1 DEF Concats
<1>3. Len(ss) \in Nat /\ Len(ss) \in 1..Len(ss)
  OBVIOUS
<1>4. \A i \in 1..Len(ss) : f[i] = g[i]
  BY <1>2, <1>3, ConcatsAgree
<1> QED
  BY <1>2, <1>3, <1>4

LEMMA FlattenEmpty == FlattenSeq(<<>>) = <<>>
BY DEF FlattenSeq

LEMMA FlattenAppend ==
  ASSUME NEW S, NEW ss \in Seq(Seq(S)), NEW s \in Seq(S)
  PROVE  /\ FlattenSeq(ss) \in Seq(S)
         /\ FlattenSeq(Append(ss, s)) = FlattenSeq(ss) \o s
<1> DEFINE R == Seq(S)
           tt == Append(ss, s)
           n == Len(ss)
<1>1. /\ ss \in Seq(R) /\ s \in R /\ <<>> \in R
      /\ \A r, u \in R : r \o u \in R
      /\ \A r \in R : <<>> \o r = r
  BY ConcatProperties, ConcatEmptySeq, EmptySeq
<1>2. SUFFICES /\ FlattenSeq(ss) \in R
               /\ FlattenSeq(tt) = FlattenSeq(ss) \o s
  OBVIOUS
<1> HIDE DEF R
<1>3. n \in Nat /\ tt \in Seq(R) /\ Len(tt) = n + 1 /\ tt[n + 1] = s /\ \A i \in 1..n : tt[i] = ss[i]
  BY <1>1
<1>4. PICK f : f \in [1..n -> R] /\ Concats(ss, f)
  BY <1>1, ConcatsExist
<1>5. PICK g : g \in [1..n + 1 -> R] /\ Concats(tt, g)
  <2> HIDE DEF tt, n
  <2> QED
    BY <1>1, <1>3, ConcatsExist
<1>6. FlattenSeq(tt) = g[n + 1]
  <2> HIDE DEF tt, n
  <2> QED
    BY <1>3, <1>5, FlattenByConcats
<1>7. g[n + 1] = IF n = 0 THEN s ELSE g[n] \o s
  <2> HIDE DEF tt
  <2>1. n + 1 \in 1..Len(tt) /\ (n + 1) - 1 = n /\ (n + 1 = 1 <=> n = 0)
    BY <1>3
  <2>2. g[n + 1] = IF n + 1 = 1 THEN tt[n + 1] ELSE g[(n + 1) - 1] \o tt[n + 1]
    BY <1>5, <2>1 DEF Concats
  <2> HIDE DEF n
  <2> QED
    BY <1>3, <2>1, <2>2
<1>8. CASE n = 0
  <2>1. FlattenSeq(ss) = <<>>
    <3>1. ss = <<>>
      BY <1>8, <1>1
    <3> QED
      BY <3>1, FlattenEmpty
  <2> QED
    BY <1>1, <1>6, <1>7, <1>8, <2>1
<1>9. CASE n # 0
  <2>1. FlattenSeq(ss) = f[n]
    BY <1>1, <1>4, <1>9, FlattenByConcats
  <2>2. \A i \in 1..n : f[i] = g[i]
    <3>1. n \in Nat /\ Len(ss) \in Nat /\ Len(tt) \in Nat /\ n <= Len(ss) /\ n <= Len(tt)
      BY <1>3
    <3>2. \A i \in 1..n : ss[i] = tt[i]
      BY <1>3
    <3>3. Concats(ss, f) /\ Concats(tt, g)
      BY <1>4, <1>5
    <3> HIDE DEF tt, n
    <3> QED
      BY <3>1, <3>2, <3>3, ConcatsAgree
  <2>3. n \in 1..n /\ f[n] \in R /\ f[n] = g[n]
    BY <1>3, <1>4, <1>9, <2>2
  <2> HIDE DEF tt, n
  <2> QED
    BY <1>6, <1>7, <1>9, <2>1, <2>3
<1> QED
  BY <1>8, <1>9

-----------------------------------------------------------------------------
(* Reading. *)

LEMMA PieceProperties ==
  ASSUME NEW S, NEW s \in Seq(S), NEW k \in 0..Len(s)
  PROVE  /\ SubSeq(s, 1, k) \in Seq(S)
         /\ Len(SubSeq(s, 1, k)) = k
         /\ \A i \in 1..k : SubSeq(s, 1, k)[i] = s[i]
         /\ SubSeq(s, k + 1, Len(s)) \in Seq(S)
         /\ Len(SubSeq(s, k + 1, Len(s))) = Len(s) - k
         /\ \A i \in 1..Len(s) - k : SubSeq(s, k + 1, Len(s))[i] = s[k + i]
         /\ SubSeq(s, 1, k) \o SubSeq(s, k + 1, Len(s)) = s
<1> DEFINE a == SubSeq(s, 1, k)
           b == SubSeq(s, k + 1, Len(s))
<1>1. a \in Seq(S) /\ Len(a) = k /\ \A i \in 1..k : a[i] = s[i]
  OBVIOUS
<1>2. b \in Seq(S) /\ Len(b) = Len(s) - k /\ \A i \in 1..Len(s) - k : b[i] = s[k + i]
  OBVIOUS
<1> HIDE DEF a, b
<1>3. /\ a \o b \in Seq(S)
      /\ Len(a \o b) = Len(s)
      /\ \A i \in 1..Len(s) : (a \o b)[i] = IF i <= k THEN a[i] ELSE b[i - k]
  BY <1>1, <1>2, ConcatProperties
<1>4. \A i \in 1..Len(s) : (a \o b)[i] = s[i]
  <2> TAKE i \in 1..Len(s)
  <2>1. CASE i <= k
    BY <2>1, <1>1, <1>3
  <2>2. CASE ~(i <= k)
    <3>1. i - k \in 1..Len(s) - k /\ k + (i - k) = i
      BY <2>2
    <3> QED
      BY <2>2, <3>1, <1>2, <1>3
  <2> QED
    BY <2>1, <2>2
<1>5. a \o b = s
  BY <1>3, <1>4, SeqEqual
<1> QED
  BY <1>1, <1>2, <1>5 DEF a, b

LEMMA PrefixOfConcat ==
  ASSUME NEW S, NEW s \in Seq(S), NEW t \in Seq(S)
  PROVE  IsPrefix(s, s \o t)
<1>1. /\ s \o t \in Seq(S)
      /\ Len(s \o t) = Len(s) + Len(t)
      /\ \A i \in 1..Len(s) + Len(t) : (s \o t)[i] = IF i <= Len(s) THEN s[i] ELSE t[i - Len(s)]
  BY ConcatProperties
<1> DEFINE u == s \o t
<1>2. Len(s) \in 0..Len(u) /\ \A i \in 1..Len(s) : u[i] = s[i]
  BY <1>1
<1>3. u \in Seq(S) /\ Len(s) <= Len(u)
  BY <1>1
<1> HIDE DEF u
<1>4. SubSeq(u, 1, Len(s)) = s
  <2>1. /\ SubSeq(u, 1, Len(s)) \in Seq(S)
        /\ Len(SubSeq(u, 1, Len(s))) = Len(s)
        /\ \A i \in 1..Len(s) : SubSeq(u, 1, Len(s))[i] = u[i]
    BY <1>2, <1>3, PieceProperties
  <2> QED
    BY <2>1, <1>2, SeqEqual
<1>5. SubSeq(s, 1, Len(s)) = s
  OBVIOUS
<1> QED
  BY <1>3, <1>4, <1>5 DEF IsPrefix, u

\* Bytes of the lines written so far.
LineBytes == Seq((1..Len(lines)) \X Nat)

NoNewline(s) == \A k \in 1..Len(s) : ~IsNewline(s[k])

\* Everything written was taken or is on its way, until the end of a client
\* that is gone makes readline drop what it has.
NothingLost ==
  \/ Taken \o upNet = Written
  \/ /\ client = "gone" /\ server \notin {"readline", "readn"}
     /\ upNet = <<>> /\ buf = <<>>
     /\ IsPrefix(Taken, Written)

ReadInv ==
  /\ client \in {"greeting", "typing", "length", "data", "gone"}
  /\ server \in {"idle", "readline", "readn", "writen", "closed", "crashed"}
  /\ lines \in Seq([len : Nat, ended : BOOLEAN])
  /\ upNet \in LineBytes /\ buf \in LineBytes /\ messages \in Seq(LineBytes)
  /\ overran \in BOOLEAN
  /\ Len(buf) < BufSize - 1
  /\ NoNewline(buf)
  /\ server = "readn" => overran
  /\ server = "readline" => buf # <<>> \/ upNet # <<>>
  /\ NothingLost
  /\ LinesWhole

LEMMA ReadInit == Init => ReadInv
<1> SUFFICES ASSUME Init PROVE ReadInv
  OBVIOUS
<1>1. lines = <<>> /\ messages = <<>> /\ buf = <<>> /\ upNet = <<>> /\ client = "greeting" /\ server = "writen" /\ overran = FALSE
  BY DEF Init
<1>2. Taken = <<>> /\ Written = <<>>
  <2>1. [n \in DOMAIN lines |-> Bytes(n, lines[n].len)] = <<>>
    BY <1>1
  <2> QED
    BY <1>1, <2>1, FlattenEmpty DEF Taken, Written
<1>3. NothingLost
  BY <1>1, <1>2 DEF NothingLost
<1>4. Len(buf) < BufSize - 1
  BY <1>1, LineAssumption
<1>5. lines \in Seq([len : Nat, ended : BOOLEAN]) /\ upNet \in LineBytes /\ buf \in LineBytes /\ messages \in Seq(LineBytes)
  BY <1>1, EmptySeq DEF LineBytes
<1>6. NoNewline(buf) /\ LinesWhole
  BY <1>1 DEF LinesWhole, NoNewline
<1> QED
  BY <1>1, <1>3, <1>4, <1>5, <1>6 DEF ReadInv

LEMMA ReadUnchanged ==
  ASSUME ReadInv, UNCHANGED <<lines, readVars, upNet>>,
         client' \in {"greeting", "typing", "length", "data", "gone"},
         client = "gone" => client' = "gone",
         server' \in {"idle", "readline", "readn", "writen", "closed", "crashed"},
         server' = server \/ server' \notin {"readline", "readn"}
  PROVE  ReadInv'
<1>1. /\ lines' = lines /\ messages' = messages /\ buf' = buf /\ overran' = overran /\ upNet' = upNet
  BY DEF readVars
<1>2. NothingLost'
  BY <1>1 DEF ReadInv, NothingLost, Taken, Written
<1>3. LinesWhole'
  BY <1>1 DEF ReadInv, LinesWhole, IsNewline
<1> QED
  BY <1>1, <1>2, <1>3 DEF ReadInv, LineBytes, NoNewline, IsNewline

\* A line that is written leaves the lines before it what they were.
LEMMA WrittenGrows ==
  ASSUME lines \in Seq([len : Nat, ended : BOOLEAN]), NEW len \in Nat, NEW ended \in BOOLEAN,
         lines' = Append(lines, [len |-> len, ended |-> ended])
  PROVE  /\ lines' \in Seq([len : Nat, ended : BOOLEAN])
         /\ Written \in Seq(Nat \X Nat)
         /\ Written' = Written \o Bytes(Len(lines) + 1, len)
         /\ Bytes(Len(lines) + 1, len) \in Seq((1..Len(lines)') \X Nat)
         /\ LineBytes \subseteq LineBytes'
         /\ \A b \in (1..Len(lines)) \X Nat : IsNewline(b)' <=> IsNewline(b)
<1> DEFINE n == Len(lines)
           w == [i \in DOMAIN lines |-> Bytes(i, lines[i].len)]
           r == [len |-> len, ended |-> ended]
<1>1. n \in Nat /\ DOMAIN lines = 1..n /\ \A i \in 1..n : lines[i] \in [len : Nat, ended : BOOLEAN]
  BY LenProperties, ElementOfSeq
<1>2. /\ lines' \in Seq([len : Nat, ended : BOOLEAN]) /\ Len(lines') = n + 1
      /\ DOMAIN lines' = 1..(n + 1) /\ lines'[n + 1] = r
      /\ \A i \in 1..n : lines'[i] = lines[i]
  BY <1>1
<1>3. \A i \in Nat, k \in Nat : Bytes(i, k) \in Seq(Nat \X Nat)
  BY DEF Bytes
<1>4. w \in Seq(Seq(Nat \X Nat)) /\ Len(w) = n
  <2> DEFINE S == Seq(Nat \X Nat)
  <2>1. \A i \in 1..n : Bytes(i, lines[i].len) \in S
    <3>1. \A i \in 1..n : i \in Nat /\ lines[i].len \in Nat
      BY <1>1
    <3> HIDE DEF n, S
    <3> QED
      BY <1>3, <3>1 DEF S
  <2> HIDE DEF S
  <2>2. w = [i \in 1..n |-> Bytes(i, lines[i].len)]
    BY <1>1
  <2>3. w \in Seq(S)
    BY <2>1, <2>2, <1>1
  <2> QED
    BY <2>3, <2>2, <1>1 DEF S
<1>5. [i \in DOMAIN lines' |-> Bytes(i, lines'[i].len)] = Append(w, Bytes(n + 1, len))
  <2>1. r.len = len
    OBVIOUS
  <2>2. Append(w, Bytes(n + 1, len)) = [i \in 1..(n + 1) |-> IF i = n + 1 THEN Bytes(n + 1, len) ELSE w[i]]
    BY <1>4
  <2>3. \A i \in 1..(n + 1) : i # n + 1 => w[i] = Bytes(i, lines'[i].len)
    BY <1>1, <1>2
  <2> HIDE DEF w, r
  <2> QED
    BY <1>1, <1>2, <2>1, <2>2, <2>3
<1>6. Written = FlattenSeq(w) /\ Written' = FlattenSeq(Append(w, Bytes(n + 1, len)))
  BY <1>5 DEF Written
<1>7. Bytes(n + 1, len) \in Seq(Nat \X Nat)
  BY <1>1, <1>3
<1>8. Written \in Seq(Nat \X Nat) /\ Written' = Written \o Bytes(n + 1, len)
  <2> HIDE DEF w
  <2> QED
    BY <1>4, <1>6, <1>7, FlattenAppend
<1>9. Bytes(n + 1, len) \in Seq((1..(n + 1)) \X Nat)
  BY <1>1 DEF Bytes
<1>10. LineBytes \subseteq LineBytes'
  <2>1. (1..n) \X Nat \subseteq (1..Len(lines')) \X Nat
    BY <1>1, <1>2
  <2> QED
    BY <2>1, SeqMonotonic DEF LineBytes
<1>11. \A b \in (1..n) \X Nat : IsNewline(b)' <=> IsNewline(b)
  BY <1>2 DEF IsNewline
<1> QED
  BY <1>2, <1>8, <1>9, <1>10, <1>11

LEMMA BytesAreFlat ==
  ASSUME ReadInv
  PROVE  /\ LineBytes \subseteq Seq(Nat \X Nat)
         /\ messages \in Seq(Seq(Nat \X Nat))
         /\ FlattenSeq(messages) \in Seq(Nat \X Nat)
         /\ Taken \in Seq(Nat \X Nat)
<1>1. LineBytes \subseteq Seq(Nat \X Nat)
  <2>1. Len(lines) \in Nat
    BY LenProperties DEF ReadInv
  <2>2. (1..Len(lines)) \X Nat \subseteq Nat \X Nat
    BY <2>1
  <2> QED
    BY <2>2, SeqMonotonic DEF LineBytes
<1>2. messages \in Seq(Seq(Nat \X Nat))
  BY <1>1, SeqMonotonic DEF ReadInv
<1>3. FlattenSeq(messages) \in Seq(Nat \X Nat)
  <2>1. <<>> \in Seq(Nat \X Nat)
    BY EmptySeq
  <2> QED
    BY <1>2, <2>1, FlattenAppend
<1>4. buf \in Seq(Nat \X Nat)
  BY <1>1 DEF ReadInv
<1> QED
  BY <1>1, <1>2, <1>3, <1>4, ConcatProperties DEF Taken

Joined(r, s, t) == (r \o s) \o t

Associates(r, s, t) == (r \o s) \o t = r \o (s \o t)

LEMMA Associative ==
  ASSUME NEW S, NEW r \in Seq(S), NEW s \in Seq(S), NEW t \in Seq(S)
  PROVE  Associates(r, s, t)
BY ConcatAssociative DEF Associates

LEMMA Regroup ==
  ASSUME NEW S, NEW r \in Seq(S), NEW s \in Seq(S), NEW t \in Seq(S), NEW u \in Seq(S)
  PROVE  Joined(r, s \o t, u) = Joined(r, s, t \o u)
<1>1. PICK v : v = s \o t /\ v \in Seq(S)
  BY ConcatProperties, Zenon
<1>2. PICK w : w = t \o u /\ w \in Seq(S)
  BY ConcatProperties, Zenon
<1>3. Associates(r, v, u) /\ Associates(s, t, u) /\ Associates(r, s, w)
  BY <1>1, <1>2, Associative
<1> QED
  BY <1>1, <1>2, <1>3, Zenon DEF Joined, Associates

\* k bytes move from the connection to the buffer or into a message.
LEMMA BytesMove ==
  ASSUME ReadInv, server \in {"readline", "readn"}, NEW k \in 0..Len(upNet), Consume(k), lines' = lines,
         \/ messages' = Append(messages, buf \o SubSeq(upNet, 1, k)) /\ buf' = <<>>
         \/ messages' = messages /\ buf' = buf \o SubSeq(upNet, 1, k)
  PROVE  /\ upNet' \in LineBytes'
         /\ buf \o SubSeq(upNet, 1, k) \in LineBytes
         /\ Len(buf \o SubSeq(upNet, 1, k)) = Len(buf) + k
         /\ \A i \in 1..Len(buf) : (buf \o SubSeq(upNet, 1, k))[i] = buf[i]
         /\ \A i \in 1..k : (buf \o SubSeq(upNet, 1, k))[Len(buf) + i] = SubSeq(upNet, 1, k)[i]
         /\ buf' \in LineBytes'
         /\ messages' \in Seq(LineBytes')
         /\ NothingLost'
<1> DEFINE S == (1..Len(lines)) \X Nat
           B == Nat \X Nat
<1>0. PICK F : F = FlattenSeq(messages)
  OBVIOUS
<1>1. PICK seen \in Seq(S) : seen = SubSeq(upNet, 1, k) /\ Len(seen) = k
  BY PieceProperties DEF ReadInv, LineBytes
<1>2. PICK rest : rest = upNet' /\ rest \in Seq(S) /\ seen \o rest = upNet
  <2> DEFINE rest == SubSeq(upNet, k + 1, Len(upNet))
  <2>1. upNet' = rest /\ upNet \in Seq(S)
    BY DEF ReadInv, LineBytes, Consume
  <2>2. rest \in Seq(S) /\ SubSeq(upNet, 1, k) \o rest = upNet
    BY <2>1, PieceProperties
  <2> HIDE DEF rest
  <2> QED
    BY <1>1, <2>1, <2>2
<1>3. buf \in Seq(S) /\ messages \in Seq(Seq(S)) /\ S \subseteq B
  <2>1. Len(lines) \in Nat
    BY LenProperties DEF ReadInv
  <2> QED
    BY <2>1 DEF ReadInv, LineBytes
<1> HIDE DEF S
<1>4. PICK piece : piece = buf \o seen
  OBVIOUS
<1>5. /\ piece \in Seq(S) /\ Len(piece) = Len(buf) + k
      /\ \A i \in 1..Len(buf) : piece[i] = buf[i]
      /\ \A i \in 1..k : piece[Len(buf) + i] = seen[i]
  <2>1. /\ piece \in Seq(S) /\ Len(piece) = Len(buf) + k
        /\ \A i \in 1..Len(buf) + k : piece[i] = IF i <= Len(buf) THEN buf[i] ELSE seen[i - Len(buf)]
    BY <1>1, <1>3, <1>4, ConcatProperties
  <2>2. Len(buf) \in Nat
    BY <1>3
  <2>3. ASSUME NEW i \in 1..k
        PROVE  piece[Len(buf) + i] = seen[i]
    <3>1. Len(buf) + i \in 1..Len(buf) + k /\ ~(Len(buf) + i <= Len(buf)) /\ (Len(buf) + i) - Len(buf) = i
      BY <2>2
    <3> QED
      BY <2>1, <3>1
  <2> QED
    BY <2>1, <2>2, <2>3
<1>6. Seq(S) \subseteq Seq(B)
  BY <1>3, SeqMonotonic
<1>7. F \in Seq(B) /\ messages \in Seq(Seq(B)) /\ piece \in Seq(B) /\ buf \in Seq(B) /\ seen \in Seq(B) /\ rest \in Seq(B)
  BY <1>0, <1>1, <1>2, <1>3, <1>5, <1>6, BytesAreFlat
<1> DEFINE m == messages'
           b == buf'
<1>8. b \in Seq(S) /\ m \in Seq(Seq(S)) /\ FlattenSeq(m) \o b = F \o piece
  <2>1. CASE m = Append(messages, piece) /\ b = <<>>
    <3> HIDE DEF m, b
    <3>1. <<>> \in Seq(S) /\ m \in Seq(Seq(S))
      BY <1>3, <1>5, <2>1, EmptySeq, AppendProperties
    <3>2. FlattenSeq(m) = F \o piece
      BY <1>0, <1>7, <2>1, FlattenAppend
    <3>3. F \o piece \in Seq(B)
      BY <1>7, ConcatProperties
    <3> QED
      BY <3>1, <3>2, <3>3, <2>1, ConcatEmptySeq
  <2>2. CASE m = messages /\ b = piece
    BY <2>2, <1>0, <1>3, <1>5
  <2> QED
    BY <1>1, <1>4, <2>1, <2>2
<1>9. (F \o piece) \o rest = (F \o buf) \o upNet
  <2>1. F \in Seq(B) /\ buf \in Seq(B) /\ seen \in Seq(B) /\ rest \in Seq(B)
    BY <1>7
  <2> HIDE DEF B
  <2>2. Joined(F, buf \o seen, rest) = Joined(F, buf, seen \o rest)
    BY <2>1, Regroup
  <2> QED
    BY <1>2, <1>4, <2>2 DEF Joined
<1>10. NothingLost'
  <2>1. Taken \o upNet = Written
    BY DEF ReadInv, NothingLost
  <2>2. Taken' = F \o piece /\ Taken = F \o buf
    BY <1>0, <1>8 DEF Taken
  <2>3. Written' = Written
    BY DEF Written
  <2> QED
    BY <2>1, <2>2, <2>3, <1>2, <1>9 DEF NothingLost
<1>11. LineBytes = Seq(S) /\ LineBytes' = Seq(S)
  BY DEF LineBytes, S
<1> QED
  BY <1>1, <1>2, <1>4, <1>5, <1>8, <1>10, <1>11

LEMMA MessageAdded ==
  ASSUME ReadInv, lines' = lines, overran' = overran, NEW m, messages' = Append(messages, m),
         overran \/ m = <<>>
           \/ /\ \A k \in 1..(Len(m) - 1) : ~IsNewline(m[k])
              /\ IsNewline(m[Len(m)]) \/ Len(m) = BufSize - 1
  PROVE  LinesWhole'
<1> SUFFICES ASSUME ~overran, NEW i \in DOMAIN messages', messages'[i] # <<>>
             PROVE  /\ \A k \in 1..(Len(messages'[i]) - 1) : ~IsNewline(messages'[i][k])
                    /\ IsNewline(Last(messages'[i])) \/ Len(messages'[i]) = BufSize - 1
  BY DEF LinesWhole, IsNewline
<1>1. /\ Len(messages) \in Nat /\ DOMAIN messages = 1..Len(messages)
      /\ DOMAIN messages' = 1..(Len(messages) + 1)
      /\ \A j \in 1..Len(messages) : messages'[j] = messages[j]
      /\ messages'[Len(messages) + 1] = m
  BY DEF ReadInv
<1>2. CASE i = Len(messages) + 1
  BY <1>1, <1>2 DEF Last
<1>3. CASE i # Len(messages) + 1
  BY <1>1, <1>3 DEF ReadInv, LinesWhole
<1> QED
  BY <1>2, <1>3

LEMMA PeekedPiece ==
  ASSUME ReadInv, NEW seen \in Peeked
  PROVE  \E k \in 1..Len(upNet) : /\ seen = SubSeq(upNet, 1, k)
                                  /\ Len(seen) = k
                                  /\ DOMAIN seen = 1..k
                                  /\ Len(buf) + k <= BufSize - 1
<1>1. PICK k \in 1..Len(upNet) : seen = SubSeq(upNet, 1, k) /\ k <= BufSize - 1 - Len(buf)
  BY DEF Peeked
<1>2. upNet \in LineBytes /\ Len(upNet) \in Nat /\ Len(buf) \in Nat /\ BufSize \in Nat
  BY LineAssumption, LenProperties DEF ReadInv, LineBytes
<1>3. seen \in LineBytes /\ Len(seen) = k
  BY <1>1, <1>2, PieceProperties DEF LineBytes
<1>4. DOMAIN seen = 1..k
  BY <1>3 DEF LineBytes
<1> QED
  BY <1>1, <1>2, <1>3, <1>4

LEMMA ReadToNewlineReads == ReadInv /\ ReadToNewline => ReadInv'
<1> SUFFICES ASSUME ReadInv, ReadToNewline PROVE ReadInv'
  OBVIOUS
<1>1. PICK seen \in Peeked : /\ IsNewline(Last(seen))
                             /\ \A k \in 1..(Len(seen) - 1) : ~IsNewline(seen[k])
                             /\ Consume(Len(seen))
                             /\ Received(buf \o seen)
  BY DEF ReadToNewline
<1>2. PICK k \in 1..Len(upNet) : /\ seen = SubSeq(upNet, 1, k) /\ Len(seen) = k
                                 /\ Len(buf) + k <= BufSize - 1
  BY PeekedPiece
<1>3. /\ lines' = lines /\ client' = client /\ overran' = overran /\ server = "readline"
      /\ messages' = Append(messages, buf \o seen) /\ buf' = <<>> /\ server' = "idle"
  BY <1>1 DEF ReadToNewline, Received, clientVars
<1>4. PICK m : m = buf \o seen
  OBVIOUS
<1>5. /\ upNet' \in LineBytes' /\ buf' \in LineBytes' /\ messages' \in Seq(LineBytes') /\ NothingLost'
      /\ Len(m) = Len(buf) + k
      /\ \A i \in 1..Len(buf) : m[i] = buf[i]
      /\ \A i \in 1..k : m[Len(buf) + i] = seen[i]
  <2>1. k \in 0..Len(upNet) /\ Consume(k) /\ server \in {"readline", "readn"} /\ m = buf \o SubSeq(upNet, 1, k)
    BY <1>1, <1>2, <1>3, <1>4
  <2>2. messages' = Append(messages, buf \o SubSeq(upNet, 1, k)) /\ buf' = <<>>
    BY <1>2, <1>3
  <2> QED
    BY <1>2, <1>3, <2>1, <2>2, BytesMove
<1>6. Len(buf) \in Nat /\ BufSize \in Nat \ {0, 1}
  BY LineAssumption DEF ReadInv, LineBytes
<1>7. ASSUME NEW i \in 1..(Len(m) - 1)
      PROVE  ~IsNewline(m[i])
  <2>1. CASE i <= Len(buf)
    <3>1. i \in 1..Len(buf)
      BY <2>1, <1>6
    <3>2. m[i] = buf[i]
      BY <3>1, <1>5
    <3> QED
      BY <3>1, <3>2 DEF ReadInv, NoNewline
  <2>2. CASE ~(i <= Len(buf))
    <3>1. i - Len(buf) \in 1..k /\ i - Len(buf) \in 1..(Len(seen) - 1) /\ Len(buf) + (i - Len(buf)) = i
      BY <2>2, <1>2, <1>5, <1>6
    <3>2. m[i] = seen[i - Len(buf)]
      BY <3>1, <1>5
    <3> QED
      BY <3>1, <3>2, <1>1
  <2> QED
    BY <2>1, <2>2
<1>8. m[Len(m)] = Last(seen)
  BY <1>2, <1>5, <1>6 DEF Last
<1>9. LinesWhole'
  BY <1>1, <1>3, <1>4, <1>7, <1>8, MessageAdded
<1> QED
  BY <1>3, <1>5, <1>6, <1>9 DEF ReadInv, NoNewline

LEMMA ReadPieceReads == ReadInv /\ ReadPiece => ReadInv'
<1> SUFFICES ASSUME ReadInv, ReadPiece PROVE ReadInv'
  OBVIOUS
<1>1. PICK seen \in Peeked : /\ \A k \in DOMAIN seen : ~IsNewline(seen[k])
                             /\ Consume(Len(seen))
                             /\ IF Len(buf \o seen) = BufSize - 1
                                THEN Received(buf \o seen)
                                ELSE buf' = buf \o seen /\ UNCHANGED <<messages, server>>
  BY DEF ReadPiece
<1>2. PICK k \in 1..Len(upNet) : /\ seen = SubSeq(upNet, 1, k) /\ Len(seen) = k /\ DOMAIN seen = 1..k
                                 /\ Len(buf) + k <= BufSize - 1
  BY PeekedPiece
<1>3. lines' = lines /\ client' = client /\ overran' = overran /\ server = "readline"
  BY DEF ReadPiece, clientVars
<1>4. PICK m : m = buf \o seen
  OBVIOUS
<1>5. /\ upNet' \in LineBytes' /\ buf' \in LineBytes' /\ messages' \in Seq(LineBytes') /\ NothingLost'
      /\ Len(m) = Len(buf) + k
      /\ \A i \in 1..Len(buf) : m[i] = buf[i]
      /\ \A i \in 1..k : m[Len(buf) + i] = seen[i]
  <2>1. k \in 0..Len(upNet) /\ Consume(k) /\ server \in {"readline", "readn"} /\ m = buf \o SubSeq(upNet, 1, k)
    BY <1>1, <1>2, <1>3, <1>4
  <2>2. \/ messages' = Append(messages, buf \o SubSeq(upNet, 1, k)) /\ buf' = <<>>
        \/ messages' = messages /\ buf' = buf \o SubSeq(upNet, 1, k)
    BY <1>1, <1>2 DEF Received
  <2> QED
    BY <1>2, <1>3, <2>1, <2>2, BytesMove
<1>6. Len(buf) \in Nat /\ BufSize \in Nat \ {0, 1}
  BY LineAssumption DEF ReadInv, LineBytes
<1>7. \A i \in 1..Len(m) : ~IsNewline(m[i])
  <2> TAKE i \in 1..Len(m)
  <2>1. CASE i <= Len(buf)
    <3>1. i \in 1..Len(buf)
      BY <2>1, <1>6
    <3>2. m[i] = buf[i]
      BY <3>1, <1>5
    <3> QED
      BY <3>1, <3>2 DEF ReadInv, NoNewline
  <2>2. CASE ~(i <= Len(buf))
    <3>1. i - Len(buf) \in 1..k /\ Len(buf) + (i - Len(buf)) = i
      BY <2>2, <1>2, <1>5, <1>6
    <3>2. m[i] = seen[i - Len(buf)]
      BY <3>1, <1>5
    <3> QED
      BY <3>1, <3>2, <1>1, <1>2
  <2> QED
    BY <2>1, <2>2
<1>8. CASE Len(m) = BufSize - 1
  <2>1. messages' = Append(messages, m) /\ buf' = <<>> /\ server' = "idle"
    BY <1>1, <1>4, <1>8 DEF Received
  <2>2. LinesWhole'
    <3>1. \A i \in 1..(Len(m) - 1) : ~IsNewline(m[i])
      BY <1>5, <1>6, <1>7
    <3> QED
      BY <1>3, <1>8, <2>1, <3>1, MessageAdded
  <2> QED
    BY <1>3, <1>5, <1>6, <2>1, <2>2 DEF ReadInv, NoNewline
<1>9. CASE Len(m) # BufSize - 1
  <2>1. messages' = messages /\ buf' = m /\ server' = server
    BY <1>1, <1>4, <1>9
  <2>2. LinesWhole'
    BY <1>3, <2>1 DEF ReadInv, LinesWhole, IsNewline
  <2>3. Len(m) < BufSize - 1 /\ Len(m) # 0 /\ m # <<>>
    <3>1. Len(m) = Len(buf) + k /\ Len(buf) + k <= BufSize - 1 /\ k \in Nat \ {0}
      BY <1>2, <1>5
    <3>2. Len(m) < BufSize - 1 /\ Len(m) # 0
      BY <3>1, <1>6, <1>9
    <3> QED
      BY <3>2
  <2>4. NoNewline(buf)'
    BY <1>3, <1>7, <2>1 DEF NoNewline, IsNewline
  <2> QED
    BY <1>3, <1>5, <2>1, <2>2, <2>3, <2>4 DEF ReadInv
<1> QED
  BY <1>8, <1>9

LEMMA ReadBehindReads == ReadInv /\ ReadBehind => ReadInv'
<1> SUFFICES ASSUME ReadInv, ReadBehind PROVE ReadInv'
  OBVIOUS
<1>1. lines' = lines /\ client' = client /\ overran' = overran /\ overran /\ server = "readn"
  BY DEF ReadBehind, ReadInv, clientVars
<1>2. CASE \E k \in 0..Len(upNet) : Consume(k) /\ Received(buf \o SubSeq(upNet, 1, k))
  <2>1. PICK k \in 0..Len(upNet) : Consume(k) /\ Received(buf \o SubSeq(upNet, 1, k))
    BY <1>2
  <2>2. messages' = Append(messages, buf \o SubSeq(upNet, 1, k)) /\ buf' = <<>> /\ server' = "idle"
    BY <2>1 DEF Received
  <2>3. upNet' \in LineBytes' /\ buf' \in LineBytes' /\ messages' \in Seq(LineBytes') /\ NothingLost'
    BY <1>1, <2>1, <2>2, BytesMove
  <2>4. LinesWhole'
    BY <1>1, <2>2, MessageAdded
  <2>5. Len(buf') < BufSize - 1 /\ NoNewline(buf)'
    BY <2>2, LineAssumption DEF NoNewline
  <2> QED
    BY <1>1, <2>2, <2>3, <2>4, <2>5 DEF ReadInv
<1>3. CASE server' = "crashed" /\ UNCHANGED <<buf, upNet, messages>>
  BY <1>1, <1>3, ReadUnchanged DEF ReadInv, readVars
<1> QED
  BY <1>2, <1>3 DEF ReadBehind

LEMMA WriteLineReads == ReadInv /\ WriteLine => ReadInv'
<1> SUFFICES ASSUME ReadInv, WriteLine PROVE ReadInv'
  OBVIOUS
<1> DEFINE n == Len(lines)
<1>1. PICK len \in LineLens, ended \in BOOLEAN :
        /\ lines' = Append(lines, [len |-> len, ended |-> ended])
        /\ upNet' = upNet \o Bytes(n + 1, len)
  BY DEF WriteLine
<1>2. client = "typing" /\ client' = "length" /\ UNCHANGED <<buf, messages, overran, server>>
  BY DEF WriteLine, readVars
<1>3. len \in Nat
  BY LineAssumption
<1>4. lines \in Seq([len : Nat, ended : BOOLEAN])
  BY DEF ReadInv
<1>5. /\ lines' \in Seq([len : Nat, ended : BOOLEAN])
      /\ Written \in Seq(Nat \X Nat)
      /\ Written' = Written \o Bytes(n + 1, len)
      /\ Bytes(n + 1, len) \in Seq((1..Len(lines)') \X Nat)
      /\ LineBytes \subseteq LineBytes'
      /\ \A b \in (1..n) \X Nat : IsNewline(b)' <=> IsNewline(b)
  BY <1>1, <1>3, <1>4, WrittenGrows
<1>6. PICK new : new = Bytes(n + 1, len)
  OBVIOUS
<1>7. upNet' \in LineBytes' /\ buf' \in LineBytes' /\ messages' \in Seq(LineBytes')
  <2>1. upNet \in LineBytes' /\ new \in LineBytes'
    BY <1>5, <1>6 DEF ReadInv, LineBytes
  <2>2. upNet' \in LineBytes'
    <3> DEFINE S == (1..Len(lines)') \X Nat
    <3>1. upNet \in Seq(S) /\ new \in Seq(S)
      BY <2>1 DEF LineBytes
    <3> HIDE DEF S
    <3>2. upNet \o new \in Seq(S)
      BY <3>1, ConcatProperties
    <3> QED
      BY <3>2, <1>1, <1>6 DEF LineBytes, S
  <2>3. messages \in Seq(LineBytes')
    BY <1>5, SeqMonotonic DEF ReadInv
  <2> QED
    BY <1>2, <1>5, <2>2, <2>3 DEF ReadInv
<1>8. NothingLost'
  <2>1. Taken \o upNet = Written
    BY <1>2 DEF ReadInv, NothingLost
  <2>2. Taken' = Taken
    BY <1>2 DEF Taken
  <2>3. Taken \in Seq(Nat \X Nat) /\ upNet \in Seq(Nat \X Nat) /\ new \in Seq(Nat \X Nat)
    <3>1. Bytes(n + 1, len) \in Seq(Nat \X Nat)
      BY <1>3, <1>4, LenProperties DEF Bytes
    <3> QED
      BY <3>1, <1>6, BytesAreFlat DEF ReadInv
  <2>4. (Taken \o upNet) \o new = Taken \o (upNet \o new)
    <3>1. PICK S : S = Nat \X Nat
      OBVIOUS
    <3>2. Taken \in Seq(S) /\ upNet \in Seq(S) /\ new \in Seq(S)
      BY <2>3, <3>1
    <3>3. \A r, s, t \in Seq(S) : (r \o s) \o t = r \o (s \o t)
      BY ConcatAssociative
    <3> QED
      BY <3>2, <3>3, Zenon
  <2> QED
    BY <1>1, <1>5, <1>6, <2>1, <2>2, <2>4 DEF NothingLost
<1>9. \A s \in LineBytes : \A k \in 1..Len(s) : IsNewline(s[k])' <=> IsNewline(s[k])
  <2>1. \A s \in LineBytes : \A k \in 1..Len(s) : s[k] \in (1..n) \X Nat
    BY ElementOfSeq DEF LineBytes
  <2> QED
    BY <2>1, <1>5
<1>10. NoNewline(buf)'
  BY <1>2, <1>9 DEF ReadInv, NoNewline
<1>11. LinesWhole'
  <2> SUFFICES ASSUME ~overran, NEW i \in DOMAIN messages, messages[i] # <<>>
               PROVE  /\ \A k \in 1..(Len(messages[i]) - 1) : ~IsNewline(messages[i][k])'
                      /\ IsNewline(Last(messages[i]))' \/ Len(messages[i]) = BufSize - 1
    BY <1>2 DEF LinesWhole
  <2>1. PICK m \in LineBytes : m = messages[i] /\ Len(m) \in Nat \ {0}
    <3>1. messages[i] \in LineBytes
      BY ElementOfSeq, LenProperties DEF ReadInv
    <3> QED
      BY <3>1, EmptySeq DEF LineBytes
  <2>2. /\ \A k \in 1..(Len(m) - 1) : ~IsNewline(m[k])
        /\ IsNewline(m[Len(m)]) \/ Len(m) = BufSize - 1
    BY <2>1 DEF ReadInv, LinesWhole, Last
  <2>3. \A k \in 1..Len(m) : IsNewline(m[k])' <=> IsNewline(m[k])
    BY <1>9
  <2> QED
    BY <1>2, <2>1, <2>2, <2>3 DEF Last
<1>12. Len(buf') < BufSize - 1 /\ client' \in {"greeting", "typing", "length", "data", "gone"}
  BY <1>2 DEF ReadInv
<1>13. server' = "readline" => buf' # <<>> \/ upNet' # <<>>
  <2>1. upNet # <<>> => upNet' # <<>>
    <3>1. upNet \in Seq(Nat \X Nat) /\ new \in Seq(Nat \X Nat)
      <4>1. Bytes(n + 1, len) \in Seq(Nat \X Nat)
        BY <1>3, <1>4, LenProperties DEF Bytes
      <4> QED
        BY <4>1, <1>6, BytesAreFlat DEF ReadInv
    <3> QED
      BY <1>1, <1>6, <3>1, ConcatEqualIffEmpty
  <2> QED
    BY <1>2, <2>1 DEF ReadInv
<1> QED
  BY <1>2, <1>5, <1>7, <1>8, <1>10, <1>11, <1>12, <1>13 DEF ReadInv

LEMMA ReadEofReads == ReadInv /\ ReadEof => ReadInv'
<1> SUFFICES ASSUME ReadInv, ReadEof PROVE ReadInv'
  OBVIOUS
<1>1. /\ client = "gone" /\ client' = client /\ lines' = lines /\ overran' = overran
      /\ upNet = <<>> /\ upNet' = upNet
      /\ messages' = Append(messages, <<>>) /\ buf' = <<>> /\ server = "readline" /\ server' = "idle"
  BY DEF ReadEof, Eof, Received, clientVars, netVars
<1>2. PICK F \in Seq(Nat \X Nat) : F = FlattenSeq(messages)
  BY BytesAreFlat
<1>3. buf \in Seq(Nat \X Nat) /\ Taken = F \o buf /\ Written' = Written
  BY <1>1, <1>2, BytesAreFlat DEF ReadInv, Taken, Written
<1>4. Written = F \o buf
  <2>1. Taken \o upNet = Written
    BY <1>1 DEF ReadInv, NothingLost
  <2>2. Taken \o <<>> = Taken
    BY BytesAreFlat, ConcatEmptySeq
  <2> QED
    BY <1>1, <1>3, <2>1, <2>2
<1>5. Taken' = F
  <2>1. <<>> \in Seq(Nat \X Nat)
    BY EmptySeq
  <2>2. FlattenSeq(Append(messages, <<>>)) = F \o <<>>
    BY <1>2, <2>1, BytesAreFlat, FlattenAppend
  <2>3. F \o <<>> = F
    BY ConcatEmptySeq
  <2> QED
    BY <1>1, <2>2, <2>3 DEF Taken
<1>6. NothingLost'
  BY <1>1, <1>3, <1>4, <1>5, PrefixOfConcat DEF NothingLost
<1>7. LinesWhole'
  BY <1>1, MessageAdded
<1>8. messages' \in Seq(LineBytes') /\ buf' \in LineBytes' /\ upNet' \in LineBytes'
  <2>1. <<>> \in LineBytes
    BY EmptySeq DEF LineBytes
  <2>2. Append(messages, <<>>) \in Seq(LineBytes)
    BY <2>1, AppendProperties DEF ReadInv
  <2> QED
    BY <1>1, <2>1, <2>2 DEF LineBytes
<1>9. Len(buf') < BufSize - 1 /\ NoNewline(buf)'
  BY <1>1, LineAssumption DEF NoNewline
<1> QED
  BY <1>1, <1>6, <1>7, <1>8, <1>9 DEF ReadInv

LEMMA ReadStep == ReadInv /\ [Next]_vars => ReadInv'
<1> SUFFICES ASSUME ReadInv, [Next]_vars PROVE ReadInv'
  OBVIOUS
<1>1. CASE ReadGreeting
  BY <1>1, ReadUnchanged DEF ReadGreeting, ReadInv
<1>2. CASE ReadLength
  BY <1>2, ReadUnchanged DEF ReadLength, ReadInv
<1>3. CASE ReadData
  BY <1>3, ReadUnchanged DEF ReadData, ReadInv
<1>4. CASE ReadDataFails
  BY <1>4, ReadUnchanged DEF ReadDataFails, ReadInv, netVars
<1>5. CASE WriteLine
  BY <1>5, WriteLineReads
<1>6. CASE HangUp
  BY <1>6, ReadUnchanged DEF HangUp, ReadInv
<1>7. CASE Readable
  <2>1. /\ lines' = lines /\ client' = client /\ messages' = messages /\ buf' = buf
        /\ overran' = overran /\ upNet' = upNet /\ upNet # <<>> /\ server = "idle" /\ server' = "readline"
    BY <1>7 DEF Readable, clientVars, readVars, netVars
  <2>2. NothingLost' /\ LinesWhole'
    BY <2>1 DEF ReadInv, NothingLost, Taken, Written, LinesWhole, IsNewline
  <2> QED
    BY <2>1, <2>2 DEF ReadInv, LineBytes, NoNewline, IsNewline
<1>8. CASE PeerClosed
  BY <1>8, ReadUnchanged DEF PeerClosed, ReadInv, netVars, clientVars
<1>9. CASE ReadToNewline
  BY <1>9, ReadToNewlineReads
<1>10. CASE ReadPiece
  BY <1>10, ReadPieceReads
<1>11. CASE ReadEof
  BY <1>11, ReadEofReads
<1>12. CASE PeekFails
  <2>1. /\ lines' = lines /\ client' = client /\ messages' = messages /\ buf' = buf
        /\ overran' /\ upNet' = upNet /\ server = "readline" /\ server' \in {"readn", "crashed"}
        /\ overran' \in BOOLEAN
    BY <1>12 DEF PeekFails, clientVars, netVars
  <2>2. NothingLost' /\ LinesWhole'
    BY <2>1 DEF ReadInv, NothingLost, Taken, Written, LinesWhole
  <2> QED
    BY <2>1, <2>2 DEF ReadInv, LineBytes, NoNewline, IsNewline
<1>13. CASE ReadBehind
  BY <1>13, ReadBehindReads
<1>14. CASE Send
  BY <1>14, ReadUnchanged DEF Send, ReadInv, netVars, clientVars
<1>15. CASE WriteToGone
  BY <1>15, ReadUnchanged DEF WriteToGone, ReadInv, netVars, clientVars
<1>16. CASE WriteSome
  BY <1>16, ReadUnchanged DEF WriteSome, ReadInv, clientVars
<1>17. CASE WriteFails
  BY <1>17, ReadUnchanged DEF WriteFails, ReadInv, netVars, clientVars
<1>18. CASE UNCHANGED vars
  BY <1>18, ReadUnchanged DEF vars, ReadInv, netVars, clientVars
<1> QED
  BY <1>1, <1>2, <1>3, <1>4, <1>5, <1>6, <1>7, <1>8, <1>9, <1>10, <1>11, <1>12, <1>13, <1>14,
     <1>15, <1>16, <1>17, <1>18 DEF Next, Client, Reading, Writing
-----------------------------------------------------------------------------
(* Writing. *)

\* What the kernels have accepted of the answers, but for what the client lost.
Stream == got \o sendBuf

\* Bytes of the answers up to n, in order and without a gap within an answer.
InOrder(s, n) ==
  /\ \A i \in 1..Len(s) :
       /\ s[i] \in (0..n) \X (1..AnswerLen)
       /\ s[i][2] # 1 => i # 1 /\ s[i - 1] = <<s[i][1], s[i][2] - 1>>
  /\ \A i, j \in 1..Len(s) : i < j =>
       \/ s[i][1] < s[j][1]
       \/ s[i][1] = s[j][1] /\ s[i][2] < s[j][2]

\* The first a bytes of answer n are the last of s.
Begun(s, n, a) ==
  IF a = 0
  THEN \A i \in 1..Len(s) : s[i][1] < n
  ELSE Len(s) # 0 /\ s[Len(s)] = <<n, a>>

Complete(s, n) == \E i \in 1..Len(s) : s[i] = <<n, AnswerLen>>

WriteInv ==
  /\ client \in {"greeting", "typing", "length", "data", "gone"}
  /\ got \in ByteSeq /\ sendBuf \in ByteSeq /\ header \in ByteSeq
  /\ Len(sendBuf) <= SendSpace
  /\ answered \in Nat
  /\ client = "gone" => got = <<>> /\ sendBuf = <<>>
  /\ InOrder(Stream, answered)
  /\ server = "writen" /\ client # "gone" =>
       \E a \in 0..AnswerLen - 1 : /\ unsent = SubSeq(AnswerBytes(answered), a + 1, AnswerLen)
                                   /\ Begun(Stream, answered, a)
  /\ \A n \in 0..answered :
       n \notin cut /\ (n # answered \/ server # "writen") /\ client # "gone" => Complete(Stream, n)

LEMMA InOrderGrows ==
  ASSUME NEW n \in Nat, NEW s \in ByteSeq, InOrder(s, n),
         NEW a \in 0..AnswerLen - 1, Begun(s, n, a),
         NEW k \in 1..AnswerLen - a, NEW p \in ByteSeq, Len(p) = k,
         \A i \in 1..k : p[i] = <<n, a + i>>
  PROVE  InOrder(s \o p, n) /\ Begun(s \o p, n, a + k)
<1>1. /\ Len(s) \in Nat /\ k \in Nat /\ a \in Nat /\ AnswerLen \in Nat
      /\ a + k <= AnswerLen
  BY LineAssumption DEF ByteSeq
<1>2. PICK t : t = s \o p
  OBVIOUS
<1>3. /\ Len(t) = Len(s) + k
      /\ \A i \in 1..Len(t) : t[i] = IF i <= Len(s) THEN s[i] ELSE p[i - Len(s)]
  <2>1. PICK S : s \in Seq(S) /\ p \in Seq(S)
    BY DEF ByteSeq
  <2>2. /\ Len(s \o p) = Len(s) + Len(p)
        /\ \A i \in 1..Len(s) + Len(p) : (s \o p)[i] = IF i <= Len(s) THEN s[i] ELSE p[i - Len(s)]
    BY <2>1, ConcatProperties
  <2> QED
    BY <1>2, <2>2
<1>4. \A i \in 1..Len(s) : i \in 1..Len(t) /\ t[i] = s[i] /\ s[i] \in (0..n) \X (1..AnswerLen)
  BY <1>1, <1>3 DEF InOrder
<1>5. ASSUME NEW i \in 1..Len(t), ~(i <= Len(s))
      PROVE  /\ t[i] = <<n, a + (i - Len(s))>>
             /\ i - Len(s) \in 1..k
  <2>1. i - Len(s) \in 1..k
    BY <1>1, <1>3, <1>5
  <2> QED
    BY <2>1, <1>3, <1>5
<1>6. ASSUME NEW i \in 1..Len(t)
      PROVE  /\ t[i] \in (0..n) \X (1..AnswerLen)
             /\ t[i][2] # 1 => i # 1 /\ t[i - 1] = <<t[i][1], t[i][2] - 1>>
  <2>1. CASE i <= Len(s)
    <3>1. i \in 1..Len(s) /\ (i # 1 => i - 1 \in 1..Len(s))
      BY <2>1, <1>1
    <3>2. t[i] = s[i] /\ (i # 1 => t[i - 1] = s[i - 1])
      BY <3>1, <1>4
    <3> QED
      BY <3>1, <3>2 DEF InOrder
  <2>2. CASE ~(i <= Len(s))
    <3>1. PICK d \in 1..k : d = i - Len(s)
      BY <1>5, <2>2
    <3>2. t[i] = <<n, a + d>> /\ a + d \in 1..AnswerLen
      BY <1>1, <1>5, <2>2, <3>1
    <3>3. t[i] \in (0..n) \X (1..AnswerLen) /\ t[i][1] = n /\ t[i][2] = a + d
      BY <3>2
    <3>4. CASE d = 1
      <4>1. a + d # 1 => a # 0 /\ (a + d) - 1 = a
        BY <1>1, <3>4
      <4>2. a # 0 => Len(s) # 0 /\ s[Len(s)] = <<n, a>>
        BY DEF Begun
      <4>3. i - 1 = Len(s)
        BY <1>1, <3>1, <3>4
      <4>4. Len(s) # 0 => t[Len(s)] = s[Len(s)] /\ i # 1
        BY <1>1, <1>4, <4>3
      <4> QED
        BY <3>3, <4>1, <4>2, <4>3, <4>4
    <3>5. CASE d # 1
      <4>1. i - 1 \in 1..Len(t) /\ ~(i - 1 <= Len(s)) /\ (i - 1) - Len(s) = d - 1 /\ i # 1
        BY <1>1, <3>1, <3>5
      <4>2. t[i - 1] = <<n, a + (d - 1)>>
        BY <1>5, <4>1
      <4>3. a + (d - 1) = (a + d) - 1
        BY <1>1, <3>1
      <4> QED
        BY <3>3, <4>1, <4>2, <4>3
    <3> QED
      BY <3>4, <3>5
  <2> QED
    BY <2>1, <2>2
<1>7. ASSUME NEW i \in 1..Len(t), NEW j \in 1..Len(t), i < j
      PROVE  \/ t[i][1] < t[j][1]
             \/ t[i][1] = t[j][1] /\ t[i][2] < t[j][2]
  <2>1. CASE j <= Len(s)
    <3>1. i \in 1..Len(s) /\ j \in 1..Len(s)
      BY <1>1, <1>7, <2>1
    <3>2. t[i] = s[i] /\ t[j] = s[j]
      BY <3>1, <1>4
    <3> QED
      BY <3>1, <3>2, <1>7 DEF InOrder
  <2>2. CASE ~(j <= Len(s))
    <3>1. PICK d \in 1..k : d = j - Len(s)
      BY <1>5, <2>2
    <3>2. t[j] = <<n, a + d>>
      BY <1>5, <2>2, <3>1
    <3>3. CASE ~(i <= Len(s))
      <4>1. t[i] = <<n, a + (i - Len(s))>>
        BY <1>5, <3>3
      <4>2. a + (i - Len(s)) < a + d
        BY <1>1, <1>7, <3>1
      <4> QED
        BY <3>2, <4>1, <4>2
    <3>4. CASE i <= Len(s)
      <4>1. i \in 1..Len(s) /\ t[i] = s[i] /\ s[i] \in (0..n) \X (1..AnswerLen)
        BY <1>1, <1>4, <3>4
      <4>2. CASE a = 0
        <5>1. s[i][1] < n
          BY <4>1, <4>2 DEF Begun
        <5> QED
          BY <5>1, <3>2, <4>1
      <4>3. CASE a # 0
        <5>1. Len(s) \in 1..Len(s) /\ s[Len(s)] = <<n, a>>
          BY <1>1, <4>3 DEF Begun
        <5>2. i < Len(s) => s[i][1] < n \/ (s[i][1] = n /\ s[i][2] < a)
          <6>1. PICK l \in 1..Len(s) : l = Len(s) /\ s[l] = <<n, a>>
            BY <5>1
          <6>2. i < l => s[i][1] < s[l][1] \/ (s[i][1] = s[l][1] /\ s[i][2] < s[l][2])
            BY <4>1 DEF InOrder
          <6>3. s[l][1] = n /\ s[l][2] = a
            BY <6>1
          <6> QED
            BY <6>1, <6>2, <6>3
        <5>3. s[i][1] < n \/ (s[i][1] = n /\ s[i][2] <= a)
          BY <1>1, <4>1, <5>1, <5>2
        <5>4. a < a + d
          BY <1>1, <3>1
        <5> QED
          BY <1>1, <3>1, <3>2, <4>1, <5>3, <5>4
      <4> QED
        BY <4>2, <4>3
    <3> QED
      BY <3>3, <3>4
  <2> QED
    BY <2>1, <2>2
<1>8. Begun(t, n, a + k)
  <2>1. Len(t) \in 1..Len(t) /\ ~(Len(t) <= Len(s)) /\ Len(t) - Len(s) = k /\ Len(t) # 0 /\ a + k # 0
    BY <1>1, <1>3
  <2> QED
    BY <1>5, <2>1 DEF Begun
<1> QED
  BY <1>2, <1>6, <1>7, <1>8 DEF InOrder

LEMMA CompleteGrows ==
  ASSUME NEW s \in ByteSeq, NEW p \in ByteSeq, NEW n, Complete(s, n)
  PROVE  Complete(s \o p, n)
<1>1. PICK i \in 1..Len(s) : s[i] = <<n, AnswerLen>>
  BY DEF Complete
<1>2. PICK S : s \in Seq(S) /\ p \in Seq(S)
  BY DEF ByteSeq
<1>3. /\ Len(s \o p) = Len(s) + Len(p)
      /\ \A j \in 1..Len(s) + Len(p) : (s \o p)[j] = IF j <= Len(s) THEN s[j] ELSE p[j - Len(s)]
  BY <1>2, ConcatProperties
<1>4. i \in 1..Len(s) + Len(p) /\ i <= Len(s)
  BY <1>2, LenProperties
<1> QED
  BY <1>1, <1>3, <1>4 DEF Complete

LEMMA StreamType ==
  ASSUME WriteInv
  PROVE  /\ Stream \in ByteSeq
         /\ Len(Stream) \in Nat
         /\ DOMAIN Stream = 1..Len(Stream)
<1>1. PICK S : got \in Seq(S) /\ sendBuf \in Seq(S) /\ ByteSeq = Seq(S)
  BY DEF WriteInv, ByteSeq
<1>2. got \o sendBuf \in Seq(S)
  BY <1>1, ConcatProperties
<1> QED
  BY <1>1, <1>2, LenProperties DEF Stream

LEMMA WriteInit == Init => WriteInv
<1> SUFFICES ASSUME Init PROVE WriteInv
  OBVIOUS
<1>1. /\ client = "greeting" /\ got = <<>> /\ sendBuf = <<>> /\ header = <<>> /\ answered = 0
      /\ server = "writen" /\ unsent = AnswerBytes(0)
  BY DEF Init
<1>2. Stream = <<>>
  BY <1>1 DEF Stream
<1>3. InOrder(Stream, answered) /\ Begun(Stream, answered, 0)
  BY <1>2 DEF InOrder, Begun
<1>4. unsent = SubSeq(AnswerBytes(answered), 0 + 1, AnswerLen) /\ 0 \in 0..AnswerLen - 1
  BY <1>1, LineAssumption DEF AnswerBytes, Bytes
<1>5. <<>> \in ByteSeq /\ Len(sendBuf) <= SendSpace
  BY <1>1, EmptySeq, LineAssumption DEF ByteSeq
<1> QED
  BY <1>1, <1>3, <1>4, <1>5 DEF WriteInv

\* Nothing that concerns the answers happens, except that the server goes on
\* with something else than writing, or the client reads what has arrived.
LEMMA WriteUnchanged ==
  ASSUME WriteInv, UNCHANGED <<answered, cut>>, Stream' = Stream,
         got' \in ByteSeq, sendBuf' \in ByteSeq, header' \in ByteSeq, Len(sendBuf') <= SendSpace,
         client' \in {"greeting", "typing", "length", "data"} => client # "gone",
         client' = "gone" => client = "gone" /\ UNCHANGED <<got, sendBuf>>,
         client' \in {"greeting", "typing", "length", "data", "gone"},
         \/ server' = server /\ unsent' = unsent
         \/ server # "writen" /\ server' # "writen"
  PROVE  WriteInv'
<1>1. answered' = answered /\ cut' = cut
  OBVIOUS
<1>2. InOrder(Stream, answered)' <=> InOrder(Stream, answered)
  BY <1>1 DEF InOrder
<1>3. \A n : Complete(Stream, n)' <=> Complete(Stream, n)
  BY DEF Complete
<1>4. \A a : Begun(Stream, answered, a)' <=> Begun(Stream, answered, a)
  BY <1>1 DEF Begun
<1>5. AnswerBytes(answered)' = AnswerBytes(answered)
  BY <1>1 DEF AnswerBytes, Bytes
<1> HIDE DEF Stream
<1>6. server' = "writen" /\ client' # "gone" =>
       \E a \in 0..AnswerLen - 1 : /\ unsent' = SubSeq(AnswerBytes(answered)', a + 1, AnswerLen)
                                   /\ Begun(Stream, answered, a)'
  BY <1>4, <1>5 DEF WriteInv
<1>7. \A n \in 0..answered' :
       n \notin cut' /\ (n # answered' \/ server' # "writen") /\ client' # "gone" => Complete(Stream, n)'
  BY <1>1, <1>3 DEF WriteInv
<1>8. client' = "gone" => got' = <<>> /\ sendBuf' = <<>>
  BY DEF WriteInv
<1> QED
  BY <1>1, <1>2, <1>6, <1>7, <1>8 DEF WriteInv

LEMMA ClientReads ==
  ASSUME WriteInv, NEW n \in Nat, ClientRead(n)
  PROVE  /\ got' \in ByteSeq /\ sendBuf' \in ByteSeq /\ Len(sendBuf') <= SendSpace
         /\ Stream' = Stream
         /\ SubSeq(got', Len(got) + 1, Len(got')) \in ByteSeq
<1>1. PICK k \in 1..n : /\ k <= Len(sendBuf)
                        /\ got' = got \o SubSeq(sendBuf, 1, k)
                        /\ sendBuf' = SubSeq(sendBuf, k + 1, Len(sendBuf))
  BY DEF ClientRead
<1>2. PICK S : got \in Seq(S) /\ sendBuf \in Seq(S) /\ ByteSeq = Seq(S)
  BY DEF WriteInv, ByteSeq
<1>3. k \in 0..Len(sendBuf) /\ Len(got) \in Nat /\ Len(sendBuf) \in Nat
  BY <1>1, <1>2, LenProperties
<1>4. PICK a, b : a = SubSeq(sendBuf, 1, k) /\ b = SubSeq(sendBuf, k + 1, Len(sendBuf))
  OBVIOUS
<1>5. a \in Seq(S) /\ Len(a) = k /\ b \in Seq(S) /\ Len(b) = Len(sendBuf) - k /\ a \o b = sendBuf
  BY <1>2, <1>3, <1>4, PieceProperties
<1>6. PICK g : g = got \o a
  OBVIOUS
<1>7. g \in Seq(S) /\ Len(g) = Len(got) + k
  BY <1>2, <1>5, <1>6, ConcatProperties
<1>8. g \o b = got \o sendBuf
  <2>1. \A r, s, t \in Seq(S) : (r \o s) \o t = r \o (s \o t)
    BY ConcatAssociative
  <2> QED
    BY <1>2, <1>5, <1>6, <2>1, Zenon
<1>9. SubSeq(g, Len(got) + 1, Len(g)) \in Seq(S)
  BY <1>3, <1>7, PieceProperties
<1>10. got' = g /\ sendBuf' = b
  BY <1>1, <1>4, <1>6
<1>11. Len(b) <= SendSpace
  BY <1>3, <1>5, LineAssumption DEF WriteInv
<1> QED
  BY <1>2, <1>5, <1>7, <1>8, <1>9, <1>10, <1>11 DEF Stream

\* t is s without its first k elements.
TailOf(s, k, t) == Len(t) = Len(s) - k /\ \A i \in 1..Len(s) - k : t[i] = s[k + i]

LEMMA TailIs ==
  ASSUME NEW S, NEW s \in Seq(S), NEW k \in 0..Len(s)
  PROVE  SubSeq(s, k + 1, Len(s)) \in Seq(S) /\ TailOf(s, k, SubSeq(s, k + 1, Len(s)))
BY PieceProperties DEF TailOf

LEMMA AnswerTail ==
  ASSUME NEW n \in Nat, NEW a \in 0..AnswerLen, NEW t, t = SubSeq(AnswerBytes(n), a + 1, AnswerLen)
  PROVE  /\ t \in ByteSeq /\ Len(t) = AnswerLen - a
         /\ \A i \in 1..AnswerLen - a : t[i] = <<n, a + i>>
         /\ \A k \in 0..AnswerLen - a :
              SubSeq(t, k + 1, AnswerLen - a) = SubSeq(AnswerBytes(n), (a + k) + 1, AnswerLen)
<1> DEFINE w == AnswerBytes(n)
<1>1. AnswerLen \in Nat /\ a \in Nat
  BY LineAssumption
<1>2. w \in ByteSeq /\ Len(w) = AnswerLen /\ \A i \in 1..AnswerLen : w[i] = <<n, i>>
  BY <1>1 DEF AnswerBytes, Bytes, ByteSeq
<1> HIDE DEF w
<1>3. PICK S : ByteSeq = Seq(S)
  BY DEF ByteSeq
<1>4. t \in Seq(S) /\ Len(t) = AnswerLen - a /\ \A i \in 1..AnswerLen - a : t[i] = w[a + i]
  BY <1>1, <1>2, <1>3, PieceProperties DEF w
<1>5. \A i \in 1..AnswerLen - a : t[i] = <<n, a + i>>
  BY <1>1, <1>2, <1>4
<1>6. ASSUME NEW k \in 0..AnswerLen - a
      PROVE  SubSeq(t, k + 1, AnswerLen - a) = SubSeq(w, (a + k) + 1, AnswerLen)
  <2>1. PICK u : u = SubSeq(t, k + 1, AnswerLen - a)
    OBVIOUS
  <2>2. u \in Seq(S) /\ Len(u) = (AnswerLen - a) - k /\ \A i \in 1..(AnswerLen - a) - k : u[i] = t[k + i]
    <3>1. PICK m : m = Len(t) /\ m = AnswerLen - a
      BY <1>4
    <3>2. t \in Seq(S) /\ k \in 0..Len(t) /\ u = SubSeq(t, k + 1, Len(t))
      BY <1>4, <2>1
    <3>3. u \in Seq(S) /\ TailOf(t, k, u)
      <4>1. SubSeq(t, k + 1, Len(t)) \in Seq(S) /\ TailOf(t, k, SubSeq(t, k + 1, Len(t)))
        BY <3>2, TailIs
      <4> QED
        BY <3>2, <4>1, Zenon
    <3> QED
      BY <3>1, <3>3 DEF TailOf
  <2>3. PICK v : v = SubSeq(w, (a + k) + 1, AnswerLen)
    OBVIOUS
  <2>4. a + k \in 0..Len(w)
    BY <1>1, <1>2
  <2>5. v \in Seq(S) /\ Len(v) = AnswerLen - (a + k) /\ \A i \in 1..AnswerLen - (a + k) : v[i] = w[(a + k) + i]
    BY <1>2, <1>3, <2>3, <2>4, PieceProperties
  <2>6. Len(u) = Len(v)
    BY <1>1, <2>2, <2>5
  <2>7. ASSUME NEW i \in 1..Len(u)
        PROVE  u[i] = v[i]
    <3>1. i \in 1..(AnswerLen - a) - k /\ i \in 1..AnswerLen - (a + k) /\ k + i \in 1..AnswerLen - a /\ a + (k + i) = (a + k) + i
      BY <1>1, <2>2
    <3>2. u[i] = t[k + i] /\ v[i] = w[(a + k) + i] /\ t[k + i] = w[a + (k + i)]
      BY <3>1, <2>2, <2>5, <1>4
    <3> QED
      BY <3>1, <3>2
  <2>8. u = v
    BY <2>2, <2>5, <2>6, <2>7, SeqEqual
  <2> QED
    BY <2>1, <2>3, <2>8
<1> QED
  BY <1>3, <1>4, <1>5, <1>6 DEF w

LEMMA WriteSomeWrites == WriteInv /\ WriteSome => WriteInv'
<1> SUFFICES ASSUME WriteInv, WriteSome PROVE WriteInv'
  OBVIOUS
<1> DEFINE k == Writable
           n == answered
<1>1. /\ server = "writen" /\ client # "gone" /\ k # 0
      /\ sendBuf' = sendBuf \o SubSeq(unsent, 1, k)
      /\ unsent' = SubSeq(unsent, k + 1, Len(unsent))
      /\ server' = IF unsent' = <<>> THEN "idle" ELSE "writen"
      /\ client' = client /\ got' = got /\ header' = header /\ answered' = answered /\ cut' = cut
  BY DEF WriteSome, clientVars
<1>2. PICK a \in 0..AnswerLen - 1 : unsent = SubSeq(AnswerBytes(n), a + 1, AnswerLen) /\ Begun(Stream, n, a)
  BY <1>1 DEF WriteInv
<1>3. AnswerLen \in Nat /\ SendSpace \in Nat /\ n \in Nat /\ a \in 0..AnswerLen /\ a \in Nat
  BY LineAssumption DEF WriteInv
<1>4. PICK t : t = unsent
  OBVIOUS
<1>5. /\ t \in ByteSeq /\ Len(t) = AnswerLen - a
      /\ \A i \in 1..AnswerLen - a : t[i] = <<n, a + i>>
      /\ \A j \in 0..AnswerLen - a : SubSeq(t, j + 1, AnswerLen - a) = SubSeq(AnswerBytes(n), (a + j) + 1, AnswerLen)
  BY <1>2, <1>3, <1>4, AnswerTail
<1>6. PICK S : ByteSeq = Seq(S)
  BY DEF ByteSeq
<1>7. got \in Seq(S) /\ sendBuf \in Seq(S) /\ Len(sendBuf) \in Nat /\ Len(sendBuf) <= SendSpace
  BY <1>6, LenProperties DEF WriteInv
<1>8. k \in 1..AnswerLen - a /\ k <= SendSpace - Len(sendBuf)
  BY <1>1, <1>3, <1>4, <1>5, <1>7 DEF Writable
<1> HIDE DEF k
<1>9. PICK p : p = SubSeq(t, 1, k)
  OBVIOUS
<1>10. p \in ByteSeq /\ Len(p) = k /\ \A i \in 1..k : p[i] = <<n, a + i>>
  <2>1. k \in 0..Len(t)
    BY <1>3, <1>5, <1>8
  <2>2. p \in Seq(S) /\ Len(p) = k /\ \A i \in 1..k : p[i] = t[i]
    BY <1>5, <1>6, <1>9, <2>1, PieceProperties
  <2>3. \A i \in 1..k : i \in 1..AnswerLen - a
    BY <1>3, <1>8
  <2> QED
    BY <1>5, <1>6, <2>2, <2>3
<1>11. Stream' = Stream \o p
  <2>1. \A r, s, u \in Seq(S) : (r \o s) \o u = r \o (s \o u)
    BY ConcatAssociative
  <2>2. p \in Seq(S)
    BY <1>6, <1>10
  <2>3. (got \o sendBuf) \o p = got \o (sendBuf \o p)
    BY <1>7, <2>1, <2>2, Zenon
  <2> QED
    BY <1>1, <1>4, <1>9, <2>3 DEF Stream
<1>12. sendBuf' \in ByteSeq /\ Len(sendBuf') <= SendSpace
  <2>1. sendBuf \o p \in Seq(S) /\ Len(sendBuf \o p) = Len(sendBuf) + k
    BY <1>6, <1>7, <1>10, ConcatProperties
  <2> QED
    BY <1>1, <1>3, <1>4, <1>6, <1>7, <1>8, <1>9, <2>1
<1>13. InOrder(Stream \o p, n) /\ Begun(Stream \o p, n, a + k)
  BY <1>2, <1>3, <1>8, <1>10, StreamType, InOrderGrows DEF WriteInv
<1>14. unsent' = SubSeq(AnswerBytes(n), (a + k) + 1, AnswerLen)
  <2>1. unsent' = SubSeq(t, k + 1, AnswerLen - a)
    BY <1>1, <1>4, <1>5
  <2>2. k \in 0..AnswerLen - a
    BY <1>3, <1>8
  <2> QED
    BY <1>5, <2>1, <2>2
<1>15. a + k \in 0..AnswerLen
  BY <1>3, <1>8
<1>16. Len(unsent') = AnswerLen - (a + k) /\ unsent' \in ByteSeq
  BY <1>3, <1>14, <1>15, AnswerTail
<1>17. \A m : Complete(Stream, m) => Complete(Stream \o p, m)
  BY <1>10, StreamType, CompleteGrows
<1>18. CASE a + k = AnswerLen
  <2>1. server' = "idle"
    <3>1. unsent' = <<>>
      BY <1>3, <1>6, <1>16, <1>18, EmptySeq
    <3> QED
      BY <3>1, <1>1
  <2>2. Complete(Stream \o p, n)
    <3> DEFINE s == Stream \o p
    <3>1. Len(s) # 0 /\ s[Len(s)] = <<n, AnswerLen>>
      BY <1>3, <1>8, <1>13, <1>18 DEF Begun
    <3>2. Len(s) \in Nat
      BY <1>6, <1>10, StreamType, ConcatProperties, LenProperties
    <3> HIDE DEF s
    <3>3. Complete(s, n)
      BY <3>1, <3>2 DEF Complete
    <3> QED
      BY <3>3 DEF s
  <2>3. \A m \in 0..answered' : m \notin cut' /\ (m # answered' \/ server' # "writen") /\ client' # "gone" => Complete(Stream', m)
    BY <1>1, <1>11, <1>17, <2>2 DEF WriteInv
  <2> QED
    BY <1>1, <1>11, <1>12, <1>13, <2>1, <2>3 DEF WriteInv
<1>19. CASE a + k # AnswerLen
  <2>1. server' = "writen" /\ a + k \in 0..AnswerLen - 1
    <3>1. unsent' # <<>>
      BY <1>3, <1>6, <1>15, <1>16, <1>19, EmptySeq
    <3> QED
      BY <3>1, <1>1, <1>3, <1>15, <1>19
  <2>2. \A m \in 0..answered' : m \notin cut' /\ (m # answered' \/ server' # "writen") /\ client' # "gone" => Complete(Stream', m)
    BY <1>1, <1>11, <1>17, <2>1 DEF WriteInv
  <2> QED
    BY <1>1, <1>11, <1>12, <1>13, <1>14, <2>1, <2>2 DEF WriteInv
<1> QED
  BY <1>18, <1>19

LEMMA WriteStep == WriteInv /\ [Next]_vars => WriteInv'
<1> SUFFICES ASSUME WriteInv, [Next]_vars PROVE WriteInv'
  OBVIOUS
<1>1. CASE ReadGreeting
  <2>1. \E n \in Nat : ClientRead(n)
    <3>1. Len(sendBuf) \in Nat
      BY LenProperties DEF WriteInv, ByteSeq
    <3> QED
      BY <3>1, <1>1 DEF ReadGreeting
  <2> QED
    BY <1>1, <2>1, ClientReads, WriteUnchanged DEF ReadGreeting, WriteInv, writeVars
<1>2. CASE ReadLength
  <2>1. ClientRead(Header) /\ Header \in Nat
    BY <1>2, LineAssumption DEF ReadLength
  <2> QED
    BY <1>2, <2>1, ClientReads, WriteUnchanged DEF ReadLength, WriteInv, writeVars
<1>3. CASE ReadData
  <2>1. \E n \in Nat : ClientRead(n)
    <3>1. Len(sendBuf) \in Nat
      BY LenProperties DEF WriteInv, ByteSeq
    <3> QED
      BY <3>1, <1>3 DEF ReadData
  <2>2. <<>> \in ByteSeq
    BY EmptySeq DEF ByteSeq
  <2> QED
    BY <1>3, <2>1, <2>2, ClientReads, WriteUnchanged DEF ReadData, WriteInv, writeVars
<1>4. CASE ReadDataFails
  <2>1. <<>> \in ByteSeq
    BY EmptySeq DEF ByteSeq
  <2> QED
    BY <1>4, <2>1, WriteUnchanged DEF ReadDataFails, WriteInv, Stream, netVars, writeVars
<1>5. CASE WriteLine
  BY <1>5, WriteUnchanged DEF WriteLine, WriteInv, Stream, writeVars
<1>6. CASE HangUp
  <2>1. /\ client' = "gone" /\ header' = <<>> /\ got' = <<>> /\ sendBuf' = <<>>
        /\ answered' = answered
    BY <1>6 DEF HangUp, writeVars
  <2>2. Stream' = <<>> /\ InOrder(Stream, answered)'
    BY <2>1 DEF Stream, InOrder
  <2>3. <<>> \in ByteSeq /\ Len(<<>>) <= SendSpace
    BY EmptySeq, LineAssumption DEF ByteSeq
  <2> QED
    BY <2>1, <2>2, <2>3 DEF WriteInv
<1>7. CASE Readable \/ PeerClosed
  BY <1>7, WriteUnchanged DEF Readable, PeerClosed, WriteInv, Stream, clientVars, netVars, writeVars
<1>8. CASE ReadToNewline
  BY <1>8, WriteUnchanged DEF ReadToNewline, Received, WriteInv, Stream, clientVars, writeVars
<1>9. CASE ReadPiece
  <2>1. server = "readline" /\ server' \in {"readline", "idle"}
    BY <1>9 DEF ReadPiece, Received
  <2> QED
    BY <1>9, <2>1, WriteUnchanged DEF ReadPiece, WriteInv, Stream, clientVars, writeVars
<1>10. CASE ReadEof
  BY <1>10, WriteUnchanged DEF ReadEof, Received, WriteInv, Stream, clientVars, netVars, writeVars
<1>11. CASE PeekFails
  BY <1>11, WriteUnchanged DEF PeekFails, WriteInv, Stream, clientVars, netVars, writeVars
<1>12. CASE ReadBehind
  <2>1. server = "readn" /\ server' \in {"crashed", "idle"}
    BY <1>12 DEF ReadBehind, Received
  <2> QED
    BY <1>12, <2>1, WriteUnchanged DEF ReadBehind, WriteInv, Stream, clientVars, writeVars
<1>13. CASE Send
  <2>1. /\ server = "idle" /\ server' = "writen" /\ answered' = answered + 1 /\ unsent' = AnswerBytes(answered + 1)
        /\ client' = client /\ got' = got /\ sendBuf' = sendBuf /\ header' = header /\ cut' = cut
    BY <1>13 DEF Send, clientVars, netVars
  <2>2. Stream' = Stream /\ answered \in Nat
    BY <2>1 DEF Stream, WriteInv
  <2>3. InOrder(Stream, answered + 1)
    BY <2>2 DEF WriteInv, InOrder
  <2>4. Begun(Stream, answered + 1, 0)
    BY <2>2 DEF WriteInv, InOrder, Begun
  <2>5. unsent' = SubSeq(AnswerBytes(answered + 1), 0 + 1, AnswerLen) /\ 0 \in 0..AnswerLen - 1
    BY <2>1, LineAssumption DEF AnswerBytes, Bytes
  <2>6. \A m \in 0..answered' : m \notin cut' /\ (m # answered' \/ server' # "writen") /\ client' # "gone" => Complete(Stream', m)
    BY <2>1, <2>2 DEF WriteInv
  <2> QED
    BY <2>1, <2>2, <2>3, <2>4, <2>5, <2>6 DEF WriteInv
<1>14. CASE WriteToGone
  <2>1. /\ client = "gone" /\ client' = client /\ got' = got /\ sendBuf' = sendBuf /\ header' = header
        /\ answered' = answered
    BY <1>14 DEF WriteToGone, clientVars, netVars
  <2>2. Stream' = Stream
    BY <2>1 DEF Stream
  <2> QED
    BY <2>1, <2>2 DEF WriteInv
<1>15. CASE WriteSome
  BY <1>15, WriteSomeWrites
<1>16. CASE WriteFails
  <2>1. /\ server = "writen" /\ server' = "idle" /\ answered' = answered /\ cut' = cut \cup {answered}
        /\ client' = client /\ got' = got /\ sendBuf' = sendBuf /\ header' = header
    BY <1>16 DEF WriteFails, clientVars, netVars
  <2>2. Stream' = Stream
    BY <2>1 DEF Stream
  <2>3. \A m \in 0..answered' : m \notin cut' /\ (m # answered' \/ server' # "writen") /\ client' # "gone" => Complete(Stream', m)
    BY <2>1, <2>2 DEF WriteInv
  <2> QED
    BY <2>1, <2>2, <2>3 DEF WriteInv
<1>17. CASE UNCHANGED vars
  BY <1>17, WriteUnchanged DEF vars, WriteInv, Stream, clientVars, netVars, writeVars
<1> QED
  BY <1>1, <1>2, <1>3, <1>4, <1>5, <1>6, <1>7, <1>8, <1>9, <1>10, <1>11, <1>12, <1>13, <1>14,
     <1>15, <1>16, <1>17 DEF Next, Client, Reading, Writing

-----------------------------------------------------------------------------
(* What the runs check, of every behaviour. *)

LEMMA Invariants == Spec => [](ReadInv /\ WriteInv)
<1>1. Init => ReadInv /\ WriteInv
  BY ReadInit, WriteInit
<1>2. ReadInv /\ WriteInv /\ [Next]_vars => ReadInv' /\ WriteInv'
  BY ReadStep, WriteStep
<1> QED
  BY <1>1, <1>2, PTL DEF Spec

\* readline turns the bytes of the connection into lines: what receive() has
\* returned, with what its buffer holds, is what the client wrote, in order and
\* complete but for the end of a client that is gone; and as long as no peek
\* failed inside a line, each string is one line or as much as the buffer holds.
THEOREM LinesAreReadRightly == Spec => []ReadlineIsRight
<1>1. ReadInv /\ WriteInv => ReadlineIsRight
  <2> SUFFICES ASSUME ReadInv, WriteInv PROVE ReadlineIsRight
    OBVIOUS
  <2>1. TypeOK
    <3>1. LineBytes \subseteq ByteSeq /\ messages \in Seq(ByteSeq) /\ buf \in ByteSeq /\ upNet \in ByteSeq
      BY BytesAreFlat DEF ReadInv, ByteSeq
    <3>2. Len(buf) < BufSize
      BY <3>1, LenProperties, LineAssumption DEF ReadInv, ByteSeq
    <3> QED
      BY <3>1, <3>2 DEF ReadInv, WriteInv, TypeOK
  <2>2. BytesInOrder
    <3>1. upNet \in Seq(Nat \X Nat) /\ Taken \in Seq(Nat \X Nat)
      BY BytesAreFlat DEF ReadInv
    <3>2. IsPrefix(Taken, Taken \o upNet)
      BY <3>1, PrefixOfConcat
    <3> QED
      BY <3>2 DEF ReadInv, NothingLost, BytesInOrder
  <2> QED
    BY <2>1, <2>2 DEF ReadInv, ReadlineIsRight
<1> QED
  BY <1>1, Invariants, PTL

\* A peek fails only inside a line: with a newline in sight, or nothing read
\* yet, readline never leaves its buffer (the safety half of LinesAreRead).
THEOREM OverrunsInsideLine == Spec => OverrunsOnlyInsideLine
<1>1. ReadInv /\ [Next]_vars => [overran' /\ ~overran => buf # <<>> /\ ~IsNewline(Last(buf))]_vars
  <2> SUFFICES ASSUME ReadInv, [Next]_vars, overran', ~overran
               PROVE  buf # <<>> /\ ~IsNewline(Last(buf))
    OBVIOUS
  <2>1. PeekFails
    BY DEF Next, Client, Reading, Writing, vars, readVars, ReadGreeting, ReadLength, ReadData, ReadDataFails,
           WriteLine, HangUp, Readable, PeerClosed, ReadToNewline, ReadPiece, ReadEof, ReadBehind,
           Send, WriteToGone, WriteSome, WriteFails
  <2>2. buf # <<>>
    BY <2>1 DEF PeekFails, ReadInv
  <2>3. Len(buf) \in Nat \ {0}
    BY <2>2, EmptySeq DEF ReadInv, LineBytes
  <2> QED
    BY <2>2, <2>3 DEF ReadInv, NoNewline, Last
<1> QED
  BY <1>1, Invariants, PTL DEF Spec, OverrunsOnlyInsideLine

\* What the server has written reaches the client in order, byte after byte of
\* one answer after the other, none twice; an answer before the last has
\* arrived as a whole unless writen gave up on it or the client is gone.
THEOREM AnswersArriveInOrder == Spec => []AnswersInOrder
<1>1. WriteInv => AnswersInOrder
  <2> SUFFICES ASSUME WriteInv PROVE AnswersInOrder
    OBVIOUS
  <2>1. DOMAIN Stream = 1..Len(Stream)
    BY StreamType
  <2>2. InOrder(Stream, answered)
    BY DEF WriteInv
  <2>3. \A n \in 0..answered : n \notin cut /\ n # answered /\ client # "gone" => Complete(Stream, n)
    BY DEF WriteInv
  <2> QED
    BY <2>1, <2>2, <2>3 DEF AnswersInOrder, Stream, InOrder, Complete
<1> QED
  BY <1>1, Invariants, PTL
=============================================================================
