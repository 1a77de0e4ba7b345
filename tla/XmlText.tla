------------------------------- MODULE XmlText -------------------------------
(***************************************************************************)
(* The strings of tinyxml2: a StrPair refers to bytes in the file's buffer *)
(* and translates them there, in place, when it is read for the first      *)
(* time.  Bytes are numbers; positions count from 1; a C string ends with  *)
(* its first 0.                                                            *)
(***************************************************************************)
EXTENDS Integers, SequencesExt, FiniteSetsExt, TLC

CONSTANTS
  UIntSize,    \* values of an unsigned int (2^32); a power of 2 and of 16
  Pieces,      \* what texts are made of: records of bytes, means and kind
  MaxPieces,   \* bound: pieces of a text
  PlainChars,  \* the characters of texts that are printed
  MaxPlain     \* bound: characters of a text that is printed

VARIABLES
  source,      \* the text as the program knows it (history)
  pair         \* the StrPair: buf, start, end, p, q, flags, at

textVars == <<source, pair>>

LF == 10
CR == 13
SPACE == 32
QUOT == 34
HASH == 35
AMP == 38
SEMI == 59
LT == 60
LowerX == 120

IsWhiteSpace(c) == c \in {9, LF, 11, 12, CR, SPACE}

entities ==
  <<[pattern |-> <<113, 117, 111, 116>>, value |-> QUOT], [pattern |-> <<97, 109, 112>>, value |-> AMP],
    [pattern |-> <<97, 112, 111, 115>>, value |-> 39], [pattern |-> <<108, 116>>, value |-> LT],
    [pattern |-> <<103, 116>>, value |-> 62]>>

\* The characters of s from i up to its first 0.
CStr(s, i) == SubSeq(s, i, SelectInSubSeq(s, i, Len(s), LAMBDA c : c = 0) - 1)

SkipWhiteSpace(s, i) == SelectInSubSeq(s, i, Len(s), LAMBDA c : ~IsWhiteSpace(c))

-----------------------------------------------------------------------------
(* Character references. *)

\* input | BYTE_MARK, & BYTE_MASK: the low six bits of a continuation byte.
ConvertUTF32ToUTF8(u) ==
  LET cont(k) == 128 + ((u \div k) % 64) IN
  CASE u < 128 -> <<u>>
    [] u \in 128..2047 -> <<192 + (u \div 64), cont(1)>>
    [] u \in 2048..65535 -> <<224 + (u \div 4096), cont(64), cont(1)>>
    [] u \in 65536..2097151 -> <<240 + (u \div 262144), cont(4096), cont(64), cont(1)>>
    [] OTHER -> <<>>

DigitOf(c, base) ==
  CASE c \in 48..57 -> c - 48
    [] base = 16 /\ c \in 97..102 -> c - 87
    [] base = 16 /\ c \in 65..70 -> c - 55
    [] OTHER -> base

NoRef == [ok |-> FALSE, bytes |-> <<>>, next |-> 0]

\* Mutant: the digits are weighed from the left.
DigitsToNumberReversed(digits, base) ==
  FoldLeft(LAMBDA acc, d : [ucs |-> acc.ucs + ((acc.mult * d) % UIntSize), mult |-> (acc.mult * base) % UIntSize],
           [ucs |-> 0, mult |-> 1], digits).ucs

\* mult is an unsigned int and wraps; ucs, an unsigned long, does not.
DigitsToNumber(digits, base) ==
  FoldRight(LAMBDA d, acc : [ucs |-> acc.ucs + ((acc.mult * d) % UIntSize), mult |-> (acc.mult * base) % UIntSize],
            digits, [ucs |-> 0, mult |-> 1]).ucs

\* The digits are read backwards from the semicolon to the nearest 'x' or '#',
\* which need not be the one that began the reference.
GetCharacterRef(s, p) ==
  LET base == IF s[p + 2] = LowerX THEN 16 ELSE 10
      stopper == IF base = 16 THEN LowerX ELSE HASH
      first == IF base = 16 THEN p + 3 ELSE p + 2
      semi == SelectInSubSeq(s, first, Len(s), LAMBDA c : c \in {SEMI, 0})
      from == SelectLastInSubSeq(s, p, semi - 1, LAMBDA c : c = stopper) + 1
      digits == [i \in 1..semi - from |-> DigitOf(s[from + i - 1], base)]
  IN IF s[p + 2] = 0 THEN [ok |-> TRUE, bytes |-> <<>>, next |-> p + 1]
     ELSE IF s[first] = 0 \/ s[semi] = 0 \/ base \in ToSet(digits) THEN NoRef
     ELSE [ok |-> TRUE, bytes |-> ConvertUTF32ToUTF8(DigitsToNumber(digits, base)), next |-> semi + 1]

EntitiesAt(s, p) == {e \in ToSet(entities) : IsPrefix(e.pattern \o <<SEMI>>, CStr(s, p + 1))}

-----------------------------------------------------------------------------
(* GetStr, a turn of a loop at a time. *)

text == CStr(pair.buf, pair.start)

\* StrPair::Set, with the character that ended the text, and Reset.
Set(bytes, terminator, flags) ==
  [buf |-> Append(bytes, terminator), start |-> 1, end |-> Len(bytes) + 1, p |-> 1, q |-> 1, flags |-> flags, at |-> "unread"]

Reset == [buf |-> <<0>>, start |-> 1, end |-> 1, p |-> 1, q |-> 1, flags |-> {}, at |-> "done"]

Here == pair.buf[pair.p]
After == pair.buf[pair.p + 1]

Flush ==
  /\ pair.at = "unread"
  /\ pair' = [pair EXCEPT !.buf[pair.end] = 0, !.at = IF pair.flags = {} THEN "done" ELSE "decode"]

\* Bytes are written at q, and p moves on.
Write(bytes, next) ==
  pair' = [pair EXCEPT !.buf = [i \in DOMAIN @ |-> IF i \in pair.q..pair.q + Len(bytes) - 1 THEN bytes[i - pair.q + 1] ELSE @[i]],
                       !.q = @ + Len(bytes), !.p = next]

Decoding == pair.at = "decode" /\ pair.p < pair.end
AtNewline == "newlines" \in pair.flags /\ Here \in {CR, LF}
AtAmp == "entities" \in pair.flags /\ Here = AMP

\* Mutant: lines end as they do on other systems.
ReadNewlineWide ==
  /\ Decoding /\ AtNewline
  /\ Write(<<CR, LF>>, IF {Here, After} = {CR, LF} THEN pair.p + 2 ELSE pair.p + 1)

\* CR LF, LF CR and CR become LF.
ReadNewline ==
  /\ Decoding /\ AtNewline
  /\ Write(<<LF>>, IF {Here, After} = {CR, LF} THEN pair.p + 2 ELSE pair.p + 1)

ReadCharacterRef ==
  /\ Decoding /\ AtAmp /\ After = HASH
  /\ LET ref == GetCharacterRef(pair.buf, pair.p)
     IN IF ref.ok THEN Write(ref.bytes, ref.next) ELSE Write(<<AMP>>, pair.p + 1)

ReadEntity ==
  /\ Decoding /\ AtAmp /\ After # HASH
  /\ \E e \in EntitiesAt(pair.buf, pair.p) : Write(<<e.value>>, pair.p + Len(e.pattern) + 2)

\* Mutant: what is passed over has no place in the text either.
SkipAndDrop ==
  /\ Decoding /\ AtAmp /\ After # HASH
  /\ EntitiesAt(pair.buf, pair.p) = {}
  /\ pair' = [pair EXCEPT !.p = @ + 1]

\* Nothing is written: whatever is at q stays there.
SkipUnknownEntity ==
  /\ Decoding /\ AtAmp /\ After # HASH
  /\ EntitiesAt(pair.buf, pair.p) = {}
  /\ pair' = [pair EXCEPT !.p = @ + 1, !.q = @ + 1]

ReadPlain ==
  /\ Decoding /\ ~AtNewline /\ ~AtAmp
  /\ Write(<<Here>>, pair.p + 1)

\* The end of a loop, and the next one's beginning.
Terminate(at, start) ==
  pair' = [pair EXCEPT !.buf[pair.q] = 0, !.at = at, !.start = start, !.p = start, !.q = start,
                       !.flags = IF at = "done" THEN {} ELSE @]

DecodeEnds ==
  /\ pair.at = "decode" /\ pair.p >= pair.end
  /\ IF "collapse" \in pair.flags
     THEN Terminate("collapse", SkipWhiteSpace([pair.buf EXCEPT ![pair.q] = 0], 1))
     ELSE Terminate("done", 1)

\* CollapseWhitespace.
CollapseGap ==
  /\ pair.at = "collapse" /\ IsWhiteSpace(Here)
  /\ LET next == SkipWhiteSpace(pair.buf, pair.p)
     IN IF pair.buf[next] = 0 THEN Terminate("done", pair.start)
        ELSE Write(<<SPACE, pair.buf[next]>>, next + 1)

CollapseWord ==
  /\ pair.at = "collapse" /\ Here # 0 /\ ~IsWhiteSpace(Here)
  /\ Write(<<Here>>, pair.p + 1)

CollapseEnds ==
  /\ pair.at = "collapse" /\ Here = 0
  /\ Terminate("done", pair.start)

\* Mutant: the flags stay set, and the text is translated again.
ReadAgainFlagged ==
  /\ pair.at = "done" /\ source.reads < 2
  /\ pair' = Set(text, 0, source.flags)

\* A later GetStr has nothing left to do.
ReadAgain ==
  /\ pair.at = "done" /\ source.reads < 2
  /\ UNCHANGED pair

GetStr ==
  \/ /\ \/ Flush \/ ReadNewline \/ ReadCharacterRef \/ ReadEntity \/ SkipUnknownEntity \/ ReadPlain
        \/ DecodeEnds \/ CollapseGap \/ CollapseWord \/ CollapseEnds
     /\ UNCHANGED source
  \/ ReadAgain /\ source' = [source EXCEPT !.reads = @ + 1]

-----------------------------------------------------------------------------
(* Printing, and the texts to start from. *)

\* Mutant: the ampersand is printed as it is.
PrintStringRaw(s, restricted) ==
  FlattenSeq([i \in DOMAIN s |->
    LET e == {x \in ToSet(entities) : x.value = s[i] /\ x.value # AMP}
    IN IF e # {} THEN <<AMP>> \o (CHOOSE x \in e : TRUE).pattern \o <<SEMI>> ELSE <<s[i]>>])

\* PrintString: a text's quotes need no entities, an attribute's do.
PrintString(s, restricted) ==
  LET flagged == IF restricted THEN {AMP, LT, 62} ELSE {e.value : e \in ToSet(entities)}
  IN FlattenSeq([i \in DOMAIN s |->
       IF s[i] \in flagged
       THEN <<AMP>> \o (CHOOSE e \in ToSet(entities) : e.value = s[i]).pattern \o <<SEMI>> ELSE <<s[i]>>])

\* TEXT_ELEMENT, ATTRIBUTE_VALUE, COMMENT and their variants.
Flags(processEntities, collapse) ==
  {"newlines"} \cup (IF processEntities THEN {"entities"} ELSE {}) \cup (IF collapse THEN {"collapse"} ELSE {})

Parsed(pieces, flags) ==
  /\ source = [pieces |-> pieces, flags |-> flags, reads |-> 0]
  /\ pair = Set(FlattenSeq([i \in DOMAIN pieces |-> pieces[i].bytes]), LT, flags)

Printed(s, restricted) ==
  /\ source = [plain |-> s, flags |-> Flags(TRUE, FALSE), reads |-> 0]
  /\ pair = Set(PrintString(s, restricted), IF restricted THEN LT ELSE QUOT, Flags(TRUE, FALSE))

TextInit ==
  \/ \E pieces \in SeqOf(Pieces, MaxPieces), collapse, entity \in BOOLEAN : Parsed(pieces, Flags(entity, collapse))
  \/ \E s \in SeqOf(PlainChars, MaxPlain), restricted \in BOOLEAN : Printed(s, restricted)

-----------------------------------------------------------------------------
(* Properties. *)

FileBytes == FlattenSeq([i \in DOMAIN source.pieces |-> source.pieces[i].bytes])

\* The second of two different newlines goes with the first.
WithNewline(acc, newline) ==
  IF acc.open # <<>> /\ acc.open # newline THEN [acc EXCEPT !.open = <<>>]
  ELSE [out |-> Append(acc.out, LF), open |-> newline]

\* An entity that is not known is passed over, and leaves in the text what the
\* file has as far from its beginning as the text has come: the ampersand, if
\* nothing has become shorter before it.
Meaning(x, out) ==
  CASE "entities" \notin source.flags -> x.bytes
    [] x.kind = "unknown" /\ "entities" \in source.flags -> <<FileBytes[Len(out) + 1]>> \o Tail(x.bytes)
    [] OTHER -> x.means

\* What the pieces stand for, read without changing the file's bytes.
Expected ==
  FoldLeft(LAMBDA acc, x :
      IF x.kind = "newline" /\ "newlines" \in source.flags THEN WithNewline(acc, x.bytes)
      ELSE [out |-> acc.out \o Meaning(x, acc.out), open |-> <<>>],
    [out |-> <<>>, open |-> <<>>], source.pieces).out

\* CR, CR LF and LF CR become LF.
Normalized(s) ==
  FoldLeft(LAMBDA acc, c :
      IF c \in {CR, LF} THEN WithNewline(acc, <<c>>) ELSE [out |-> Append(acc.out, c), open |-> <<>>],
    [out |-> <<>>, open |-> <<>>], s).out

\* A reference to the character 0 ends the text for its reader.
Readable(s) == CStr(Append(s, 0), 1)

\* The words of s with one space between them.
Collapsed(s) ==
  FoldLeft(LAMBDA acc, c :
      IF IsWhiteSpace(c) THEN [acc EXCEPT !.gap = acc.out # <<>>]
      ELSE [out |-> acc.out \o (IF acc.gap THEN <<SPACE>> ELSE <<>>) \o <<c>>, gap |-> FALSE],
    [out |-> <<>>, gap |-> FALSE], s).out

\* The write pointer never passes the read pointer, and what is still to be
\* read is as the file had it: translation in place cannot overtake itself.
UnreadBytesIntact ==
  pair.at = "decode" /\ "pieces" \in DOMAIN source =>
    /\ pair.q <= pair.p
    /\ SubSeq(pair.buf, pair.p, pair.end - 1) = SubSeq(FileBytes, pair.p, Len(FileBytes))

\* A text, read once or again, is what its pieces stand for: each translated on
\* its own, newlines normalised, and with the collapsing mode its words with
\* single spaces; only an entity that is not known depends on what is before it.
TextTranslated ==
  pair.at = "done" /\ "pieces" \in DOMAIN source =>
    text = (IF "collapse" \in source.flags THEN Collapsed(Readable(Expected)) ELSE Readable(Expected))

\* What PrintString prints of a text or an attribute is read back as it was, but
\* for its line ends, which PrintString does not escape: a CR comes back as LF.
PrintedTextReadBack == pair.at = "done" /\ "plain" \in DOMAIN source => text = Normalized(source.plain)

\* Text is translated once and completely, in place: the bytes still to be read
\* are not overwritten, an unknown entity leaves an old byte exactly if the text
\* has become shorter before it, and what the printer escapes reads back as it
\* was, with every line end a single LF.
TextIsRight ==
  /\ UnreadBytesIntact
  /\ TextTranslated
  /\ PrintedTextReadBack
=============================================================================
