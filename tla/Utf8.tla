-------------------------------- MODULE Utf8 --------------------------------
(***************************************************************************)
(* The encodings of limonp/StringUtil.hpp behind cppjieba's TransCode:     *)
(* bytes (0..255) to 16-bit runes and back.  Nothing is checked of a       *)
(* continuation byte, and what does not fit 16 bits ends the decoding.     *)
(***************************************************************************)
EXTENDS Naturals, SequencesExt, Functions, FiniteSetsExt

Byte == 0..255

\* The bytes a character takes, by its first byte and how many are left;
\* 0 if decoding fails there.
CharLen(b, left) ==
  CASE b < 128 -> 1
    [] b \in 128..223 /\ left >= 2 -> 2
    [] b \in 224..239 /\ left >= 3 -> 3
    [] OTHER -> 0

\* The masks of the two- and three-byte forms (b % 64 is b & 0x3f).
RuneOf(s, i, len) ==
  CASE len = 1 -> s[i]
    [] len = 2 -> (s[i] % 32) * 64 + (s[i + 1] % 64)
    [] len = 3 -> (s[i] % 16) * 4096 + (s[i + 1] % 64) * 64 + (s[i + 2] % 64)

\* Utf8ToUnicode: the runes up to the first failure, which stay in the vector
\* when the result is false.
Decode(s) ==
  LET Runes[i \in 1..Len(s) + 1] ==
        IF i > Len(s) THEN <<>>
        ELSE LET len == CharLen(s[i], Len(s) - i + 1)
             IN IF len = 0 THEN <<>> ELSE <<RuneOf(s, i, len)>> \o Runes[i + len]
  IN Runes[1]

\* Its result: no failure.
Decodes(s) ==
  LET Good[i \in 1..Len(s) + 1] ==
        IF i > Len(s) THEN TRUE
        ELSE LET len == CharLen(s[i], Len(s) - i + 1) IN IF len = 0 THEN FALSE ELSE Good[i + len]
  IN Good[1]

\* Mutant: the two-byte form is not used.
EncodeRuneWide(u) ==
  IF u <= 127 THEN <<u>> ELSE <<224 + (u \div 4096), 128 + ((u \div 64) % 64), 128 + (u % 64)>>

\* UnicodeToUtf8, one rune.
EncodeRune(u) ==
  IF u <= 127 THEN <<u>>
  ELSE IF u <= 2047 THEN <<192 + (u \div 64), 128 + (u % 64)>>
  ELSE <<224 + (u \div 4096), 128 + ((u \div 64) % 64), 128 + (u % 64)>>

Encode(word) == FlattenSeq([i \in DOMAIN word |-> EncodeRune(word[i])])
=============================================================================
