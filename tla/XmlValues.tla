------------------------------ MODULE XmlValues ------------------------------
(***************************************************************************)
(* Numbers and truth values as tinyxml2 writes and reads them: snprintf    *)
(* and sscanf.  A float or a double counts halves: 3 is 1.5.               *)
(***************************************************************************)
EXTENDS XmlText

Types == {"int", "unsigned", "int64", "bool", "float", "double"}
Floating == {"float", "double"}

TrueWord == <<"t", "r", "u", "e">>
FalseWord == <<"f", "a", "l", "s", "e">>

DecimalDigits == <<"0", "1", "2", "3", "4", "5", "6", "7", "8", "9">>
DigitValue(c) == SelectInSeq(DecimalDigits, LAMBDA d : d = c) - 1
IsDigit(c) == DigitValue(c) >= 0

Decimal(n) ==
  LET D[k \in Nat] == (IF k < 10 THEN <<>> ELSE D[k \div 10]) \o <<DecimalDigits[(k % 10) + 1]>>
  IN D[n]

Signed(v) == IF v < 0 THEN <<"-">> \o Decimal(-v) ELSE Decimal(v)

\* %d, %u, %lld, and %.8g and %.17g, which print a half exactly.
ToStr(type, v) ==
  IF type \notin Floating THEN Signed(v)
  ELSE LET size == IF v < 0 THEN -v ELSE v
       IN (IF v < 0 THEN <<"-">> ELSE <<>>) \o Decimal(size \div 2) \o (IF size % 2 = 1 THEN <<".", "5">> ELSE <<>>)

\* What sscanf finds: white space, a sign, digits; nothing behind them matters.
ScanChar(x, c) ==
  CASE x.at = "space" /\ c \in {" ", "ws"} -> x
    [] x.at = "space" /\ c \in {"-", "+"} -> [x EXCEPT !.at = "digits", !.negative = (c = "-")]
    [] x.at \in {"space", "digits"} /\ IsDigit(c) -> [x EXCEPT !.at = "digits", !.found = TRUE, !.int = 10 * @ + DigitValue(c)]
    [] x.at = "digits" /\ c = "." -> [x EXCEPT !.at = "point"]
    [] x.at = "point" /\ c = "5" -> [x EXCEPT !.at = "end", !.half = x.found]
    [] OTHER -> [x EXCEPT !.at = "end"]

Scan(s) == FoldLeft(ScanChar, [at |-> "space", found |-> FALSE, negative |-> FALSE, int |-> 0, half |-> FALSE], s)

Got(value) == [ok |-> TRUE, value |-> value]
NotFound == [ok |-> FALSE]

ToInt(s) == LET x == Scan(s) IN IF x.found THEN Got(IF x.negative THEN -x.int ELSE x.int) ELSE NotFound
ToUnsigned(s) == LET x == ToInt(s) IN IF x.ok THEN Got(x.value % UIntSize) ELSE NotFound
ToInt64(s) == ToInt(s)
ToFloat(s) ==
  LET x == Scan(s)
      halves == 2 * x.int + (IF x.half THEN 1 ELSE 0)
  IN IF x.found THEN Got(IF x.negative THEN -halves ELSE halves) ELSE NotFound
ToDouble(s) == ToFloat(s)

\* A number, or exactly one of the two words.
ToBool(s) ==
  LET x == ToInt(s) IN
  CASE x.ok -> Got(IF x.value = 0 THEN 0 ELSE 1)
    [] s = TrueWord -> Got(1)
    [] s = FalseWord -> Got(0)
    [] OTHER -> NotFound

\* Query...Value and Query...Text, by the type asked for.
Query(type, s) ==
  CASE type = "int" -> ToInt(s)
    [] type = "unsigned" -> ToUnsigned(s)
    [] type = "int64" -> ToInt64(s)
    [] type = "bool" -> ToBool(s)
    [] type = "float" -> ToFloat(s)
    [] type = "double" -> ToDouble(s)
=============================================================================
