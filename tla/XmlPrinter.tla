----------------------------- MODULE XmlPrinter -----------------------------
(***************************************************************************)
(* XMLPrinter visits a document and prints it into a growing buffer.  What *)
(* one call of Print writes is one element of the buffer, and the lexer at *)
(* the end tells what a parser finds there: the printer's white space      *)
(* becomes part of a text beside it.                                       *)
(***************************************************************************)
EXTENDS XmlTree

CONSTANT InitialSize   \* INITIAL_SIZE of a DynArray

-----------------------------------------------------------------------------
(* DynArray. *)

Junk == <<"junk">>
Terminator == <<"0">>

Room(n) == [i \in 1..n |-> Junk]

EmptyArray == [mem |-> Room(InitialSize), size |-> 0]

EnsureCapacity(d, cap) ==
  IF cap <= Len(d.mem) THEN d
  ELSE [d EXCEPT !.mem = SubSeq(@, 1, d.size) \o Room(2 * cap - d.size)]

PushArr(d, count) == [EnsureCapacity(d, d.size + count) EXCEPT !.size = @ + count]
Push(d, x) == [PushArr(d, 1) EXCEPT !.mem[d.size + 1] = x]
PeekTop(d) == d.mem[d.size]
Pop(d) == [d EXCEPT !.size = @ - 1]

-----------------------------------------------------------------------------
(* The printer. *)

NewPrinter(compact) ==
  [buffer |-> Push(EmptyArray, Terminator), stack |-> EmptyArray, justOpened |-> FALSE, firstElement |-> TRUE,
   depth |-> 0, textDepth |-> -1, compact |-> compact]

\* The new piece begins where the terminator was.
PrintPiece(P, piece) ==
  LET d == PushArr(P.buffer, 1)
  IN [P EXCEPT !.buffer = [d EXCEPT !.mem[d.size - 1] = piece, !.mem[d.size] = Terminator]]

PrintSpace(P, depth) == FoldLeft(LAMBDA X, i : PrintPiece(X, <<"ws">>), P, [i \in 1..depth |-> i])

SealElementIfJustOpened(P) == IF P.justOpened THEN [PrintPiece(P, <<">">>) EXCEPT !.justOpened = FALSE] ELSE P

\* The indentation is printed behind a text as well, though the newline is not.
OpenElement(P, name) ==
  LET P1 == SealElementIfJustOpened(P)
      P2 == [P1 EXCEPT !.stack = Push(@, name)]
      P3 == IF P2.textDepth < 0 /\ ~P2.firstElement /\ ~P2.compact THEN PrintPiece(P2, <<"ws">>) ELSE P2
      P4 == IF P3.compact THEN P3 ELSE PrintSpace(P3, P3.depth)
  IN [PrintPiece(P4, <<"<", name>>) EXCEPT !.justOpened = TRUE, !.firstElement = FALSE, !.depth = @ + 1]

PushAttribute(P, name, value) == PrintPiece(P, <<"attribute", name, value>>)
PushAttributeNumber(P, name, type, v) == PushAttribute(P, name, ToStr(type, v))

\* Mutant: an element with content is closed like an empty one.
CloseElementEmpty(P) == [PrintPiece(P, <<"/>">>) EXCEPT !.depth = @ - 1, !.stack = Pop(@), !.justOpened = FALSE]

CloseElement(P) ==
  LET depth == P.depth - 1
      indented == IF P.textDepth < 0 /\ ~P.compact THEN PrintSpace(PrintPiece(P, <<"ws">>), depth) ELSE P
      P1 == IF P.justOpened THEN PrintPiece(P, <<"/>">>) ELSE PrintPiece(indented, <<"</", PeekTop(P.stack)>>)
      P2 == IF depth = 0 /\ ~P.compact THEN PrintPiece(P1, <<"ws">>) ELSE P1
  IN [P2 EXCEPT !.depth = depth, !.stack = Pop(@), !.justOpened = FALSE,
                !.textDepth = IF @ = depth THEN -1 ELSE @]

PushText(P, value, cdata) ==
  LET P1 == SealElementIfJustOpened([P EXCEPT !.textDepth = P.depth - 1])
  IN PrintPiece(P1, IF cdata THEN <<"leaf", "cdata", value>> ELSE <<"text", value>>)

PushTextNumber(P, type, v) == PushText(P, ToStr(type, v), FALSE)

\* PushComment, PushDeclaration and PushUnknown.
PushLeaf(P, kind, value) ==
  LET P1 == SealElementIfJustOpened(P)
      P2 == IF P1.textDepth < 0 /\ ~P1.firstElement /\ ~P1.compact
            THEN PrintSpace(PrintPiece(P1, <<"ws">>), P1.depth) ELSE P1
  IN PrintPiece([P2 EXCEPT !.firstElement = FALSE], <<"leaf", kind, value>>)

\* Accept: an element's VisitEnter, its children, its VisitExit; a Visit of
\* every other node.
RECURSIVE Accept(_, _, _)
Accept(P, T, n) ==
  LET node == T.nodes[n]
      entered == FoldLeft(LAMBDA X, a : PushAttribute(X, a.name, a.value), OpenElement(P, node.value), node.attrs)
  IN CASE node.kind = "element" ->
            CloseElement(FoldLeft(LAMBDA X, child : Accept(X, T, child), entered, Children(T, n)))
       [] node.kind = "text" -> PushText(P, node.value, node.cdata)
       [] OTHER -> PushLeaf(P, node.kind, node.value)

PushHeader(P, bom) == IF bom THEN PrintPiece(P, <<"bom">>) ELSE P

\* XMLDocument::Accept: its header if it had a byte order mark, its children.
PrintDocument(T, bom, compact) ==
  LET done == FoldLeft(LAMBDA X, child : Accept(X, T, child), PushHeader(NewPrinter(compact), bom), Children(T, Doc))
  IN SubSeq(done.buffer.mem, 1, done.buffer.size - 1)

-----------------------------------------------------------------------------
(* What a parser finds in a file: tokens.  A token that the file breaks off *)
(* or that is ill-formed has the error it leads to in "fail".               *)

Token(kind, value, attrs, closed, fail) ==
  [kind |-> kind, value |-> value, attrs |-> attrs, closed |-> closed, fail |-> fail]

IsBlank(t) == t.kind = "text" /\ ToSet(t.value) \subseteq {"ws"}

\* The text that ends here, at a tag or with the file.
TextEnds(acc, fail) ==
  LET t == Token("text", acc.text, <<>>, FALSE, fail)
  IN IF acc.text = <<>> THEN acc
     ELSE [acc EXCEPT !.text = <<>>, !.tokens = Append(@, IF IsBlank(t) THEN [t EXCEPT !.fail = ""] ELSE t)]

LexPiece(acc, piece) ==
  LET ended == TextEnds(acc, "")
      Add(t) == [ended EXCEPT !.tokens = Append(@, t)]
      Seal(closed) == [acc EXCEPT !.tokens[Len(acc.tokens)].closed = closed]
  IN CASE piece[1] = "ws" -> [acc EXCEPT !.text = Append(@, "ws")]
       [] piece[1] = "text" -> [acc EXCEPT !.text = @ \o piece[2]]
       [] piece[1] = "leaf" -> Add(Token(piece[2], piece[3], <<>>, FALSE, ""))
       [] piece[1] = "bom" -> Add(Token("bom", <<>>, <<>>, FALSE, ""))
       [] piece[1] = "<" -> Add(Token("start", piece[2], <<>>, FALSE, ""))
       [] piece[1] = "attribute" ->
            [acc EXCEPT !.tokens[Len(acc.tokens)].attrs = Append(@, [name |-> piece[2], value |-> piece[3]])]
       [] piece[1] = ">" -> Seal(FALSE)
       [] piece[1] = "/>" -> Seal(TRUE)
       [] piece[1] = "</" -> Add(Token("end", piece[2], <<>>, FALSE, ""))

Lex(pieces) ==
  TextEnds(FoldLeft(LexPiece, [tokens |-> <<>>, text |-> <<>>], pieces), "XML_ERROR_PARSING_TEXT").tokens
=============================================================================
