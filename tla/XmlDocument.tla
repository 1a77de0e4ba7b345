----------------------------- MODULE XmlDocument -----------------------------
(***************************************************************************)
(* Parsing a file into a document, printing it and parsing it again, and   *)
(* changing a document by the methods of its nodes.  The parser's calls    *)
(* are a stack of the elements whose content is being read; an element is  *)
(* put into the tree when its end tag has been read.                       *)
(***************************************************************************)
EXTENDS XmlPrinter

CONSTANTS
  Tokens,      \* what files are made of
  MaxTokens,   \* bound: tokens of a file that is made up while it is read
  Files,       \* other files: sequences of tokens
  Names,       \* names of new elements and attributes
  Values,      \* numbers that are set as attributes or texts
  MaxNodes,    \* bound: nodes of a document that is edited
  MaxEdits     \* bound: changes

VARIABLES
  phase,       \* "parsing", "unwinding", "parsed", "loaded", "cleared", "editing", "broken" or "idle"
  input,       \* the file's tokens, as far as they are known
  given,       \* is all of the file known?
  pos,         \* tokens that have been read
  stack,       \* the open elements, the document first
  fresh,       \* has nothing been read since the last start tag?
  writeBOM,    \* _writeBOM
  viaFile,     \* LoadFile, or Parse of a string
  printed,     \* how the file was printed and from which content (history)
  edit         \* changes so far, and what the last one set (history)

parserVars == <<input, given, pos, stack, fresh, writeBOM, viaFile, printed>>
docVars == <<treeVars, parserVars, phase, edit>>

Top == Last(stack)

-----------------------------------------------------------------------------
(* The next token.  Only a tag ends a text, and nothing but text follows    *)
(* the other tokens unseparated.                                           *)

TextIsOpen == input # <<>> /\ Last(input).kind = "text" /\ ~IsBlank(Last(input))

Reads(t) ==
  /\ phase = "parsing"
  /\ IF given
     THEN pos < Len(input) /\ t = input[pos + 1] /\ UNCHANGED input
     ELSE /\ Len(input) < MaxTokens
          /\ ~(t.kind = "text" /\ input # <<>> /\ Last(input).kind = "text")
          /\ input' = Append(input, t)
  /\ pos' = pos + 1
  /\ UNCHANGED <<given, viaFile, printed, edit>>

AtEnd == phase = "parsing" /\ pos = Len(input) /\ (given \/ ~TextIsOpen)

Errors ==
  {"XML_SUCCESS", "XML_NO_ATTRIBUTE", "XML_WRONG_ATTRIBUTE_TYPE", "XML_ERROR_FILE_NOT_FOUND",
   "XML_ERROR_FILE_COULD_NOT_BE_OPENED", "XML_ERROR_FILE_READ_ERROR", "XML_ERROR_ELEMENT_MISMATCH",
   "XML_ERROR_PARSING_ELEMENT", "XML_ERROR_PARSING_ATTRIBUTE", "XML_ERROR_IDENTIFYING_TAG", "XML_ERROR_PARSING_TEXT",
   "XML_ERROR_PARSING_CDATA", "XML_ERROR_PARSING_COMMENT", "XML_ERROR_PARSING_DECLARATION", "XML_ERROR_PARSING_UNKNOWN",
   "XML_ERROR_EMPTY_DOCUMENT", "XML_ERROR_MISMATCHED_ELEMENT", "XML_ERROR_PARSING", "XML_CAN_NOT_CONVERT_TEXT",
   "XML_NO_TEXT_NODE"}

OnlyBlanks == \A i \in 1..pos : IsBlank(input[i])

SetError(e) == error' = e

\* A node's ParseDeep returned 0: its caller deletes it and gives up; an
\* error that was set below stays.
Fail(T, n, e) ==
  /\ tree' = DeleteNode(T, n)
  /\ IF error = "XML_SUCCESS" THEN SetError(e) ELSE UNCHANGED error
  /\ phase' = "unwinding"

\* XMLNode::ParseDeep's last statement.
InsertLeaf(T, n) ==
  /\ tree' = InsertEndChild(T, Top, n)
  /\ UNCHANGED <<error, phase>>

-----------------------------------------------------------------------------
(* ParseDeep, a token at a time. *)

\* White space is skipped by Identify.
ReadBlank(t) ==
  /\ IsBlank(t)
  /\ fresh' = FALSE
  /\ UNCHANGED <<treeVars, phase, stack, writeBOM>>

\* ReadBOM.
ReadByteOrderMark(t) ==
  /\ t.kind = "bom" /\ OnlyBlanks
  /\ writeBOM' = TRUE
  /\ UNCHANGED <<treeVars, phase, stack, fresh>>

\* A declaration is accepted while the document has no children, at any depth.
DeclarationMisplaced(t) == t.kind = "declaration" /\ tree.nodes[Doc].first # Null

\* A node without content is made and put into the tree.
ParseLeaf(t, kind) ==
  LET T == New(tree, kind, t.value, t.kind = "cdata")
      n == NewId(tree, kind)
  IN /\ CASE t.fail # "" -> Fail(T, n, t.fail)
          [] t.fail = "" /\ DeclarationMisplaced(t) -> Fail(T, n, "XML_ERROR_PARSING_DECLARATION")
          [] OTHER -> InsertLeaf(T, n)
     /\ fresh' = FALSE
     /\ UNCHANGED <<stack, writeBOM>>

ReadText(t) == t.kind \in {"text", "cdata"} /\ ~IsBlank(t) /\ ParseLeaf(t, "text")

ReadComment(t) == t.kind = "comment" /\ ParseLeaf(t, "comment")
ReadDeclaration(t) == t.kind = "declaration" /\ ParseLeaf(t, "declaration")
ReadUnknown(t) == t.kind = "unknown" /\ ParseLeaf(t, "unknown")

\* Mutant: an attribute of the same name is linked like any other.
ParseAttributesTwice(T, n, t) ==
  [tree |-> FoldLeft(LAMBDA X, a : AddAttribute(X, n, a.name, a.value), T, t.attrs),
   fail |-> t.fail]

\* ParseAttributes: an attribute that is ill-formed, or there already, is
\* deleted again and ends the element.
ParseAttributes(T, n, t) ==
  LET Dropped(X) == Free(SetTracked(Alloc(X, "attribute"), "attribute"), NextItem(X, "attribute"))
      Parse(acc, a) ==
        CASE acc.fail # "" -> acc
          [] acc.fail = "" /\ HasAttribute(acc.tree, n, a.name) ->
               [tree |-> Dropped(acc.tree), fail |-> "XML_ERROR_PARSING_ATTRIBUTE"]
          [] OTHER -> [acc EXCEPT !.tree = AddAttribute(@, n, a.name, a.value)]
      parsed == FoldLeft(Parse, [tree |-> T, fail |-> ""], t.attrs)
  IN CASE parsed.fail # "" \/ t.fail = "" -> parsed
       [] t.fail = "XML_ERROR_PARSING_ATTRIBUTE" -> [tree |-> Dropped(parsed.tree), fail |-> t.fail]
       [] OTHER -> [parsed EXCEPT !.fail = t.fail]

NewTag(t) == ParseAttributes(New(tree, "element", t.value, FALSE), NewId(tree, "element"), t)

\* XMLElement::ParseDeep of a tag that fails.
ReadBadTag(t) ==
  /\ t.kind \in {"start", "end"} /\ NewTag(t).fail # ""
  /\ Fail(NewTag(t).tree, NewId(tree, "element"), NewTag(t).fail)
  /\ UNCHANGED <<stack, fresh, writeBOM>>

\* A tag that ends in "/>" is an empty element, even if it begins with "</".
ReadEmptyElement(t) ==
  /\ t.kind \in {"start", "end"} /\ t.closed /\ NewTag(t).fail = ""
  /\ InsertLeaf(NewTag(t).tree, NewId(tree, "element"))
  /\ fresh' = FALSE
  /\ UNCHANGED <<stack, writeBOM>>

ReadStartTag(t) ==
  /\ t.kind = "start" /\ ~t.closed /\ NewTag(t).fail = ""
  /\ tree' = NewTag(t).tree
  /\ stack' = Append(stack, NewId(tree, "element"))
  /\ fresh' = TRUE
  /\ UNCHANGED <<error, phase, writeBOM>>

\* Mutant: SetTracked is forgotten.
EndTagUntracked(t) == DeleteNode(NewTag(t).tree, NewId(tree, "element"))

\* The end tag's own element: created, tracked, deleted.
EndTag(t) == DeleteNode(SetTracked(NewTag(t).tree, "element"), NewId(tree, "element"))

\* Mutant: any end tag will do.
CloseAny(T, name) ==
  /\ tree' = InsertEndChild(T, stack[Len(stack) - 1], Top)
  /\ stack' = Front(stack)
  /\ UNCHANGED <<error, phase>>

\* The end tag is handed up to the element whose content it ends.
Close(T, name) ==
  /\ IF T.nodes[Top].value = name
     THEN tree' = InsertEndChild(T, stack[Len(stack) - 1], Top) /\ UNCHANGED <<error, phase>>
     ELSE Fail(T, Top, "XML_ERROR_MISMATCHED_ELEMENT")
  /\ stack' = Front(stack)

\* Mutant: an end tag that nobody waits for is passed over.
ReadEndTagSkipping(t) ==
  /\ t.kind = "end" /\ ~t.closed /\ NewTag(t).fail = ""
  /\ IF Top = Doc THEN tree' = EndTag(t) /\ UNCHANGED <<phase, error, stack>> ELSE Close(EndTag(t), t.value)
  /\ fresh' = FALSE
  /\ UNCHANGED writeBOM

ReadEndTag(t) ==
  /\ t.kind = "end" /\ ~t.closed /\ NewTag(t).fail = ""
  /\ IF Top = Doc
     THEN \* Nobody waits for it: the parser stops, and says nothing.
          tree' = EndTag(t) /\ phase' = "parsed" /\ UNCHANGED <<error, stack>>
     ELSE Close(EndTag(t), t.value)
  /\ fresh' = FALSE
  /\ UNCHANGED writeBOM

Read ==
  \E t \in IF given THEN ToSet(input) ELSE Tokens :
    /\ Reads(t)
    /\ \/ ReadBlank(t) \/ ReadByteOrderMark(t) \/ ReadText(t)
       \/ ReadComment(t) \/ ReadDeclaration(t) \/ ReadUnknown(t) \/ ReadBadTag(t)
       \/ ReadEmptyElement(t) \/ ReadStartTag(t) \/ ReadEndTag(t)

\* White space, and then perhaps the byte order mark.
EmptyFile == \A i \in DOMAIN input : IsBlank(input[i]) \/ (i = Len(input) /\ input[i].kind = "bom")

\* The file ends: between the document's children, or within an element.
EndOfDocument ==
  /\ AtEnd /\ Top = Doc
  /\ IF EmptyFile THEN SetError("XML_ERROR_EMPTY_DOCUMENT") ELSE UNCHANGED error
  /\ phase' = "parsed"
  /\ UNCHANGED <<tree, parserVars, edit>>

\* Mutant: the element that is deleted stays open.
EndInElementStays ==
  /\ AtEnd /\ Top # Doc
  /\ Fail(tree, Top, "XML_ERROR_PARSING")
  /\ UNCHANGED <<parserVars, edit>>

EndInElement ==
  /\ AtEnd /\ Top # Doc
  /\ Fail(tree, Top, IF fresh THEN "XML_ERROR_MISMATCHED_ELEMENT" ELSE "XML_ERROR_PARSING")
  /\ stack' = Front(stack)
  /\ UNCHANGED <<input, given, pos, fresh, writeBOM, viaFile, printed, edit>>

\* Mutant: the elements around the error are left alone.
UnwindKeeping ==
  /\ phase = "unwinding"
  /\ phase' = "parsed" /\ stack' = <<Doc>>
  /\ UNCHANGED <<treeVars, input, given, pos, fresh, writeBOM, viaFile, printed, edit>>

\* Every caller of the failed ParseDeep deletes its own element.
Unwind ==
  /\ phase = "unwinding"
  /\ IF Top = Doc THEN phase' = "parsed" /\ UNCHANGED <<treeVars, stack>>
     ELSE Fail(tree, Top, "XML_ERROR_PARSING") /\ stack' = Front(stack)
  /\ UNCHANGED <<input, given, pos, fresh, writeBOM, viaFile, printed, edit>>

\* After Parse of a string that fails, the document and its pools are emptied.
ParseReturns ==
  /\ phase = "parsed"
  /\ tree' = IF error # "XML_SUCCESS" /\ ~viaFile THEN ClearPools(DeleteChildren(tree, Doc)) ELSE tree
  /\ phase' = "loaded"
  /\ UNCHANGED <<error, parserVars, edit>>

\* LoadFile: the file is not there, cannot be read, or is empty.
LoadFails ==
  /\ phase = "parsing" /\ viaFile /\ pos = 0 /\ input = <<>> /\ ~given
  /\ error' \in {"XML_ERROR_FILE_NOT_FOUND", "XML_ERROR_FILE_READ_ERROR", "XML_ERROR_EMPTY_DOCUMENT"}
  /\ phase' = "loaded"
  /\ UNCHANGED <<tree, parserVars, edit>>

-----------------------------------------------------------------------------
(* The loaded document is printed and parsed again, or cleared. *)

NotPrinted == [compact |-> FALSE, content |-> Null, bom |-> FALSE]

\* Clear keeps the pools' memory.
Cleared(T) == DeleteChildren(T, Doc)

StartParsing(T, tokens, known) ==
  /\ tree' = T
  /\ error' = "XML_SUCCESS"
  /\ phase' = "parsing"
  /\ input' = tokens /\ given' = known /\ pos' = 0
  /\ stack' = <<Doc>> /\ fresh' = FALSE /\ writeBOM' = FALSE

PrintAndParse ==
  /\ phase = "loaded" /\ printed = NotPrinted /\ error = "XML_SUCCESS"
  /\ \E compact \in BOOLEAN :
       /\ printed' = [compact |-> compact, content |-> Content(tree, Doc), bom |-> writeBOM]
       /\ StartParsing(Cleared(tree), Lex(PrintDocument(tree, writeBOM, compact)), TRUE)
  /\ UNCHANGED <<viaFile, edit>>

Clear ==
  /\ phase = "loaded"
  /\ tree' = Cleared(tree)
  /\ error' = "XML_SUCCESS"
  /\ phase' = "cleared"
  /\ edit' = [edit EXCEPT !.wrote = [op |-> "clear", clean |-> error = "XML_SUCCESS"]]
  /\ UNCHANGED parserVars
-----------------------------------------------------------------------------
(* Changing a document.  Callers give nodes of this document, and do not    *)
(* put a node below or behind itself.                                      *)

Element(n) == tree.nodes[n].kind = "element"
Elements == {n \in DOMAIN tree.nodes : Element(n)}
Nodes == DOMAIN tree.nodes \ {Doc}
Above(n) == ToSet(Walk(tree, n, "parent"))

\* A change, and what it has set.
Changes(T, wrote) ==
  /\ phase = "editing" /\ edit.count < MaxEdits
  /\ tree' = T
  /\ edit' = [count |-> edit.count + 1, wrote |-> wrote]
  /\ UNCHANGED <<error, phase, parserVars>>

Nothing == [op |-> "none"]

NewNode ==
  \E kind \in {"element", "text", "comment"}, name \in Names :
    /\ Cardinality(Nodes) < MaxNodes
    /\ Changes(New(tree, kind, name, FALSE), Nothing)

\* A node is put among the children of another, who may be its parent.
Insertion(up, n, how, after) ==
  [op |-> "insert", up |-> up, node |-> n, how |-> how, after |-> after, kids |-> Children(tree, up)]

InsertsEnd ==
  \E up \in Elements \cup {Doc}, n \in Nodes :
    n \notin Above(up) /\ Changes(InsertEndChild(tree, up, n), Insertion(up, n, "last", Null))

InsertsFirst ==
  \E up \in Elements \cup {Doc}, n \in Nodes :
    n \notin Above(up) /\ Changes(InsertFirstChild(tree, up, n), Insertion(up, n, "first", Null))

\* The preamble takes the node out, and nothing is behind "after" any more.
NextIsGone(after, n) ==
  tree.nodes[after].next # Null /\ InsertChildPreamble(tree, n).nodes[after].next = Null

\* A node keeps its own "next" when it is taken out, and so becomes that.
FollowsItself(after, n) == after = n /\ tree.nodes[n].next # Null

\* "after" stands somewhere, and n does not hold it.
Moves(after, n) == tree.nodes[after].parent # Null /\ n \notin Above(tree.nodes[after].parent)

InsertsAfter ==
  \E after, n \in Nodes :
    /\ Moves(after, n) /\ ~NextIsGone(after, n) /\ ~FollowsItself(after, n)
    /\ LET up == tree.nodes[after].parent
       IN Changes(InsertAfterChild(tree, up, after, n), Insertion(up, n, "after", after))

\* afterThis->_next->_prev is written through a null pointer, or
\* afterThis->_next leads back to afterThis.
InsertAfterBreaks ==
  /\ phase = "editing" /\ edit.count < MaxEdits
  /\ \E after, n \in Nodes :
       LET up == tree.nodes[after].parent IN
       /\ Moves(after, n) /\ (NextIsGone(after, n) \/ FollowsItself(after, n))
       /\ tree' = IF FollowsItself(after, n) THEN InsertAfterChild(tree, up, n, n)
                  ELSE [InsertChildPreamble(tree, n) EXCEPT !.nodes[n].prev = after, !.nodes[n].next = Null]
       /\ edit' = [count |-> edit.count + 1, wrote |-> Insertion(up, n, "after", after)]
  /\ phase' = "broken"
  /\ UNCHANGED <<error, parserVars>>

Deletes == \E n \in Nodes : Changes(DeleteAnyNode(tree, n), Nothing)

DeletesChildren == \E n \in Elements \cup {Doc} : Changes(DeleteChildren(tree, n), Nothing)

SetsAttribute ==
  \E n \in Elements, name \in Names, type \in Types, v \in Values :
    /\ type = "bool" => v \in {0, 1}
    /\ type = "unsigned" => v >= 0
    /\ Changes(SetAttribute(tree, n, name, ToStr(type, v)), [op |-> "attribute", node |-> n, name |-> name, type |-> type, value |-> v])

DeletesAttribute ==
  \E n \in Elements, name \in Names : HasAttribute(tree, n, name) /\ Changes(DeleteAttribute(tree, n, name), Nothing)

SetsText ==
  \E n \in Elements, type \in Types, v \in Values :
    /\ type = "bool" => v \in {0, 1}
    /\ type = "unsigned" => v >= 0
    /\ HasText(tree, n) \/ Cardinality(Nodes) < MaxNodes
    /\ Changes(SetText(tree, n, ToStr(type, v)), [op |-> "text", node |-> n, type |-> type, value |-> v])

Clones ==
  \E n \in Nodes :
    /\ Cardinality(Nodes) < MaxNodes
    /\ Changes(ShallowClone(tree, n), [op |-> "clone", node |-> n, copy |-> NewId(tree, tree.nodes[n].kind)])

Edit ==
  \/ NewNode \/ InsertsEnd \/ InsertsFirst \/ InsertsAfter \/ InsertAfterBreaks \/ Deletes \/ DeletesChildren
  \/ SetsAttribute \/ DeletesAttribute \/ SetsText \/ Clones

-----------------------------------------------------------------------------

\* An element with two children in the document, and one that is in no tree.
SmallDocument ==
  LET Child(T, kind, name, up) == InsertEndChild(New(T, kind, name, FALSE), up, NewId(T, kind))
      name == CHOOSE x \in Names : TRUE
      root == <<"element", 1>>
  IN New(Child(Child(Child(EmptyDocument, "element", name, Doc), "element", name, root), "comment", name, root),
         "element", name, FALSE)

ParserInit(how, file, known) ==
  /\ phase = how
  /\ error = "XML_SUCCESS"
  /\ input = file /\ given = known /\ pos = 0
  /\ stack = <<Doc>> /\ fresh = FALSE /\ writeBOM = FALSE
  /\ printed = NotPrinted
  /\ edit = [count |-> 0, wrote |-> Nothing]

\* A document that does nothing while something else is looked at.
DocIdle ==
  /\ ParserInit("idle", <<>>, FALSE)
  /\ tree = EmptyDocument /\ viaFile = TRUE

DocInit ==
  \/ /\ ParserInit("parsing", <<>>, FALSE) \/ \E file \in Files : ParserInit("parsing", file, TRUE)
     /\ tree = EmptyDocument /\ viaFile \in BOOLEAN
  \/ /\ ParserInit("editing", <<>>, FALSE)
     /\ tree = SmallDocument /\ viaFile = FALSE

ParseStep ==
  \/ Read \/ EndOfDocument \/ EndInElement \/ Unwind \/ ParseReturns

DocNext == ParseStep \/ LoadFails \/ PrintAndParse \/ Clear \/ Edit

-----------------------------------------------------------------------------
(* Properties. *)

\* The links agree with one another: the children of a node, met by "next"
\* from its first one, are those whose parent it is, its last child comes
\* last, "prev" leads back, and nothing points to memory that was freed.
LinksConsistent ==
  phase # "broken" => \A n \in DOMAIN tree.nodes :
    LET node == tree.nodes[n]
        kids == Walk(tree, node.first, "next")
    IN /\ {node.parent, node.first, node.last} \subseteq DOMAIN tree.nodes \cup {Null}
       /\ node.parent # Null => {node.prev, node.next} \subseteq DOMAIN tree.nodes \cup {Null}
       /\ ToSet(kids) = {m \in DOMAIN tree.nodes : tree.nodes[m].parent = n}
       /\ IsInjective(kids)
       /\ node.last = (IF kids = <<>> THEN Null ELSE Last(kids))
       /\ \A i \in DOMAIN kids : tree.nodes[kids[i]].prev = (IF i = 1 THEN Null ELSE kids[i - 1])

Held(pool) ==
  IF pool = "attribute"
  THEN UNION {{tree.nodes[n].attrs[i].item : i \in DOMAIN tree.nodes[n].attrs} : n \in DOMAIN tree.nodes}
  ELSE {n[2] : n \in {m \in Nodes : m[1] = pool}}

\* An item of a pool is either on the free list, once, or used, by one owner;
\* and while no error has been met, the untracked items are the nodes that
\* have been created but are in no tree, which Clear asserts.
PoolsBalanced ==
  \A p \in Pools :
    LET pool == tree.pools[p] IN
    /\ IsInjective(pool.free)
    /\ ToSet(pool.free) \cap Held(p) = {}
    /\ ToSet(pool.free) \cup Held(p) = 1..pool.blocks * ItemsPerBlock
    /\ pool.current = Cardinality(Held(p))
    /\ (error = "XML_SUCCESS" /\ phase # "broken" /\ (phase = "cleared" => edit.wrote.clean) =>
         pool.untracked = Cardinality({n \in Nodes : n[1] = p /\ tree.nodes[n].parent = Null}))

\* When the parser has returned, every node is in the tree, also after an
\* error in the middle of nested elements.
NothingLost ==
  phase \in {"parsed", "loaded", "cleared"} => \A n \in Nodes : Doc \in Above(n)

\* Where the node is expected among the other children.
OtherKids(w) == SelectSeq(w.kids, LAMBDA m : m # w.node)
Placed(w) ==
  LET others == OtherKids(w)
      before == CASE w.how = "first" -> 0
                  [] w.how = "last" -> Len(others)
                  [] w.how = "after" /\ w.after # w.node -> SelectInSeq(others, LAMBDA m : m = w.after)
                  [] OTHER -> SelectInSeq(w.kids, LAMBDA m : m = w.node) - 1
  IN Children(tree, w.up) = InsertAt(others, before + 1, w.node)

\* "If the child node is already part of the document, it is moved from its old
\* location to the new location" (tinyxml2.h:804-811, InsertAfterChild).
NodesAreMoved == edit.wrote.op = "insert" /\ edit.wrote.after # edit.wrote.node => Placed(edit.wrote)

\* The last child put behind the one that it follows already, or any other
\* behind itself.
PutWhereItIs(w) ==
  LET others == OtherKids(w)
      place == SelectInSeq(w.kids, LAMBDA m : m = w.node)
  IN /\ w.how = "after"
     /\ IF w.after = w.node THEN place < Len(w.kids)
        ELSE others # <<>> /\ w.kids = Append(others, w.node) /\ w.after = Last(others)

\* A node that is inserted, wherever it was before, stands where it was told to
\* among children that keep their order, but in two cases of a node that should
\* stay where it is: the last child behind the one before it, which is a null
\* dereference, and any other behind itself, after which it follows itself
\* (tinyxml2.cc:881-892).
MovedOrBroken ==
  edit.wrote.op = "insert" =>
    IF PutWhereItIs(edit.wrote)
    THEN /\ phase = "broken"
         /\ edit.wrote.after = edit.wrote.node => tree.nodes[edit.wrote.node].next = edit.wrote.node
    ELSE phase = "editing" /\ Placed(edit.wrote)

RECURSIVE Indentable(_)
Indentable(c) ==
  /\ \A i \in DOMAIN c.children :
       /\ c.children[i].kind = "text" /\ ~c.children[i].cdata =>
            c.kind # "document" /\ (i < Len(c.children) => c.children[i + 1].kind # "element")
       /\ Indentable(c.children[i])

TextAtEnd(c) == c.children # <<>> /\ Last(c.children).kind = "text" /\ ~Last(c.children).cdata

\* A document that is printed and parsed again has the same content, unless a
\* text is its last child, which no tag would end; with indentation, which the
\* printer puts behind a text as well, also only if no element follows a text
\* and no text is outside the elements.
PrintedAgainEqual ==
  phase = "loaded" /\ printed # NotPrinted /\ printed.content.children # <<>>
    /\ ~TextAtEnd(printed.content) /\ (printed.compact \/ Indentable(printed.content)) =>
       /\ error = "XML_SUCCESS"
       /\ Content(tree, Doc) = printed.content
       /\ writeBOM = printed.bom

\* A file as one reads it without links and pools: the elements that are open,
\* the document first, each with what it has so far.
Outline(kind, t) ==
  [kind |-> kind, value |-> t.value, cdata |-> t.kind = "cdata",
   attrs |-> [i \in DOMAIN t.attrs |-> <<t.attrs[i].name, t.attrs[i].value>>], children |-> <<>>]
Holding(open, node) == [open EXCEPT ![Len(open)].children = Append(@, node)]
RepeatsName(t) == \E i, j \in DOMAIN t.attrs : i < j /\ t.attrs[i].name = t.attrs[j].name

Understand(acc, t) ==
  LET top == Last(acc.open) IN
  CASE acc.ended \/ IsBlank(t) \/ t.kind = "bom" -> acc
    [] t.fail # "" \/ RepeatsName(t) \/ (t.kind = "declaration" /\ acc.open[1].children # <<>>) ->
         [acc EXCEPT !.ended = TRUE, !.ok = FALSE]
    [] t.kind \in {"start", "end"} /\ t.closed -> [acc EXCEPT !.open = Holding(@, Outline("element", t))]
    [] t.kind = "start" /\ ~t.closed -> [acc EXCEPT !.open = Append(@, Outline("element", t))]
    [] t.kind = "end" /\ ~t.closed /\ Len(acc.open) = 1 -> [acc EXCEPT !.ended = TRUE]
    [] t.kind = "end" /\ ~t.closed /\ Len(acc.open) > 1 /\ t.value = top.value -> [acc EXCEPT !.open = Holding(Front(@), top)]
    [] t.kind = "end" /\ ~t.closed /\ Len(acc.open) > 1 /\ t.value # top.value -> [acc EXCEPT !.ended = TRUE, !.ok = FALSE]
    [] OTHER -> [acc EXCEPT !.open = Holding(@, Outline(IF t.kind = "cdata" THEN "text" ELSE t.kind, t))]

Understood(tokens) ==
  FoldLeft(Understand, [open |-> <<Content(EmptyDocument, Doc)>>, ended |-> FALSE, ok |-> TRUE], tokens)

WellFormed(tokens) ==
  LET read == Understood(tokens) IN read.ok /\ Len(read.open) = 1

\* A file is loaded without an error exactly if it is well-formed and not empty,
\* and then the document is what the file says, node by node.  The file's end is
\* its first end tag outside of all elements, if it has one: what is behind that
\* is neither reported nor in the document.
LoadedAsWritten ==
  phase = "loaded" /\ (error = "XML_SUCCESS" \/ pos > 0) =>
    /\ (error = "XML_SUCCESS") = (WellFormed(input) /\ ~EmptyFile)
    /\ error = "XML_SUCCESS" =>
         /\ Content(tree, Doc) = Understood(input).open[1]
         /\ pos < Len(input) => Understood(SubSeq(input, 1, pos)).ended /\ ~Understood(SubSeq(input, 1, pos - 1)).ended

\* "If the attribute in the source xml document is duplicated, it will not be
\* detected" (tinyxml2.cc:1676-1678): an attribute is refused only if it is
\* ill-formed.
DuplicatesNotDetected ==
  error = "XML_ERROR_PARSING_ATTRIBUTE" => \E i \in 1..pos : input[i].fail = error

Ends(n, name) ==
  LET forth == Handle(tree, n, "firstElement", name)
      back == ConstHandle(tree, n, "lastElement", name)
  IN /\ (forth = Null) = (back = Null)
     /\ Handle(tree, forth, "prevElement", name) = Null
     /\ Handle(tree, back, "nextElement", name) = Null

\* Going on from element to element, with or without a name, leads through
\* the same elements forwards and backwards, from one end to the other, and
\* steps from one handle to the next never meet a null pointer.
WalksAgree ==
  phase # "broken" => \A n \in DOMAIN tree.nodes, name \in Names \cup {""} :
    /\ Ends(n, name)
    /\ (Element(n) /\ tree.nodes[n].parent # Null /\ name \in {"", tree.nodes[n].value}) =>
         LET next == Handle(tree, n, "nextElement", name)
             prev == ConstHandle(tree, n, "prevElement", name)
             up == tree.nodes[n].parent
         IN /\ IF next = Null THEN n = LastChildElement(tree, up, name) ELSE n = Handle(tree, next, "prevElement", name)
            /\ IF prev = Null THEN n = FirstChildElement(tree, up, name) ELSE n = Handle(tree, prev, "nextElement", name)

\* A number that was set as an attribute or a text is read back, also when an
\* attribute of that name, or a text, was there before, and is what a printer
\* prints that is given the number itself; a copy of a node is equal to it.
WritesReadBack ==
  LET w == edit.wrote IN
  CASE w.op = "attribute" ->
         LET named == {i \in DOMAIN tree.nodes[w.node].attrs : tree.nodes[w.node].attrs[i].name = w.name}
         IN /\ Cardinality(named) = 1
            /\ QueryAttribute(tree, w.node, w.name, w.type) = Got(w.value)
            /\ AttributeOrZero(tree, w.node, w.name, w.type) = w.value
            /\ \A i \in named : PushAttributeNumber(NewPrinter(TRUE), w.name, w.type, w.value)
                                 = PushAttribute(NewPrinter(TRUE), w.name, tree.nodes[w.node].attrs[i].value)
    [] w.op = "text" ->
         /\ QueryText(tree, w.node, w.type) = Got(w.value)
         /\ PushTextNumber(NewPrinter(TRUE), w.type, w.value) = PushText(NewPrinter(TRUE), GetText(tree, w.node), FALSE)
    [] w.op = "clone" -> ShallowEqual(tree, w.node, w.copy) /\ tree.nodes[w.copy].parent = Null
    [] OTHER -> TRUE

\* What was written is read back: a document that was printed, a value that
\* was set, a node that was copied.
WritingReadsBack ==
  /\ PrintedAgainEqual
  /\ WritesReadBack
=============================================================================
